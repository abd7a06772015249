------------------------ MODULE ProgressDeliveryProofs ------------------------
(***************************************************************************)
(* Proofs about ProgressDelivery, for any jobs, files, batch size and      *)
(* number of failed calls and stops, and that it implements ProgressLog.   *)
(***************************************************************************)
EXTENDS ProgressDelivery, FiniteSetTheorems, TLAPS

USE DeliveryAssumption

-------------------------------------------------------------------------------
(* The inductive invariant *)

Lines(j) == 1 .. Len(file[j])

\* Every line of the file up to n that is not blank is stored.
StoredUpTo(j, n) == \A m \in Lines(j) : m <= n /\ file[j][m] # "blank" => m \in log[j]

\* The lines of S leave no gap when they are stored now.
Follows(j, S) ==
  /\ S \subseteq Lines(j)
  /\ \A n \in S, m \in Lines(j) : m < n /\ file[j][m] # "blank" => m \in S \cup log[j]

\* A batch left at a time when everything before it had been acknowledged; nothing of
\* what is stored goes away, so it follows whenever it arrives.
CallInv(c) ==
  /\ c \in Call
  /\ c.state \in {"none", "running", "interrupted"} \cup Ended
  /\ IF c.state = "none" THEN Follows(c.job, c.lines) ELSE c.lines = {}

FileInv == \A j \in Job : Len(file[j]) <= MaxLines[j]

\* A log is closed by the result, and by nothing else.
LogInv ==
  \A j \in Job :
    /\ Final \in log[j] => state[j] \in Ended
    /\ state[j] = "absent" => log[j] = {}
    /\ state[j] # "absent" => 0 \in log[j]

\* The cursor of the agent never runs ahead of the log.
AgentInv ==
  /\ agent.phase = "idle" => agent = NoWork
  /\ agent.phase # "idle" =>
       /\ agent.job \in Job
       /\ agent.after \in 0 .. Len(file[agent.job])
       /\ StoredUpTo(agent.job, agent.after)
  /\ agent.phase = "running" => agent.result = "none"
  /\ agent.phase \in {"draining", "reporting"} => agent.result # "none"

\* What the service and the network keep, and what the agent does.
ServiceOK ==
  /\ Promise!LogTypeOK
  /\ file \in [Job -> Seq(Line)]
  /\ faults \in 0 .. MaxFaults
  /\ FileInv
  /\ LogInv
  /\ LogHasNoGap
  /\ \A c \in late : CallInv(c)

Work == [job : Job \cup {NoJob}, restarted : BOOLEAN, after : LineNumber \cup {0},
         phase : {"idle", "running", "draining", "reporting"},
         result : {"none", "interrupted"} \cup Ended]

AgentOK == agent \in Work /\ AgentInv

DeliveryInv == DeliveryTypeOK /\ ServiceOK /\ AgentOK

-------------------------------------------------------------------------------
(* Numbers of lines *)

LEMMA Least ==
  ASSUME NEW S \in SUBSET Nat, S # {}
  PROVE  \E n \in S : \A m \in S : n <= m
<1>. DEFINE Less == {p \in Nat \X Nat : p[1] < p[2]}
<1>1. IsWellFoundedOn(Less, Nat)
  BY NatLessThanWellFounded DEF OpToRel
<1>. HIDE DEF Less
<1>2. PICK n \in S : \A m \in S : ~(<<m, n>> \in Less)
  BY <1>1, WFMin
<1>3. ASSUME NEW m \in S
      PROVE  n <= m
  <2>1. m \in Nat /\ n \in Nat /\ <<m, n>> \in Nat \X Nat
    OBVIOUS
  <2>2. m < n => <<m, n>> \in Less
    BY <2>1 DEF Less
  <2>. QED
    BY <1>2, <2>1, <2>2
<1>. QED
  BY <1>3

LEMMA Greatest ==
  ASSUME NEW L \in Nat, NEW S \in SUBSET (1 .. L), S # {}
  PROVE  \E n \in S : \A m \in S : m <= n
<1>. DEFINE Bounds == {k \in Nat : \A m \in S : m <= k}
<1>1. L \in Bounds /\ Bounds \in SUBSET Nat
  OBVIOUS
<1>2. PICK n \in Bounds : \A k \in Bounds : n <= k
  BY <1>1, Least
<1>3. n \in S
  <2>. SUFFICES ASSUME n \notin S
                PROVE  FALSE
    OBVIOUS
  <2>1. PICK s \in S : TRUE
    OBVIOUS
  <2>2. n \in Nat /\ s \in Nat /\ s >= 1 /\ s <= n
    BY <1>2
  <2>3. n - 1 \in Bounds
    BY <1>2, <2>2
  <2>. QED
    BY <1>2, <2>2, <2>3
<1>. QED
  BY <1>2, <1>3

LEMMA LineNumbersFinite == IsFiniteSet(LineNumber)
<1>. DEFINE Ranges == {1 .. MaxLines[j] : j \in Job}
            f == [j \in Job |-> 1 .. MaxLines[j]]
<1>1. IsFiniteSet(Job)
  BY FS_Interval DEF Job
<1>2. f \in Surjection(Job, Ranges)
  BY DEF Surjection
<1>3. IsFiniteSet(Ranges)
  BY <1>1, <1>2, FS_Surjection
<1>4. ASSUME NEW T \in Ranges
      PROVE  IsFiniteSet(T)
  <2>1. PICK j \in Job : T = 1 .. MaxLines[j]
    OBVIOUS
  <2>2. MaxLines[j] \in Int
    OBVIOUS
  <2>. QED
    BY <2>1, <2>2, FS_Interval
<1>5. IsFiniteSet(UNION Ranges)
  BY <1>3, <1>4, FS_UNION
<1>. QED
  BY <1>5 DEF LineNumber, Promise!LineNumber

\* The number of the outcome is beyond that of every line.
LEMMA FinalIsLast ==
  /\ Final \in Nat /\ Final >= 1
  /\ \A n \in LineNumber : n \in Nat /\ n >= 1 /\ n < Final
  /\ \A j \in Job : 1 .. MaxLines[j] \subseteq LineNumber
<1>1. Cardinality(LineNumber) \in Nat
  BY LineNumbersFinite, FS_CardinalityType
<1>2. Final = 1 + Cardinality(LineNumber)
  BY DEF Final, Promise!Final, LineNumber, Cardinality, Promise!Cardinality, IsFiniteSet,
         Promise!IsFiniteSet
<1>3. \A j \in Job : 1 .. MaxLines[j] \subseteq LineNumber
  BY DEF LineNumber, Promise!LineNumber
<1>4. ASSUME NEW n \in LineNumber
      PROVE  n \in Nat /\ n >= 1 /\ n < Final
  <2>1. PICK j \in Job : n \in 1 .. MaxLines[j]
    BY DEF LineNumber, Promise!LineNumber
  <2>2. MaxLines[j] \in Nat /\ n \in Nat /\ n >= 1 /\ 1 .. n \subseteq 1 .. MaxLines[j]
    BY <2>1
  <2>3. 1 .. n \in SUBSET LineNumber
    BY <1>3, <2>2
  <2>4. Cardinality(1 .. n) = n
    BY <2>2, FS_Interval
  <2>5. n <= Cardinality(LineNumber)
    BY <2>3, <2>4, LineNumbersFinite, FS_Subset
  <2>. QED
    BY <1>1, <1>2, <2>2, <2>5
<1>. QED
  BY <1>1, <1>2, <1>3, <1>4

-------------------------------------------------------------------------------
(* The batch *)

LEMMA FirstNumbers ==
  ASSUME NEW L \in Nat, NEW S \in SUBSET (1 .. L), NEW n \in Nat \ {0}
  PROVE  /\ First(n, S) \subseteq S
         /\ \A s \in First(n, S), t \in S : t < s => t \in First(n, S)
         /\ S # {} => First(n, S) # {}
<1>. DEFINE Below(s) == {t \in S : t < s}
<1>0. IsFiniteSet(S)
  <2>1. IsFiniteSet(1 .. L)
    BY FS_Interval
  <2>. QED
    BY <2>1, FS_Subset
<1>1. First(n, S) \subseteq S
  BY DEF First
<1>2. ASSUME NEW s \in First(n, S), NEW t \in S, t < s
      PROVE  t \in First(n, S)
  <2>1. s \in S /\ Cardinality(Below(s)) < n
    BY DEF First
  <2>2. IsFiniteSet(Below(s)) /\ Cardinality(Below(s)) \in Nat
    BY <1>0, FS_Subset, FS_CardinalityType
  <2>3. Below(t) \in SUBSET Below(s)
    <3>1. \A r \in S : r < t => r < s
      BY <1>2, <2>1
    <3>. QED
      BY <3>1
  <2>4. Cardinality(Below(t)) <= Cardinality(Below(s)) /\ Cardinality(Below(t)) \in Nat
    BY <2>2, <2>3, FS_Subset, FS_CardinalityType
  <2>5. Cardinality(Below(t)) < n
    BY <2>1, <2>2, <2>4
  <2>. QED
    BY <2>5 DEF First
<1>3. ASSUME S # {}
      PROVE  First(n, S) # {}
  <2>1. S \in SUBSET Nat
    OBVIOUS
  <2>2. PICK s \in S : \A t \in S : s <= t
    BY <1>3, <2>1, Least
  <2>3. Below(s) = {}
    <3>1. \A t \in S : ~(t < s)
      BY <2>2
    <3>. QED
      BY <3>1
  <2>4. Cardinality(Below(s)) < n
    BY <2>3, FS_EmptySet
  <2>. QED
    BY <2>4 DEF First
<1>. QED
  BY <1>1, <1>2, <1>3

\* The lines of a file have numbers a log can hold.
LEMMA LinesAreNumbers ==
  ASSUME DeliveryInv, NEW j \in Job
  PROVE  /\ Len(file[j]) \in Nat /\ file[j] \in Seq(Line)
         /\ Lines(j) \subseteq LineNumber
         /\ \A n \in Lines(j) : n \in Nat /\ n >= 1 /\ n < Final
<1>1. Len(file[j]) \in Nat /\ file[j] \in Seq(Line) /\ MaxLines[j] \in Nat
  BY DEF DeliveryInv, DeliveryTypeOK
<1>2. Lines(j) \subseteq 1 .. MaxLines[j]
  BY <1>1 DEF DeliveryInv, ServiceOK, FileInv, Lines
<1>. QED
  BY <1>1, <1>2, FinalIsLast

\* The batch goes on where the log ends, and what is acknowledged is its last line.
LEMMA BatchFollows ==
  ASSUME DeliveryInv, agent.phase # "idle"
  PROVE  /\ CallInv(BatchCall) /\ BatchCall.job = agent.job /\ BatchCall.lines = Batch
         /\ BatchCall.state = "none" /\ Batch \subseteq Lines(agent.job)
         /\ Batch # {} =>
              /\ Acknowledged \in Batch
              /\ \A m \in Lines(agent.job) :
                   m <= Acknowledged /\ file[agent.job][m] # "blank"
                     => m \in Batch \cup log[agent.job]
<1>. DEFINE j == agent.job
            L == Len(file[j])
<1>1. /\ j \in Job /\ agent.after \in 0 .. L /\ StoredUpTo(j, agent.after)
  BY DEF DeliveryInv, AgentOK, AgentInv
<1>2. L \in Nat /\ Lines(j) \subseteq LineNumber
  BY <1>1, LinesAreNumbers
<1>3. /\ Unsent \in SUBSET (1 .. L)
      /\ \A m \in 1 .. L : m > agent.after /\ file[j][m] # "blank" => m \in Unsent
  BY <1>1, <1>2 DEF Unsent
<1>4. BatchSize \in Nat \ {0}
  OBVIOUS
<1>5. Batch \subseteq Unsent /\ \A n \in Batch, m \in Unsent : m < n => m \in Batch
  BY <1>2, <1>3, <1>4, FirstNumbers DEF Batch
<1>6. Follows(j, Batch)
  <2>1. Batch \subseteq Lines(j)
    BY <1>3, <1>5 DEF Lines
  <2>2. ASSUME NEW n \in Batch, NEW m \in Lines(j), m < n, file[j][m] # "blank"
        PROVE  m \in Batch \cup log[j]
    <3>1. CASE m <= agent.after
      BY <1>1, <2>2, <3>1 DEF StoredUpTo
    <3>2. CASE m > agent.after
      BY <1>3, <1>5, <2>2, <3>2 DEF Lines
    <3>. QED
      BY <1>1, <1>2, <3>1, <3>2 DEF Lines
  <2>. QED
    BY <2>1, <2>2 DEF Follows
<1>7. BatchCall \in Call /\ BatchCall.state = "none" /\ BatchCall.job = j /\ BatchCall.lines = Batch
  <2>1. Batch \in SUBSET LineNumber
    BY <1>2, <1>6 DEF Follows
  <2>. QED
    BY <1>1, <2>1 DEF BatchCall, Call
<1>8. CallInv(BatchCall)
  BY <1>6, <1>7 DEF CallInv
<1>9. ASSUME Batch # {}
      PROVE  /\ Acknowledged \in Batch
             /\ \A m \in Lines(j) : m <= Acknowledged /\ file[j][m] # "blank"
                                      => m \in Batch \cup log[j]
  <2>1. \E n \in Batch : \A m \in Batch : m <= n
    <3>1. Batch \in SUBSET (1 .. L)
      BY <1>3, <1>5
    <3>. QED
      BY <1>2, <1>9, <3>1, Greatest
  <2>2. Acknowledged \in Batch
    BY <2>1 DEF Acknowledged
  <2>3. Acknowledged \in 1 .. L
    BY <1>6, <2>2 DEF Follows, Lines
  <2>4. ASSUME NEW m \in Lines(j), m <= Acknowledged, file[j][m] # "blank"
        PROVE  m \in Batch \cup log[j]
    <3>1. m < Acknowledged \/ m = Acknowledged
      BY <1>2, <2>3, <2>4 DEF Lines
    <3>. QED
      BY <1>6, <2>2, <2>4, <3>1 DEF Follows
  <2>. QED
    BY <2>2, <2>4
<1>. QED
  BY <1>6, <1>7, <1>8, <1>9 DEF Follows

-------------------------------------------------------------------------------
(* Files and logs grow *)

Grows ==
  \A j \in Job :
    /\ log[j] \subseteq log'[j]
    /\ Len(file'[j]) \in Nat /\ Len(file[j]) <= Len(file'[j])
    /\ \A m \in Lines(j) : file'[j][m] = file[j][m]

\* What was true of a call on its way or of a cursor stays true.
LEMMA GrowthKeeps ==
  ASSUME DeliveryInv, Grows
  PROVE  /\ \A c : CallInv(c) => CallInv(c)'
         /\ \A j \in Job : \A n \in 0 .. Len(file[j]) : StoredUpTo(j, n) => StoredUpTo(j, n)'
<1>1. ASSUME NEW c, CallInv(c)
      PROVE  CallInv(c)'
  <2>. DEFINE j == c.job
  <2>1. c \in Call /\ j \in Job
    BY <1>1 DEF CallInv, Call
  <2>2. ASSUME Follows(j, c.lines)
        PROVE  Follows(j, c.lines)'
    <3>1. /\ Len(file[j]) \in Nat /\ Len(file'[j]) \in Nat /\ Len(file[j]) <= Len(file'[j])
          /\ log[j] \subseteq log'[j] /\ \A m \in 1 .. Len(file[j]) : file'[j][m] = file[j][m]
      BY <2>1, LinesAreNumbers DEF Grows, Lines
    <3>2. c.lines \subseteq 1 .. Len(file'[j])
      BY <2>2, <3>1 DEF Follows, Lines
    <3>3. ASSUME NEW n \in c.lines, NEW m \in 1 .. Len(file'[j]), m < n, file'[j][m] # "blank"
          PROVE  m \in c.lines \cup log'[j]
      <4>1. n \in 1 .. Len(file[j]) /\ m \in 1 .. Len(file[j])
        BY <2>2, <3>1, <3>3 DEF Follows, Lines
      <4>. QED
        BY <2>2, <3>1, <3>3, <4>1 DEF Follows, Lines
    <3>. QED
      BY <3>2, <3>3 DEF Follows, Lines
  <2>. QED
    BY <1>1, <2>1, <2>2 DEF CallInv
<1>2. ASSUME NEW j \in Job, NEW n \in 0 .. Len(file[j]), StoredUpTo(j, n)
      PROVE  StoredUpTo(j, n)'
  <2>1. /\ Len(file[j]) \in Nat /\ Len(file'[j]) \in Nat
        /\ log[j] \subseteq log'[j] /\ \A m \in 1 .. Len(file[j]) : file'[j][m] = file[j][m]
    BY LinesAreNumbers DEF Grows, Lines
  <2>2. ASSUME NEW m \in 1 .. Len(file'[j]), m <= n, file'[j][m] # "blank"
        PROVE  m \in log'[j]
    <3>1. m \in 1 .. Len(file[j])
      BY <2>1, <2>2
    <3>. QED
      BY <1>2, <2>1, <2>2, <3>1 DEF StoredUpTo, Lines
  <2>. QED
    BY <2>2 DEF StoredUpTo, Lines
<1>. QED
  BY <1>1, <1>2

\* A line at the end of a file makes no gap in its log.
LEMMA GrowthKeepsLog ==
  ASSUME DeliveryInv, Grows, UNCHANGED log
  PROVE  LogHasNoGap'
<1>. SUFFICES ASSUME NEW j \in Job, NEW n \in log[j] \ {0, Final}
              PROVE  /\ n <= Len(file'[j]) /\ file'[j][n] = "event"
                     /\ \A m \in 1 .. Len(file'[j]) :
                          m < n /\ file'[j][m] # "blank" => m \in log[j]
  BY DEF LogHasNoGap
<1>1. /\ Len(file[j]) \in Nat /\ Len(file'[j]) \in Nat /\ Len(file[j]) <= Len(file'[j])
      /\ \A m \in 1 .. Len(file[j]) : file'[j][m] = file[j][m]
  BY LinesAreNumbers DEF Grows, Lines
<1>2. /\ n <= Len(file[j]) /\ file[j][n] = "event"
      /\ \A m \in 1 .. Len(file[j]) : m < n /\ file[j][m] # "blank" => m \in log[j]
  BY DEF DeliveryInv, ServiceOK, LogHasNoGap
<1>3. n \in Nat
  BY FinalIsLast DEF DeliveryInv, DeliveryTypeOK, Promise!LogTypeOK, Promise!Sequence, Final
<1>4. n >= 1
  BY <1>3
<1>5. ASSUME NEW m \in 1 .. Len(file'[j]), m < n, file'[j][m] # "blank"
      PROVE  m \in log[j]
  <2>1. m \in 1 .. Len(file[j])
    BY <1>1, <1>2, <1>3, <1>5
  <2>. QED
    BY <1>1, <1>2, <1>5, <2>1
<1>. QED
  BY <1>1, <1>2, <1>3, <1>4, <1>5

-------------------------------------------------------------------------------
(* A call that is carried out *)

LEMMA CarryOutGrows ==
  ASSUME DeliveryInv, NEW c, CallInv(c), CarryOut(c), UNCHANGED file
  PROVE  Grows
<1>1. c.job \in Job /\ log \in [Job -> SUBSET Promise!Sequence]
  BY DEF CallInv, Call, DeliveryInv, DeliveryTypeOK, Promise!LogTypeOK
<1>2. \A j \in Job : log[j] \subseteq log'[j]
  BY <1>1 DEF CarryOut
<1>. QED
  BY <1>2, LinesAreNumbers DEF Grows, Lines

\* What the row and the log of the job of a call become.
LEMMA CarriedOut ==
  ASSUME DeliveryInv, NEW c, CallInv(c), CarryOut(c)
  PROVE  LET j == c.job
         IN  /\ j \in Job
             /\ state' \in [Job -> Promise!State] /\ log' \in [Job -> SUBSET Promise!Sequence]
             /\ state' = IF c.state = "none" THEN state ELSE [state EXCEPT ![j] = c.state]
             /\ \A i \in Job \ {j} : state'[i] = state[i] /\ log'[i] = log[i]
             /\ state'[j] = IF c.state = "none" THEN state[j] ELSE c.state
             /\ log'[j] = log[j] \cup c.lines
                   \cup (IF c.state \in Ended /\ state[j] \in Held THEN {Final} ELSE {})
             /\ 0 \notin c.lines /\ Final \notin c.lines
<1>. DEFINE j == c.job
            closing == IF c.state \in Ended /\ state[j] \in Held THEN {Final} ELSE {}
<1>1. /\ j \in Job /\ c.lines \in SUBSET LineNumber /\ c.state \in Promise!State \cup {"none"}
      /\ state \in [Job -> Promise!State] /\ log \in [Job -> SUBSET Promise!Sequence]
  BY DEF CallInv, Call, DeliveryInv, DeliveryTypeOK, Promise!LogTypeOK
<1>2. c.lines \cup closing \in SUBSET Promise!Sequence /\ 0 \notin c.lines /\ Final \notin c.lines
  BY <1>1, FinalIsLast DEF Promise!Sequence, Final
<1>3. /\ state' = IF c.state = "none" THEN state ELSE [state EXCEPT ![j] = c.state]
      /\ log' = [log EXCEPT ![j] = log[j] \cup c.lines \cup closing]
  BY DEF CarryOut
<1>. HIDE DEF closing
<1>4. log' \in [Job -> SUBSET Promise!Sequence] /\ log'[j] = log[j] \cup c.lines \cup closing
  <2>1. log[j] \cup c.lines \cup closing \in SUBSET Promise!Sequence
    BY <1>1, <1>2
  <2>. QED
    BY <1>1, <1>3, <2>1
<1>5. state' \in [Job -> Promise!State]
  BY <1>1, <1>3
<1>6. \A i \in Job \ {j} : state'[i] = state[i] /\ log'[i] = log[i]
  BY <1>1, <1>3
<1>7. state'[j] = IF c.state = "none" THEN state[j] ELSE c.state
  BY <1>1, <1>3
<1>. QED
  BY <1>1, <1>2, <1>3, <1>4, <1>5, <1>6, <1>7 DEF closing

LEMMA CarryOutKeepsLog ==
  ASSUME DeliveryInv, NEW c, CallInv(c), CarryOut(c), UNCHANGED file
  PROVE  LogInv' /\ LogHasNoGap'
<1>. DEFINE j == c.job
<1>. USE DEF Held, Ended, Promise!Held, Promise!Ended
<1>1. /\ j \in Job
      /\ \A i \in Job \ {j} : state'[i] = state[i] /\ log'[i] = log[i]
      /\ state'[j] = IF c.state = "none" THEN state[j] ELSE c.state
      /\ log'[j] = log[j] \cup c.lines
            \cup (IF c.state \in Ended /\ state[j] \in Held THEN {Final} ELSE {})
      /\ 0 \notin c.lines /\ Final \notin c.lines
  BY CarriedOut
<1>2. /\ c.state \in {"none", "running", "interrupted"} \cup Ended
      /\ IF c.state = "none" THEN Follows(j, c.lines) ELSE c.lines = {}
      /\ IF c.state = "none"
         THEN /\ \A n \in c.lines : file[j][n] = "event"
              /\ c.lines \subseteq log[j] \/ state[j] \in Held
         ELSE state[j] \in Held \/ (state[j] = c.state /\ c.state # "running")
  BY DEF CallInv, CarryOut, Accepts
<1>3. /\ Final \in log[j] => state[j] \in Ended
      /\ state[j] = "absent" => log[j] = {}
      /\ state[j] # "absent" => 0 \in log[j]
  BY <1>1 DEF DeliveryInv, ServiceOK, LogInv
<1>4. /\ Final \in log'[j] => state'[j] \in Ended
      /\ state'[j] = "absent" => log'[j] = {}
      /\ state'[j] # "absent" => 0 \in log'[j]
  <2>1. CASE c.state = "none"
    BY <1>1, <1>2, <1>3, <2>1
  <2>2. CASE c.state # "none"
    BY <1>1, <1>2, <1>3, <2>2
  <2>. QED
    BY <2>1, <2>2
<1>5. LogInv'
  BY <1>1, <1>4 DEF DeliveryInv, ServiceOK, LogInv
<1>6. ASSUME NEW i \in Job, NEW n \in log'[i] \ {0, Final}
      PROVE  /\ n <= Len(file[i]) /\ file[i][n] = "event"
             /\ \A m \in 1 .. Len(file[i]) : m < n /\ file[i][m] # "blank" => m \in log'[i]
  <2>1. CASE n \in log[i]
    <3>1. log[i] \subseteq log'[i]
      BY <1>1
    <3>. QED
      BY <2>1, <3>1 DEF DeliveryInv, ServiceOK, LogHasNoGap
  <2>2. CASE n \notin log[i]
    <3>1. i = j /\ n \in c.lines /\ c.state = "none"
      BY <1>1, <1>2, <1>6, <2>2
    <3>2. n \in 1 .. Len(file[j]) /\ file[j][n] = "event"
      BY <1>2, <3>1 DEF Follows, Lines
    <3>3. \A m \in 1 .. Len(file[j]) : m < n /\ file[j][m] # "blank" => m \in log'[j]
      BY <1>1, <1>2, <3>1 DEF Follows, Lines
    <3>. QED
      BY <3>1, <3>2, <3>3
  <2>. QED
    BY <2>1, <2>2
<1>7. LogHasNoGap'
  BY <1>6 DEF LogHasNoGap
<1>. QED
  BY <1>5, <1>7

\* A call that is carried out late, again or in time is a step of ProgressLog or none:
\* what a batch adds comes after all that is stored.
LEMMA CarryOutPromised ==
  ASSUME DeliveryInv, NEW c, CallInv(c), CarryOut(c)
  PROVE  [Promise!LogNext]_(Promise!logVars)
<1>. DEFINE j == c.job
<1>. USE DEF Held, Ended, Promise!Held, Promise!Ended
<1>1. /\ j \in Job
      /\ state' = IF c.state = "none" THEN state ELSE [state EXCEPT ![j] = c.state]
      /\ state \in [Job -> Promise!State] /\ log \in [Job -> SUBSET Promise!Sequence]
      /\ 0 \notin c.lines /\ Final \notin c.lines
  BY CarriedOut DEF DeliveryInv, DeliveryTypeOK, Promise!LogTypeOK
<1>2. /\ c.state \in {"none", "running", "interrupted"} \cup Ended
      /\ IF c.state = "none" THEN Follows(j, c.lines) ELSE c.lines = {}
      /\ IF c.state = "none"
         THEN /\ \A n \in c.lines : file[j][n] = "event"
              /\ c.lines \subseteq log[j] \/ state[j] \in Held
         ELSE state[j] \in Held \/ (state[j] = c.state /\ c.state # "running")
      /\ log' = [log EXCEPT ![j] = log[j] \cup c.lines
            \cup (IF c.state \in Ended /\ state[j] \in Held THEN {Final} ELSE {})]
  BY DEF CallInv, CarryOut, Accepts
<1>3. CASE c.state = "none"
  <2>. DEFINE S == c.lines \ log[j]
  <2>1. state' = state /\ log' = [log EXCEPT ![j] = log[j] \cup S]
    BY <1>1, <1>2, <1>3
  <2>2. CASE S = {}
    BY <1>1, <2>1, <2>2 DEF Promise!logVars
  <2>3. CASE S # {}
    <3>1. state[j] \in Promise!Held
      BY <1>2, <1>3, <2>3
    <3>2. Final \notin log[j]
      BY <1>1, <3>1 DEF DeliveryInv, ServiceOK, LogInv
    <3>3. S \in SUBSET (1 .. MaxLines[j])
      BY <1>1, <1>2, <1>3, LinesAreNumbers DEF Follows, Lines, DeliveryInv, ServiceOK, FileInv
    <3>4. ASSUME NEW s \in S, NEW t \in log[j]
          PROVE  t < s
      <4>1. /\ s \in 1 .. Len(file[j]) /\ s \notin log[j] /\ s \in Nat /\ s >= 1
            /\ file[j][s] = "event"
        BY <1>1, <1>2, <1>3, <3>4, LinesAreNumbers DEF Follows, Lines
      <4>2. t \in Nat
        BY <1>1, <3>4, FinalIsLast DEF Promise!Sequence, Final
      <4>3. CASE t = 0
        BY <4>1, <4>3
      <4>4. CASE t # 0
        <5>1. \A m \in 1 .. Len(file[j]) : m < t /\ file[j][m] # "blank" => m \in log[j]
          BY <1>1, <3>2, <3>4, <4>4 DEF DeliveryInv, ServiceOK, LogHasNoGap
        <5>2. ~(s < t)
          BY <4>1, <5>1
        <5>. QED
          BY <3>4, <4>1, <4>2, <5>2
      <4>. QED
        BY <4>3, <4>4
    <3>. HIDE DEF S
    <3>5. Promise!Extend(j, S)
      BY <2>1, <2>3, <3>1, <3>4 DEF Promise!Extend
    <3>. QED
      BY <1>1, <3>3, <3>5 DEF Promise!LogNext
  <2>. QED
    BY <2>2, <2>3
<1>4. CASE c.state \in {"running", "interrupted"}
  <2>1. log' = log /\ state' = [state EXCEPT ![j] = c.state]
    BY <1>1, <1>2, <1>4
  <2>2. CASE state[j] = c.state
    BY <1>1, <2>1, <2>2 DEF Promise!logVars
  <2>3. CASE state[j] # c.state
    <3>1. state[j] \in {"running", "interrupted"}
      BY <1>2, <1>4, <2>3
    <3>2. Promise!Change(j)
      <4>1. CASE c.state = "running"
        BY <2>1, <2>3, <3>1, <4>1 DEF Promise!Change
      <4>2. CASE c.state = "interrupted"
        BY <2>1, <2>3, <3>1, <4>2 DEF Promise!Change
      <4>. QED
        BY <1>4, <4>1, <4>2
    <3>. QED
      BY <1>1, <3>2 DEF Promise!LogNext
  <2>. QED
    BY <2>2, <2>3
<1>5. CASE c.state \in Ended
  <2>1. CASE state[j] \in Held
    <3>1. log' = [log EXCEPT ![j] = log[j] \cup {Final}] /\ state' = [state EXCEPT ![j] = c.state]
      BY <1>1, <1>2, <1>5, <2>1
    <3>2. Promise!Close(j, c.state)
      BY <2>1, <3>1 DEF Promise!Close, Final
    <3>. QED
      BY <1>1, <1>5, <3>2 DEF Promise!LogNext
  <2>2. CASE state[j] \notin Held
    <3>1. log' = log /\ state' = state
      BY <1>1, <1>2, <1>5, <2>2
    <3>. QED
      BY <3>1 DEF Promise!logVars
  <2>. QED
    BY <2>1, <2>2
<1>. QED
  BY <1>2, <1>3, <1>4, <1>5

-------------------------------------------------------------------------------
(* What the steps do to the service *)

LEMMA InvParts ==
  ServiceOK /\ AgentOK /\ installers \subseteq Job <=> DeliveryInv
BY DEF DeliveryInv, DeliveryTypeOK, ServiceOK, AgentOK, Work, CallInv

\* However a call ends, in time, refused, failed, or late.
LEMMA CallKeepsService ==
  ASSUME DeliveryInv, NEW c, CallInv(c), UNCHANGED file,
         \/ Succeeds(c) \/ Refused(c) \/ Fails(c)
         \/ CarryOut(c) /\ late' = late \ {c} /\ UNCHANGED faults
  PROVE  ServiceOK' /\ Grows /\ [Promise!LogNext]_(Promise!logVars)
<1>1. FileInv' /\ file' \in [Job -> Seq(Line)]
  BY DEF DeliveryInv, ServiceOK, FileInv
<1>2. faults' \in 0 .. MaxFaults /\ late' \subseteq late \cup {c}
  BY DEF DeliveryInv, ServiceOK, Succeeds, Refused, Fails, Fault, serverVars
<1>3. CASE CarryOut(c)
  <2>1. Grows
    BY <1>3, CarryOutGrows
  <2>2. \A d \in late' : CallInv(d)'
    BY <1>2, <2>1, GrowthKeeps DEF DeliveryInv, ServiceOK
  <2>3. Promise!LogTypeOK'
    BY <1>3, CarriedOut DEF Promise!LogTypeOK
  <2>. QED
    BY <1>1, <1>2, <1>3, <2>1, <2>2, <2>3, CarryOutKeepsLog, CarryOutPromised DEF ServiceOK
<1>4. CASE UNCHANGED <<state, log>>
  <2>1. Grows
    BY <1>4, LinesAreNumbers DEF Grows, Lines
  <2>2. \A d \in late' : CallInv(d)'
    BY <1>2, <2>1, GrowthKeeps DEF DeliveryInv, ServiceOK
  <2>3. Promise!LogTypeOK' /\ LogInv' /\ LogHasNoGap'
    BY <1>4 DEF DeliveryInv, ServiceOK, Promise!LogTypeOK, LogInv, LogHasNoGap
  <2>4. UNCHANGED Promise!logVars
    BY <1>4 DEF Promise!logVars
  <2>. QED
    BY <1>1, <1>2, <2>1, <2>2, <2>3, <2>4 DEF ServiceOK
<1>. QED
  BY <1>3, <1>4 DEF Succeeds, Refused, Fails, serverVars

\* A line at the end of a file, or nothing, and the service as it was.
LEMMA FilesKeepService ==
  ASSUME DeliveryInv, UNCHANGED serverVars, faults' \in 0 .. MaxFaults,
         \/ UNCHANGED file
         \/ \E j \in Job, line \in Line :
              Len(file[j]) < MaxLines[j] /\ file' = [file EXCEPT ![j] = Append(@, line)]
  PROVE  ServiceOK' /\ Grows /\ [Promise!LogNext]_(Promise!logVars)
<1>. UNCHANGED <<state, log, late>>
  BY DEF serverVars
<1>0. \A j \in Job : file[j] \in Seq(Line) /\ Len(file[j]) \in Nat
  BY LinesAreNumbers
<1>1. file' \in [Job -> Seq(Line)] /\ FileInv' /\ Grows
  <2>1. CASE UNCHANGED file
    BY <1>0, <2>1 DEF DeliveryInv, ServiceOK, FileInv, Grows, Lines
  <2>2. ASSUME NEW j \in Job, NEW line \in Line, Len(file[j]) < MaxLines[j],
               file' = [file EXCEPT ![j] = Append(@, line)]
        PROVE  file' \in [Job -> Seq(Line)] /\ FileInv' /\ Grows
    <3>. DEFINE longer == Append(file[j], line)
    <3>1. /\ longer \in Seq(Line) /\ Len(longer) = Len(file[j]) + 1
          /\ \A m \in 1 .. Len(file[j]) : longer[m] = file[j][m]
      BY <1>0
    <3>. HIDE DEF longer
    <3>2. file \in [Job -> Seq(Line)] /\ file' = [file EXCEPT ![j] = longer]
      BY <2>2 DEF DeliveryInv, ServiceOK, longer
    <3>3. file' \in [Job -> Seq(Line)]
      BY <3>1, <3>2
    <3>4. /\ file'[j] = longer
          /\ \A i \in Job \ {j} : file'[i] = file[i]
      BY <3>2
    <3>5. Grows
      <4>1. ASSUME NEW i \in Job
            PROVE  /\ Len(file'[i]) \in Nat /\ Len(file[i]) <= Len(file'[i])
                   /\ \A m \in 1 .. Len(file[i]) : file'[i][m] = file[i][m]
        <5>1. CASE i = j
          BY <1>0, <3>1, <3>4, <5>1
        <5>2. CASE i # j
          BY <1>0, <3>4, <5>2
        <5>. QED
          BY <5>1, <5>2
      <4>. QED
        BY <4>1 DEF Grows, Lines
    <3>6. \A i \in Job : Len(file'[i]) <= MaxLines[i]
      <4>1. Len(file'[j]) <= MaxLines[j]
        BY <1>0, <2>2, <3>1, <3>4
      <4>. QED
        BY <3>4, <4>1 DEF DeliveryInv, ServiceOK, FileInv
    <3>. QED
      BY <3>3, <3>5, <3>6 DEF FileInv
  <2>. QED
    BY <2>1, <2>2
<1>2. \A c \in late' : CallInv(c)'
  BY <1>1, GrowthKeeps DEF DeliveryInv, ServiceOK
<1>3. LogHasNoGap'
  BY <1>1, GrowthKeepsLog
<1>4. Promise!LogTypeOK' /\ LogInv' /\ UNCHANGED Promise!logVars
  BY DEF DeliveryInv, ServiceOK, Promise!LogTypeOK, LogInv, Promise!logVars
<1>. QED
  BY <1>1, <1>2, <1>3, <1>4 DEF ServiceOK

\* The row of a job changes without a call of the kind above.
LEMMA RowKeepsService ==
  ASSUME DeliveryInv, NEW j \in Job, Enqueue(j) \/ Expire(j) \/ Resolve(j) \/ Claim(j)
  PROVE  ServiceOK' /\ Grows /\ [Promise!LogNext]_(Promise!logVars)
<1>. USE DEF Held, Ended, Promise!Held, Promise!Ended
<1>1. UNCHANGED <<file, late, faults>>
  BY DEF Enqueue, Expire, Resolve, Claim, pcVars
<1>2. state \in [Job -> Promise!State] /\ log \in [Job -> SUBSET Promise!Sequence]
  BY DEF DeliveryInv, ServiceOK, Promise!LogTypeOK
<1>3. 0 \in Promise!Sequence /\ Final # 0
  BY FinalIsLast DEF Promise!Sequence, Final
<1>4. PICK s \in Promise!State \ {"absent"} : state' = [state EXCEPT ![j] = s]
  BY DEF Enqueue, Expire, Resolve, Claim, Promise!State
<1>5. log' = IF Enqueue(j) THEN [log EXCEPT ![j] = {0}] ELSE log
  BY DEF Enqueue, Expire, Resolve, Claim
<1>6. /\ state[j] = "absent" => log[j] = {} /\ Enqueue(j)
      /\ Enqueue(j) => state[j] = "absent"
  BY DEF DeliveryInv, ServiceOK, LogInv, Enqueue, Expire, Resolve, Claim
<1>7. state[j] \notin Ended /\ (Final \in log[j] => state[j] \in Ended)
  BY DEF Enqueue, Expire, Resolve, Claim, DeliveryInv, ServiceOK, LogInv
<1>8. /\ state' \in [Job -> Promise!State] /\ state'[j] = s
      /\ \A i \in Job \ {j} : state'[i] = state[i]
  BY <1>2, <1>4
<1>9. /\ log' \in [Job -> SUBSET Promise!Sequence]
      /\ log'[j] = IF Enqueue(j) THEN {0} ELSE log[j]
      /\ \A i \in Job \ {j} : log'[i] = log[i]
  <2>1. CASE Enqueue(j)
    BY <1>2, <1>3, <1>5, <2>1
  <2>2. CASE ~Enqueue(j)
    BY <1>2, <1>5, <2>2
  <2>. QED
    BY <2>1, <2>2
<1>10. \A i \in Job : log[i] \subseteq log'[i] /\ log'[i] \subseteq log[i] \cup {0}
  BY <1>6, <1>9
<1>11. Grows
  BY <1>1, <1>10, LinesAreNumbers DEF Grows, Lines
<1>12. LogInv'
  <2>1. /\ Final \notin log'[j] /\ state'[j] # "absent" /\ 0 \in log'[j]
    BY <1>3, <1>6, <1>7, <1>8, <1>9 DEF DeliveryInv, ServiceOK, LogInv
  <2>. QED
    BY <1>8, <1>9, <2>1 DEF DeliveryInv, ServiceOK, LogInv
<1>13. LogHasNoGap'
  BY <1>1, <1>10 DEF DeliveryInv, ServiceOK, LogHasNoGap
<1>14. \A c \in late' : CallInv(c)'
  BY <1>1, <1>11, GrowthKeeps DEF DeliveryInv, ServiceOK
<1>15. ServiceOK'
  BY <1>1, <1>8, <1>9, <1>12, <1>13, <1>14 DEF DeliveryInv, ServiceOK, Promise!LogTypeOK, FileInv
<1>16. Promise!Open(j) \/ Promise!Change(j) \/ Promise!Resolve(j)
  BY DEF Enqueue, Expire, Resolve, Claim, Promise!Open, Promise!Change, Promise!Resolve
<1>. QED
  BY <1>11, <1>15, <1>16 DEF Promise!LogNext

-------------------------------------------------------------------------------
(* What the steps do to the agent *)

LEMMA IdleAgent ==
  /\ NoWork \in Work /\ NoWork.phase = "idle"
  /\ \A j \in Job : LET a == [NoWork EXCEPT !.job = j, !.phase = "running"]
                    IN  /\ a \in Work /\ a.phase = "running" /\ a.job = j /\ a.after = 0
                        /\ a.result = "none"
BY DEF NoWork, Work

\* The ways in which the agent goes on with its job.
LEMMA CursorMoves ==
  ASSUME NEW a \in Work, NEW n \in LineNumber
  PROVE  LET b == [a EXCEPT !.after = n]
         IN  b \in Work /\ b.phase = a.phase /\ b.job = a.job /\ b.after = n /\ b.result = a.result
BY DEF Work

LEMMA AgentReports ==
  ASSUME NEW a \in Work
  PROVE  LET b == [a EXCEPT !.phase = "reporting"]
         IN  /\ b \in Work /\ b.phase = "reporting" /\ b.job = a.job /\ b.after = a.after
             /\ b.result = a.result
BY DEF Work

LEMMA AgentExits ==
  ASSUME NEW a \in Work, NEW result \in Ended
  PROVE  LET b == [a EXCEPT !.phase = "draining", !.result = result]
         IN  /\ b \in Work /\ b.phase = "draining" /\ b.job = a.job /\ b.after = a.after
             /\ b.result = result
BY DEF Work

LEMMA AgentStartsOver ==
  ASSUME NEW a \in Work, NEW n \in LineNumber \cup {0}
  PROVE  LET b == [a EXCEPT !.phase = "draining", !.after = n]
         IN  /\ b \in Work /\ b.phase = "draining" /\ b.job = a.job /\ b.after = n
             /\ b.result = a.result
BY DEF Work

LEMMA AgentStops ==
  ASSUME NEW a \in Work, NEW result \in {"interrupted"} \cup Ended
  PROVE  LET b == [a EXCEPT !.phase = "draining", !.after = 0, !.restarted = TRUE,
                            !.result = result]
         IN  b \in Work /\ b.phase = "draining" /\ b.job = a.job /\ b.after = 0 /\ b.result = result
BY DEF Work

\* An agent that keeps its job and its cursor, or moves it to a line up to which all is
\* stored.
LEMMA AgentKeeps ==
  ASSUME DeliveryInv, Grows, agent' \in Work,
         \/ UNCHANGED agent
         \/ agent' = NoWork
         \/ /\ agent.phase # "idle" /\ agent'.phase # "idle" /\ agent'.job = agent.job
            /\ \/ agent'.after \in {0, agent.after}
               \/ \E j \in Job : \E n \in Lines(j) :
                    agent.job = j /\ agent'.after = n /\ StoredUpTo(j, n)'
            /\ agent'.phase = "running" <=> agent'.result = "none"
  PROVE  AgentOK'
<1>1. CASE agent' = NoWork
  BY <1>1, IdleAgent DEF AgentOK, AgentInv
<1>2. CASE agent.phase = "idle" /\ UNCHANGED agent
  BY <1>2, <1>1 DEF DeliveryInv, AgentOK, AgentInv
<1>3. CASE agent.phase # "idle" /\ agent' # NoWork
  <2>1. PICK j \in Job : agent.job = j /\ agent'.job = j
    BY <1>3 DEF DeliveryInv, AgentOK, AgentInv
  <2>2. agent.after \in 0 .. Len(file[j]) /\ StoredUpTo(j, agent.after)
    BY <1>3, <2>1 DEF DeliveryInv, AgentOK, AgentInv
  <2>3. Len(file[j]) \in Nat /\ Len(file'[j]) \in Nat /\ Len(file[j]) <= Len(file'[j])
    BY <2>1, LinesAreNumbers DEF Grows
  <2>4. PICK n \in 0 .. Len(file[j]) : agent'.after = n /\ StoredUpTo(j, n)'
    <3>1. CASE agent'.after \in {0, agent.after}
      <4>1. StoredUpTo(j, 0)
        BY <2>3 DEF StoredUpTo, Lines
      <4>2. PICK n \in 0 .. Len(file[j]) : agent'.after = n /\ StoredUpTo(j, n)
        BY <2>2, <2>3, <3>1, <4>1
      <4>. QED
        BY <2>1, <4>2, GrowthKeeps
    <3>2. CASE agent'.after \notin {0, agent.after}
      BY <1>3, <2>1, <2>3, <3>2 DEF Lines
    <3>. QED
      BY <3>1, <3>2
  <2>5. agent'.phase # "idle" /\ (agent'.phase = "running" <=> agent'.result = "none")
    <3>1. agent.phase \in {"running", "draining", "reporting"}
      BY <1>3 DEF DeliveryInv, AgentOK, Work
    <3>2. agent.phase = "running" <=> agent.result = "none"
      BY <3>1 DEF DeliveryInv, AgentOK, AgentInv
    <3>. QED
      BY <1>3, <3>2
  <2>6. agent' \in Work /\ agent'.after \in 0 .. Len(file'[j])
    BY <2>3, <2>4
  <2>. QED
    BY <2>1, <2>4, <2>5, <2>6 DEF AgentOK, AgentInv, StoredUpTo, Lines, Work
<1>. QED
  BY <1>1, <1>2, <1>3

-------------------------------------------------------------------------------
(* The invariant is kept, and every step is one of ProgressLog or none *)

StepOK == DeliveryInv' /\ [Promise!LogNext]_(Promise!logVars)

LEMMA PhaseAndResult ==
  ASSUME DeliveryInv
  PROVE  /\ agent \in Work
         /\ agent.phase # "idle" =>
              /\ agent.job \in Job /\ (agent.phase = "running" <=> agent.result = "none")
              /\ agent.phase \in {"running", "draining", "reporting"}
              /\ agent.result # "none" => agent.result \in {"interrupted"} \cup Ended
BY DEF DeliveryInv, AgentOK, AgentInv, Work

LEMMA ServerStepOK ==
  ASSUME DeliveryInv, ServerStep
  PROVE  StepOK
<1>1. ServiceOK' /\ Grows /\ [Promise!LogNext]_(Promise!logVars)
  <2>1. ASSUME NEW c \in late, ArriveLate(c)
        PROVE  ServiceOK' /\ Grows /\ [Promise!LogNext]_(Promise!logVars)
    <3>1. CallInv(c)
      BY DEF DeliveryInv, ServiceOK
    <3>. QED
      BY <2>1, <3>1, CallKeepsService DEF ArriveLate, pcVars
  <2>2. ASSUME NEW j \in Job, Enqueue(j) \/ Expire(j) \/ Resolve(j)
        PROVE  ServiceOK' /\ Grows /\ [Promise!LogNext]_(Promise!logVars)
    BY <2>2, RowKeepsService
  <2>. QED
    BY <2>1, <2>2 DEF ServerStep
<1>2. UNCHANGED <<agent, installers>>
  BY DEF ServerStep, ArriveLate, Enqueue, Expire, Resolve, pcVars
<1>3. AgentOK'
  BY <1>1, <1>2, PhaseAndResult, AgentKeeps
<1>. QED
  BY <1>1, <1>2, <1>3, InvParts DEF DeliveryInv, DeliveryTypeOK, ServiceOK, AgentOK, Work, CallInv,
     StepOK

LEMMA ClaimStepOK ==
  ASSUME DeliveryInv, NEW j \in Job, Claim(j)
  PROVE  StepOK
<1>1. ServiceOK' /\ Grows /\ [Promise!LogNext]_(Promise!logVars)
  BY RowKeepsService
<1>2. /\ agent' \in Work /\ agent'.phase = "running" /\ agent'.job = j /\ agent'.after = 0
      /\ agent'.result = "none"
  BY IdleAgent DEF Claim
<1>3. Len(file'[j]) \in Nat
  BY <1>1 DEF Grows
<1>4. AgentOK'
  BY <1>2, <1>3 DEF AgentOK, AgentInv, StoredUpTo, Lines
<1>5. (installers \subseteq Job)'
  BY DEF Claim, DeliveryInv, DeliveryTypeOK
<1>. QED
  BY <1>1, <1>4, <1>5 DEF DeliveryInv, DeliveryTypeOK, ServiceOK, AgentOK, Work, CallInv, StepOK

\* A call of the agent's, with the files as they are.
LEMMA CallStepOK ==
  ASSUME DeliveryInv, NEW c, CallInv(c), Succeeds(c) \/ Refused(c) \/ Fails(c),
         UNCHANGED file, installers' \subseteq Job, agent' \in Work,
         \/ UNCHANGED agent
         \/ agent' = NoWork
         \/ /\ agent.phase # "idle" /\ agent'.phase # "idle" /\ agent'.job = agent.job
            /\ agent'.after \in {0, agent.after}
            /\ agent'.phase = "running" <=> agent'.result = "none"
  PROVE  StepOK
<1>1. ServiceOK' /\ Grows /\ [Promise!LogNext]_(Promise!logVars)
  BY CallKeepsService
<1>2. AgentOK'
  BY <1>1, AgentKeeps
<1>. QED
  BY <1>1, <1>2 DEF DeliveryInv, DeliveryTypeOK, ServiceOK, AgentOK, Work, CallInv, StepOK

\* The agent goes on without the service.
LEMMA LocalStepOK ==
  ASSUME DeliveryInv, UNCHANGED serverVars, faults' \in 0 .. MaxFaults,
         \/ UNCHANGED file
         \/ \E j \in Job, line \in Line :
              Len(file[j]) < MaxLines[j] /\ file' = [file EXCEPT ![j] = Append(@, line)],
         installers' \subseteq Job, agent' \in Work,
         \/ UNCHANGED agent
         \/ /\ agent.phase # "idle" /\ agent'.phase # "idle" /\ agent'.job = agent.job
            /\ agent'.after \in {0, agent.after}
            /\ agent'.phase = "running" <=> agent'.result = "none"
  PROVE  StepOK
<1>1. ServiceOK' /\ Grows /\ [Promise!LogNext]_(Promise!logVars)
  BY FilesKeepService
<1>2. AgentOK'
  BY <1>1, AgentKeeps
<1>. QED
  BY <1>1, <1>2 DEF DeliveryInv, DeliveryTypeOK, ServiceOK, AgentOK, Work, CallInv, StepOK

\* A batch of the agent's: when it is acknowledged, all up to its last line is stored.
LEMMA SendStepOK ==
  ASSUME DeliveryInv, agent.phase # "idle", UNCHANGED <<file, installers>>,
         NEW failed \in Work, SendAgentProgress(failed),
         failed.phase # "idle", failed.job = agent.job, failed.after = agent.after,
         failed.phase = "running" <=> failed.result = "none"
  PROVE  StepOK
<1>1. /\ CallInv(BatchCall) /\ BatchCall.job = agent.job /\ BatchCall.lines = Batch
      /\ BatchCall.state = "none" /\ Batch # {} /\ Batch \subseteq Lines(agent.job)
      /\ Acknowledged \in Batch
      /\ \A m \in Lines(agent.job) :
           m <= Acknowledged /\ file[agent.job][m] # "blank" => m \in Batch \cup log[agent.job]
  BY BatchFollows DEF SendAgentProgress
<1>2. installers' \subseteq Job
  BY DEF DeliveryInv, DeliveryTypeOK
<1>3. CASE Succeeds(BatchCall) /\ agent' = [agent EXCEPT !.after = Acknowledged]
  <2>1. ServiceOK' /\ Grows /\ [Promise!LogNext]_(Promise!logVars)
    BY <1>1, <1>3, CallKeepsService
  <2>2. PICK j \in Job : agent.job = j
    BY PhaseAndResult
  <2>3. PICK n \in Lines(j) : n = Acknowledged
    BY <1>1, <2>2
  <2>4. n \in LineNumber
    BY <2>2, LinesAreNumbers
  <2>5. /\ agent' \in Work /\ agent'.phase = agent.phase /\ agent'.job = j /\ agent'.after = n
        /\ agent'.result = agent.result
    <3>1. agent' = [agent EXCEPT !.after = n] /\ agent \in Work
      BY <1>3, <2>3, PhaseAndResult
    <3>. QED
      BY <2>2, <2>4, <3>1, CursorMoves
  <2>6. Batch \cup log[j] \subseteq log'[j]
    BY <1>1, <1>3, <2>2, CarriedOut DEF Succeeds
  <2>7. StoredUpTo(j, n)'
    BY <1>1, <2>2, <2>3, <2>6 DEF StoredUpTo, Lines
  <2>8. AgentOK'
    BY <2>1, <2>2, <2>5, <2>7, PhaseAndResult, AgentKeeps
  <2>. QED
    BY <1>2, <2>1, <2>8 DEF DeliveryInv, DeliveryTypeOK, ServiceOK, AgentOK, Work, CallInv, StepOK
<1>4. CASE (Refused(BatchCall) \/ Fails(BatchCall)) /\ agent' = failed
  BY <1>1, <1>2, <1>4, CallStepOK
<1>. QED
  BY <1>3, <1>4 DEF SendAgentProgress

LEMMA ReportStepOK ==
  ASSUME DeliveryInv, SendResult
  PROVE  StepOK
<1>1. /\ agent \in Work /\ agent.phase = "reporting" /\ agent.job \in Job
      /\ agent.result \in {"interrupted"} \cup Ended /\ 0 \in LineNumber \cup {0}
  BY PhaseAndResult DEF SendResult
<1>. DEFINE c == [job |-> agent.job, lines |-> {}, state |-> agent.result]
            again == IF agent.restarted THEN 0 ELSE agent.after
<1>2. CallInv(c)
  <2>1. agent.result \in Promise!State
    BY <1>1 DEF Promise!State, Promise!Held, Ended
  <2>2. c \in Call /\ c.state = agent.result /\ c.lines = {}
    BY <1>1, <2>1 DEF Call
  <2>3. c.state # "none"
    BY <1>1, <2>2 DEF Ended, Promise!Ended
  <2>. QED
    BY <1>1, <2>2, <2>3 DEF CallInv
<1>3. UNCHANGED file /\ installers' \subseteq Job
  BY DEF SendResult, DeliveryInv, DeliveryTypeOK
<1>4. \/ Succeeds(c) /\ agent' = NoWork
      \/ /\ Refused(c) \/ Fails(c)
         /\ agent' = [agent EXCEPT !.phase = "draining", !.after = again]
  BY DEF SendResult
<1>5. again \in LineNumber \cup {0} /\ again \in {0, agent.after}
  BY <1>1 DEF Work
<1>. HIDE DEF c, again
<1>6. CASE Succeeds(c) /\ agent' = NoWork
  BY <1>2, <1>3, <1>6, IdleAgent, CallStepOK
<1>7. CASE (Refused(c) \/ Fails(c)) /\ agent' = [agent EXCEPT !.phase = "draining", !.after = again]
  <2>1. /\ agent' \in Work /\ agent'.phase = "draining" /\ agent'.job = agent.job
        /\ agent'.after = again /\ agent'.result = agent.result
    BY <1>1, <1>5, <1>7, AgentStartsOver
  <2>2. agent'.result # "none"
    BY <1>1, <2>1 DEF Ended, Promise!Ended
  <2>. QED
    BY <1>1, <1>2, <1>3, <1>5, <1>7, <2>1, <2>2, CallStepOK
<1>. QED
  BY <1>4, <1>6, <1>7

LEMMA DrainStepOK ==
  ASSUME DeliveryInv, Drain
  PROVE  StepOK
<1>. DEFINE done == [agent EXCEPT !.phase = "reporting"]
<1>1. /\ agent \in Work /\ agent.phase = "draining" /\ agent.job \in Job
      /\ agent.result # "none" /\ agent.result \in {"interrupted"} \cup Ended
      /\ 0 \in LineNumber \cup {0}
  BY PhaseAndResult DEF Drain
<1>2. /\ done \in Work /\ done.phase = "reporting" /\ done.job = agent.job
      /\ done.after = agent.after /\ done.result = agent.result
  BY <1>1, AgentReports
<1>3. /\ UNCHANGED <<file, installers>>
      /\ SendAgentProgress(done) \/ (agent' = done /\ UNCHANGED <<serverVars, faults>>)
  BY DEF Drain
<1>. HIDE DEF done
<1>4. CASE SendAgentProgress(done)
  BY <1>1, <1>2, <1>3, <1>4, SendStepOK
<1>5. CASE agent' = done /\ UNCHANGED <<serverVars, faults>>
  BY <1>1, <1>2, <1>3, <1>5, LocalStepOK DEF DeliveryInv, DeliveryTypeOK
<1>. QED
  BY <1>3, <1>4, <1>5

LEMMA StopStepOK ==
  ASSUME DeliveryInv, Stop
  PROVE  StepOK
<1>1. /\ agent \in Work /\ agent.phase # "idle" /\ agent.job \in Job
      /\ agent.result # "none" => agent.result \in {"interrupted"} \cup Ended
      /\ 0 \in LineNumber \cup {0}
  BY PhaseAndResult DEF Stop
<1>2. PICK result \in {"interrupted"} \cup Ended :
        agent' = [agent EXCEPT !.phase = "draining", !.after = 0, !.restarted = TRUE,
                               !.result = result]
  BY <1>1 DEF Stop
<1>3. /\ agent' \in Work /\ agent'.phase = "draining" /\ agent'.job = agent.job
      /\ agent'.after = 0 /\ agent'.result = result
  BY <1>1, <1>2, AgentStops
<1>4. agent'.result # "none"
  BY <1>3 DEF Ended, Promise!Ended
<1>5. /\ UNCHANGED serverVars /\ faults' \in 0 .. MaxFaults /\ installers' \subseteq Job
      /\ \/ UNCHANGED file
         \/ \E j \in Job, line \in Line :
              Len(file[j]) < MaxLines[j] /\ file' = [file EXCEPT ![j] = Append(@, line)]
  <2>1. faults' \in 0 .. MaxFaults /\ installers' \subseteq Job /\ installers \subseteq Job
    BY DEF Stop, Fault, DeliveryInv, DeliveryTypeOK
  <2>2. {"torn", "blank"} \subseteq Line
    BY DEF Line
  <2>. QED
    BY <2>1, <2>2 DEF Stop
<1>. QED
  BY <1>1, <1>3, <1>4, <1>5, LocalStepOK

LEMMA RunningStepOK ==
  ASSUME DeliveryInv,
         \/ \E j \in Job, line \in Line : WriteJobProgress(j, line)
         \/ SendWhileRunning
         \/ SendHeartbeat
         \/ \E result \in Ended : Exit(result)
  PROVE  StepOK
<1>0. faults \in 0 .. MaxFaults /\ installers \subseteq Job /\ 0 \in LineNumber \cup {0}
  BY DEF DeliveryInv, DeliveryTypeOK
<1>1. ASSUME NEW j \in Job, NEW line \in Line, WriteJobProgress(j, line)
      PROVE  StepOK
  BY <1>0, <1>1, PhaseAndResult, LocalStepOK DEF WriteJobProgress
<1>2. CASE SendWhileRunning
  BY <1>2, PhaseAndResult, SendStepOK DEF SendWhileRunning
<1>3. CASE SendHeartbeat
  <2>. DEFINE c == [job |-> agent.job, lines |-> {}, state |-> "running"]
  <2>1. agent.job \in Job /\ agent \in Work
    BY <1>3, PhaseAndResult DEF SendHeartbeat
  <2>2. c \in Call /\ c.state = "running" /\ c.lines = {}
    BY <2>1 DEF Call, Promise!State, Promise!Held
  <2>3. CallInv(c)
    BY <2>2 DEF CallInv
  <2>4. (Succeeds(c) \/ Fails(c)) /\ UNCHANGED pcVars
    BY <1>3 DEF SendHeartbeat
  <2>. HIDE DEF c
  <2>. QED
    BY <1>0, <2>1, <2>3, <2>4, CallStepOK DEF pcVars
<1>4. ASSUME NEW result \in Ended, Exit(result)
      PROVE  StepOK
  <2>1. agent.job \in Job /\ agent \in Work /\ agent.phase = "running"
    BY <1>4, PhaseAndResult DEF Exit
  <2>2. /\ agent' \in Work /\ agent'.phase = "draining" /\ agent'.job = agent.job
        /\ agent'.after = agent.after /\ agent'.result = result
    BY <1>0, <1>4, <2>1, AgentExits DEF Exit
  <2>3. result # "none"
    BY DEF Ended, Promise!Ended
  <2>. QED
    BY <1>0, <1>4, <2>1, <2>2, <2>3, LocalStepOK DEF Exit
<1>. QED
  BY <1>1, <1>2, <1>3, <1>4

LEMMA DeliveryInit ==
  ASSUME Init
  PROVE  DeliveryInv /\ Promise!LogInit
<1>. USE DEF Init, Promise!LogInit
<1>1. Promise!LogTypeOK
  BY DEF Promise!LogTypeOK, Promise!State
<1>2. \A j \in Job : file[j] = <<>> /\ Len(file[j]) = 0 /\ log[j] = {} /\ state[j] = "absent"
  OBVIOUS
<1>3. file \in [Job -> Seq(Line)] /\ FileInv /\ 0 \in 0 .. MaxFaults
  BY <1>2 DEF FileInv
<1>4. LogInv /\ LogHasNoGap
  BY <1>2 DEF LogInv, LogHasNoGap
<1>5. AgentOK
  BY IdleAgent DEF AgentOK, AgentInv
<1>6. ServiceOK
  BY <1>1, <1>3, <1>4 DEF ServiceOK
<1>. QED
  BY <1>5, <1>6, InvParts

LEMMA DeliveryStep ==
  ASSUME DeliveryInv, [Next]_vars
  PROVE  StepOK
<1>1. CASE ServerStep
  BY <1>1, ServerStepOK
<1>2. CASE PcStep
  BY <1>2, ClaimStepOK, RunningStepOK, DrainStepOK, ReportStepOK, StopStepOK DEF PcStep
<1>3. CASE UNCHANGED vars
  <2>1. UNCHANGED <<file, installers, agent, serverVars, faults>>
    BY <1>3 DEF vars, pcVars
  <2>. QED
    BY <2>1, PhaseAndResult, LocalStepOK DEF DeliveryInv, DeliveryTypeOK
<1>. QED
  BY <1>1, <1>2, <1>3 DEF Next

LEMMA DeliveryInvariant == Spec => []DeliveryInv
<1>1. Init => DeliveryInv
  BY DeliveryInit
<1>2. DeliveryInv /\ [Next]_vars => DeliveryInv'
  BY DeliveryStep DEF StepOK
<1>. QED
  BY <1>1, <1>2, PTL DEF Spec

\* The types; among them that a call holds numbers of lines and never that of the
\* outcome, and that the cursor of the agent is such a number or 0.
THEOREM DeliveryTypeCorrect == Spec => []DeliveryTypeOK
<1>1. DeliveryInv => DeliveryTypeOK
  BY DEF DeliveryInv
<1>. QED
  BY <1>1, DeliveryInvariant, PTL

\* The stored log is the file up to some line, however batches fail, arrive late or are
\* sent again by an agent that has forgotten its cursor (Send-AgentProgress moves the
\* cursor only when a batch was taken; the service takes a batch whole or not at all).
THEOREM LogWithoutGap == Spec => []LogHasNoGap
<1>1. DeliveryInv => LogHasNoGap
  BY DEF DeliveryInv, ServiceOK
<1>. QED
  BY <1>1, DeliveryInvariant, PTL

\* The service with this agent implements ProgressLog: a log grows at its end only,
\* closes with the result, and does not change after that.
THEOREM LogKeepsPromise == Spec => KeepsPromise
<1>1. Init => Promise!LogInit
  BY DeliveryInit
<1>2. DeliveryInv /\ [Next]_vars => [Promise!LogNext]_(Promise!logVars)
  BY DeliveryStep DEF StepOK
<1>. QED
  BY <1>1, <1>2, DeliveryInvariant, PTL DEF Spec, KeepsPromise, Promise!LogSpec

-------------------------------------------------------------------------------
(* Success without faults *)

AllEvents(j) == \A n \in DOMAIN file[j] : file[j][n] = "event"

\* The job of the agent is not over, unless an administrator has ended it.
GoesOn == agent.phase # "idle" => state[agent.job] \in Held \cup {"failed"}

\* No installer writes to the file of a job that succeeded, or to that of the agent's job
\* once the agent does not wait for it, unless a wait that threw has made it a failure.
NoWriter ==
  \A i \in installers :
    /\ state[i] # "succeeded"
    /\ i = agent.job => agent.phase = "running" \/ agent.result = "failed"

\* The agent has drained the file before it reports anything but a failure.
Drained ==
  /\ agent.phase = "reporting" /\ agent.result # "failed"
  /\ state[agent.job] \in Held /\ AllEvents(agent.job)
  => Lines(agent.job) \subseteq log[agent.job]

WholeInv == faults = 0 => late = {} /\ GoesOn /\ NoWriter /\ Drained

WholeOK == WholeInv /\ SuccessHasWholeLog

\* A job that has not succeeded may change.
LEMMA OthersKeepLog ==
  ASSUME SuccessHasWholeLog, faults = 0, NEW j \in Job, state'[j] # "succeeded",
         \A i \in Job \ {j} : state'[i] = state[i] /\ log'[i] = log[i] /\ file'[i] = file[i]
  PROVE  SuccessHasWholeLog'
BY DEF SuccessHasWholeLog

LEMMA NothingKeepsLog ==
  ASSUME SuccessHasWholeLog, faults = 0, UNCHANGED <<state, log, file>>
  PROVE  SuccessHasWholeLog'
BY DEF SuccessHasWholeLog

\* A row that changes without a call of the agent's.
LEMMA RowKeepsWhole ==
  ASSUME DeliveryInv, WholeOK, faults = 0,
         NEW j \in Job, Enqueue(j) \/ Expire(j) \/ Resolve(j)
  PROVE  WholeOK'
<1>. USE DEF Held, Ended, Promise!Held, Promise!Ended
<1>1. UNCHANGED <<file, installers, agent, late, faults>>
  BY DEF Enqueue, Expire, Resolve, pcVars
<1>2. state \in [Job -> Promise!State] /\ log \in [Job -> SUBSET Promise!Sequence]
  BY DEF DeliveryInv, ServiceOK, Promise!LogTypeOK
<1>3. /\ \A i \in Job \ {j} : state'[i] = state[i] /\ log'[i] = log[i]
      /\ \/ state[j] = "absent" /\ state'[j] = "queued"
         \/ state[j] = "running" /\ state'[j] = "interrupted" /\ log'[j] = log[j]
         \/ state[j] = "interrupted" /\ state'[j] = "failed" /\ log'[j] = log[j]
  BY <1>2 DEF Enqueue, Expire, Resolve
<1>4. SuccessHasWholeLog'
  BY <1>1, <1>3, OthersKeepLog DEF WholeOK
<1>5. GoesOn' /\ Drained'
  <2>1. agent.phase # "idle" => agent.job \in Job
    BY PhaseAndResult
  <2>. QED
    BY <1>1, <1>3, <2>1 DEF WholeOK, WholeInv, GoesOn, Drained, AllEvents, Lines
<1>6. NoWriter'
  <2>1. installers \subseteq Job
    BY DEF DeliveryInv, DeliveryTypeOK
  <2>. QED
    BY <1>1, <1>3, <2>1 DEF WholeOK, WholeInv, NoWriter
<1>. QED
  BY <1>1, <1>4, <1>5, <1>6 DEF WholeOK, WholeInv

LEMMA ClaimKeepsWhole ==
  ASSUME DeliveryInv, WholeOK, faults = 0, NEW j \in Job, Claim(j)
  PROVE  WholeOK'
<1>1. UNCHANGED <<file, log, late, faults>>
  BY DEF Claim
<1>2. state \in [Job -> Promise!State]
  BY DEF DeliveryInv, ServiceOK, Promise!LogTypeOK
<1>3. state'[j] = "running" /\ \A i \in Job \ {j} : state'[i] = state[i]
  BY <1>2 DEF Claim
<1>4. agent'.phase = "running" /\ agent'.job = j
  BY IdleAgent DEF Claim
<1>5. NoWriter'
  <2>1. installers \subseteq Job /\ installers' = installers \cup {j}
    BY DEF DeliveryInv, DeliveryTypeOK, Claim
  <2>. QED
    BY <1>3, <1>4, <2>1 DEF WholeOK, WholeInv, NoWriter
<1>6. SuccessHasWholeLog'
  BY <1>1, <1>3, OthersKeepLog DEF WholeOK
<1>. QED
  BY <1>1, <1>3, <1>4, <1>5, <1>6 DEF WholeOK, WholeInv, GoesOn, Drained, Held, Promise!Held

LEMMA WriteKeepsWhole ==
  ASSUME DeliveryInv, WholeOK, faults = 0, NEW j \in Job, NEW line \in Line,
         WriteJobProgress(j, line)
  PROVE  WholeOK'
<1>1. UNCHANGED <<installers, agent, state, log, late, faults>>
  BY DEF WriteJobProgress, serverVars
<1>2. state[j] # "succeeded" /\ (j = agent.job => agent.phase = "running" \/ agent.result = "failed")
  BY DEF WriteJobProgress, WholeOK, WholeInv, NoWriter
<1>3. state'[j] # "succeeded"
  BY <1>1, <1>2
<1>4. \A i \in Job \ {j} : file'[i] = file[i]
  BY DEF WriteJobProgress, DeliveryInv, ServiceOK
<1>5. SuccessHasWholeLog'
  BY <1>1, <1>3, <1>4, OthersKeepLog DEF WholeOK
<1>6. Drained'
  <2>1. agent.phase = "reporting" => agent.job \in Job
    BY PhaseAndResult
  <2>2. agent.phase = "reporting" /\ agent.result # "failed" => agent.job \in Job \ {j}
    BY <1>2, <2>1
  <2>. QED
    BY <1>1, <1>4, <2>2 DEF WholeOK, WholeInv, Drained, AllEvents, Lines
<1>. QED
  BY <1>1, <1>5, <1>6 DEF WholeOK, WholeInv, GoesOn, NoWriter

\* A call of the agent's that was taken or refused and is not the result.
LEMMA CallKeepsWhole ==
  ASSUME DeliveryInv, WholeOK, faults = 0, NEW c, CallInv(c), Succeeds(c) \/ Refused(c),
         UNCHANGED <<file, installers>>, agent.phase # "idle", c.job = agent.job,
         c.state \in {"none", "running"},
         agent'.job = agent.job, agent'.result = agent.result,
         \/ agent'.phase = agent.phase /\ agent.phase # "reporting"
         \/ agent.phase = "draining" /\ agent'.phase = "reporting" /\ Refused(c) /\ c.state = "none"
  PROVE  WholeOK'
<1>. USE DEF Held, Promise!Held, Ended, Promise!Ended
<1>1. PICK j \in Job : j = agent.job
  BY PhaseAndResult
<1>2. UNCHANGED <<late, faults>>
  BY DEF Succeeds, Refused, serverVars
<1>3. state[j] \in Held \cup {"failed"}
  BY <1>1 DEF WholeOK, WholeInv, GoesOn
<1>4. /\ \A i \in Job \ {j} : state'[i] = state[i] /\ log'[i] = log[i]
      /\ state'[j] \in Held \cup {"failed"}
      /\ Refused(c) => state'[j] = state[j]
  <2>1. CASE Succeeds(c)
    <3>1. /\ \A i \in Job \ {j} : state'[i] = state[i] /\ log'[i] = log[i]
          /\ state'[j] = IF c.state = "none" THEN state[j] ELSE c.state
          /\ CarryOut(c)
      BY <1>1, <2>1, CarriedOut DEF Succeeds
    <3>2. ~Refused(c)
      BY <3>1 DEF Refused, CarryOut
    <3>. QED
      BY <1>3, <3>1, <3>2
  <2>2. CASE Refused(c)
    BY <1>3, <2>2 DEF Refused, serverVars
  <2>. QED
    BY <2>1, <2>2
<1>5. SuccessHasWholeLog'
  BY <1>1, <1>2, <1>4, OthersKeepLog DEF WholeOK
<1>6. GoesOn' /\ NoWriter'
  <2>1. GoesOn'
    BY <1>1, <1>4 DEF GoesOn
  <2>2. installers \subseteq Job
    BY DEF DeliveryInv, DeliveryTypeOK
  <2>3. ASSUME NEW i \in installers
        PROVE  /\ state'[i] # "succeeded"
               /\ i = agent.job => agent'.phase = "running" \/ agent.result = "failed"
    BY <1>1, <1>4, <2>2 DEF WholeOK, WholeInv, NoWriter
  <2>. QED
    BY <2>1, <2>3 DEF NoWriter
<1>7. Drained'
  <2>1. CASE agent'.phase # "reporting"
    BY <2>1 DEF Drained
  <2>2. CASE agent.phase = "draining" /\ Refused(c) /\ c.state = "none"
    <3>1. c.lines \subseteq 1 .. Len(file[j]) /\ file[j] \in Seq(Line)
      BY <1>1, <2>2, LinesAreNumbers DEF CallInv, Follows, Lines
    <3>2. AllEvents(j) => state[j] \notin Held
      BY <1>1, <2>2, <3>1 DEF Refused, Accepts, AllEvents
    <3>. QED
      BY <1>1, <1>4, <2>2, <3>2 DEF Drained, AllEvents
  <2>. QED
    BY <2>1, <2>2
<1>. QED
  BY <1>2, <1>5, <1>6, <1>7 DEF WholeOK, WholeInv

\* A file of events from which nothing is left to send is in the log.
LEMMA NothingUnsent ==
  ASSUME DeliveryInv, agent.phase # "idle", AllEvents(agent.job), Batch = {} \/ ~Readable
  PROVE  Lines(agent.job) \subseteq log[agent.job]
<1>1. PICK j \in Job : j = agent.job
  BY PhaseAndResult
<1>2. /\ Len(file[j]) \in Nat /\ file[j] \in Seq(Line) /\ agent.after \in 0 .. Len(file[j])
      /\ StoredUpTo(j, agent.after)
  BY <1>1, LinesAreNumbers DEF DeliveryInv, AgentOK, AgentInv
<1>3. \A n \in 1 .. Len(file[j]) : file[j][n] = "event"
  BY <1>1, <1>2 DEF AllEvents
<1>4. Batch \subseteq 1 .. Len(file[j])
  BY <1>1, BatchFollows DEF Lines
<1>5. Batch = {}
  BY <1>1, <1>3, <1>4 DEF Readable
<1>6. Unsent = {}
  <2>1. Unsent \in SUBSET (1 .. Len(file[j])) /\ BatchSize \in Nat \ {0}
    BY <1>1, <1>2 DEF Unsent
  <2>. QED
    BY <1>2, <1>5, <2>1, FirstNumbers DEF Batch
<1>7. ASSUME NEW n \in 1 .. Len(file[j])
      PROVE  n <= agent.after
  <2>1. n \in agent.after + 1 .. Len(file[j]) => n \in Unsent
    BY <1>1, <1>3 DEF Unsent
  <2>. QED
    BY <1>2, <1>6, <2>1
<1>. QED
  BY <1>1, <1>2, <1>3, <1>7 DEF StoredUpTo, Lines

LEMMA AgentStepKeepsWhole ==
  ASSUME DeliveryInv, WholeOK, faults = 0, faults' = 0,
         SendWhileRunning \/ SendHeartbeat \/ Drain \/ \E result \in Ended : Exit(result)
  PROVE  WholeOK'
<1>0. /\ agent.phase # "idle" /\ agent.job \in Job /\ agent \in Work
  BY PhaseAndResult DEF SendWhileRunning, SendHeartbeat, Drain, Exit
<1>1. \A c : ~Fails(c)
  BY DEF Fails, Fault
<1>2. CASE SendWhileRunning
  <2>1. /\ CallInv(BatchCall) /\ BatchCall.job = agent.job /\ BatchCall.state = "none"
    BY <1>0, BatchFollows
  <2>2. /\ Succeeds(BatchCall) \/ Refused(BatchCall)
        /\ agent' = [agent EXCEPT !.after = Acknowledged] \/ agent' = agent
        /\ UNCHANGED <<file, installers>> /\ agent.phase = "running"
    BY <1>1, <1>2 DEF SendWhileRunning, SendAgentProgress
  <2>3. agent'.job = agent.job /\ agent'.phase = agent.phase /\ agent'.result = agent.result
    BY <1>0, <2>2 DEF Work
  <2>. QED
    BY <1>0, <2>1, <2>2, <2>3, CallKeepsWhole
<1>3. CASE SendHeartbeat
  <2>. DEFINE c == [job |-> agent.job, lines |-> {}, state |-> "running"]
  <2>1. c \in Call /\ c.state = "running" /\ c.lines = {} /\ c.job = agent.job
    BY <1>0 DEF Call, Promise!State, Promise!Held
  <2>2. CallInv(c)
    BY <2>1 DEF CallInv
  <2>3. (Succeeds(c) \/ Fails(c)) /\ UNCHANGED pcVars /\ agent.phase = "running"
    BY <1>3 DEF SendHeartbeat
  <2>. HIDE DEF c
  <2>. QED
    BY <1>0, <1>1, <2>1, <2>2, <2>3, CallKeepsWhole DEF pcVars
<1>4. CASE Drain
  <2>. DEFINE done == [agent EXCEPT !.phase = "reporting"]
  <2>1. done.phase = "reporting" /\ done.job = agent.job /\ done.result = agent.result
    BY <1>0, AgentReports DEF Work
  <2>2. /\ UNCHANGED <<file, installers>> /\ agent.phase = "draining"
        /\ \/ SendAgentProgress(done)
           \/ /\ Batch = {} \/ ~Readable
              /\ agent' = done /\ UNCHANGED <<serverVars, faults>>
    BY <1>4 DEF Drain
  <2>. HIDE DEF done
  <2>3. CASE SendAgentProgress(done)
    <3>1. /\ CallInv(BatchCall) /\ BatchCall.job = agent.job /\ BatchCall.state = "none"
      BY <1>0, BatchFollows
    <3>2. \/ Succeeds(BatchCall) /\ agent' = [agent EXCEPT !.after = Acknowledged]
          \/ Refused(BatchCall) /\ agent' = done
      BY <1>1, <2>3 DEF SendAgentProgress
    <3>3. /\ agent'.job = agent.job /\ agent'.result = agent.result
          /\ \/ agent'.phase = agent.phase
             \/ agent'.phase = "reporting" /\ Refused(BatchCall)
      BY <1>0, <2>1, <3>2 DEF Work
    <3>. QED
      BY <1>0, <2>2, <3>1, <3>2, <3>3, CallKeepsWhole
  <2>4. CASE (Batch = {} \/ ~Readable) /\ agent' = done /\ UNCHANGED <<serverVars, faults>>
    <3>1. AllEvents(agent.job) => Lines(agent.job) \subseteq log[agent.job]
      BY <1>0, <2>4, NothingUnsent
    <3>2. UNCHANGED <<state, log, late, file, installers, faults>>
      BY <2>2, <2>4 DEF serverVars
    <3>3. agent'.phase = "reporting" /\ agent'.job = agent.job /\ agent'.result = agent.result
      BY <2>1, <2>4
    <3>4. Drained'
      BY <3>1, <3>2, <3>3 DEF Drained, AllEvents, Lines
    <3>5. GoesOn' /\ NoWriter' /\ late' = {}
      BY <1>0, <2>2, <3>2, <3>3 DEF WholeOK, WholeInv, GoesOn, NoWriter
    <3>. QED
      BY <3>2, <3>4, <3>5, NothingKeepsLog DEF WholeOK, WholeInv
  <2>. QED
    BY <2>2, <2>3, <2>4
<1>5. ASSUME NEW result \in Ended, Exit(result)
      PROVE  WholeOK'
  <2>1. /\ agent.phase = "running" /\ agent'.phase = "draining" /\ agent'.job = agent.job
        /\ agent'.result = result
    BY <1>0, <1>5, AgentExits DEF Exit, Work
  <2>2. /\ UNCHANGED <<file, state, log, late, faults>>
        /\ installers' \subseteq installers
        /\ agent.job \notin installers' \/ result = "failed"
    BY <1>5 DEF Exit, serverVars
  <2>3. GoesOn' /\ NoWriter' /\ Drained' /\ late' = {}
    BY <2>1, <2>2 DEF WholeOK, WholeInv, GoesOn, NoWriter, Drained
  <2>. QED
    BY <2>2, <2>3, NothingKeepsLog DEF WholeOK, WholeInv
<1>. QED
  BY <1>2, <1>3, <1>4, <1>5

LEMMA ReportKeepsWhole ==
  ASSUME DeliveryInv, DeliveryInv', WholeOK, faults = 0, faults' = 0, SendResult
  PROVE  WholeOK'
<1>. USE DEF Held, Promise!Held, Ended, Promise!Ended
<1>. DEFINE c == [job |-> agent.job, lines |-> {}, state |-> agent.result]
            again == IF agent.restarted THEN 0 ELSE agent.after
<1>1. PICK j \in Job : j = agent.job
  BY PhaseAndResult DEF SendResult
<1>2. /\ agent \in Work /\ agent.phase = "reporting" /\ UNCHANGED <<file, installers>>
      /\ agent.result \in {"interrupted"} \cup Ended
      /\ \/ Succeeds(c) /\ agent' = NoWork
         \/ Refused(c) /\ agent' = [agent EXCEPT !.phase = "draining", !.after = again]
  BY PhaseAndResult DEF SendResult, Fails, Fault
<1>3. /\ state[j] \in Held \cup {"failed"} /\ late = {} /\ installers \subseteq Job
      /\ j \in installers => agent.result = "failed"
      /\ \A i \in installers : state[i] # "succeeded"
      /\ agent.result # "failed" /\ state[j] \in Held /\ AllEvents(j)
           => Lines(j) \subseteq log[j]
  BY <1>1, <1>2 DEF WholeOK, WholeInv, GoesOn, NoWriter, Drained, DeliveryInv, DeliveryTypeOK
<1>4. c.job = j /\ c.lines = {} /\ c.state = agent.result
  BY <1>1
<1>5. CASE Succeeds(c) /\ agent' = NoWork
  <2>1. c \in Call
    <3>1. agent.result \in Promise!State
      BY <1>2 DEF Promise!State
    <3>. QED
      BY <1>1, <3>1 DEF Call
  <2>2. CallInv(c)
    BY <1>2, <1>4, <2>1 DEF CallInv
  <2>. HIDE DEF c
  <2>3. /\ \A i \in Job \ {j} : state'[i] = state[i] /\ log'[i] = log[i]
        /\ state'[j] = agent.result
        /\ log[j] \subseteq log'[j]
        /\ agent.result \in Ended /\ state[j] \in Held => Final \in log'[j]
    BY <1>2, <1>4, <1>5, <2>2, CarriedOut DEF Succeeds
  <2>4. state[j] \in Held \/ state[j] = agent.result
    BY <1>2, <1>4, <1>5 DEF Succeeds, CarryOut, Accepts
  <2>5. ASSUME state'[j] = "succeeded", AllEvents(j)
        PROVE  log'[j] = {0, Final} \cup DOMAIN file[j]
    <3>1. state[j] \in Held
      BY <1>3, <2>3, <2>4, <2>5
    <3>2. Len(file[j]) \in Nat /\ DOMAIN file[j] = 1 .. Len(file[j])
      BY LinesAreNumbers
    <3>3. 0 \in log[j] /\ Final \in log'[j] /\ Lines(j) \subseteq log[j]
      BY <1>3, <2>3, <2>5, <3>1 DEF DeliveryInv, ServiceOK, LogInv
    <3>4. ASSUME NEW n \in log'[j] \ {0, Final}
          PROVE  n \in 1 .. Len(file[j])
      <4>1. n <= Len(file[j])
        BY <1>2 DEF DeliveryInv, ServiceOK, LogHasNoGap
      <4>2. n \in Nat
        BY FinalIsLast DEF DeliveryInv, ServiceOK, Promise!LogTypeOK, Promise!Sequence, Final
      <4>. QED
        BY <3>2, <4>1, <4>2
    <3>. QED
      BY <2>3, <3>2, <3>3, <3>4 DEF Lines
  <2>6. SuccessHasWholeLog'
    BY <1>2, <2>3, <2>5 DEF WholeOK, SuccessHasWholeLog, AllEvents
  <2>7. late' = {} /\ agent'.phase = "idle"
    BY <1>3, <1>5, IdleAgent DEF Succeeds
  <2>8. NoWriter'
    <3>1. agent'.job \notin Job
      BY <1>5 DEF NoWork, NoJob, Job
    <3>2. ASSUME NEW i \in installers
          PROVE  state'[i] # "succeeded" /\ i # agent'.job
      BY <1>3, <2>3, <3>1
    <3>. QED
      BY <1>2, <3>2 DEF NoWriter
  <2>9. GoesOn' /\ Drained'
    BY <2>7 DEF GoesOn, Drained
  <2>. QED
    BY <2>6, <2>7, <2>8, <2>9 DEF WholeOK, WholeInv
<1>6. CASE Refused(c) /\ agent' = [agent EXCEPT !.phase = "draining", !.after = again]
  <2>1. again \in LineNumber \cup {0}
    BY <1>2 DEF Work
  <2>. HIDE DEF c, again
  <2>2. agent'.phase = "draining" /\ agent'.job = j /\ agent'.result = agent.result
    BY <1>1, <1>2, <1>6, <2>1, AgentStartsOver DEF Work
  <2>3. UNCHANGED <<state, log, late>>
    BY <1>6 DEF Refused, serverVars
  <2>4. GoesOn' /\ NoWriter' /\ Drained'
    BY <1>1, <1>2, <1>3, <2>2, <2>3 DEF GoesOn, NoWriter, Drained
  <2>. QED
    BY <1>2, <1>3, <2>3, <2>4, NothingKeepsLog DEF WholeOK, WholeInv
<1>. QED
  BY <1>2, <1>5, <1>6

LEMMA WholeInit ==
  ASSUME Init
  PROVE  WholeOK
<1>1. agent.phase = "idle" /\ late = {} /\ installers = {} /\ \A j \in Job : state[j] = "absent"
  BY IdleAgent DEF Init, Promise!LogInit
<1>. QED
  BY <1>1 DEF WholeOK, WholeInv, GoesOn, NoWriter, Drained, SuccessHasWholeLog

LEMMA WholeStep ==
  ASSUME DeliveryInv, WholeOK, [Next]_vars
  PROVE  WholeOK'
<1>1. CASE faults' # 0
  BY <1>1 DEF WholeOK, WholeInv, SuccessHasWholeLog
<1>2. CASE faults' = 0
  <2>0. DeliveryInv'
    BY DeliveryStep DEF StepOK
  <2>1. faults = 0
    <3>1. faults' = faults \/ faults' = faults + 1
      BY DEF Next, ServerStep, PcStep, ArriveLate, Enqueue, Expire, Resolve, Claim, WriteJobProgress,
             SendWhileRunning, SendHeartbeat, Exit, Drain, SendResult, Stop, SendAgentProgress,
             Succeeds, Refused, Fails, Fault, vars
    <3>2. faults \in Nat
      BY DEF DeliveryInv, DeliveryTypeOK
    <3>. QED
      BY <1>2, <3>1, <3>2
  <2>2. CASE ServerStep
    <3>1. \A c \in late : FALSE
      BY <2>1 DEF WholeOK, WholeInv
    <3>. QED
      BY <2>1, <2>2, <3>1, RowKeepsWhole DEF ServerStep
  <2>3. CASE PcStep
    <3>1. ~Stop
      BY <1>2, <2>1 DEF Stop, Fault
    <3>. QED
      BY <1>2, <2>0, <2>1, <2>3, <3>1, ClaimKeepsWhole, WriteKeepsWhole, AgentStepKeepsWhole,
         ReportKeepsWhole DEF PcStep
  <2>4. CASE UNCHANGED vars
    BY <2>4 DEF vars, pcVars, serverVars, WholeOK, WholeInv, GoesOn, NoWriter, Drained,
                SuccessHasWholeLog, AllEvents, Lines
  <2>. QED
    BY <2>2, <2>3, <2>4 DEF Next
<1>. QED
  BY <1>1, <1>2

\* A job that succeeded and saw no fault has every line of its file in the log: the agent
\* empties the file before it reports the result, which closes the log.
THEOREM SuccessWithWholeLog == Spec => []SuccessHasWholeLog
<1>1. Init => WholeOK
  BY WholeInit
<1>2. DeliveryInv /\ WholeOK /\ [Next]_vars => WholeOK'
  BY WholeStep
<1>3. WholeOK => SuccessHasWholeLog
  BY DEF WholeOK
<1>. QED
  BY <1>1, <1>2, <1>3, DeliveryInvariant, PTL DEF Spec
===============================================================================
