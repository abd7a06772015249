-------------------------- MODULE ProgressViewProofs ---------------------------
(***************************************************************************)
(* Proofs about ProgressView, for any jobs and logs, any size of a page    *)
(* and any number of watches, logins and failed calls.                     *)
(*                                                                         *)
(* Sequences and sets of numbers come first: that Sorted lists a set in    *)
(* its order, and that the lists of two sets, one above the other, make    *)
(* the list of their union.  Then the invariant of what the page shows,    *)
(* and one more of where it stops.                                         *)
(***************************************************************************)
EXTENDS ProgressView, FiniteSetTheorems, SequenceTheorems, TLAPS

USE LogAssumption, ViewAssumption

-------------------------------------------------------------------------------
(* Numbers in their order *)

\* T is a beginning of S, if S is read in its order.
Beginning(T, S) == T \subseteq S /\ \A t \in T, s \in S : s < t => s \in T

LEMMA RankRange ==
  ASSUME NEW S \in SUBSET Nat, IsFiniteSet(S), NEW s \in S
  PROVE  Rank(s, S) \in 0 .. Cardinality(S) - 1
<1>. DEFINE B == {t \in S : t < s}
<1>1. B \in SUBSET S /\ s \notin B
  OBVIOUS
<1>2. /\ IsFiniteSet(B) /\ Cardinality(B) \in Nat /\ Cardinality(S) \in Nat
      /\ Cardinality(B) <= Cardinality(S) /\ (Cardinality(S) = Cardinality(B) => S = B)
  BY <1>1, FS_Subset, FS_CardinalityType
<1>3. Cardinality(B) # Cardinality(S)
  BY <1>1, <1>2
<1>. QED
  BY <1>2, <1>3 DEF Rank

LEMMA RankGrows ==
  ASSUME NEW S \in SUBSET Nat, IsFiniteSet(S), NEW s \in S, NEW t \in S, s < t
  PROVE  Rank(s, S) < Rank(t, S)
<1>. DEFINE A == {u \in S : u < s}
            B == {u \in S : u < t}
<1>1. B \in SUBSET S /\ A \in SUBSET B /\ s \in B /\ s \notin A
  <2>1. (\A u \in S : u < s => u < t) /\ ~(s < s)
    OBVIOUS
  <2>2. A \in SUBSET B
    BY <2>1
  <2>. QED
    BY <2>1, <2>2
<1>2. IsFiniteSet(B)
  BY <1>1, FS_Subset
<1>3. /\ Cardinality(A) \in Nat /\ Cardinality(B) \in Nat
      /\ Cardinality(A) <= Cardinality(B) /\ (Cardinality(B) = Cardinality(A) => B = A)
  BY <1>1, <1>2, FS_Subset, FS_CardinalityType
<1>. QED
  BY <1>1, <1>3 DEF Rank

\* Every place is taken, by one number.
LEMMA RankIsPlace ==
  ASSUME NEW S \in SUBSET Nat, IsFiniteSet(S), NEW n \in 1 .. Cardinality(S)
  PROVE  /\ \E s \in S : Rank(s, S) = n - 1
         /\ \A s, t \in S : Rank(s, S) = Rank(t, S) => s = t
<1>. DEFINE N == Cardinality(S)
            f == [s \in S |-> Rank(s, S) + 1]
<1>1. N \in Nat
  BY FS_CardinalityType
<1>2. \A s \in S : Rank(s, S) \in 0 .. N - 1
  BY RankRange
<1>3. ASSUME NEW s \in S, NEW t \in S, Rank(s, S) = Rank(t, S)
      PROVE  s = t
  <2>1. s < t \/ t < s \/ s = t
    OBVIOUS
  <2>2. Rank(s, S) \in Int /\ Rank(t, S) \in Int
    BY <1>2
  <2>3. (s < t => Rank(s, S) < Rank(t, S)) /\ (t < s => Rank(t, S) < Rank(s, S))
    BY RankGrows
  <2>. QED
    BY <1>3, <2>1, <2>2, <2>3
<1>4. f \in Injection(S, 1 .. N)
  <2>1. f \in [S -> 1 .. N]
    BY <1>1, <1>2
  <2>2. \A s, t \in S : f[s] = f[t] => s = t
    BY <1>2, <1>3
  <2>. QED
    BY <2>1, <2>2 DEF Injection, IsInjective
<1>5. IsFiniteSet(1 .. N) /\ Cardinality(1 .. N) = N
  BY <1>1, FS_Interval
<1>6. f \in Surjection(S, 1 .. N)
  BY <1>4, <1>5, FS_Injection
<1>7. PICK s \in S : f[s] = n
  BY <1>6 DEF Surjection
<1>8. Rank(s, S) = n - 1
  BY <1>2, <1>7
<1>. QED
  BY <1>3, <1>8

\* Sorted(S) is S in its order.
LEMMA SortedInOrder ==
  ASSUME NEW S \in SUBSET Nat, IsFiniteSet(S)
  PROVE  /\ Sorted(S) \in Seq(S) /\ Len(Sorted(S)) = Cardinality(S)
         /\ Cardinality(S) \in Nat
         /\ \A n \in 1 .. Cardinality(S) : Sorted(S)[n] \in S /\ Rank(Sorted(S)[n], S) = n - 1
         /\ Range(Sorted(S)) = S
         /\ S # {} => /\ Sorted(S) # <<>>
                      /\ Last(Sorted(S)) \in S
                      /\ \A s \in S : s <= Last(Sorted(S))
<1>. DEFINE N == Cardinality(S)
            q == Sorted(S)
<1>1. N \in Nat
  BY FS_CardinalityType
<1>2. \A n \in 1 .. N : q[n] \in S /\ Rank(q[n], S) = n - 1
  BY RankIsPlace DEF Sorted
<1>3. q \in [1 .. N -> S]
  BY <1>2 DEF Sorted
<1>4. q \in Seq(S) /\ Len(q) = N /\ DOMAIN q = 1 .. N
  BY <1>1, <1>3
<1>5. ASSUME NEW s \in S
      PROVE  \E n \in 1 .. N : q[n] = s /\ n = Rank(s, S) + 1
  <2>1. Rank(s, S) \in 0 .. N - 1
    BY RankRange
  <2>2. Rank(s, S) + 1 \in 1 .. N /\ (Rank(s, S) + 1) - 1 = Rank(s, S)
    BY <1>1, <2>1
  <2>3. /\ q[Rank(s, S) + 1] \in S /\ Rank(q[Rank(s, S) + 1], S) = Rank(s, S)
    BY <1>2, <2>2
  <2>4. q[Rank(s, S) + 1] = s
    BY <2>2, <2>3, RankIsPlace
  <2>. QED
    BY <2>2, <2>4
<1>6. Range(q) = S
  <2>1. Range(q) \subseteq S
    BY <1>2, <1>4 DEF Range
  <2>2. S \subseteq Range(q)
    BY <1>4, <1>5 DEF Range
  <2>. QED
    BY <2>1, <2>2
<1>7. ASSUME S # {}
      PROVE  q # <<>> /\ Last(q) \in S /\ \A s \in S : s <= Last(q)
  <2>1. PICK n \in 1 .. N : q[n] \in S
    BY <1>5, <1>7
  <2>2. N \in 1 .. N
    BY <1>1
  <2>3. Last(q) = q[N] /\ q[N] \in S /\ Rank(q[N], S) = N - 1
    BY <1>2, <1>4, <2>2 DEF Last
  <2>4. ASSUME NEW s \in S
        PROVE  s <= q[N]
    <3>1. q[N] < s => N - 1 < Rank(s, S)
      BY <2>3, RankGrows
    <3>2. Rank(s, S) \in 0 .. N - 1 /\ s \in Nat /\ q[N] \in Nat
      BY <2>3, RankRange
    <3>. QED
      BY <1>1, <3>1, <3>2
  <2>5. q # <<>>
    BY <1>4, <2>2
  <2>. QED
    BY <2>3, <2>4, <2>5
<1>. QED
  BY <1>1, <1>2, <1>4, <1>6, <1>7

\* What lies below another set comes first.
LEMMA SortedConcat ==
  ASSUME NEW A \in SUBSET Nat, IsFiniteSet(A), NEW B \in SUBSET Nat, IsFiniteSet(B),
         \A a \in A, b \in B : a < b
  PROVE  Sorted(A) \o Sorted(B) = Sorted(A \cup B)
<1>. DEFINE U == A \cup B
            M == Cardinality(A)
            N == Cardinality(B)
            p == Sorted(A)
            q == Sorted(B)
            u == Sorted(U)
<1>1. A \cap B = {}
  <2>1. \A b \in A : ~(b < b)
    OBVIOUS
  <2>. QED
    BY <2>1
<1>2. U \in SUBSET Nat /\ IsFiniteSet(U) /\ Cardinality(U) = M + N
  <2>1. IsFiniteSet(U) /\ Cardinality(U) = M + N - Cardinality(A \cap B)
    BY FS_Union
  <2>2. Cardinality(A \cap B) = 0
    BY <1>1, FS_EmptySet
  <2>3. M \in Nat /\ N \in Nat
    BY FS_CardinalityType
  <2>. QED
    BY <2>1, <2>2, <2>3
<1>3. /\ p \in Seq(A) /\ Len(p) = M /\ M \in Nat
      /\ \A n \in 1 .. M : p[n] \in A /\ Rank(p[n], A) = n - 1
  BY SortedInOrder
<1>4. /\ q \in Seq(B) /\ Len(q) = N /\ N \in Nat
      /\ \A n \in 1 .. N : q[n] \in B /\ Rank(q[n], B) = n - 1
  BY SortedInOrder
<1>5. /\ u \in Seq(U) /\ Len(u) = M + N
      /\ \A n \in 1 .. M + N : u[n] \in U /\ Rank(u[n], U) = n - 1
  BY <1>2, SortedInOrder
<1>6. ASSUME NEW a \in A
      PROVE  Rank(a, U) = Rank(a, A)
  <2>1. \A b \in B : ~(b < a)
    <3>1. ASSUME NEW b \in B
          PROVE  ~(b < a)
      <4>1. a < b /\ a \in Nat /\ b \in Nat
        OBVIOUS
      <4>. QED
        BY <4>1
    <3>. QED
      BY <3>1
  <2>2. {t \in U : t < a} = {t \in A : t < a}
    BY <2>1
  <2>. QED
    BY <2>2 DEF Rank
<1>7. ASSUME NEW b \in B
      PROVE  Rank(b, U) = M + Rank(b, B)
  <2>. DEFINE C == {t \in B : t < b}
  <2>1. {t \in U : t < b} = A \cup C
    OBVIOUS
  <2>2. A \cap C = {}
    BY <1>1
  <2>3. IsFiniteSet(C) /\ Cardinality(C) \in Nat
    BY FS_Subset, FS_CardinalityType
  <2>4. Cardinality(A \cup C) = M + Cardinality(C) - Cardinality(A \cap C)
    BY <2>3, FS_Union
  <2>5. Cardinality(A \cap C) = 0
    BY <2>2, FS_EmptySet
  <2>6. Rank(b, U) = Cardinality(A \cup C) /\ Rank(b, B) = Cardinality(C)
    BY <2>1 DEF Rank
  <2>. QED
    BY <1>3, <2>3, <2>4, <2>5, <2>6
<1>8. /\ p \o q \in Seq(U) /\ Len(p \o q) = M + N
      /\ \A n \in 1 .. M + N : (p \o q)[n] = IF n <= M THEN p[n] ELSE q[n - M]
  <2>. HIDE DEF U, M, N, p, q
  <2>1. p \in Seq(U) /\ q \in Seq(U)
    BY <1>3, <1>4 DEF U
  <2>2. /\ p \o q \in Seq(U) /\ Len(p \o q) = Len(p) + Len(q)
        /\ \A n \in 1 .. Len(p) + Len(q) :
             (p \o q)[n] = IF n <= Len(p) THEN p[n] ELSE q[n - Len(p)]
    BY <2>1, ConcatProperties
  <2>. QED
    BY <1>3, <1>4, <2>2
<1>9. ASSUME NEW n \in 1 .. M + N
      PROVE  (p \o q)[n] = u[n]
  <2>1. (p \o q)[n] \in U /\ Rank((p \o q)[n], U) = n - 1
    <3>1. CASE n <= M
      <4>1. n \in 1 .. M /\ (p \o q)[n] = p[n]
        BY <1>8, <3>1
      <4>. QED
        BY <1>3, <1>6, <4>1
    <3>2. CASE n > M
      <4>1. n - M \in 1 .. N /\ (p \o q)[n] = q[n - M]
        BY <1>3, <1>4, <1>8, <3>2
      <4>2. q[n - M] \in B /\ Rank(q[n - M], B) = (n - M) - 1
        BY <1>4, <4>1
      <4>3. Rank(q[n - M], U) = M + ((n - M) - 1)
        BY <1>7, <4>2
      <4>. QED
        BY <1>3, <1>4, <4>1, <4>2, <4>3
    <3>. QED
      BY <1>3, <1>4, <3>1, <3>2
  <2>2. u[n] \in U /\ Rank(u[n], U) = n - 1
    BY <1>5
  <2>3. n \in 1 .. Cardinality(U)
    BY <1>2
  <2>4. \A s, t \in U : Rank(s, U) = Rank(t, U) => s = t
    BY <1>2, <2>3, RankIsPlace
  <2>. QED
    BY <2>1, <2>2, <2>4
<1>. QED
  <2>1. p \o q \in Seq(U) /\ u \in Seq(U) /\ Len(p \o q) = Len(u)
    BY <1>5, <1>8
  <2>2. \A n \in 1 .. Len(p \o q) : (p \o q)[n] = u[n]
    BY <1>8, <1>9
  <2>. QED
    BY <2>1, <2>2, SeqEqual

LEMMA SortedEmpty == Sorted({}) = <<>>
<1>1. Cardinality({}) = 0
  BY FS_EmptySet
<1>. QED
  BY <1>1 DEF Sorted

\* A page of the log is a beginning of what there is to read.
LEMMA FirstNumbers ==
  ASSUME NEW S \in SUBSET Nat, IsFiniteSet(S), NEW n \in Nat
  PROVE  Beginning(First(n, S), S)
<1>1. ASSUME NEW t \in First(n, S), NEW s \in S, s < t
      PROVE  s \in First(n, S)
  <2>1. t \in S /\ Rank(t, S) < n
    BY DEF First
  <2>2. Rank(s, S) < Rank(t, S) /\ Rank(s, S) \in Int /\ Rank(t, S) \in Int
    BY <1>1, <2>1, RankGrows, RankRange
  <2>3. Rank(s, S) < n
    BY <2>1, <2>2
  <2>. QED
    BY <2>3 DEF First
<1>. QED
  BY <1>1 DEF Beginning, First

-------------------------------------------------------------------------------
(* The inductive invariant *)

PageRecord ==
  [job : Job \cup {NoJob}, after : -1 .. Final, events : Seq(Sequence), state : State,
   timer : Reader \cup {NoReader}, login : 1 .. MaxLogins, watches : 0 .. MaxWatches,
   cameBack : BOOLEAN]

ReaderRecord ==
  [job : Job \cup {NoJob}, login : 0 .. MaxLogins, step : {"gone", "waits", "asked", "served"},
   from : -1 .. Final, answer : Answer]

\* The cursor is the number of an event, so that what is appended to the log is beyond it.
PageInv ==
  page.job # NoJob =>
    /\ state[page.job] # "absent"
    /\ page.after \in log[page.job] \cup {-1}
    /\ Range(page.events) \subseteq log[page.job]
    /\ ~page.cameBack => page.events = Sorted({s \in log[page.job] : s <= page.after})

\* A reader has a job that was asked for, and an answer from its log.
ReaderOK(r) ==
  /\ readers[r].job = NoJob <=> readers[r].step = "gone"
  /\ readers[r].job # NoJob =>
       /\ state[readers[r].job] # "absent"
       /\ Range(readers[r].answer.events) \subseteq log[readers[r].job]

\* What the page has not shown of the log.
Rest == {s \in log[page.job] : s > page.after}

\* The page has one reader at most that serves it, that of its last watch; what this
\* one brings goes on where the page ends, however the log has grown since.
ServingOK(r) ==
  page.job # NoJob /\ ~page.cameBack /\ Serves(r) =>
    /\ r = page.watches
    /\ readers[r].step = "asked" => readers[r].from = page.after
    /\ readers[r].step = "served" =>
         \E T \in SUBSET Rest : Beginning(T, Rest) /\ readers[r].answer.events = Sorted(T)

ViewInv ==
  /\ ViewTypeOK
  /\ PageInv
  /\ \A r \in Reader : ReaderOK(r) /\ ServingOK(r)

-------------------------------------------------------------------------------
(* The logs *)

LEMMA FinalIsLast ==
  /\ Final \in Nat /\ Final >= 1
  /\ \A j \in Job : \A n \in 1 .. MaxLines[j] : n < Final
<1>1. Cardinality(LineNumber) \in Nat
  BY FS_CardinalityType DEF LogAssumption
<1>2. ASSUME NEW j \in Job, NEW n \in 1 .. MaxLines[j]
      PROVE  n < Final
  <2>1. MaxLines[j] \in Nat /\ n \in Nat /\ 1 .. n \subseteq 1 .. MaxLines[j]
    BY DEF LogAssumption
  <2>2. 1 .. n \in SUBSET LineNumber
    BY <2>1 DEF LineNumber
  <2>3. Cardinality(1 .. n) = n
    BY <2>1, FS_Interval
  <2>4. n <= Cardinality(LineNumber)
    BY <2>2, <2>3, FS_Subset DEF LogAssumption
  <2>. QED
    BY <1>1, <2>1, <2>4 DEF Final
<1>. QED
  BY <1>1, <1>2 DEF Final

LEMMA LogsAreFinite ==
  ASSUME NEW S \in SUBSET Sequence
  PROVE  S \in SUBSET Nat /\ IsFiniteSet(S)
<1>1. S \in SUBSET (0 .. Final) /\ Final \in Nat
  BY FinalIsLast DEF Sequence
<1>2. IsFiniteSet(0 .. Final)
  BY <1>1, FS_Interval
<1>3. IsFiniteSet(S)
  BY <1>1, <1>2, FS_Subset
<1>. QED
  BY <1>1, <1>3

\* The log of a job that was asked for grows at its end, and the job stays.
GrowAtEnd ==
  \A j \in Job : state[j] # "absent" =>
    /\ state'[j] # "absent"
    /\ log[j] \subseteq log'[j]
    /\ \A s \in log'[j] \ log[j], t \in log[j] : t < s

LEMMA LogsGrow ==
  ASSUME LogTypeOK, LogNext
  PROVE  LogTypeOK' /\ GrowAtEnd
<1>. /\ state \in [Job -> State] /\ log \in [Job -> SUBSET Sequence]
     /\ \A j \in Job : \A t \in log[j] : t \in Nat /\ t <= Final
     /\ Final \in Nat /\ 0 \in Sequence /\ Final \in Sequence
  BY FinalIsLast DEF LogTypeOK, Sequence
<1>. PICK j \in Job : \/ Open(j)
                      \/ Change(j)
                      \/ \E S \in SUBSET (1 .. MaxLines[j]) : Extend(j, S)
                      \/ \E result \in Ended : Close(j, result)
                      \/ Resolve(j)
  BY DEF LogNext
<1>1. CASE Open(j)
  BY <1>1 DEF Open, LogTypeOK, GrowAtEnd, State
<1>2. CASE Change(j)
  BY <1>2 DEF Change, LogTypeOK, GrowAtEnd, State, Held
<1>3. ASSUME NEW S \in SUBSET (1 .. MaxLines[j]), Extend(j, S)
      PROVE  LogTypeOK' /\ GrowAtEnd
  <2>1. S \subseteq Sequence
    BY FinalIsLast DEF Sequence
  <2>2. /\ state' = state /\ log' = [log EXCEPT ![j] = @ \cup S]
        /\ \A s \in S, t \in log[j] : t < s
    BY <1>3 DEF Extend
  <2>. QED
    BY <2>1, <2>2 DEF LogTypeOK, GrowAtEnd
<1>4. ASSUME NEW result \in Ended, Close(j, result)
      PROVE  LogTypeOK' /\ GrowAtEnd
  <2>1. /\ state' = [state EXCEPT ![j] = result]
        /\ log' = [log EXCEPT ![j] = @ \cup {Final}]
    BY <1>4 DEF Close
  <2>2. \A t \in log[j] : Final \notin log[j] => t < Final
    OBVIOUS
  <2>. QED
    BY <2>1, <2>2 DEF LogTypeOK, GrowAtEnd, State, Ended
<1>5. CASE Resolve(j)
  BY <1>5 DEF Resolve, LogTypeOK, GrowAtEnd, State, Ended
<1>. QED
  BY <1>1, <1>2, <1>3, <1>4, <1>5

-------------------------------------------------------------------------------
(* The page while the logs grow *)

\* What of a log comes up to the cursor stays what it was, and what follows it is
\* continued.
LEMMA GrowthIsBeyond ==
  ASSUME LogTypeOK, LogTypeOK', GrowAtEnd, NEW j \in Job, state[j] # "absent",
         NEW after \in log[j] \cup {-1}
  PROVE  /\ {s \in log'[j] : s <= after} = {s \in log[j] : s <= after}
         /\ {s \in log[j] : s > after} \subseteq {s \in log'[j] : s > after}
         /\ \A T \in SUBSET {s \in log[j] : s > after} :
              Beginning(T, {s \in log[j] : s > after})
                => Beginning(T, {s \in log'[j] : s > after})
<1>1. /\ log[j] \subseteq log'[j]
      /\ \A s \in log'[j] \ log[j], t \in log[j] : t < s
      /\ \A s \in log'[j] : s \in Nat
      /\ after \in Int
  <2>1. log[j] \in SUBSET Sequence /\ log'[j] \in SUBSET Sequence
    BY DEF LogTypeOK
  <2>2. log[j] \in SUBSET Nat /\ log'[j] \in SUBSET Nat
    BY <2>1, LogsAreFinite
  <2>3. after \in Int
    BY <2>2
  <2>4. log[j] \subseteq log'[j] /\ \A s \in log'[j] \ log[j], t \in log[j] : t < s
    BY DEF GrowAtEnd
  <2>. QED
    BY <2>2, <2>3, <2>4
<1>2. \A s \in log'[j] \ log[j] : s > after
  BY <1>1
<1>3. {s \in log'[j] : s <= after} = {s \in log[j] : s <= after}
  BY <1>1, <1>2
<1>4. ASSUME NEW T \in SUBSET {s \in log[j] : s > after},
             Beginning(T, {s \in log[j] : s > after})
      PROVE  Beginning(T, {s \in log'[j] : s > after})
  <2>1. ASSUME NEW t \in T, NEW s \in log'[j], s > after, s < t
        PROVE  s \in T
    <3>1. t \in log[j] /\ t \in Nat /\ s \in Nat
      BY <1>1
    <3>2. s \in log[j]
      <4>1. s \notin log[j] => t < s
        BY <1>1, <3>1
      <4>. QED
        BY <2>1, <3>1, <4>1
    <3>. QED
      BY <1>4, <2>1, <3>2 DEF Beginning
  <2>2. T \subseteq {s \in log'[j] : s > after}
    BY <1>1
  <2>. QED
    BY <2>1, <2>2 DEF Beginning
<1>. QED
  BY <1>1, <1>3, <1>4

LEMMA LogStep ==
  ASSUME ViewInv, LogNext, UNCHANGED <<page, readers, failures>>
  PROVE  ViewInv'
<1>. LogTypeOK /\ page \in PageRecord /\ readers \in [Reader -> ReaderRecord]
  BY DEF ViewInv, ViewTypeOK, PageRecord, ReaderRecord
<1>. LogTypeOK' /\ GrowAtEnd
  BY LogsGrow
<1>1. ViewTypeOK'
  BY DEF ViewInv, ViewTypeOK
<1>2. PageInv'
  <2>. SUFFICES ASSUME page.job # NoJob
                PROVE  PageInv'
    BY DEF PageInv
  <2>1. /\ page.job \in Job /\ state[page.job] # "absent"
        /\ page.after \in log[page.job] \cup {-1}
        /\ Range(page.events) \subseteq log[page.job]
        /\ ~page.cameBack => page.events = Sorted({s \in log[page.job] : s <= page.after})
    BY DEF ViewInv, PageInv, PageRecord
  <2>2. {s \in log'[page.job] : s <= page.after} = {s \in log[page.job] : s <= page.after}
    BY <2>1, GrowthIsBeyond
  <2>. QED
    BY <2>1, <2>2 DEF PageInv, GrowAtEnd
<1>3. ASSUME NEW r \in Reader
      PROVE  ReaderOK(r)'
  <2>1. ReaderOK(r) /\ readers[r].job \in Job \cup {NoJob}
    BY DEF ViewInv, ReaderRecord
  <2>. QED
    BY <2>1 DEF ReaderOK, GrowAtEnd
<1>4. ASSUME NEW r \in Reader
      PROVE  ServingOK(r)'
  <2>. SUFFICES ASSUME page.job # NoJob, ~page.cameBack, Serves(r)
                PROVE  ServingOK(r)'
    BY DEF ServingOK, Serves
  <2>1. /\ r = page.watches
        /\ readers[r].step = "asked" => readers[r].from = page.after
        /\ readers[r].step = "served" =>
             \E T \in SUBSET Rest : Beginning(T, Rest) /\ readers[r].answer.events = Sorted(T)
    BY DEF ViewInv, ServingOK
  <2>2. /\ page.job \in Job /\ state[page.job] # "absent"
        /\ page.after \in log[page.job] \cup {-1}
    BY DEF ViewInv, PageInv, PageRecord
  <2>3. /\ Rest \subseteq Rest'
        /\ \A T \in SUBSET Rest : Beginning(T, Rest) => Beginning(T, Rest')
    BY <2>2, GrowthIsBeyond DEF Rest
  <2>4. readers[r].step = "served" =>
          \E T \in SUBSET Rest' : Beginning(T, Rest') /\ readers[r].answer.events = Sorted(T)
    BY <2>1, <2>3
  <2>. QED
    BY <2>1, <2>4 DEF ServingOK
<1>. QED
  BY <1>1, <1>2, <1>3, <1>4 DEF ViewInv

-------------------------------------------------------------------------------
(* The page starts and ends to watch *)

LEMMA Records ==
  /\ NoAnswer \in Answer /\ NoAnswer.events = <<>> /\ Gone \in ReaderRecord
  /\ Gone.job = NoJob /\ Gone.step = "gone" /\ Gone.from = -1 /\ Gone.answer = NoAnswer
  /\ Range(<<>>) = {}
<1>1. NoAnswer \in Answer /\ NoAnswer.events = <<>>
  <2>1. <<>> \in Seq(Sequence)
    OBVIOUS
  <2>. QED
    BY <2>1 DEF NoAnswer, Answer, State
<1>2. Range(<<>>) = {}
  BY DEF Range
<1>3. 0 \in 0 .. MaxLogins /\ -1 \in -1 .. Final
  BY FinalIsLast DEF ViewAssumption
<1>. QED
  BY <1>1, <1>2, <1>3 DEF Gone, ReaderRecord

LEMMA ViewTypes ==
  ASSUME ViewInv
  PROVE  /\ LogTypeOK /\ page \in PageRecord /\ readers \in [Reader -> ReaderRecord]
         /\ failures \in 0 .. MaxFailures
         /\ state \in [Job -> State] /\ \A j \in Job : log[j] \in SUBSET Sequence
BY DEF ViewInv, ViewTypeOK, PageRecord, ReaderRecord, LogTypeOK

\* A reader that is cleared is gone, and nothing else happens to readers.
LEMMA ClearedReaders ==
  ASSUME ViewInv
  PROVE  /\ Cleared \in [Reader -> ReaderRecord]
         /\ \A r \in Reader : Cleared[r] = readers[r] \/ Cleared[r] = Gone
<1>. page \in PageRecord /\ readers \in [Reader -> ReaderRecord] /\ Gone \in ReaderRecord
  BY ViewTypes, Records
<1>1. CASE page.timer = NoReader
  BY <1>1 DEF Cleared
<1>2. CASE page.timer # NoReader
  BY <1>2 DEF Cleared, PageRecord
<1>. QED
  BY <1>1, <1>2

LEMMA ClearedPageType ==
  ASSUME ViewInv
  PROVE  /\ ClearedPage \in PageRecord /\ ClearedPage.job = NoJob
         /\ ClearedPage.after = -1 /\ ClearedPage.events = <<>>
         /\ ClearedPage.login = page.login /\ ClearedPage.watches = page.watches
<1>1. page \in PageRecord
  BY ViewTypes
<1>2. -1 \in -1 .. Final /\ <<>> \in Seq(Sequence) /\ "absent" \in State
  BY FinalIsLast DEF State
<1>. QED
  BY <1>1, <1>2 DEF ClearedPage, PageRecord

\* What a reader has come from a log that is still there.
LEMMA ReadersStay ==
  ASSUME ViewInv, UNCHANGED logVars, NEW r \in Reader,
         readers'[r] = readers[r] \/ readers'[r] = Gone
  PROVE  ReaderOK(r)'
<1>1. ReaderOK(r) /\ state' = state /\ log' = log
  BY DEF ViewInv, logVars
<1>. QED
  BY <1>1, Records DEF ReaderOK

\* A page that watches nothing is served by nobody.
LEMMA PageClears ==
  ASSUME ViewInv, UNCHANGED <<logVars, failures>>, readers' = Cleared,
         page' \in PageRecord, page'.job = NoJob
  PROVE  ViewInv'
<1>1. ViewTypeOK'
  BY ClearedReaders, ViewTypes DEF ViewTypeOK, PageRecord, ReaderRecord, logVars, LogTypeOK
<1>2. PageInv'
  BY DEF PageInv
<1>3. \A r \in Reader : ReaderOK(r)'
  BY ClearedReaders, ReadersStay
<1>4. \A r \in Reader : ServingOK(r)'
  BY DEF ServingOK
<1>. QED
  BY <1>1, <1>2, <1>3, <1>4 DEF ViewInv

LEMMA WatchNothingStep ==
  ASSUME ViewInv, WatchNothing
  PROVE  ViewInv'
BY ClearedPageType, PageClears DEF WatchNothing

LEMMA DisconnectStep ==
  ASSUME ViewInv, Disconnect
  PROVE  ViewInv'
<1>1. ClearedPage \in PageRecord /\ ClearedPage.job = NoJob /\ ClearedPage.login = page.login
  BY ClearedPageType
<1>2. page.login + 1 \in 1 .. MaxLogins
  <2>1. page.login \in 1 .. MaxLogins /\ page.login < MaxLogins /\ MaxLogins \in Nat
    BY ViewTypes DEF Disconnect, PageRecord, ViewAssumption
  <2>. QED
    BY <2>1
<1>3. page' = [ClearedPage EXCEPT !.login = page.login + 1] /\ readers' = Cleared
  BY <1>1 DEF Disconnect
<1>4. page' \in PageRecord /\ page'.job = NoJob
  BY <1>1, <1>2, <1>3 DEF PageRecord
<1>. QED
  BY <1>3, <1>4, PageClears DEF Disconnect

LEMMA WatchStep ==
  ASSUME ViewInv, NEW j \in Job, WatchProgress(j)
  PROVE  ViewInv'
<1>. DEFINE w == page.watches + 1
            back == \E q \in Reader : Cleared[q].job = j /\ Cleared[q].login = page.login
            first == [Gone EXCEPT !.job = j, !.login = page.login, !.step = "asked"]
<1>1. /\ page \in PageRecord /\ readers \in [Reader -> ReaderRecord]
      /\ state[j] \in State /\ state[j] # "absent" /\ log[j] \in SUBSET Nat /\ j # NoJob
  <2>1. log[j] \in SUBSET Nat
    BY ViewTypes, LogsAreFinite
  <2>. QED
    BY <2>1, ViewTypes DEF WatchProgress, ViewAssumption
<1>2. w \in Reader /\ w \in 0 .. MaxWatches
  BY <1>1 DEF WatchProgress, PageRecord, Reader, ViewAssumption
<1>3. /\ page' = [ClearedPage EXCEPT !.job = j, !.state = state[j], !.watches = w,
                                     !.cameBack = back]
      /\ readers' = [Cleared EXCEPT ![w] = first]
      /\ UNCHANGED <<logVars, failures>>
  BY DEF WatchProgress
<1>4. /\ page' \in PageRecord /\ page'.job = j /\ page'.after = -1 /\ page'.events = <<>>
      /\ page'.login = page.login /\ page'.watches = w /\ page'.cameBack = back
  <2>. HIDE DEF back
  <2>1. back \in BOOLEAN
    BY DEF back
  <2>. QED
    BY <1>1, <1>2, <1>3, <2>1, ClearedPageType DEF PageRecord
<1>5. /\ first \in ReaderRecord /\ first.job = j /\ first.step = "asked" /\ first.from = -1
      /\ first.answer = NoAnswer
  <2>1. page.login \in 0 .. MaxLogins
    BY <1>1 DEF PageRecord, ViewAssumption
  <2>2. Gone \in ReaderRecord /\ Gone.from = -1 /\ Gone.answer = NoAnswer
    BY Records
  <2>. QED
    BY <2>1, <2>2 DEF ReaderRecord
<1>6. /\ readers' \in [Reader -> ReaderRecord] /\ readers'[w] = first
      /\ \A r \in Reader : r # w => readers'[r] = Cleared[r]
  <2>. HIDE DEF first
  <2>. QED
    BY <1>2, <1>3, <1>5, ClearedReaders
<1>7. ViewTypeOK'
  BY <1>3, <1>4, <1>6, ViewTypes DEF ViewTypeOK, PageRecord, ReaderRecord, logVars, LogTypeOK
<1>8. PageInv'
  <2>1. {s \in log[j] : s <= -1} = {}
    BY <1>1
  <2>2. page'.events = Sorted({s \in log[j] : s <= -1})
    BY <1>4, <2>1, SortedEmpty
  <2>3. Range(page'.events) = {} /\ log' = log /\ state' = state
    BY <1>3, <1>4, Records DEF logVars
  <2>. QED
    BY <1>1, <1>4, <2>2, <2>3 DEF PageInv
<1>9. ASSUME NEW r \in Reader
      PROVE  ReaderOK(r)' /\ ServingOK(r)'
  <2>1. CASE r = w
    <3>1. log' = log /\ state' = state
      BY <1>3 DEF logVars
    <3>2. /\ readers'[r].job = j /\ readers'[r].step = "asked" /\ readers'[r].from = -1
          /\ readers'[r].answer.events = <<>>
      BY <1>5, <1>6, <2>1, Records
    <3>3. ReaderOK(r)'
      BY <1>1, <3>1, <3>2, Records DEF ReaderOK
    <3>4. ServingOK(r)'
      BY <1>4, <2>1, <3>2 DEF ServingOK
    <3>. QED
      BY <3>3, <3>4
  <2>2. CASE r # w
    <3>1. readers'[r] = Cleared[r] /\ (readers'[r] = readers[r] \/ readers'[r] = Gone)
      BY <1>6, <2>2, ClearedReaders
    <3>2. ReaderOK(r)'
      BY <1>3, <3>1, ReadersStay
    <3>3. ~back => ~(Cleared[r].job = j /\ Cleared[r].login = page.login)
      OBVIOUS
    <3>4. ServingOK(r)'
      BY <1>4, <3>1, <3>3 DEF ServingOK, Serves
    <3>. QED
      BY <3>2, <3>4
  <2>. QED
    BY <2>1, <2>2
<1>. QED
  BY <1>7, <1>8, <1>9 DEF ViewInv

-------------------------------------------------------------------------------
(* A reader asks, is served, fails or finds that it serves the page no more *)

\* Reader r moves and the page shows what it did.
LEMMA ReaderMoves ==
  ASSUME ViewInv, NEW r \in Reader, NEW record \in ReaderRecord,
         readers' = [readers EXCEPT ![r] = record],
         page' \in PageRecord, page'.job = page.job, page'.after = page.after,
         page'.events = page.events, page'.login = page.login,
         page'.watches = page.watches, page'.cameBack = page.cameBack,
         UNCHANGED logVars, failures' \in 0 .. MaxFailures,
         ReaderOK(r)', ServingOK(r)'
  PROVE  ViewInv'
<1>1. /\ readers' \in [Reader -> ReaderRecord] /\ log' = log /\ state' = state
      /\ \A q \in Reader : q # r => readers'[q] = readers[q]
  BY ViewTypes DEF logVars
<1>2. ViewTypeOK'
  BY <1>1, ViewTypes DEF ViewTypeOK, PageRecord, ReaderRecord, LogTypeOK
<1>3. PageInv'
  BY <1>1 DEF ViewInv, PageInv
<1>4. ASSUME NEW q \in Reader, q # r
      PROVE  ReaderOK(q)' /\ ServingOK(q)'
  <2>1. ReaderOK(q) /\ ServingOK(q) /\ readers'[q] = readers[q] /\ Rest' = Rest
    BY <1>1, <1>4 DEF ViewInv, Rest
  <2>2. ReaderOK(q)'
    BY <1>1, <2>1 DEF ReaderOK
  <2>3. ServingOK(q)'
    BY <2>1 DEF ServingOK, Serves
  <2>. QED
    BY <2>2, <2>3
<1>. QED
  BY <1>2, <1>3, <1>4 DEF ViewInv

LEMMA AskStep ==
  ASSUME ViewInv, NEW r \in Reader, Ask(r)
  PROVE  ViewInv'
<1>. DEFINE record == [readers[r] EXCEPT !.step = "asked", !.from = page.after]
<1>1. page \in PageRecord /\ readers[r] \in ReaderRecord /\ failures \in 0 .. MaxFailures
  BY ViewTypes
<1>2. /\ record \in ReaderRecord /\ record.job = readers[r].job
      /\ record.login = readers[r].login /\ record.answer = readers[r].answer
      /\ record.step = "asked" /\ record.from = page.after
  BY <1>1 DEF ReaderRecord, PageRecord
<1>3. /\ readers' = [readers EXCEPT ![r] = record]
      /\ page' = [page EXCEPT !.timer = IF page.timer = r THEN NoReader ELSE page.timer]
      /\ readers[r].step = "waits" /\ UNCHANGED <<logVars, failures>>
  BY <1>1 DEF Ask, PageRecord
<1>4. /\ page' \in PageRecord /\ page'.job = page.job /\ page'.after = page.after
      /\ page'.events = page.events /\ page'.login = page.login
      /\ page'.watches = page.watches /\ page'.cameBack = page.cameBack
  BY <1>1, <1>3 DEF PageRecord
<1>5. readers'[r] = record /\ log' = log /\ state' = state
  BY <1>3, ViewTypes DEF logVars
<1>6. ReaderOK(r)'
  BY <1>2, <1>3, <1>5 DEF ViewInv, ReaderOK
<1>7. ServingOK(r)'
  BY <1>2, <1>3, <1>4, <1>5 DEF ViewInv, ServingOK, Serves
<1>. QED
  BY <1>1, <1>2, <1>3, <1>4, <1>6, <1>7, ReaderMoves

\* What the service answers is an answer, and a beginning of what there is to read.
LEMMA ProgressAnswers ==
  ASSUME ViewInv, NEW j \in Job, NEW after \in -1 .. Final
  PROVE  LET rest == {s \in log[j] : s > after}
         IN /\ Progress(j, after) \in Answer
            /\ Range(Progress(j, after).events) \subseteq log[j]
            /\ Beginning(First(PageSize, rest), rest)
            /\ Progress(j, after).events = Sorted(First(PageSize, rest))
<1>. DEFINE rest == {s \in log[j] : s > after}
            T == First(PageSize, rest)
<1>1. log[j] \in SUBSET Sequence /\ state[j] \in State
  BY ViewTypes
<1>2. rest \in SUBSET Sequence /\ rest \subseteq log[j]
  BY <1>1
<1>3. rest \in SUBSET Nat /\ IsFiniteSet(rest)
  BY <1>2, LogsAreFinite
<1>4. PageSize \in Nat
  BY DEF ViewAssumption
<1>5. Beginning(T, rest) /\ T \in SUBSET rest
  BY <1>3, <1>4, FirstNumbers DEF Beginning
<1>6. T \in SUBSET Sequence /\ T \in SUBSET Nat /\ IsFiniteSet(T)
  BY <1>2, <1>3, <1>5, FS_Subset
<1>7. Sorted(T) \in Seq(T) /\ Range(Sorted(T)) = T
  BY <1>6, SortedInOrder
<1>8. Sorted(T) \in Seq(Sequence)
  BY <1>6, <1>7
<1>9. (Cardinality(rest) > PageSize) \in BOOLEAN
  OBVIOUS
<1>10. Progress(j, after) = [state |-> state[j], events |-> Sorted(T),
                             more |-> Cardinality(rest) > PageSize]
  BY DEF Progress
<1>. HIDE DEF rest, T
<1>11. Progress(j, after) \in Answer /\ Progress(j, after).events = Sorted(T)
  BY <1>1, <1>8, <1>9, <1>10 DEF Answer
<1>12. Range(Progress(j, after).events) \subseteq log[j]
  BY <1>2, <1>5, <1>7, <1>11
<1>. QED
  BY <1>5, <1>11, <1>12 DEF rest, T

LEMMA ServeStep ==
  ASSUME ViewInv, NEW r \in Reader, Serve(r)
  PROVE  ViewInv'
<1>. DEFINE j == readers[r].job
            after == readers[r].from
            answer == Progress(j, after)
            record == [readers[r] EXCEPT !.step = "served", !.from = -1, !.answer = answer]
            rest == {s \in log[j] : s > after}
<1>1. /\ page \in PageRecord /\ readers[r] \in ReaderRecord /\ failures \in 0 .. MaxFailures
      /\ ReaderOK(r) /\ ServingOK(r)
  BY ViewTypes DEF ViewInv
<1>2. j \in Job /\ after \in -1 .. Final /\ j # NoJob
  BY <1>1 DEF ReaderOK, ReaderRecord, Serve
<1>3. /\ answer \in Answer /\ Range(answer.events) \subseteq log[j]
      /\ Beginning(First(PageSize, rest), rest)
      /\ answer.events = Sorted(First(PageSize, rest))
  BY <1>2, ProgressAnswers
<1>4. /\ readers' = [readers EXCEPT ![r] = record] /\ page' = page
      /\ readers[r].step = "asked" /\ UNCHANGED <<logVars, failures>>
  BY DEF Serve
<1>5. /\ record \in ReaderRecord /\ record.job = j /\ record.login = readers[r].login
      /\ record.step = "served" /\ record.answer = answer
  <2>. HIDE DEF answer
  <2>1. -1 \in -1 .. Final
    BY FinalIsLast
  <2>. QED
    BY <1>1, <1>3, <2>1 DEF ReaderRecord
<1>6. readers'[r] = record /\ log' = log /\ state' = state
  <2>. HIDE DEF record
  <2>. QED
    BY <1>4, ViewTypes DEF logVars
<1>. HIDE DEF answer, record
<1>7. ReaderOK(r)'
  BY <1>1, <1>2, <1>3, <1>5, <1>6 DEF ReaderOK
<1>8. ServingOK(r)'
  <2>. SUFFICES ASSUME page.job # NoJob, ~page.cameBack, Serves(r)
                PROVE  ServingOK(r)'
    BY <1>4, <1>5, <1>6 DEF ServingOK, Serves
  <2>1. r = page.watches /\ after = page.after /\ j = page.job
    BY <1>1, <1>4 DEF ServingOK, Serves
  <2>2. rest = Rest /\ Rest' = Rest
    BY <1>4, <1>6, <2>1 DEF Rest
  <2>3. First(PageSize, rest) \in SUBSET Rest
    BY <1>3, <2>2 DEF Beginning
  <2>. QED
    BY <1>3, <1>4, <1>5, <1>6, <2>1, <2>2, <2>3 DEF ServingOK
<1>. QED
  BY <1>1, <1>4, <1>5, <1>7, <1>8, ReaderMoves

\* A reader that waits again, or ends, brings nothing.
LEMMA ReaderRests ==
  ASSUME ViewInv, NEW r \in Reader, readers[r].step # "gone",
         (readers' = Wait(r) /\ page.job = readers[r].job) \/ readers' = End(r),
         page' \in PageRecord, page'.job = page.job, page'.after = page.after,
         page'.events = page.events, page'.login = page.login,
         page'.watches = page.watches, page'.cameBack = page.cameBack,
         UNCHANGED logVars, failures' \in 0 .. MaxFailures
  PROVE  ViewInv'
<1>. DEFINE record == [readers[r] EXCEPT !.step = "waits", !.from = -1, !.answer = NoAnswer]
<1>1. readers \in [Reader -> ReaderRecord] /\ ReaderOK(r) /\ ServingOK(r)
  BY ViewTypes DEF ViewInv
<1>2. log' = log /\ state' = state
  BY DEF logVars
<1>3. CASE readers' = Wait(r)
  <2>1. readers' = [readers EXCEPT ![r] = record]
    BY <1>3 DEF Wait
  <2>2. /\ record \in ReaderRecord /\ record.job = readers[r].job
        /\ record.login = readers[r].login /\ record.step = "waits"
        /\ record.answer = NoAnswer
    <3>1. -1 \in -1 .. Final /\ NoAnswer \in Answer
      BY FinalIsLast, Records
    <3>. QED
      BY <1>1, <3>1 DEF ReaderRecord
  <2>3. readers'[r] = record
    BY <1>1, <2>1
  <2>. HIDE DEF record
  <2>4. ReaderOK(r)'
    BY <1>1, <1>2, <2>2, <2>3, Records DEF ReaderOK
  <2>5. ServingOK(r)'
    BY <1>1, <2>2, <2>3 DEF ServingOK, Serves
  <2>. QED
    BY <2>1, <2>2, <2>4, <2>5, ReaderMoves
<1>4. CASE readers' = End(r)
  <2>1. readers' = [readers EXCEPT ![r] = Gone] /\ readers'[r] = Gone /\ Gone \in ReaderRecord
    BY <1>1, <1>4, Records DEF End
  <2>2. ReaderOK(r)'
    BY <2>1, Records DEF ReaderOK
  <2>3. ServingOK(r)'
    BY <2>1, Records DEF ServingOK, Serves
  <2>. QED
    BY <2>1, <2>2, <2>3, ReaderMoves
<1>. QED
  BY <1>3, <1>4

LEMMA FailToReadStep ==
  ASSUME ViewInv, NEW r \in Reader, FailToRead(r)
  PROVE  ViewInv'
<1>1. page \in PageRecord
  BY ViewTypes
<1>2. failures' \in 0 .. MaxFailures
  <2>1. /\ failures \in 0 .. MaxFailures /\ failures < MaxFailures
        /\ failures' = failures + 1 /\ MaxFailures \in Nat
    BY ViewTypes DEF FailToRead, ViewAssumption
  <2>. QED
    BY <2>1
<1>3. /\ page' \in PageRecord /\ page'.job = page.job /\ page'.after = page.after
      /\ page'.events = page.events /\ page'.login = page.login
      /\ page'.watches = page.watches /\ page'.cameBack = page.cameBack
  <2>1. page' = page \/ page' = [page EXCEPT !.timer = r]
    BY DEF FailToRead
  <2>. QED
    BY <1>1, <2>1 DEF PageRecord
<1>4. (readers' = Wait(r) /\ page.job = readers[r].job) \/ readers' = End(r)
  BY DEF FailToRead, Serves
<1>. QED
  BY <1>2, <1>3, <1>4, ReaderRests DEF FailToRead

-------------------------------------------------------------------------------
(* The page takes an answer *)

\* An answer that goes on where the page ends is appended, and the page shows the log
\* up to its new end.
LEMMA PageGoesOn ==
  ASSUME NEW L \in SUBSET Sequence, NEW after \in L \cup {-1},
         NEW T \in SUBSET {s \in L : s > after}, T # {},
         Beginning(T, {s \in L : s > after})
  PROVE  /\ Last(Sorted(T)) > after
         /\ Sorted({s \in L : s <= after}) \o Sorted(T)
              = Sorted({s \in L : s <= Last(Sorted(T))})
<1>. DEFINE last == Last(Sorted(T))
            shown == {s \in L : s <= after}
<1>1. L \in SUBSET Nat /\ after \in Int
  <2>1. L \in SUBSET Nat
    BY LogsAreFinite
  <2>. QED
    BY <2>1
<1>2. T \in SUBSET Sequence /\ shown \in SUBSET Sequence
  OBVIOUS
<1>3. /\ T \in SUBSET Nat /\ IsFiniteSet(T)
      /\ shown \in SUBSET Nat /\ IsFiniteSet(shown)
  BY <1>2, LogsAreFinite
<1>4. last \in T /\ \A t \in T : t <= last
  BY <1>3, SortedInOrder
<1>5. last > after /\ last \in Nat
  BY <1>3, <1>4
<1>6. \A s \in shown, t \in T : s < t
  BY <1>1, <1>3
<1>7. Sorted(shown) \o Sorted(T) = Sorted(shown \cup T)
  BY <1>3, <1>6, SortedConcat
<1>8. ASSUME NEW s \in L
      PROVE  s <= last <=> s \in shown \cup T
  <2>1. s \in Nat
    BY <1>1
  <2>2. CASE s <= after
    BY <1>1, <1>5, <2>1, <2>2
  <2>3. CASE s > after
    <3>1. s < last => s \in T
      BY <1>4, <2>3 DEF Beginning
    <3>2. s = last => s \in T
      BY <1>4
    <3>3. s \in T => s <= last
      BY <1>4
    <3>4. s \notin shown
      BY <1>1, <2>1, <2>3
    <3>. QED
      BY <1>5, <2>1, <3>1, <3>2, <3>3, <3>4
  <2>. QED
    BY <1>1, <2>1, <2>2, <2>3
<1>9. {s \in L : s <= last} = shown \cup T
  <2>1. shown \cup T \subseteq L
    OBVIOUS
  <2>. HIDE DEF shown, last
  <2>. QED
    BY <1>8, <2>1
<1>. QED
  BY <1>5, <1>7, <1>9

\* The events of a sequence and of one that is appended.
LEMMA RangeConcat ==
  ASSUME NEW S, NEW p \in Seq(S), NEW q \in Seq(S)
  PROVE  Range(p \o q) \subseteq Range(p) \cup Range(q)
<1>1. /\ p \o q \in Seq(S) /\ Len(p \o q) = Len(p) + Len(q)
      /\ \A i \in 1 .. Len(p) + Len(q) :
           (p \o q)[i] = IF i <= Len(p) THEN p[i] ELSE q[i - Len(p)]
  BY ConcatProperties
<1>2. Len(p) \in Nat /\ Len(q) \in Nat /\ DOMAIN p = 1 .. Len(p) /\ DOMAIN q = 1 .. Len(q)
  OBVIOUS
<1>3. ASSUME NEW i \in 1 .. Len(p) + Len(q)
      PROVE  (p \o q)[i] \in Range(p) \cup Range(q)
  <2>1. CASE i <= Len(p)
    <3>1. i \in DOMAIN p /\ (p \o q)[i] = p[i]
      BY <1>1, <1>2, <2>1
    <3>. QED
      BY <3>1 DEF Range
  <2>2. CASE i > Len(p)
    <3>1. i - Len(p) \in DOMAIN q /\ (p \o q)[i] = q[i - Len(p)]
      BY <1>1, <1>2, <2>2
    <3>. QED
      BY <3>1 DEF Range
  <2>. QED
    BY <1>2, <2>1, <2>2
<1>4. DOMAIN (p \o q) = 1 .. Len(p) + Len(q)
  BY <1>1, <1>2
<1>. QED
  BY <1>3, <1>4 DEF Range

LEMMA LastInRange ==
  ASSUME NEW S, NEW q \in Seq(S), q # <<>>
  PROVE  Last(q) \in Range(q) /\ Last(q) \in S
<1>1. Len(q) \in 1 .. Len(q) /\ DOMAIN q = 1 .. Len(q)
  BY EmptySeq
<1>. QED
  BY <1>1 DEF Last, Range

LEMMA ReceiveStep ==
  ASSUME ViewInv, NEW r \in Reader, Receive(r)
  PROVE  ViewInv'
<1>. DEFINE answer == readers[r].answer
            events == page.events \o answer.events
            last == Last(answer.events)
            after == IF answer.events = <<>> THEN page.after
                     ELSE IF last > page.after THEN last ELSE page.after
            L == log[page.job]
<1>1. /\ page \in PageRecord /\ readers \in [Reader -> ReaderRecord]
      /\ failures \in 0 .. MaxFailures /\ ReaderOK(r) /\ ServingOK(r) /\ PageInv
      /\ readers[r].step = "served" /\ log' = log /\ state' = state /\ failures' = failures
  BY ViewTypes DEF ViewInv, Receive, logVars
<1>2. CASE ~Serves(r)
  <2>1. readers' = End(r) /\ page' = page
    BY <1>2 DEF Receive
  <2>. QED
    BY <1>1, <2>1, ReaderRests DEF Receive
<1>3. CASE Serves(r)
  <2>1. /\ page.job \in Job /\ page.job # NoJob /\ readers[r].job = page.job
        /\ state[page.job] # "absent" /\ page.after \in L \cup {-1}
        /\ Range(page.events) \subseteq L /\ Range(answer.events) \subseteq L
        /\ ~page.cameBack => page.events = Sorted({s \in L : s <= page.after})
    BY <1>1, <1>3 DEF Serves, ReaderOK, PageInv, PageRecord
  <2>2. /\ answer \in Answer /\ answer.state \in State /\ answer.events \in Seq(Sequence)
        /\ page.events \in Seq(Sequence) /\ page.after \in -1 .. Final
    BY <1>1 DEF ReaderRecord, Answer, PageRecord
  <2>3. /\ events \in Seq(Sequence) /\ Range(events) \subseteq L
    BY <2>1, <2>2, RangeConcat
  <2>4. after \in L \cup {-1} /\ after \in -1 .. Final
    <3>1. CASE answer.events = <<>>
      BY <2>1, <2>2, <3>1
    <3>2. CASE answer.events # <<>>
      <4>1. last \in L /\ last \in Sequence
        BY <2>1, <2>2, <3>2, LastInRange
      <4>2. last \in -1 .. Final
        BY <4>1, FinalIsLast DEF Sequence
      <4>. HIDE DEF last
      <4>. QED
        BY <2>1, <2>2, <3>2, <4>1, <4>2
    <3>. QED
      BY <3>1, <3>2
  <2>5. /\ page' \in PageRecord /\ page'.job = page.job /\ page'.after = after
        /\ page'.events = events /\ page'.login = page.login
        /\ page'.watches = page.watches /\ page'.cameBack = page.cameBack
    <3>1. page' = [page EXCEPT !.state = answer.state, !.events = events, !.after = after,
                               !.timer = IF GoesOn(answer) THEN r ELSE page.timer]
      BY <1>1, <1>3 DEF Receive, Painted
    <3>. HIDE DEF answer, events, after
    <3>. QED
      BY <1>1, <2>2, <2>3, <2>4, <3>1 DEF PageRecord
  <2>6. /\ readers' \in [Reader -> ReaderRecord]
        /\ \A q \in Reader : q # r => readers'[q] = readers[q]
        /\ \/ readers'[r] = Gone
           \/ /\ readers'[r].job = page.job /\ readers'[r].step = "waits"
              /\ readers'[r].login = readers[r].login /\ readers'[r].answer = NoAnswer
    <3>1. -1 \in -1 .. Final /\ NoAnswer \in Answer /\ Gone \in ReaderRecord
      BY FinalIsLast, Records
    <3>2. CASE readers' = Wait(r)
      <4>. DEFINE record == [readers[r] EXCEPT !.step = "waits", !.from = -1, !.answer = NoAnswer]
      <4>1. /\ record \in ReaderRecord /\ record.job = readers[r].job /\ record.step = "waits"
            /\ record.login = readers[r].login /\ record.answer = NoAnswer
        BY <1>1, <3>1 DEF ReaderRecord
      <4>2. readers' = [readers EXCEPT ![r] = record]
        BY <3>2 DEF Wait
      <4>. HIDE DEF record
      <4>. QED
        BY <1>1, <2>1, <4>1, <4>2
    <3>3. CASE readers' = End(r)
      BY <1>1, <3>1, <3>3 DEF End
    <3>. QED
      BY <1>3, <3>2, <3>3 DEF Receive
  <2>7. ViewTypeOK'
    BY <1>1, <2>5, <2>6, ViewTypes DEF ViewTypeOK, PageRecord, ReaderRecord, LogTypeOK
  <2>8. PageInv'
    <3>1. ASSUME ~page.cameBack
          PROVE  events = Sorted({s \in L : s <= after})
      <4>1. PICK T \in SUBSET Rest : Beginning(T, Rest) /\ answer.events = Sorted(T)
        BY <1>1, <1>3, <2>1, <3>1 DEF ServingOK
      <4>2. CASE T = {}
        <5>1. answer.events = <<>>
          BY <4>1, <4>2, SortedEmpty
        <5>2. events = page.events
          BY <2>2, <5>1, ConcatEmptySeq
        <5>. QED
          BY <2>1, <3>1, <5>1, <5>2
      <4>3. CASE T # {}
        <5>1. L \in SUBSET Sequence
          BY <2>1, ViewTypes
        <5>2. T \in SUBSET Nat /\ IsFiniteSet(T)
          <6>1. T \in SUBSET Sequence
            BY <5>1 DEF Rest
          <6>. QED
            BY <6>1, LogsAreFinite
        <5>3. answer.events # <<>>
          BY <4>1, <4>3, <5>2, SortedInOrder
        <5>4. /\ last > page.after
              /\ Sorted({s \in L : s <= page.after}) \o Sorted(T)
                   = Sorted({s \in L : s <= last})
          <6>1. Rest = {s \in L : s > page.after}
            BY DEF Rest
          <6>2. /\ T \in SUBSET {s \in L : s > page.after}
                /\ Beginning(T, {s \in L : s > page.after})
            BY <4>1, <6>1
          <6>3. /\ Last(Sorted(T)) > page.after
                /\ Sorted({s \in L : s <= page.after}) \o Sorted(T)
                     = Sorted({s \in L : s <= Last(Sorted(T))})
            BY <2>1, <4>3, <5>1, <6>2, PageGoesOn
          <6>. QED
            BY <4>1, <6>3
        <5>5. after = last
          BY <5>3, <5>4
        <5>. QED
          BY <2>1, <3>1, <4>1, <5>4, <5>5
      <4>. QED
        BY <4>2, <4>3
    <3>. HIDE DEF after, events
    <3>. QED
      BY <1>1, <2>1, <2>3, <2>4, <2>5, <3>1 DEF PageInv
  <2>9. ASSUME NEW q \in Reader
        PROVE  ReaderOK(q)' /\ ServingOK(q)'
    <3>1. CASE q = r
      <4>1. ReaderOK(r)'
        BY <1>1, <2>1, <2>6, Records DEF ReaderOK
      <4>2. ServingOK(r)'
        <5>1. CASE readers'[r] = Gone
          BY <5>1, Records DEF ServingOK, Serves
        <5>2. CASE readers'[r].step = "waits" /\ readers'[r].login = readers[r].login
          BY <1>1, <1>3, <2>1, <2>5, <5>2 DEF ServingOK, Serves
        <5>. QED
          BY <2>6, <5>1, <5>2
      <4>. QED
        BY <3>1, <4>1, <4>2
    <3>2. CASE q # r
      <4>1. readers'[q] = readers[q] /\ ReaderOK(q) /\ ServingOK(q)
        BY <2>6, <3>2 DEF ViewInv
      <4>2. ReaderOK(q)'
        BY <1>1, <4>1 DEF ReaderOK
      <4>3. ServingOK(q)'
        <5>1. ~page.cameBack => r = page.watches
          BY <1>1, <1>3, <2>1 DEF ServingOK
        <5>2. ~page.cameBack /\ Serves(q) => q = page.watches
          BY <2>1, <4>1 DEF ServingOK
        <5>. QED
          BY <2>5, <3>2, <4>1, <5>1, <5>2 DEF ServingOK, Serves
      <4>. QED
        BY <4>2, <4>3
    <3>. QED
      BY <3>1, <3>2
  <2>. QED
    BY <2>7, <2>8, <2>9 DEF ViewInv
<1>. QED
  BY <1>2, <1>3

-------------------------------------------------------------------------------
(* Where the page stops *)

\* The page has a reader for its job, or it was told that the job is interrupted, or the
\* job is over and the page shows its outcome and the whole log: however calls fail and
\* answers are overtaken, readProgress does not give up a job before.  This is what
\* PanelSettles says of safety.
PageStopsWithJob ==
  page.job # NoJob /\ ~page.cameBack =>
    \/ \E r \in Reader : Serves(r)
    \/ page.state = "interrupted"
    \/ /\ page.state \in Ended /\ page.state = state[page.job]
       /\ page.events = Sorted(log[page.job])

\* An answer that has an outcome has the outcome of the job, and if it is the last one,
\* all the page has not shown.
AnswerOK(r) ==
  readers[r].step = "served" =>
    LET answer == readers[r].answer
    IN /\ answer.state # "absent"
       /\ answer.state \in Ended => state[readers[r].job] = answer.state
       /\ page.job # NoJob /\ ~page.cameBack /\ Serves(r) =>
            (answer.state \in Ended /\ ~answer.more => Rest \subseteq Range(answer.events))

OutcomeInv == page.job # NoJob /\ page.state \in Ended => page.state = state[page.job]

StopInv == PageStopsWithJob /\ OutcomeInv /\ \A r \in Reader : AnswerOK(r)

LEMMA OverStays ==
  ASSUME LogTypeOK, LogNext, NEW j \in Job, state[j] \in Ended
  PROVE  state'[j] = state[j] /\ log'[j] = log[j]
<1>1. state[j] \notin {"absent", "queued", "running", "interrupted"}
  BY DEF Ended
<1>. QED
  BY <1>1 DEF LogTypeOK, LogNext, Open, Change, Extend, Close, Resolve, Held

LEMMA StopLogStep ==
  ASSUME ViewInv, StopInv, LogNext, UNCHANGED <<page, readers, failures>>
  PROVE  StopInv'
<1>. LogTypeOK /\ page \in PageRecord /\ readers \in [Reader -> ReaderRecord]
  BY ViewTypes
<1>1. OutcomeInv'
  BY OverStays DEF StopInv, OutcomeInv, PageRecord
<1>2. PageStopsWithJob'
  <2>. SUFFICES ASSUME page.job # NoJob, ~page.cameBack, ~(\E r \in Reader : Serves(r)),
                       page.state # "interrupted"
                PROVE  PageStopsWithJob'
    BY DEF PageStopsWithJob, Serves
  <2>1. /\ page.job \in Job /\ page.state \in Ended /\ page.state = state[page.job]
        /\ page.events = Sorted(log[page.job])
    BY DEF StopInv, PageStopsWithJob, PageRecord
  <2>2. state'[page.job] = state[page.job] /\ log'[page.job] = log[page.job]
    BY <2>1, OverStays
  <2>. QED
    BY <2>1, <2>2 DEF PageStopsWithJob
<1>3. ASSUME NEW r \in Reader
      PROVE  AnswerOK(r)'
  <2>. SUFFICES ASSUME readers[r].step = "served"
                PROVE  AnswerOK(r)'
    BY DEF AnswerOK
  <2>. DEFINE answer == readers[r].answer
              j == readers[r].job
  <2>1. AnswerOK(r) /\ ReaderOK(r) /\ j \in Job
    BY DEF ViewInv, StopInv, ReaderOK, ReaderRecord
  <2>2. CASE answer.state \notin Ended
    BY <2>1, <2>2 DEF AnswerOK
  <2>3. CASE answer.state \in Ended
    <3>1. state'[j] = state[j] /\ log'[j] = log[j] /\ state[j] = answer.state
      BY <2>1, <2>3, OverStays DEF AnswerOK
    <3>2. Serves(r) => Rest' = Rest
      BY <3>1 DEF Serves, Rest
    <3>. QED
      BY <2>1, <3>1, <3>2 DEF AnswerOK, Serves
  <2>. QED
    BY <2>2, <2>3
<1>. QED
  BY <1>1, <1>2, <1>3 DEF StopInv

LEMMA StopClears ==
  ASSUME ViewInv, StopInv, UNCHANGED logVars, readers' = Cleared, page'.job = NoJob
  PROVE  StopInv'
<1>1. state' = state
  BY DEF logVars
<1>2. ASSUME NEW r \in Reader
      PROVE  AnswerOK(r)'
  <2>1. AnswerOK(r) /\ (readers'[r] = readers[r] \/ readers'[r] = Gone)
    BY ClearedReaders DEF StopInv
  <2>. QED
    BY <1>1, <2>1, Records DEF AnswerOK
<1>. QED
  BY <1>2 DEF StopInv, PageStopsWithJob, OutcomeInv

LEMMA StopWatch ==
  ASSUME ViewInv, StopInv, ViewInv', NEW j \in Job, WatchProgress(j)
  PROVE  StopInv'
<1>. DEFINE w == page.watches + 1
            back == \E q \in Reader : Cleared[q].job = j /\ Cleared[q].login = page.login
            first == [Gone EXCEPT !.job = j, !.login = page.login, !.step = "asked"]
<1>1. /\ page' = [ClearedPage EXCEPT !.job = j, !.state = state[j], !.watches = w,
                                     !.cameBack = back]
      /\ readers' = [Cleared EXCEPT ![w] = first]
      /\ state' = state /\ log' = log
  BY DEF WatchProgress, logVars
<1>2. /\ page'.job = j /\ page'.state = state[j] /\ page'.login = page.login
      /\ page'.watches = w
  <2>. HIDE DEF back
  <2>. QED
    BY <1>1, ClearedPageType DEF PageRecord
<1>3. w \in Reader /\ first.job = j /\ first.login = page.login /\ first.step = "asked"
  <2>1. page \in PageRecord /\ Gone \in ReaderRecord
    BY ViewTypes, Records
  <2>2. w \in Reader
    BY <2>1 DEF WatchProgress, PageRecord, Reader, ViewAssumption
  <2>. QED
    BY <2>1, <2>2 DEF ReaderRecord
<1>4. /\ readers'[w] = first
      /\ \A r \in Reader : r # w => readers'[r] = readers[r] \/ readers'[r] = Gone
  <2>. HIDE DEF first
  <2>. QED
    BY <1>1, <1>3, ClearedReaders
<1>5. PageStopsWithJob'
  <2>1. \E r \in Reader : readers'[r].job = page'.job /\ readers'[r].login = page'.login
    BY <1>2, <1>3, <1>4
  <2>. QED
    BY <2>1 DEF PageStopsWithJob, Serves
<1>6. ASSUME NEW r \in Reader
      PROVE  AnswerOK(r)'
  <2>1. CASE r = w
    BY <1>3, <1>4, <2>1 DEF AnswerOK
  <2>2. CASE r # w
    <3>1. AnswerOK(r) /\ (readers'[r] = readers[r] \/ readers'[r] = Gone)
      BY <1>4, <2>2 DEF StopInv
    <3>2. ServingOK(r)'
      BY DEF ViewInv
    <3>3. ~(page'.job # NoJob /\ ~page'.cameBack /\ Serves(r)')
      BY <1>2, <2>2, <3>2 DEF ServingOK
    <3>. QED
      BY <1>1, <3>1, <3>3, Records DEF AnswerOK
  <2>. QED
    BY <2>1, <2>2
<1>. QED
  BY <1>1, <1>2, <1>5, <1>6 DEF StopInv, OutcomeInv

\* One reader moves, goes on serving the page if it did, and the page shows what it did.
LEMMA StopReaderMoves ==
  ASSUME ViewInv, StopInv, NEW r \in Reader, UNCHANGED logVars,
         \A q \in Reader : q # r => readers'[q] = readers[q],
         page'.job = page.job, page'.state = page.state, page'.after = page.after,
         page'.events = page.events, page'.login = page.login,
         page'.cameBack = page.cameBack,
         page.job # NoJob /\ Serves(r) => Serves(r)',
         AnswerOK(r)'
  PROVE  StopInv'
<1>1. log' = log /\ state' = state
  BY DEF logVars
<1>2. ASSUME NEW q \in Reader, q # r
      PROVE  AnswerOK(q)'
  <2>1. AnswerOK(q) /\ readers'[q] = readers[q] /\ Rest' = Rest /\ Serves(q)' = Serves(q)
    BY <1>1, <1>2 DEF StopInv, Rest, Serves
  <2>. QED
    BY <1>1, <2>1 DEF AnswerOK
<1>3. page.job # NoJob => \A q \in Reader : Serves(q) => Serves(q)'
  BY <1>2 DEF Serves
<1>4. PageStopsWithJob'
  BY <1>1, <1>3 DEF StopInv, PageStopsWithJob
<1>. QED
  BY <1>1, <1>2, <1>4 DEF StopInv, OutcomeInv

LEMMA StopAsk ==
  ASSUME ViewInv, StopInv, NEW r \in Reader, Ask(r)
  PROVE  StopInv'
<1>1. page \in PageRecord /\ readers \in [Reader -> ReaderRecord]
  BY ViewTypes
<1>2. /\ page'.job = page.job /\ page'.state = page.state /\ page'.after = page.after
      /\ page'.events = page.events /\ page'.login = page.login
      /\ page'.cameBack = page.cameBack
  BY <1>1 DEF Ask, PageRecord
<1>3. /\ readers'[r].step = "asked" /\ readers'[r].job = readers[r].job
      /\ readers'[r].login = readers[r].login
      /\ \A q \in Reader : q # r => readers'[q] = readers[q]
  BY <1>1 DEF Ask, ReaderRecord
<1>4. AnswerOK(r)' /\ (Serves(r) => Serves(r)')
  BY <1>2, <1>3 DEF AnswerOK, Serves
<1>. QED
  BY <1>2, <1>3, <1>4, StopReaderMoves DEF Ask

\* A page of the log that leaves nothing is all there is to read.
LEMMA LastPageIsRest ==
  ASSUME NEW S \in SUBSET Nat, IsFiniteSet(S), NEW n \in Nat, ~(Cardinality(S) > n)
  PROVE  First(n, S) = S
<1>1. Cardinality(S) \in Nat /\ Cardinality(S) <= n
  BY FS_CardinalityType
<1>2. ASSUME NEW s \in S
      PROVE  Rank(s, S) < n
  <2>1. Rank(s, S) \in 0 .. Cardinality(S) - 1
    BY RankRange
  <2>. QED
    BY <1>1, <2>1
<1>. QED
  BY <1>2 DEF First

LEMMA StopServe ==
  ASSUME ViewInv, StopInv, NEW r \in Reader, Serve(r)
  PROVE  StopInv'
<1>. DEFINE j == readers[r].job
            after == readers[r].from
            answer == Progress(j, after)
            rest == {s \in log[j] : s > after}
<1>1. /\ readers \in [Reader -> ReaderRecord] /\ ReaderOK(r) /\ ServingOK(r)
      /\ page' = page /\ log' = log /\ state' = state /\ readers[r].step = "asked"
  BY ViewTypes DEF ViewInv, Serve, logVars
<1>2. j \in Job /\ after \in -1 .. Final /\ state[j] # "absent"
  BY <1>1, Records DEF ReaderOK, ReaderRecord
<1>3. /\ answer.state = state[j] /\ answer.events = Sorted(First(PageSize, rest))
      /\ ~answer.more => ~(Cardinality(rest) > PageSize)
  BY DEF Progress
<1>4. rest \in SUBSET Nat /\ IsFiniteSet(rest) /\ PageSize \in Nat
  <2>1. rest \in SUBSET Sequence
    BY <1>2, ViewTypes
  <2>. QED
    BY <2>1, LogsAreFinite DEF ViewAssumption
<1>5. ~answer.more => Range(answer.events) = rest
  <2>. HIDE DEF rest
  <2>. QED
    BY <1>3, <1>4, LastPageIsRest, SortedInOrder
<1>6. /\ readers'[r].job = j /\ readers'[r].login = readers[r].login
      /\ readers'[r].answer = answer
      /\ \A q \in Reader : q # r => readers'[q] = readers[q]
  <2>. HIDE DEF answer
  <2>1. readers' = [readers EXCEPT ![r] = [readers[r] EXCEPT !.step = "served", !.from = -1,
                                                             !.answer = answer]]
    BY DEF Serve, answer
  <2>. QED
    BY <1>1, <2>1 DEF ReaderRecord
<1>7. Serves(r) /\ page.job # NoJob /\ ~page.cameBack => rest = Rest
  BY <1>1 DEF ServingOK, Serves, Rest
<1>. HIDE DEF answer, rest
<1>8. AnswerOK(r)'
  <2>1. Rest' = Rest
    BY <1>1 DEF Rest
  <2>2. page'.job # NoJob /\ ~page'.cameBack /\ Serves(r)' /\ ~answer.more
          => Rest \subseteq Range(answer.events)
    BY <1>1, <1>5, <1>6, <1>7 DEF Serves
  <2>. QED
    BY <1>1, <1>2, <1>3, <1>6, <2>1, <2>2 DEF AnswerOK
<1>9. (Serves(r) => Serves(r)') /\ UNCHANGED logVars
  BY <1>1, <1>6 DEF Serves, logVars
<1>. QED
  BY <1>1, <1>6, <1>8, <1>9, StopReaderMoves

\* A reader that waits again goes on; one that ends did not serve the page.
LEMMA StopRests ==
  ASSUME ViewInv, StopInv, NEW r \in Reader, UNCHANGED logVars,
         readers' = Wait(r) \/ (~Serves(r) /\ readers' = End(r)),
         page'.job = page.job, page'.state = page.state, page'.after = page.after,
         page'.events = page.events, page'.login = page.login,
         page'.cameBack = page.cameBack
  PROVE  StopInv'
<1>1. readers \in [Reader -> ReaderRecord]
  BY ViewTypes
<1>2. CASE readers' = Wait(r)
  <2>1. /\ readers'[r].step = "waits" /\ readers'[r].job = readers[r].job
        /\ readers'[r].login = readers[r].login
        /\ \A q \in Reader : q # r => readers'[q] = readers[q]
    BY <1>1, <1>2 DEF Wait, ReaderRecord
  <2>. QED
    BY <2>1, StopReaderMoves DEF AnswerOK, Serves
<1>3. CASE ~Serves(r) /\ readers' = End(r)
  <2>1. readers'[r] = Gone /\ \A q \in Reader : q # r => readers'[q] = readers[q]
    BY <1>1, <1>3 DEF End
  <2>. QED
    BY <1>3, <2>1, Records, StopReaderMoves DEF AnswerOK
<1>. QED
  BY <1>2, <1>3

LEMMA StopFail ==
  ASSUME ViewInv, StopInv, NEW r \in Reader, FailToRead(r)
  PROVE  StopInv'
<1>1. page \in PageRecord
  BY ViewTypes
<1>2. page' = page \/ page' = [page EXCEPT !.timer = r]
  BY DEF FailToRead
<1>3. /\ page'.job = page.job /\ page'.state = page.state /\ page'.after = page.after
      /\ page'.events = page.events /\ page'.login = page.login
      /\ page'.cameBack = page.cameBack
  BY <1>1, <1>2 DEF PageRecord
<1>4. (readers' = Wait(r) \/ (~Serves(r) /\ readers' = End(r))) /\ UNCHANGED logVars
  BY DEF FailToRead
<1>. QED
  BY <1>3, <1>4, StopRests

LEMMA StopReceive ==
  ASSUME ViewInv, StopInv, ViewInv', NEW r \in Reader, Receive(r)
  PROVE  StopInv'
<1>. DEFINE answer == readers[r].answer
            L == log[page.job]
<1>1. /\ page \in PageRecord /\ readers \in [Reader -> ReaderRecord]
      /\ ReaderOK(r) /\ ServingOK(r) /\ PageInv /\ AnswerOK(r)
      /\ readers[r].step = "served" /\ log' = log /\ state' = state
  BY ViewTypes DEF ViewInv, StopInv, Receive, logVars
<1>2. CASE ~Serves(r)
  BY <1>2, StopRests DEF Receive
<1>3. CASE Serves(r)
  <2>1. /\ page.job \in Job /\ page.job # NoJob /\ readers[r].job = page.job
        /\ answer \in Answer
    BY <1>1, <1>3 DEF Serves, ReaderOK, PageRecord, ReaderRecord
  <2>2. /\ page'.job = page.job /\ page'.state = answer.state /\ page'.login = page.login
        /\ page'.cameBack = page.cameBack
        /\ answer.events # <<>> =>
             page'.after = IF Last(answer.events) > page.after THEN Last(answer.events)
                           ELSE page.after
        /\ answer.events = <<>> => page'.after = page.after
    <3>1. page' = Painted(r)
      BY <1>3 DEF Receive
    <3>. QED
      BY <1>1, <3>1 DEF Painted, PageRecord
  <2>3. /\ readers' = (IF GoesOn(answer) THEN Wait(r) ELSE End(r))
        /\ \A q \in Reader : q # r => readers'[q] = readers[q]
    BY <1>1, <1>3 DEF Receive, Wait, End
  <2>4. readers'[r].step # "served"
    BY <1>1, <2>3, Records DEF Wait, End, ReaderRecord
  <2>5. OutcomeInv'
    BY <1>1, <2>1, <2>2 DEF AnswerOK, OutcomeInv
  <2>6. PageStopsWithJob'
    <3>1. CASE GoesOn(answer)
      <4>1. readers'[r].job = readers[r].job /\ readers'[r].login = readers[r].login
        BY <1>1, <2>3, <3>1 DEF Wait, ReaderRecord
      <4>. QED
        BY <1>3, <2>2, <4>1 DEF PageStopsWithJob, Serves
    <3>2. CASE ~GoesOn(answer)
      <4>. SUFFICES ASSUME ~page.cameBack, answer.state # "interrupted"
                    PROVE  PageStopsWithJob'
        BY <2>2 DEF PageStopsWithJob
      <4>1. ~answer.more /\ answer.state \in Ended /\ answer.state = state[page.job]
        BY <1>1, <2>1, <3>2 DEF GoesOn, AnswerOK, Answer, State, Held
      <4>2. PICK T \in SUBSET Rest : Beginning(T, Rest) /\ answer.events = Sorted(T)
        BY <1>1, <1>3, <2>1 DEF ServingOK
      <4>3. L \in SUBSET Sequence /\ L \in SUBSET Nat /\ page.after \in Int
        <5>1. L \in SUBSET Sequence
          BY <2>1, ViewTypes
        <5>2. page.after \in -1 .. Final
          BY <1>1 DEF PageRecord
        <5>. QED
          BY <5>1, <5>2, LogsAreFinite
      <4>4. T \in SUBSET Nat /\ IsFiniteSet(T) /\ Range(answer.events) = T
        <5>1. T \in SUBSET Sequence
          BY <4>3 DEF Rest
        <5>. QED
          BY <4>2, <5>1, LogsAreFinite, SortedInOrder
      <4>5. T = Rest
        BY <1>1, <1>3, <2>1, <4>1, <4>4 DEF AnswerOK
      <4>6. \A s \in L : s <= page'.after
        <5>1. CASE T = {}
          <6>1. page'.after = page.after
            BY <2>2, <4>2, <5>1, SortedEmpty
          <6>2. \A s \in L : ~(s > page.after)
            BY <4>5, <5>1 DEF Rest
          <6>. QED
            BY <4>3, <6>1, <6>2
        <5>2. CASE T # {}
          <6>1. /\ answer.events # <<>> /\ Last(answer.events) \in T
                /\ \A s \in T : s <= Last(answer.events)
            BY <4>2, <4>4, <5>2, SortedInOrder
          <6>2. Last(answer.events) \in Nat /\ Last(answer.events) > page.after
            BY <4>4, <6>1 DEF Rest
          <6>3. page'.after = Last(answer.events)
            BY <2>2, <6>1, <6>2
          <6>4. ASSUME NEW s \in L
                PROVE  s <= Last(answer.events)
            <7>1. CASE s > page.after
              BY <4>5, <6>1, <7>1 DEF Rest
            <7>2. CASE ~(s > page.after)
              <8>1. s \in Int
                BY <4>3
              <8>. QED
                BY <4>3, <6>2, <7>2, <8>1
            <7>. QED
              BY <7>1, <7>2
          <6>. QED
            BY <6>3, <6>4
        <5>. QED
          BY <5>1, <5>2
      <4>7. {s \in log'[page'.job] : s <= page'.after} = L
        BY <1>1, <2>2, <4>6
      <4>8. page'.events = Sorted(L)
        BY <2>1, <2>2, <4>7 DEF ViewInv, PageInv
      <4>. QED
        BY <1>1, <2>2, <4>1, <4>8 DEF PageStopsWithJob
    <3>. QED
      BY <3>1, <3>2
  <2>7. ASSUME NEW q \in Reader
        PROVE  AnswerOK(q)'
    <3>1. CASE q = r
      BY <2>4, <3>1 DEF AnswerOK
    <3>2. CASE q # r
      <4>1. readers'[q] = readers[q] /\ AnswerOK(q) /\ ServingOK(q)
        BY <2>3, <3>2 DEF ViewInv, StopInv
      <4>2. ~page.cameBack => ~Serves(q)
        BY <1>1, <1>3, <2>1, <3>2, <4>1 DEF ServingOK
      <4>. QED
        BY <1>1, <2>2, <4>1, <4>2 DEF AnswerOK, Serves
    <3>. QED
      BY <3>1, <3>2
  <2>. QED
    BY <2>5, <2>6, <2>7 DEF StopInv
<1>. QED
  BY <1>2, <1>3

-------------------------------------------------------------------------------
(* The theorems *)

LEMMA ViewStart ==
  ASSUME Init
  PROVE  ViewInv
<1>1. Gone \in ReaderRecord /\ Gone.job = NoJob /\ Gone.step = "gone"
  BY Records
<1>2. LogTypeOK
  BY DEF Init, LogInit, LogTypeOK, State
<1>3. page \in PageRecord /\ page.job = NoJob
  <2>1. /\ <<>> \in Seq(Sequence) /\ -1 \in -1 .. Final
        /\ 1 \in 1 .. MaxLogins /\ 0 \in 0 .. MaxWatches
    BY FinalIsLast DEF ViewAssumption
  <2>. QED
    BY <2>1 DEF Init, PageRecord, State
<1>4. readers \in [Reader -> ReaderRecord] /\ \A r \in Reader : readers[r] = Gone
  BY <1>1 DEF Init
<1>5. ViewTypeOK
  BY <1>2, <1>3, <1>4 DEF Init, ViewTypeOK, PageRecord, ReaderRecord, ViewAssumption
<1>6. \A r \in Reader : ReaderOK(r) /\ ServingOK(r)
  BY <1>1, <1>3, <1>4 DEF ReaderOK, ServingOK
<1>. QED
  BY <1>3, <1>5, <1>6 DEF ViewInv, PageInv

LEMMA ViewStep ==
  ASSUME ViewInv, [Next]_vars
  PROVE  ViewInv'
<1>1. CASE LogNext /\ UNCHANGED <<page, readers, failures>>
  BY <1>1, LogStep
<1>2. ASSUME NEW j \in Job, WatchProgress(j)
      PROVE  ViewInv'
  BY <1>2, WatchStep
<1>3. CASE WatchNothing
  BY <1>3, WatchNothingStep
<1>4. CASE Disconnect
  BY <1>4, DisconnectStep
<1>5. ASSUME NEW r \in Reader, ReaderStep(r) \/ FailToRead(r)
      PROVE  ViewInv'
  BY <1>5, AskStep, ServeStep, ReceiveStep, FailToReadStep DEF ReaderStep
<1>6. CASE UNCHANGED vars
  <2>. /\ state' = state /\ log' = log /\ page' = page
       /\ readers' = readers /\ failures' = failures
    BY <1>6 DEF vars, logVars
  <2>1. ViewTypeOK' /\ PageInv'
    BY DEF ViewInv, ViewTypeOK, LogTypeOK, PageInv
  <2>2. ASSUME NEW r \in Reader
        PROVE  ReaderOK(r)' /\ ServingOK(r)'
    <3>1. ReaderOK(r) /\ ServingOK(r) /\ Rest' = Rest /\ (Serves(r)' <=> Serves(r))
      BY DEF ViewInv, Rest, Serves
    <3>. QED
      BY <3>1 DEF ReaderOK, ServingOK
  <2>. QED
    BY <2>1, <2>2 DEF ViewInv
<1>. QED
  BY <1>1, <1>2, <1>3, <1>4, <1>5, <1>6 DEF Next, PageStep

LEMMA ViewIsInvariant == Spec => []ViewInv
<1>1. Init => ViewInv
  BY ViewStart
<1>2. ViewInv /\ [Next]_vars => ViewInv'
  BY ViewStep
<1>. QED
  BY <1>1, <1>2, PTL DEF Spec

\* Whatever is read, in whatever order answers come, page and readers hold what the
\* code of the portal expects: the cursor stays a number of the log or -1.
THEOREM ViewTypeCorrect == Spec => []ViewTypeOK
<1>1. ViewInv => ViewTypeOK
  BY DEF ViewInv
<1>. QED
  BY <1>1, ViewIsInvariant, PTL

\* readProgress shows the log of the watched job up to its cursor, in order and each
\* event once, with any number of readers of other jobs and earlier logins on their way
\* and however the log grows meanwhile.
THEOREM PageIsPrefix == Spec => []PageShowsPrefix
<1>1. ViewInv => PageShowsPrefix
  BY DEF ViewInv, PageInv, PageShowsPrefix
<1>. QED
  BY <1>1, ViewIsInvariant, PTL

LEMMA StopStep ==
  ASSUME ViewInv, StopInv, [Next]_vars
  PROVE  StopInv'
<1>0. ViewInv'
  BY ViewStep
<1>1. CASE LogNext /\ UNCHANGED <<page, readers, failures>>
  BY <1>1, StopLogStep
<1>2. ASSUME NEW j \in Job, WatchProgress(j)
      PROVE  StopInv'
  BY <1>0, <1>2, StopWatch
<1>3. CASE WatchNothing
  BY <1>3, ClearedPageType, StopClears DEF WatchNothing
<1>4. CASE Disconnect
  <2>1. page'.job = NoJob
    BY <1>4, ClearedPageType DEF Disconnect, PageRecord
  <2>. QED
    BY <1>4, <2>1, StopClears DEF Disconnect
<1>5. ASSUME NEW r \in Reader, ReaderStep(r) \/ FailToRead(r)
      PROVE  StopInv'
  BY <1>0, <1>5, StopAsk, StopServe, StopReceive, StopFail DEF ReaderStep
<1>6. CASE UNCHANGED vars
  <2>. state' = state /\ log' = log /\ page' = page /\ readers' = readers
    BY <1>6 DEF vars, logVars
  <2>1. \A r \in Reader : AnswerOK(r) => AnswerOK(r)'
    BY DEF AnswerOK, Serves, Rest
  <2>2. PageStopsWithJob' /\ OutcomeInv'
    BY DEF StopInv, PageStopsWithJob, OutcomeInv, Serves
  <2>. QED
    BY <2>1, <2>2 DEF StopInv
<1>. QED
  BY <1>1, <1>2, <1>3, <1>4, <1>5, <1>6 DEF Next, PageStep

\* The chain of calls and timers of readProgress for a watched job ends at an interruption
\* or with the outcome and the whole log on the page, never for a failed call, an answer
\* with more to come or what other readers bring.
THEOREM PageReadsToTheEnd == Spec => []PageStopsWithJob
<1>1. Init => StopInv
  <2>1. ASSUME Init
        PROVE  StopInv
    <3>1. page.job = NoJob /\ \A r \in Reader : readers[r].step = "gone"
      BY <2>1, Records DEF Init
    <3>. QED
      BY <3>1 DEF StopInv, PageStopsWithJob, OutcomeInv, AnswerOK
  <2>. QED
    BY <2>1
<1>2. ViewInv /\ StopInv /\ [Next]_vars => StopInv'
  BY StopStep
<1>3. StopInv => PageStopsWithJob
  BY DEF StopInv
<1>. QED
  BY <1>1, <1>2, <1>3, ViewIsInvariant, PTL DEF Spec
===============================================================================
