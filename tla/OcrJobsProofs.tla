--------------------------- MODULE OcrJobsProofs ---------------------------
(***************************************************************************)
(* Proofs about OcrJobs for every document, concurrency and timing.        *)
(***************************************************************************)
EXTENDS OcrJobs, FiniteSetTheorems, WellFoundedInduction, TLAPS

Stages == Active \cup Ended \cup {"none"}
Held == {b \in Contents : task[b] \in Active}

Permits ==
  /\ task \in [Calls -> Stages] /\ permits \in Nat
  /\ permits + Cardinality(Held) <= Concurrency

(* The set of tasks is finite.                                             *)
LEMMA HeldFinite == IsFiniteSet(Held) /\ Cardinality(Held) \in Nat
  BY OcrAssumption, FS_Subset, FS_CardinalityType DEF Held

(* A task that ends gives its permit back and holds none.                  *)
LEMMA EndKeepsPermits ==
  ASSUME Permits, NEW b \in Calls, task[b] \in Active, NEW result \in Ended, End(b, result)
  PROVE  Permits'
  <1>1. task' = [task EXCEPT ![b] = result] /\ result \notin Active
    BY DEF End, Ended, Active, Recognizing, Requesting
  <1>2. task' \in [Calls -> Stages]
    BY <1>1 DEF Permits, Stages
  <1>3. CASE b = Document
    <2>1. Held' = Held /\ permits' = permits
      BY <1>1, <1>3, OcrAssumption DEF Held, Permits, Calls, End, Release
    <2> QED BY <1>2, <2>1 DEF Permits
  <1>4. CASE b \in Contents
    <2>1. Held' = Held \ {b} /\ b \in Held /\ permits' = permits + 1
      BY <1>1, <1>4, OcrAssumption DEF Held, Permits, Calls, End, Release
    <2>2. Cardinality(Held') = Cardinality(Held) - 1
      BY <2>1, HeldFinite, FS_RemoveElement
    <2> QED BY <1>2, <2>1, <2>2, HeldFinite, OcrAssumption DEF Permits
  <1> QED BY <1>3, <1>4 DEF Calls

(* A task that goes on keeps its permit.                                   *)
LEMMA GotoKeepsPermits ==
  ASSUME Permits, NEW b \in Calls, task[b] \in Active, NEW at \in Active, NEW ticks,
         Goto(b, at, ticks)
  PROVE  Permits'
  <1>1. Held' = Held /\ permits' = permits /\ task' \in [Calls -> Stages]
    BY DEF Goto, Held, Permits, Calls, Stages
  <1> QED BY <1>1 DEF Permits

(* Spawning a task turns one free permit into one held by the task. *)
LEMMA SpawnKeepsPermits == Permits /\ Spawn => Permits'
  <1> SUFFICES ASSUME Permits, Spawn PROVE Permits'
    OBVIOUS
  <1> DEFINE b == Head(queue)
  <1>1. task' = [task EXCEPT ![b] = "prepare"] /\ permits' = permits - 1 /\ permits > 0
    BY DEF Spawn, Taken
  <1> HIDE DEF b
  <1>2a. task' \in [Calls -> Stages]
    BY <1>1 DEF Permits, Stages, Active
  <1>2b. permits' \in Nat
    BY <1>1 DEF Permits
  <1>3. Held' \subseteq Held \cup {b}
    BY <1>1 DEF Held, Permits, Calls
  <1>4. IsFiniteSet(Held \cup {b}) /\ Cardinality(Held \cup {b}) <= Cardinality(Held) + 1
    BY HeldFinite, FS_AddElement
  <1>5. Cardinality(Held') <= Cardinality(Held \cup {b}) /\ Cardinality(Held') \in Nat
    BY <1>3, <1>4, FS_Subset, FS_CardinalityType
  <1>6. Cardinality(Held \cup {b}) \in Nat
    BY <1>4, FS_CardinalityType
  <1> QED BY <1>1, <1>2a, <1>2b, <1>4, <1>5, <1>6, HeldFinite, OcrAssumption DEF Permits

(* Whatever a call does next, by an answer, a timer or a panic.            *)
LEMMA CallKeepsPermits ==
  ASSUME Permits, NEW b \in Calls,
         \/ Prepared(b) \/ Panics(b) \/ Answers(b) \/ Capped(b) \/ Wakes(b) \/ TimesOut(b)
  PROVE  Permits'
  <1> USE EndKeepsPermits, GotoKeepsPermits DEF Active, Recognizing, Requesting, Ended
  <1>1. ASSUME task[b] \in Active, Poll(b) PROVE Permits'
    BY <1>1 DEF Poll
  <1>2. ASSUME task[b] \in Active, SubmitFails(b) PROVE Permits'
    BY <1>2 DEF SubmitFails
  <1>3. CASE Prepared(b)
    <2>1. CASE End(b, "failed")
      BY <1>3, <2>1 DEF Prepared
    <2>2. CASE task' = [task EXCEPT ![b] = "submit"] /\ UNCHANGED permits
      <3>1. Held' = Held /\ task' \in [Calls -> Stages]
        BY <1>3, <2>2 DEF Prepared, Held, Permits, Calls, Stages
      <3> QED BY <2>2, <3>1 DEF Permits
    <2> QED BY <1>3, <2>1, <2>2 DEF Prepared
  <1>4. CASE Panics(b)
    BY <1>4 DEF Panics
  <1>5. CASE Answers(b)
    BY <1>1, <1>2, <1>5 DEF Answers, Submitting, SubmitAccepted, SubmitRefused, Polling, Fetching
  <1>6. CASE Capped(b)
    BY <1>2, <1>6 DEF Capped, SubmitRefused
  <1>7. CASE Wakes(b)
    BY <1>1, <1>7 DEF Wakes
  <1>8. CASE TimesOut(b)
    BY <1>8 DEF TimesOut
  <1> QED BY <1>3, <1>4, <1>5, <1>6, <1>7, <1>8

(* At the start no task holds a permit. *)
LEMMA PermitsStart == Init => Permits
  <1> SUFFICES ASSUME Init PROVE Permits
    OBVIOUS
  <1>1. Held = {} /\ permits = Concurrency /\ task \in [Calls -> Stages]
    BY OcrAssumption DEF Init, Held, Stages, Active, Recognizing, Requesting, Calls
  <1> QED BY <1>1, FS_EmptySet, OcrAssumption DEF Permits

(* The permits are accounted for in every state.                           *)
LEMMA PermitsHold == Spec => []Permits
  <1>1. Permits /\ [Next]_vars => Permits'
    <2> SUFFICES ASSUME Permits, [Next]_vars PROVE Permits'
      OBVIOUS
    <2>1. CASE UNCHANGED <<permits, task>>
      BY <2>1 DEF Permits, Held
    <2>2. CASE Tick \/ UNCHANGED vars
      BY <2>1, <2>2 DEF Tick, vars
    <2> QED BY <2>2, SpawnKeepsPermits, CallKeepsPermits DEF Next
  <1> QED BY <1>1, PermitsStart, PTL DEF Spec

(* The semaphore accounts for every task: at most `Concurrency` images are *)
(* prepared or sent to the provider at a time, however their calls end.    *)
THEOREM InFlight == Spec => []InFlightBounded
  <1>1. Permits => InFlightBounded
    BY HeldFinite, OcrAssumption DEF Permits, InFlightBounded, Held
  <1> QED BY <1>1, PermitsHold, PTL

-----------------------------------------------------------------------------
(* Stages and submits.                                                     *)

Attempts == IF Retries > 1 THEN Retries ELSE 1

(* No call is past its last attempt.                                       *)
Counted ==
  /\ task \in [Calls -> Stages]
  /\ attempt \in [Calls -> Nat] /\ left \in [Calls -> Nat] /\ age \in [Calls -> Nat]
  /\ \A b \in Calls : attempt[b] \in 1..Attempts

(* The constants as the arithmetic below needs them. *)
LEMMA Parameters ==
  /\ Attempts \in Nat \ {0} /\ PerRequest \in Nat \ {0}
  /\ PollInterval \in Nat \ {0} /\ Backoff \in Nat \ {0}
  /\ Retries \in Nat /\ (Attempts = 1 \/ Attempts = Retries)
  BY OcrAssumption DEF Attempts

(* A call that ends starts counting again; the others are not touched.     *)
LEMMA EndKeepsCount ==
  ASSUME Counted, NEW b \in Calls, NEW result \in Ended, End(b, result)
  PROVE  Counted'
  BY Parameters DEF Counted, End, Stages, Ended, Active, Recognizing, Requesting

(* Changing the stage of one call leaves its attempts alone.               *)
LEMMA GotoKeepsCount ==
  ASSUME Counted, NEW b \in Calls, NEW at \in Recognizing, NEW ticks \in Nat,
         Goto(b, at, ticks), UNCHANGED attempt
  PROVE  Counted'
  BY DEF Counted, Goto, Stages, Active

(* A poll, or the end of the call when its deadline has passed.            *)
LEMMA PollKeepsCount ==
  ASSUME Counted, NEW b \in Calls, Poll(b)
  PROVE  Counted'
  BY EndKeepsCount, GotoKeepsCount, Parameters DEF Poll, Ended, Recognizing, Requesting

(* A submit is retried while there are attempts left.                      *)
LEMMA RetryKeepsCount ==
  ASSUME Counted, NEW b \in Calls, SubmitFails(b)
  PROVE  Counted'
  <1>1. CASE MayRetry(b)
    <2>1. attempt[b] \in Nat /\ attempt[b] + 1 \in 1..Attempts
      BY <1>1, Parameters DEF MayRetry, Attempts, Counted
    <2>2. /\ attempt' = [attempt EXCEPT ![b] = attempt[b] + 1] /\ age' = age
          /\ task' = [task EXCEPT ![b] = "submit"] /\ left' = [left EXCEPT ![b] = PerRequest]
      BY <1>1 DEF SubmitFails, Goto
    <2> QED BY <2>1, <2>2, Parameters DEF Counted, Stages, Active, Recognizing, Requesting
  <1>2. CASE ~MayRetry(b)
    BY <1>2, EndKeepsCount DEF SubmitFails, Ended
  <1> QED BY <1>1, <1>2

(* Every step of one call keeps its attempts within the retries.           *)
LEMMA CallKeepsCount ==
  ASSUME Counted, NEW b \in Calls,
         \/ Prepared(b) \/ Panics(b) \/ Answers(b) \/ Capped(b) \/ Wakes(b) \/ TimesOut(b)
  PROVE  Counted'
  <1> USE EndKeepsCount DEF Ended
  <1>1. CASE Prepared(b)
    <2>1. CASE End(b, "failed")
      BY <2>1
    <2>2. CASE /\ task' = [task EXCEPT ![b] = "submit"] /\ attempt' = [attempt EXCEPT ![b] = 1]
               /\ left' = [left EXCEPT ![b] = PerRequest] /\ age' = [age EXCEPT ![b] = 0]
      BY <2>2, Parameters DEF Counted, Stages, Active, Recognizing, Requesting
    <2> QED BY <1>1, <2>1, <2>2 DEF Prepared
  <1>2. CASE Panics(b)
    BY <1>2 DEF Panics
  <1>3. CASE Answers(b)
    <2>1. CASE Submitting(b)
      BY <2>1, PollKeepsCount, RetryKeepsCount DEF Submitting, SubmitAccepted, SubmitRefused
    <2>2. CASE Polling(b)
      BY <2>2, GotoKeepsCount, Parameters DEF Polling, Recognizing, Requesting
    <2>3. CASE Fetching(b)
      BY <2>3 DEF Fetching
    <2> QED BY <1>3, <2>1, <2>2, <2>3 DEF Answers
  <1>4. CASE Capped(b)
    BY <1>4, RetryKeepsCount DEF Capped, SubmitRefused
  <1>5. CASE Wakes(b)
    BY <1>5, PollKeepsCount DEF Wakes
  <1>6. CASE TimesOut(b)
    BY <1>6 DEF TimesOut
  <1> QED BY <1>1, <1>2, <1>3, <1>4, <1>5, <1>6

(* Time passes only for calls that still have some left. *)
LEMMA TickKeepsCount == Counted /\ Tick => Counted'
  BY DEF Counted, Tick

(* A call begins with its first attempt. *)
LEMMA CountStart == Init => Counted
  BY OcrAssumption, Parameters
  DEF Init, Counted, Stages, Active, Ended, Recognizing, Requesting, Calls

(* Every step keeps every call within its attempts. *)
LEMMA CountStep == Counted /\ [Next]_vars => Counted'
  <1> SUFFICES ASSUME Counted, [Next]_vars PROVE Counted'
    OBVIOUS
  <1>1. CASE UNCHANGED vars
    BY <1>1 DEF vars, timing, Counted
  <1>2. CASE Spawn
    BY <1>2 DEF Spawn, timing, Counted, Stages, Active
  <1> QED BY <1>1, <1>2, TickKeepsCount, CallKeepsCount DEF Next

-----------------------------------------------------------------------------
(* Numbers in order.  The least-number principle, from the well-founded    *)
(* order of the numbers, stands for induction in what follows.             *)

(* Every set of numbers with an element has a least one.                   *)
LEMMA Least ==
  ASSUME NEW S, S \subseteq Nat, S # {}
  PROVE  \E m \in S : \A k \in S : m <= k
  <1>1. \A y, x \in Nat : y < x => <<y, x>> \in OpToRel(<, Nat)
    BY DEF OpToRel
  <1>2. PICK m \in S : \A k \in S : <<k, m>> \notin OpToRel(<, Nat)
    BY NatLessThanWellFounded, WFMin
  <1>3. ASSUME NEW k \in S PROVE m <= k
    <2>1. k \in Nat /\ m \in Nat
      OBVIOUS
    <2>2. ~(k < m)
      BY <1>1, <1>2, <2>1
    <2> QED BY <2>1, <2>2
  <1> QED BY <1>3

Increasing(s) == \A i, j \in DOMAIN s : i < j => s[i] < s[j]

(* A finite set of numbers can be put in increasing order: an element's    *)
(* position is the number of elements up to it.                            *)
LEMMA OrderExists ==
  ASSUME NEW S, S \subseteq Nat, IsFiniteSet(S)
  PROVE  \E s \in [1..Cardinality(S) -> S] : Increasing(s)
  <1> DEFINE n == Cardinality(S)
             below(x) == {y \in S : y <= x}
             rank == [x \in S |-> Cardinality(below(x))]
  <1>0. \A x \in S : x \in Nat
    OBVIOUS
  <1>1. n \in Nat /\ \A i \in 1..n : i \in Nat
    BY FS_CardinalityType
  <1>2. ASSUME NEW x \in S
        PROVE  /\ IsFiniteSet(below(x)) /\ Cardinality(below(x)) \in 1..n
    <2>1. IsFiniteSet(below(x)) /\ Cardinality(below(x)) <= n
      BY FS_Subset
    <2>2. x \in below(x)
      OBVIOUS
    <2>3. Cardinality(below(x)) # 0
      BY <2>1, <2>2, FS_EmptySet
    <2> QED BY <1>1, <2>1, <2>3, FS_CardinalityType
  <1>3. ASSUME NEW x \in S, NEW y \in S, x < y PROVE rank[x] < rank[y]
    <2>a. x \in Nat /\ y \in Nat /\ y <= y /\ ~(y <= x)
      BY <1>0, <1>3
    <2>b. ASSUME NEW z \in S, z <= x PROVE z <= y
      <3>1. z \in Nat
        BY <1>0
      <3> QED BY <1>3, <2>a, <2>b, <3>1
    <2>1. below(x) \subseteq below(y) /\ y \in below(y) /\ y \notin below(x)
      BY <2>a, <2>b
    <2>2. IsFiniteSet(below(x)) /\ IsFiniteSet(below(y))
      BY <1>2
    <2>3. /\ Cardinality(below(x)) <= Cardinality(below(y))
          /\ Cardinality(below(x)) # Cardinality(below(y))
      BY <2>1, <2>2, FS_Subset
    <2> QED BY <1>2, <2>3
  <1>4. rank \in [S -> 1..n]
    BY <1>2
  <1> HIDE DEF n, rank
  <1>5. rank \in Injection(S, 1..n)
    <2>1. ASSUME NEW x \in S, NEW y \in S, rank[x] = rank[y] PROVE x = y
      <3>1. x \in Nat /\ y \in Nat /\ rank[x] \in Nat /\ rank[y] \in Nat
        BY <1>0, <1>1, <1>4
      <3>2. x < y \/ y < x \/ x = y
        BY <3>1
      <3> QED BY <1>3, <2>1, <3>1, <3>2
    <2>2. DOMAIN rank = S
      BY <1>4
    <2> QED BY <1>4, <2>1, <2>2 DEF Injection, IsInjective
  <1>6. IsFiniteSet(1..n) /\ Cardinality(1..n) = n
    BY <1>1, FS_Interval
  <1>7. rank \in Surjection(S, 1..n)
    BY <1>5, <1>6, FS_Injection DEF n
  <1>8. \A i \in 1..n : \E x \in S : rank[x] = i
    BY <1>7 DEF Surjection
  <1> DEFINE s == [i \in 1..n |-> CHOOSE x \in S : rank[x] = i]
  <1>9. \A i \in 1..n : s[i] \in S /\ rank[s[i]] = i
    BY <1>8
  <1>10. s \in [1..n -> S] /\ DOMAIN s = 1..n
    BY <1>9
  <1> HIDE DEF s
  <1>11. ASSUME NEW i \in 1..n, NEW j \in 1..n, i < j PROVE s[i] < s[j]
    <2>1. s[i] \in Nat /\ s[j] \in Nat /\ rank[s[i]] = i /\ rank[s[j]] = j
      BY ONLY <1>0, <1>9, i \in 1..n, j \in 1..n
    <2>2. s[i] < s[j] \/ s[j] < s[i] \/ s[i] = s[j]
      BY <2>1
    <2> QED BY <1>3, <1>9, <1>11, <2>1, <2>2
  <1> QED BY <1>10, <1>11 DEF Increasing, n

(* What InOrder returns: every element once, in increasing order.          *)
LEMMA InOrderSorts ==
  ASSUME NEW S, S \subseteq Nat, IsFiniteSet(S)
  PROVE  /\ InOrder(S) \in [1..Cardinality(S) -> S]
         /\ Cardinality(S) \in Nat
         /\ Increasing(InOrder(S))
         /\ \A x \in S : \E i \in 1..Cardinality(S) : InOrder(S)[i] = x
  <1> DEFINE n == Cardinality(S)
             s == InOrder(S)
  <1>0. \A x \in S : x \in Nat
    OBVIOUS
  <1>1. n \in Nat /\ \A i \in 1..n : i \in Nat
    BY FS_CardinalityType
  <1>2. s \in [1..n -> S] /\ Increasing(s)
    BY OrderExists DEF InOrder, Increasing
  <1> HIDE DEF n, s
  <1>3. s \in Injection(1..n, S)
    <2>1. ASSUME NEW i \in 1..n, NEW j \in 1..n, s[i] = s[j] PROVE i = j
      <3>1. i \in Nat /\ j \in Nat /\ s[i] \in Nat /\ s[j] \in Nat /\ DOMAIN s = 1..n
        BY ONLY <1>0, <1>1, <1>2, i \in 1..n, j \in 1..n
      <3>2. i < j \/ j < i \/ i = j
        BY <3>1
      <3> QED BY <1>2, <2>1, <3>1, <3>2 DEF Increasing
    <2>2. DOMAIN s = 1..n
      BY <1>2
    <2> QED BY <1>2, <2>1, <2>2 DEF Injection, IsInjective
  <1>4. IsFiniteSet(1..n) /\ Cardinality(1..n) = n
    BY <1>1, FS_Interval
  <1>5. s \in Surjection(1..n, S)
    BY <1>3, <1>4, FS_Injection DEF n
  <1>6. \A x \in S : \E i \in 1..n : s[i] = x
    BY <1>5 DEF Surjection
  <1> QED BY <1>1, <1>2, <1>6 DEF n, s

(* Unique keeps one image of every content and drops no content.           *)
LEMMA UniqueKeepsOneOfEach ==
  ASSUME NEW C, NEW list \in Seq(C)
  PROVE  /\ Unique(list) \in Seq(C)
         /\ \A i, j \in 1..Len(Unique(list)) : Unique(list)[i] = Unique(list)[j] => i = j
         /\ \A k \in 1..Len(list) : \E i \in 1..Len(Unique(list)) : Unique(list)[i] = list[k]
  <1> DEFINE first == {i \in DOMAIN list : \A j \in 1..(i - 1) : list[j] # list[i]}
             order == InOrder(first)
             n == Cardinality(first)
  <1>1. /\ Len(list) \in Nat /\ DOMAIN list = 1..Len(list)
        /\ \A k \in 1..Len(list) : k \in Nat /\ list[k] \in C
    OBVIOUS
  <1>2. first \subseteq Nat /\ first \subseteq 1..Len(list) /\ IsFiniteSet(first)
    <2>1. IsFiniteSet(1..Len(list))
      BY <1>1, FS_Interval
    <2>2. first \subseteq Nat /\ first \subseteq 1..Len(list)
      BY <1>1
    <2> QED BY <2>1, <2>2, FS_Subset
  <1>3. /\ order \in [1..n -> first] /\ n \in Nat /\ Increasing(order)
        /\ \A x \in first : \E i \in 1..n : order[i] = x
    BY <1>2, InOrderSorts
  <1>4. \A i \in first : \A j \in 1..(i - 1) : list[j] # list[i]
    OBVIOUS
  <1>5. ASSUME NEW k \in 1..Len(list) PROVE \E i \in first : list[i] = list[k]
    <2> DEFINE same == {i \in 1..Len(list) : list[i] = list[k]}
    <2>1. same \subseteq Nat /\ k \in same
      BY <1>1
    <2>2. PICK m \in same : \A i \in same : m <= i
      BY <2>1, Least
    <2>3. m \in 1..Len(list) /\ list[m] = list[k] /\ m \in Nat
      BY <1>1, <2>2
    <2>4. ASSUME NEW j \in 1..(m - 1), list[j] = list[m] PROVE FALSE
      <3>1. j \in 1..Len(list) /\ j < m
        BY <1>1, <2>3
      <3>2. j \in same
        BY <2>3, <2>4, <3>1
      <3> QED BY <1>1, <2>2, <2>3, <3>1, <3>2
    <2>5. m \in first
      BY <1>1, <2>3, <2>4
    <2> QED BY <2>3, <2>5
  <1>6. Unique(list) = [i \in 1..n |-> list[order[i]]]
    <2>1. Unique(list) = [i \in DOMAIN order |-> list[order[i]]]
      BY DEF Unique
    <2> HIDE DEF order, n, first
    <2> QED BY <1>3, <2>1
  <1> HIDE DEF first, order, n
  <1>7. \A i \in 1..n : order[i] \in first /\ order[i] \in 1..Len(list) /\ order[i] \in Nat /\ list[order[i]] \in C
    <2> TAKE i \in 1..n
    <2>1. order[i] \in first
      BY ONLY <1>3, i \in 1..n
    <2> QED BY <1>1, <1>2, <2>1
  <1>8. Unique(list) \in Seq(C) /\ Len(Unique(list)) = n
    BY <1>3, <1>6, <1>7
  <1>9. ASSUME NEW i \in 1..n, NEW j \in 1..n, i < j PROVE list[order[i]] # list[order[j]]
    <2>1. order[i] < order[j]
      BY <1>3, <1>9 DEF Increasing
    <2>2. order[i] \in 1..(order[j] - 1)
      BY <1>1, <1>7, <2>1
    <2> QED BY <1>4, <1>7, <2>2
  <1>10. ASSUME NEW i \in 1..n, NEW j \in 1..n, Unique(list)[i] = Unique(list)[j] PROVE i = j
    <2>1. list[order[i]] = list[order[j]]
      BY <1>6, <1>10
    <2>2. i < j \/ j < i \/ i = j
      BY <1>3
    <2> QED BY <1>9, <2>1, <2>2
  <1>11. ASSUME NEW k \in 1..Len(list) PROVE \E i \in 1..n : Unique(list)[i] = list[k]
    <2>1. PICK x \in first : list[x] = list[k]
      BY <1>5
    <2>2. PICK i \in 1..n : order[i] = x
      BY <1>3
    <2> QED BY <1>6, <2>1, <2>2
  <1> QED BY <1>8, <1>10, <1>11

-----------------------------------------------------------------------------
(* The loop of format_page_ranges, up to step n, as a function of the step. *)
ScansTo(s, f, n) ==
  f = [i \in 0..n |->
        IF i = 0 THEN [out |-> <<>>, start |-> 1] ELSE Visit(s, i, f[i - 1])]

(* The recursion has a solution for every number of steps. *)
LEMMA ScanExists ==
  ASSUME NEW s, NEW n \in Nat
  PROVE  \E f : ScansTo(s, f, n)
  <1> DEFINE Bad == {m \in Nat : ~\E f : ScansTo(s, f, m)}
  <1>1. SUFFICES ASSUME Bad # {} PROVE FALSE
    OBVIOUS
  <1>2. Bad \subseteq Nat
    OBVIOUS
  <1>3. PICK m \in Bad : \A k \in Bad : m <= k
    BY <1>1, <1>2, Least
  <1>4. m \in Nat /\ ~\E f : ScansTo(s, f, m)
    BY <1>3
  <1>5. CASE m = 0
    <2> DEFINE f == [i \in 0..0 |-> [out |-> <<>>, start |-> 1]]
    <2>1. f = [i \in 0..0 |->
                 IF i = 0 THEN [out |-> <<>>, start |-> 1] ELSE Visit(s, i, f[i - 1])]
      OBVIOUS
    <2> QED BY <1>4, <1>5, <2>1 DEF ScansTo
  <1>6. CASE m # 0
    <2>1. m - 1 \in Nat /\ m - 1 \notin Bad
      BY <1>3, <1>4, <1>6
    <2>2. PICK g : ScansTo(s, g, m - 1)
      BY <2>1
    <2> DEFINE h == [i \in 0..m |-> IF i = m THEN Visit(s, m, g[m - 1]) ELSE g[i]]
    <2>3. ASSUME NEW i \in 0..m
          PROVE  h[i] = IF i = 0 THEN [out |-> <<>>, start |-> 1] ELSE Visit(s, i, h[i - 1])
      <3>1. CASE i = m
        <4>1. m - 1 \in 0..m /\ m - 1 # m
          BY <2>1, <1>4
        <4>2. h[i] = Visit(s, m, g[m - 1]) /\ h[m - 1] = g[m - 1]
          BY <3>1, <4>1
        <4> QED BY <1>6, <3>1, <4>2
      <3>2. CASE i # m
        <4>1. i \in 0..(m - 1) /\ (i # 0 => i - 1 \in 0..m /\ i - 1 # m)
          BY <1>4, <2>1, <3>2
        <4>2. h[i] = g[i] /\ (i # 0 => h[i - 1] = g[i - 1])
          BY <3>2, <4>1
        <4>3. g[i] = IF i = 0 THEN [out |-> <<>>, start |-> 1] ELSE Visit(s, i, g[i - 1])
          BY <2>2, <4>1 DEF ScansTo
        <4> QED BY <4>2, <4>3
      <3> QED BY <3>1, <3>2
    <2> HIDE DEF h
    <2>4. h = [i \in 0..m |-> h[i]]
      BY DEF h
    <2>5. h = [i \in 0..m |->
                IF i = 0 THEN [out |-> <<>>, start |-> 1] ELSE Visit(s, i, h[i - 1])]
      BY <2>3, <2>4
    <2> QED BY <1>4, <2>5 DEF ScansTo
  <1> QED BY <1>5, <1>6

(* So the scan is the loop. *)
LEMMA ScanIsTheLoop ==
  ASSUME NEW s, Len(s) \in Nat
  PROVE  /\ Scan(s)[0] = [out |-> <<>>, start |-> 1]
         /\ \A i \in 1..Len(s) : Scan(s)[i] = Visit(s, i, Scan(s)[i - 1])
  <1>1. Scan(s) = CHOOSE f : ScansTo(s, f, Len(s))
    BY DEF Scan, ScansTo
  <1>2. ScansTo(s, Scan(s), Len(s))
    BY <1>1, ScanExists
  <1> DEFINE f == Scan(s)
  <1> HIDE DEF f
  <1>3. f = [i \in 0..Len(s) |->
              IF i = 0 THEN [out |-> <<>>, start |-> 1] ELSE Visit(s, i, f[i - 1])]
    BY <1>2 DEF ScansTo, f
  <1>4. f[0] = [out |-> <<>>, start |-> 1]
    BY <1>3
  <1>5. ASSUME NEW i \in 1..Len(s) PROVE f[i] = Visit(s, i, f[i - 1])
    <2>1. i \in 0..Len(s) /\ i # 0
      OBVIOUS
    <2> QED BY <1>3, <2>1
  <1> QED BY <1>4, <1>5 DEF f

(* What the loop has done after step i: the ranges put out are exactly the *)
(* numbers before the run it is in, that run has no gap and goes on, and   *)
(* no two ranges, nor the last one and the run, could be joined.           *)
Covered(out, x) == \E j \in 1..Len(out) : out[j][1] <= x /\ x <= out[j][2]

Scanned(s, r, i) ==
  /\ r.out \in Seq(Nat \X Nat) /\ r.start \in 1..(i + 1)
  /\ \A x \in Nat : Covered(r.out, x) <=> \E k \in 1..(r.start - 1) : s[k] = x
  /\ \A k \in r.start..i : k < Len(s) /\ s[k + 1] = s[k] + 1
  /\ \A j \in 1..(Len(r.out) - 1) : r.out[j][2] + 1 < r.out[j + 1][1]
  /\ Len(r.out) > 0 => /\ r.start > 1 /\ r.out[Len(r.out)][2] = s[r.start - 1]
                       /\ r.start <= Len(s) => s[r.start - 1] + 1 < s[r.start]
  /\ Len(r.out) = 0 => r.start = 1

(* A function on 1..n is a sequence of length n. *)
LEMMA FunctionIsSequence ==
  ASSUME NEW C, NEW n \in Nat, NEW s \in [1..n -> C]
  PROVE  s \in Seq(C) /\ Len(s) = n
  OBVIOUS

(* In a run without gaps the numbers are those from its first to its last. *)
LEMMA RunHasNoGap ==
  ASSUME NEW s \in Seq(Nat), NEW a \in 1..Len(s), NEW i \in a..Len(s),
         \A k \in a..(i - 1) : s[k + 1] = s[k] + 1
  PROVE  \A k \in a..i : s[k] = s[a] + (k - a)
  <1> DEFINE Bad == {k \in a..i : s[k] # s[a] + (k - a)}
  <1>1. SUFFICES ASSUME Bad # {} PROVE FALSE
    OBVIOUS
  <1>2. a \in Nat /\ i \in Nat /\ \A k \in 1..Len(s) : s[k] \in Nat
    OBVIOUS
  <1>3. Bad \subseteq Nat
    BY <1>2
  <1>4. PICK m \in Bad : \A k \in Bad : m <= k
    BY <1>1, <1>3, Least
  <1>5. m \in a..i /\ m \in Nat /\ s[m] # s[a] + (m - a)
    BY <1>2, <1>4
  <1>6. m # a
    BY <1>2, <1>5
  <1>7. m - 1 \in a..(i - 1) /\ m - 1 \in a..i /\ m - 1 \notin Bad
    BY <1>2, <1>4, <1>5, <1>6
  <1>8. s[m - 1] = s[a] + (m - 1 - a)
    BY <1>7
  <1>9. s[(m - 1) + 1] = s[m - 1] + 1 /\ (m - 1) + 1 = m
    BY <1>5, <1>7
  <1>10. s[m] = s[a] + (m - 1 - a) + 1
    BY <1>8, <1>9
  <1>11. s[a] \in Nat
    BY <1>2
  <1> QED BY <1>2, <1>5, <1>10, <1>11

(* One step of the loop. *)
LEMMA VisitScans ==
  ASSUME NEW s \in Seq(Nat), Increasing(s), NEW i \in 1..Len(s), NEW r, Scanned(s, r, i - 1)
  PROVE  Scanned(s, Visit(s, i, r), i)
  <1> DEFINE a == r.start
             n == Len(s)
  <1>1. /\ i \in Nat /\ n \in Nat /\ \A k \in 1..n : s[k] \in Nat
        /\ DOMAIN s = 1..n /\ 1 <= i /\ i <= n
    OBVIOUS
  <1> HIDE DEF n
  <1>2. r.out \in Seq(Nat \X Nat) /\ a \in 1..i /\ a \in Nat /\ a <= i
    BY <1>1 DEF Scanned, n
  <1>3. \A k \in a..(i - 1) : k < n /\ s[k + 1] = s[k] + 1
    BY DEF Scanned, n
  <1>4. ASSUME NEW k \in 1..(n - 1) PROVE s[k] < s[k + 1]
    <2>1. k \in DOMAIN s /\ k + 1 \in DOMAIN s /\ k < k + 1
      BY <1>1
    <2> QED BY <2>1 DEF Increasing
  <1>5. CASE ~RunEnds(s, i)
    <2>1. Visit(s, i, r) = r /\ i # n /\ s[i + 1] = s[i] + 1
      BY <1>5 DEF Visit, RunEnds, n
    <2>2. ASSUME NEW k \in a..i PROVE k < n /\ s[k + 1] = s[k] + 1
      <3>1. k = i \/ k \in a..(i - 1)
        BY <1>1, <1>2
      <3>2. CASE k = i
        BY <1>1, <2>1, <3>2
      <3>3. CASE k \in a..(i - 1)
        BY <1>3, <3>3
      <3> QED BY <3>1, <3>2, <3>3
    <2>3. r.start \in 1..(i + 1)
      BY <1>1, <1>2
    <2> QED BY <2>1, <2>2, <2>3 DEF Scanned, n
  <1>6. CASE RunEnds(s, i)
    <2> DEFINE out == Append(r.out, <<s[a], s[i]>>)
               L == Len(r.out)
    <2>1. Visit(s, i, r) = [out |-> out, start |-> i + 1]
      BY <1>6 DEF Visit
    <2>2. s[a] \in Nat /\ s[i] \in Nat
      BY <1>1, <1>2
    <2>3. /\ out \in Seq(Nat \X Nat) /\ L \in Nat /\ Len(out) = L + 1
          /\ \A j \in 1..L : out[j] = r.out[j]
          /\ out[L + 1] = <<s[a], s[i]>>
          /\ \A j \in 1..L : r.out[j][1] \in Nat /\ r.out[j][2] \in Nat
      <3>1. <<s[a], s[i]>> \in Nat \X Nat /\ L \in Nat
        BY <1>2, <2>2
      <3>2. ASSUME NEW j \in 1..L PROVE r.out[j][1] \in Nat /\ r.out[j][2] \in Nat
        <4>1. r.out[j] \in Nat \X Nat
          BY <1>2
        <4> QED BY <4>1
      <3> HIDE DEF a
      <3> QED BY <1>2, <3>1, <3>2
    <2>4. \A k \in a..i : s[k] = s[a] + (k - a)
      <3>1. a \in 1..n /\ i \in a..n
        BY <1>1, <1>2
      <3>2. \A k \in a..(i - 1) : s[k + 1] = s[k] + 1
        BY <1>3
      <3> HIDE DEF a
      <3> QED BY <3>1, <3>2, RunHasNoGap DEF n
    <2> HIDE DEF out, L, a
    <2>5. ASSUME NEW x \in Nat
          PROVE  s[a] <= x /\ x <= s[i] <=> \E k \in a..i : s[k] = x
      <3>1. s[i] = s[a] + (i - a)
        BY <1>1, <1>2, <2>4
      <3>2. ASSUME s[a] <= x, x <= s[i] PROVE \E k \in a..i : s[k] = x
        <4> DEFINE k == a + (x - s[a])
        <4>1. k \in a..i
          BY <1>1, <1>2, <2>2, <3>1, <3>2
        <4>2. s[k] = s[a] + (k - a)
          BY <2>4, <4>1
        <4>3. s[k] = x
          BY <1>2, <2>2, <4>2
        <4> QED BY <4>1, <4>3
      <3>3. ASSUME NEW k \in a..i, s[k] = x PROVE s[a] <= x /\ x <= s[i]
        BY <1>1, <1>2, <2>2, <2>4, <3>1, <3>3
      <3> QED BY <3>2, <3>3
    <2>6. ASSUME NEW x \in Nat
          PROVE  Covered(out, x) <=> \E k \in 1..i : s[k] = x
      <3>1. Covered(out, x) <=> Covered(r.out, x) \/ (s[a] <= x /\ x <= s[i])
        <4>1. 1..Len(out) = 1..L \cup {L + 1}
          BY <2>3
        <4>2. out[L + 1][1] = s[a] /\ out[L + 1][2] = s[i]
          BY <2>3
        <4> QED BY <2>3, <4>1, <4>2 DEF Covered, L
      <3>2. Covered(r.out, x) <=> \E k \in 1..(a - 1) : s[k] = x
        BY DEF Scanned, n, a
      <3>3. 1..i = 1..(a - 1) \cup a..i
        BY <1>1, <1>2
      <3> QED BY <2>5, <3>1, <3>2, <3>3
    <2>7. ASSUME NEW j \in 1..(Len(out) - 1) PROVE out[j][2] + 1 < out[j + 1][1]
      <3>1. j \in 1..L
        BY <2>3
      <3>2. CASE j = L
        <4>1. L > 0 /\ out[j][2] = r.out[L][2] /\ out[j + 1][1] = s[a]
          BY <2>3, <3>1, <3>2
        <4>2. r.out[L][2] = s[a - 1] /\ s[a - 1] + 1 < s[a]
          BY <1>1, <1>2, <4>1 DEF Scanned, n, L, a
        <4> QED BY <4>1, <4>2
      <3>3. CASE j # L
        <4>1. j \in 1..(L - 1) /\ j + 1 \in 1..L
          BY <2>3, <3>1, <3>3
        <4>2. r.out[j][2] + 1 < r.out[j + 1][1]
          BY <4>1 DEF Scanned, n, L
        <4> QED BY <2>3, <3>1, <4>1, <4>2
      <3> QED BY <3>2, <3>3
    <2>8. i + 1 <= n => s[i] + 1 < s[i + 1]
      <3>1. SUFFICES ASSUME i + 1 <= n PROVE s[i] + 1 < s[i + 1]
        OBVIOUS
      <3>2. i # n /\ i \in 1..(n - 1) /\ i + 1 \in 1..n
        BY <1>1, <3>1
      <3>3. s[i] < s[i + 1] /\ s[i + 1] # s[i] + 1 /\ s[i + 1] \in Nat
        BY <1>1, <1>4, <1>6, <3>2 DEF RunEnds, n
      <3> QED BY <2>2, <3>3
    <2>9. /\ (i + 1) - 1 = i /\ i + 1 > 1 /\ i + 1 \in 1..(i + 1)
          /\ (i + 1)..i = {}
      BY <1>1
    <2>10. out[Len(out)][2] = s[i] /\ Len(out) # 0
      BY <2>3
    <2> DEFINE q == [out |-> out, start |-> i + 1]
    <2>11. q.out = out /\ q.start = i + 1
      OBVIOUS
    <2> HIDE DEF q
    <2>12. Scanned(s, q, i)
      BY <2>3, <2>6, <2>7, <2>8, <2>9, <2>10, <2>11 DEF Scanned, n
    <2> QED BY <2>1, <2>12 DEF q
  <1> QED BY <1>5, <1>6

(* After the last step there is no run left. *)
LEMMA ScanEnds ==
  ASSUME NEW s \in Seq(Nat), Increasing(s)
  PROVE  LET out == Scan(s)[Len(s)].out IN
         /\ out \in Seq(Nat \X Nat)
         /\ \A x \in Nat : Covered(out, x) <=> \E k \in 1..Len(s) : s[k] = x
         /\ \A j \in 1..(Len(out) - 1) : out[j][2] + 1 < out[j + 1][1]
  <1> DEFINE n == Len(s)
             f == Scan(s)
             Bad == {i \in 0..n : ~Scanned(s, f[i], i)}
  <1>1. n \in Nat
    OBVIOUS
  <1>2. f[0] = [out |-> <<>>, start |-> 1] /\ \A i \in 1..n : f[i] = Visit(s, i, f[i - 1])
    BY <1>1, ScanIsTheLoop
  <1> HIDE DEF f, n
  <1>3. Scanned(s, f[0], 0)
    <2>1. f[0].out = <<>> /\ f[0].start = 1
      BY <1>2
    <2> QED BY <2>1 DEF Scanned, Covered
  <1>4. Bad = {}
    <2>1. SUFFICES ASSUME Bad # {} PROVE FALSE
      OBVIOUS
    <2>2. Bad \subseteq Nat
      BY <1>1
    <2>3. PICK m \in Bad : \A k \in Bad : m <= k
      BY <2>1, <2>2, Least
    <2>4. m \in 0..n /\ m \in Nat /\ ~Scanned(s, f[m], m)
      BY <1>1, <2>3
    <2>5. m # 0
      BY <1>3, <2>4
    <2>6. m - 1 \in 0..n /\ m \in 1..n /\ ~(m <= m - 1)
      BY <1>1, <2>4, <2>5
    <2>7. Scanned(s, f[m - 1], m - 1)
      BY <2>3, <2>6
    <2> QED BY <1>2, <2>4, <2>6, <2>7, VisitScans DEF n
  <1>5. Scanned(s, f[n], n)
    BY <1>1, <1>4
  <1>6. f[n].start = n + 1
    <2>1. f[n].start \in 1..(n + 1) /\ \A k \in f[n].start..n : k < n
      BY <1>5 DEF Scanned, n
    <2> QED BY <1>1, <2>1
  <1>7. f[n].start - 1 = n
    BY <1>1, <1>6
  <1> QED BY <1>5, <1>7 DEF Scanned, f, n

(* format_page_ranges asks for the pages it is given, each of them once,   *)
(* in increasing ranges that could not be joined.                          *)
LEMMA RangesAreExact ==
  ASSUME NEW list \in Seq(Nat)
  PROVE  /\ ToSet(list) = UNION {Ranges(list)[i][1]..Ranges(list)[i][2] : i \in DOMAIN Ranges(list)}
         /\ \A i \in 1..(Len(Ranges(list)) - 1) : Ranges(list)[i][2] + 1 < Ranges(list)[i + 1][1]
  <1> DEFINE S == ToSet(list)
             s == InOrder(S)
             out == Ranges(list)
  <1>1. S = {list[i] : i \in 1..Len(list)} /\ Len(list) \in Nat
    BY DEF ToSet
  <1>2. S \subseteq Nat
    BY <1>1
  <1>3. IsFiniteSet(S)
    <2>1. IsFiniteSet(1..Len(list))
      BY <1>1, FS_Interval
    <2>2. [i \in 1..Len(list) |-> list[i]] \in Surjection(1..Len(list), S)
      BY <1>1 DEF Surjection
    <2> QED BY <2>1, <2>2, FS_Surjection
  <1> HIDE DEF S
  <1>4. /\ s \in [1..Cardinality(S) -> S] /\ Cardinality(S) \in Nat /\ Increasing(s)
        /\ \A x \in S : \E i \in 1..Cardinality(S) : s[i] = x
    BY <1>2, <1>3, InOrderSorts
  <1>5. out = Scan(s)[Len(s)].out
    BY DEF Ranges, S
  <1> HIDE DEF s, out
  <1>6. s \in Seq(Nat) /\ Len(s) = Cardinality(S) /\ \A i \in 1..Len(s) : s[i] \in S
    <2> DEFINE n == Cardinality(S)
    <2>1. \A i \in 1..n : s[i] \in S /\ s[i] \in Nat
      BY <1>2, <1>4
    <2>2. s \in [1..n -> Nat] /\ n \in Nat
      BY <1>4, <2>1
    <2> HIDE DEF n
    <2>3. s \in Seq(Nat) /\ Len(s) = n
      BY <2>2, FunctionIsSequence
    <2> QED BY <2>1, <2>3 DEF n
  <1>7. /\ out \in Seq(Nat \X Nat)
        /\ \A x \in Nat : Covered(out, x) <=> \E k \in 1..Len(s) : s[k] = x
        /\ \A j \in 1..(Len(out) - 1) : out[j][2] + 1 < out[j + 1][1]
    BY <1>4, <1>5, <1>6, ScanEnds
  <1>8. \A x \in Nat : Covered(out, x) <=> x \in S
    BY <1>4, <1>6, <1>7
  <1>9. DOMAIN out = 1..Len(out) /\ \A j \in 1..Len(out) : out[j][1] \in Nat /\ out[j][2] \in Nat
    BY <1>7
  <1>10. ASSUME NEW x
         PROVE  x \in UNION {out[i][1]..out[i][2] : i \in DOMAIN out} <=> x \in Nat /\ Covered(out, x)
    <2>1. x \in UNION {out[i][1]..out[i][2] : i \in DOMAIN out}
            <=> \E i \in 1..Len(out) : x \in out[i][1]..out[i][2]
      BY <1>9
    <2>2. ASSUME NEW i \in 1..Len(out)
          PROVE  x \in out[i][1]..out[i][2] <=> x \in Nat /\ out[i][1] <= x /\ x <= out[i][2]
      BY <1>9
    <2> QED BY <2>1, <2>2 DEF Covered
  <1>11. S = UNION {out[i][1]..out[i][2] : i \in DOMAIN out}
    BY <1>2, <1>8, <1>10
  <1> QED BY <1>7, <1>11 DEF S, out

-----------------------------------------------------------------------------
(* Which contents wait, and what their calls have made.                    *)

Waiting ==
  /\ queue \in Seq(Contents)
  /\ \A i, j \in 1..Len(queue) : queue[i] = queue[j] => i = j
  /\ \A i \in 1..Len(queue) : task[queue[i]] = "none"

Started ==
  mode = "images" =>
    \A k \in 1..Len(Images) :
      task[Images[k]] # "none" \/ \E i \in 1..Len(queue) : queue[i] = Images[k]

(* A submit has made at most one job for each attempt before it.           *)
Charge(b) ==
  /\ jobs[b] <= Attempts
  /\ task[b] \in {"none", "prepare"} => jobs[b] = 0
  /\ task[b] = "submit" => jobs[b] < attempt[b]

Charged == jobs \in [Calls -> Nat] /\ \A b \in Calls : Charge(b)

(* What any step of a call does to the pass: it moves the task of a call   *)
(* that runs, to where no call is that has not begun.                      *)
LEMMA CallMovesOneTask ==
  ASSUME NEW b \in Calls,
         \/ Prepared(b) \/ Panics(b) \/ Answers(b) \/ Capped(b) \/ Wakes(b) \/ TimesOut(b)
  PROVE  /\ task[b] \in Active /\ UNCHANGED <<mode, pages, queue>>
         /\ \E at \in Stages \ {"none"} : task' = [task EXCEPT ![b] = at]
  <1> USE DEF Stages, Active, Ended, Recognizing, Requesting
  <1>1. CASE Prepared(b)
    BY <1>1 DEF Prepared, End
  <1>2. CASE Panics(b)
    BY <1>2 DEF Panics, End
  <1>3. CASE Answers(b)
    <2>1. CASE Submitting(b)
      BY <2>1 DEF Submitting, SubmitAccepted, SubmitFails, SubmitRefused, Poll, Goto, End
    <2>2. CASE Polling(b)
      BY <2>2 DEF Polling, Goto, End
    <2>3. CASE Fetching(b)
      BY <2>3 DEF Fetching, End
    <2> QED BY <1>3, <2>1, <2>2, <2>3 DEF Answers
  <1>4. CASE Capped(b)
    BY <1>4 DEF Capped, SubmitFails, SubmitRefused, Goto, End
  <1>5. CASE Wakes(b)
    BY <1>5 DEF Wakes, Poll, Goto, End
  <1>6. CASE TimesOut(b)
    BY <1>6 DEF TimesOut, End
  <1> QED BY <1>1, <1>2, <1>3, <1>4, <1>5, <1>6

(* What any step of a call does to its account.                            *)
LEMMA CallKeepsCharge ==
  ASSUME Counted, Charged, NEW b \in Calls,
         \/ Prepared(b) \/ Panics(b) \/ Answers(b) \/ Capped(b) \/ Wakes(b) \/ TimesOut(b)
  PROVE  Charged'
  <1>1. /\ jobs \in [Calls -> Nat] /\ task \in [Calls -> Stages] /\ attempt \in [Calls -> Nat]
        /\ attempt[b] \in Nat /\ attempt[b] <= Attempts /\ jobs[b] \in Nat /\ Charge(b)
        /\ Attempts \in Nat
    BY Parameters DEF Charged, Counted
  <1>2. ASSUME NEW n \in {0, 1}, jobs' = [jobs EXCEPT ![b] = @ + n],
               NEW at, task' = [task EXCEPT ![b] = at],
               NEW t \in Nat, attempt' = [attempt EXCEPT ![b] = t],
               jobs[b] + n <= Attempts, at \notin {"none", "prepare"},
               at = "submit" => jobs[b] + n < t
        PROVE  Charged'
    <2>1. jobs' \in [Calls -> Nat] /\ jobs'[b] = jobs[b] + n
      BY <1>1, <1>2
    <2>2. task'[b] = at /\ attempt'[b] = t
      BY <1>1, <1>2
    <2>3. Charge(b)'
      BY <1>2, <2>1, <2>2 DEF Charge
    <2>4. ASSUME NEW c \in Calls, c # b PROVE Charge(c)'
      <3>1. jobs'[c] = jobs[c] /\ task'[c] = task[c] /\ attempt'[c] = attempt[c]
        BY <1>1, <1>2, <2>4
      <3> QED BY <3>1 DEF Charge, Charged
    <2> QED BY <2>1, <2>3, <2>4 DEF Charged
  <1>3. jobs = [jobs EXCEPT ![b] = @ + 0] /\ attempt = [attempt EXCEPT ![b] = attempt[b]]
    BY <1>1
  <1>4. jobs[b] + 0 <= Attempts /\ (task[b] = "submit" => jobs[b] + 1 <= Attempts)
    BY <1>1 DEF Charge
  <1>5. ASSUME NEW result \in Ended, End(b, result), UNCHANGED jobs PROVE Charged'
    <2>1. result \notin {"none", "prepare"} /\ result # "submit"
      BY DEF Ended
    <2> QED BY <1>2, <1>3, <1>4, <1>5, <2>1 DEF End
  <1>6. ASSUME NEW result \in Ended, End(b, result), Makes(b, {0, 1}), task[b] = "submit"
        PROVE  Charged'
    <2>1. result \notin {"none", "prepare"} /\ result # "submit"
      BY DEF Ended
    <2>2. PICK n \in {0, 1} : jobs' = [jobs EXCEPT ![b] = @ + n]
      BY <1>6 DEF Makes
    <2>3. jobs[b] + n <= Attempts
      BY <1>4, <1>6
    <2> QED BY <1>2, <1>6, <2>1, <2>2, <2>3 DEF End
  <1>7. ASSUME NEW at \in {"poll", "nap", "fetch"}, NEW ticks, Goto(b, at, ticks),
               UNCHANGED attempt, UNCHANGED jobs
        PROVE  Charged'
    BY <1>1, <1>2, <1>3, <1>4, <1>7 DEF Goto
  <1>8. ASSUME NEW ticks, Goto(b, "poll", ticks), UNCHANGED attempt,
               Makes(b, {1}), task[b] = "submit"
        PROVE  Charged'
    <2>1. jobs' = [jobs EXCEPT ![b] = @ + 1] /\ task' = [task EXCEPT ![b] = "poll"]
      BY <1>8 DEF Makes, Goto
    <2>2. attempt' = [attempt EXCEPT ![b] = attempt[b]] /\ attempt[b] \in Nat
      BY <1>1, <1>3, <1>8
    <2>3. jobs[b] + 1 <= Attempts /\ 1 \in {0, 1}
      BY <1>4, <1>8
    <2>4. /\ jobs' \in [Calls -> Nat] /\ jobs'[b] = jobs[b] + 1 /\ task'[b] = "poll"
          /\ \A c \in Calls : c # b => /\ jobs'[c] = jobs[c] /\ task'[c] = task[c]
                                       /\ attempt'[c] = attempt[c]
      BY <1>1, <2>1, <2>2
    <2> QED BY <2>3, <2>4 DEF Charged, Charge
  <1>9. ASSUME task[b] = "submit", SubmitFails(b) PROVE Charged'
    <2>1. CASE MayRetry(b)
      <3>1. PICK n \in {0, 1} : jobs' = [jobs EXCEPT ![b] = @ + n]
        BY <1>9 DEF SubmitFails, Makes
      <3>2. jobs[b] + n <= Attempts /\ jobs[b] + n < attempt[b] + 1
        BY <1>1, <1>4, <1>9 DEF Charge
      <3>3. attempt' = [attempt EXCEPT ![b] = attempt[b] + 1] /\ attempt[b] + 1 \in Nat
        BY <1>1, <1>9, <2>1 DEF SubmitFails
      <3> QED BY <1>2, <1>9, <2>1, <3>1, <3>2, <3>3 DEF SubmitFails, Goto
    <2>2. CASE ~MayRetry(b)
      BY <1>6, <1>9, <2>2 DEF SubmitFails, Ended
    <2> QED BY <2>1, <2>2
  <1>10. ASSUME task[b] = "submit", SubmitAccepted(b) PROVE Charged'
    <2>1. Makes(b, {0, 1}) /\ Makes(b, {1})
      BY <1>10 DEF SubmitAccepted, Makes
    <2> QED BY <1>6, <1>8, <1>10, <2>1 DEF SubmitAccepted, Poll, Ended
  <1>11. ASSUME Poll(b), UNCHANGED jobs PROVE Charged'
    BY <1>5, <1>7, <1>11 DEF Poll, Ended
  <1>12. CASE Prepared(b)
    <2>1. CASE End(b, "failed")
      BY <1>5, <1>12, <2>1 DEF Prepared, Ended
    <2>2. CASE task' = [task EXCEPT ![b] = "submit"] /\ attempt' = [attempt EXCEPT ![b] = 1]
      <3>1. jobs[b] = 0
        BY <1>1, <1>12 DEF Prepared, Charge
      <3>2. /\ jobs' \in [Calls -> Nat] /\ jobs' = jobs
            /\ task'[b] = "submit" /\ attempt'[b] = 1
            /\ \A c \in Calls : c # b => task'[c] = task[c] /\ attempt'[c] = attempt[c]
        BY <1>1, <1>12, <2>2 DEF Prepared
      <3> QED BY <1>1, <3>1, <3>2 DEF Charged, Charge
    <2> QED BY <1>12, <2>1, <2>2 DEF Prepared
  <1>13. CASE Panics(b)
    BY <1>5, <1>13 DEF Panics, Ended
  <1>14. CASE Answers(b)
    <2>1. CASE Submitting(b)
      BY <1>6, <1>9, <1>10, <2>1 DEF Submitting, SubmitRefused, Ended
    <2>2. CASE Polling(b)
      BY <1>5, <1>7, <2>2 DEF Polling, Ended
    <2>3. CASE Fetching(b)
      BY <1>5, <2>3 DEF Fetching, Ended
    <2> QED BY <1>14, <2>1, <2>2, <2>3 DEF Answers
  <1>15. CASE Capped(b)
    BY <1>5, <1>6, <1>9, <1>15 DEF Capped, SubmitRefused, Ended
  <1>16. CASE Wakes(b)
    BY <1>11, <1>16 DEF Wakes
  <1>17. CASE TimesOut(b)
    BY <1>5, <1>17 DEF TimesOut, Ended
  <1> QED BY <1>12, <1>13, <1>14, <1>15, <1>16, <1>17

(* A call that moves neither waits nor is waited for.                      *)
LEMMA CallKeepsWaiting ==
  ASSUME Counted, Waiting, Started, NEW b \in Calls,
         \/ Prepared(b) \/ Panics(b) \/ Answers(b) \/ Capped(b) \/ Wakes(b) \/ TimesOut(b)
  PROVE  Waiting' /\ Started'
  <1>1. task[b] \in Active /\ UNCHANGED <<mode, pages, queue>>
    BY CallMovesOneTask
  <1>2. PICK at \in Stages \ {"none"} : task' = [task EXCEPT ![b] = at]
    BY CallMovesOneTask
  <1>3. task \in [Calls -> Stages] /\ task[b] # "none"
    BY <1>1 DEF Counted, Active, Recognizing, Requesting
  <1>4. ASSUME NEW c PROVE (task[c] = "none" => task'[c] = "none") \/ c \notin Calls
    BY <1>2, <1>3
  <1>5. \A i \in 1..Len(queue) : queue[i] \in Calls
    BY DEF Waiting, Calls
  <1>6. Waiting'
    BY <1>1, <1>4, <1>5 DEF Waiting
  <1>7. \A c \in Calls : task[c] # "none" => task'[c] # "none"
    BY <1>2, <1>3
  <1>8. \A k \in 1..Len(Images) : Images[k] \in Calls
    BY OcrAssumption DEF Calls
  <1> QED BY <1>1, <1>6, <1>7, <1>8 DEF Started

(* The task that is spawned is for the first content that waits, and for   *)
(* no other.                                                               *)
LEMMA SpawnKeepsWaiting ==
  ASSUME Counted, Waiting, Started, Charged, Spawn
  PROVE  Waiting' /\ Started' /\ Charged'
  <1> DEFINE b == queue[1]
             n == Len(queue)
  <1>1. /\ n \in Nat /\ n > 0 /\ Head(queue) = b /\ b \in Contents
        /\ queue' \in Seq(Contents) /\ Len(queue') = n - 1
        /\ \A i \in 1..(n - 1) : queue'[i] = queue[i + 1]
    BY DEF Spawn, Waiting
  <1>2. /\ task' = [task EXCEPT ![b] = "prepare"] /\ task[b] = "none"
        /\ UNCHANGED <<mode, attempt, jobs>> /\ task \in [Calls -> Stages] /\ b \in Calls
    BY <1>1 DEF Spawn, Waiting, timing, Counted, Calls
  <1>3. \A i \in 1..n : queue[i] \in Contents /\ task[queue[i]] = "none"
    BY <1>1 DEF Waiting
  <1>4. \A i, j \in 1..n : queue[i] = queue[j] => i = j
    BY <1>1 DEF Waiting
  <1> HIDE DEF n
  <1>5. \A i \in 1..(n - 1) : i + 1 \in 1..n /\ i + 1 # 1 /\ 1 \in 1..n
    BY <1>1
  <1>6. \A i \in 1..(n - 1) : queue[i + 1] # b
    BY <1>4, <1>5
  <1>7. ASSUME NEW i \in 1..(n - 1), NEW j \in 1..(n - 1), queue'[i] = queue'[j] PROVE i = j
    <2>1. i + 1 = j + 1
      BY <1>1, <1>4, <1>5, <1>7
    <2> QED BY <1>1, <2>1
  <1>8. \A i \in 1..(n - 1) : task'[queue'[i]] = "none"
    BY <1>1, <1>2, <1>3, <1>5, <1>6 DEF Calls
  <1>9. Waiting'
    BY <1>1, <1>7, <1>8 DEF Waiting
  <1>10. Started'
    <2> SUFFICES ASSUME mode = "images", NEW k \in 1..Len(Images)
                 PROVE  \/ task'[Images[k]] # "none"
                        \/ \E i \in 1..(n - 1) : queue'[i] = Images[k]
      BY <1>1, <1>2 DEF Started
    <2>1. Images[k] \in Calls
      BY OcrAssumption DEF Calls
    <2>2. CASE task[Images[k]] # "none"
      BY <1>2, <2>1, <2>2
    <2>3. CASE Images[k] = b
      BY <1>2, <2>1, <2>3
    <2>4. ASSUME NEW i \in 1..n, queue[i] = Images[k], i # 1
          PROVE  \E j \in 1..(n - 1) : queue'[j] = Images[k]
      <3>1. i - 1 \in 1..(n - 1) /\ (i - 1) + 1 = i
        BY <1>1, <2>4
      <3> QED BY <1>1, <2>4, <3>1
    <2> QED BY <2>2, <2>3, <2>4 DEF Started, n
  <1>11. Charged'
    <2>1. ASSUME NEW c \in Calls PROVE Charge(c)'
      BY <1>2 DEF Charge, Charged
    <2> QED BY <1>2, <2>1 DEF Charged
  <1> QED BY <1>9, <1>10, <1>11

(* At the start every content of an image waits once and nothing is made.  *)
LEMMA AccountsStart == Init => Waiting /\ Started /\ Charged
  <1> SUFFICES ASSUME Init PROVE Waiting /\ Started /\ Charged
    OBVIOUS
  <1>1. /\ task = [b \in Calls |-> IF mode = "document" /\ b = Document THEN "submit" ELSE "none"]
        /\ queue = IF mode = "images" THEN Unique(Images) ELSE <<>>
        /\ attempt = [b \in Calls |-> 1] /\ jobs = [b \in Calls |-> 0]
    BY DEF Init
  <1>2. \A b \in Contents : b \in Calls /\ b # Document
    BY OcrAssumption DEF Calls
  <1>3. /\ Unique(Images) \in Seq(Contents)
        /\ \A i, j \in 1..Len(Unique(Images)) : Unique(Images)[i] = Unique(Images)[j] => i = j
        /\ \A k \in 1..Len(Images) :
             \E i \in 1..Len(Unique(Images)) : Unique(Images)[i] = Images[k]
    BY OcrAssumption, UniqueKeepsOneOfEach
  <1>4. Charged
    BY <1>1, Parameters DEF Charged, Charge
  <1>5. CASE mode = "images"
    <2>1. queue = Unique(Images)
      BY <1>1, <1>5
    <2>2. \A c \in Contents : task[c] = "none"
      BY <1>1, <1>2
    <2>3. \A i \in 1..Len(queue) : queue[i] \in Contents
      BY <1>3, <2>1
    <2>4. Waiting
      BY <1>3, <2>1, <2>2, <2>3 DEF Waiting
    <2>5. Started
      BY <1>3, <2>1 DEF Started
    <2> QED BY <1>4, <2>4, <2>5
  <1>6. CASE mode # "images"
    <2>1. queue = <<>>
      BY <1>1, <1>6
    <2>2. queue \in Seq(Contents) /\ \A i \in 1..Len(queue) : FALSE
      BY <2>1
    <2> QED BY <1>6, <1>4, <2>2 DEF Waiting, Started
  <1> QED BY <1>5, <1>6

Accounts == Counted /\ Waiting /\ Started /\ Charged

(* Every step keeps the accounts of the pass.                              *)
LEMMA AccountsStep == Accounts /\ [Next]_vars => Accounts'
  <1> SUFFICES ASSUME Accounts, [Next]_vars PROVE Accounts'
    OBVIOUS
  <1>1. Counted'
    BY CountStep DEF Accounts
  <1>2. CASE UNCHANGED <<mode, queue, task, attempt, jobs>>
    BY <1>1, <1>2 DEF Accounts, Waiting, Started, Charged, Charge
  <1>3. CASE Tick \/ UNCHANGED vars
    BY <1>2, <1>3 DEF Tick, vars, timing
  <1>4. CASE Spawn
    BY <1>1, <1>4, SpawnKeepsWaiting DEF Accounts
  <1>5. ASSUME NEW b \in Calls,
               \/ Prepared(b) \/ Panics(b) \/ Answers(b) \/ Capped(b) \/ Wakes(b) \/ TimesOut(b)
        PROVE  Accounts'
    BY <1>1, <1>5, CallKeepsWaiting, CallKeepsCharge DEF Accounts
  <1> QED BY <1>3, <1>4, <1>5 DEF Next

(* The accounts hold in every state.                                       *)
LEMMA AccountsHold == Spec => []Accounts
  <1>1. Init => Accounts
    BY CountStart, AccountsStart DEF Accounts
  <1> QED BY <1>1, AccountsStep, PTL DEF Spec

(* For every document and every loss of answers: no content costs more     *)
(* jobs upstream than a call has submit attempts.                          *)
THEOREM JobsAreBounded == Spec => []JobsPerContent
  <1>1. Accounts => JobsPerContent
    BY Parameters DEF Accounts, Charged, Charge, JobsPerContent, Attempts
  <1> QED BY <1>1, AccountsHold, PTL

(* For every document: a content of an image is waiting or was given to a  *)
(* task, and never both.                                                   *)
THEOREM EveryImageIsServed == Spec => []NothingIsSkipped
  <1>1. Accounts => NothingIsSkipped
    <2> SUFFICES ASSUME Accounts, mode = "images", NEW b \in ToSet(Images)
                 PROVE  (task[b] = "none") <=> (b \in ToSet(queue))
      BY DEF NothingIsSkipped
    <2>1. PICK k \in 1..Len(Images) : Images[k] = b
      BY OcrAssumption DEF ToSet
    <2>2. ToSet(queue) = {queue[i] : i \in 1..Len(queue)}
      BY DEF ToSet, Accounts, Waiting
    <2> QED BY <2>1, <2>2 DEF Accounts, Waiting, Started
  <1> QED BY <1>1, AccountsHold, PTL

(* The pages asked for are a list of numbers, and never change.            *)
LEMMA PagesStart == Init => mode \in {"images", "document"} /\ pages \in Seq(Nat)
  <1> SUFFICES ASSUME Init PROVE mode \in {"images", "document"} /\ pages \in Seq(Nat)
    OBVIOUS
  <1>1. CASE mode = "document"
    <2>1. pages \in PageLists
      BY <1>1 DEF Init
    <2> QED BY <1>1, <2>1, OcrAssumption
  <1>2. CASE mode # "document"
    <2>1. pages = <<>> /\ mode \in {"images", "document"}
      BY <1>2 DEF Init
    <2> QED BY <2>1
  <1> QED BY <1>1, <1>2

(* For every list of pages: the ranges asked of the service are the pages. *)
THEOREM RangesAreThePages == Spec => []RangesDenotePages
  <1>1. Init => pages \in Seq(Nat)
    BY PagesStart
  <1>2. pages \in Seq(Nat) /\ [Next]_vars => (pages \in Seq(Nat))'
    <2> SUFFICES ASSUME [Next]_vars PROVE UNCHANGED pages
      OBVIOUS
    <2>1. CASE Spawn \/ Tick \/ UNCHANGED vars
      BY <2>1 DEF Spawn, Tick, vars
    <2> QED BY <2>1, CallMovesOneTask DEF Next
  <1>3. pages \in Seq(Nat) => RangesDenotePages
    BY RangesAreExact DEF RangesDenotePages
  <1> QED BY <1>1, <1>2, <1>3, PTL DEF Spec

(* Every variable keeps its type, for every document and configuration.    *)
THEOREM TypeCorrect == Spec => []TypeOK
  <1> DEFINE Rest == mode \in {"images", "document"} /\ pages \in Seq(Nat)
  <1>1. Init => Rest
    BY PagesStart
  <1>2. Rest /\ [Next]_vars => Rest'
    <2> SUFFICES ASSUME [Next]_vars PROVE UNCHANGED <<mode, pages>>
      OBVIOUS
    <2>1. CASE Spawn \/ Tick \/ UNCHANGED vars
      BY <2>1 DEF Spawn, Tick, vars
    <2> QED BY <2>1, CallMovesOneTask DEF Next
  <1>3. Rest /\ Accounts /\ Permits => TypeOK
    <2> SUFFICES ASSUME Rest, Accounts, Permits PROVE TypeOK
      OBVIOUS
    <2>1. permits \in 0..Concurrency
      BY HeldFinite, OcrAssumption DEF Permits
    <2>2. task \in [Calls -> Active \cup Ended \cup {"none"}]
      BY DEF Permits, Stages
    <2> QED BY <2>1, <2>2 DEF Accounts, Counted, Waiting, Charged, TypeOK
  <1> QED BY <1>1, <1>2, <1>3, AccountsHold, PermitsHold, PTL DEF Spec
=============================================================================
