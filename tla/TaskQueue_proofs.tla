-------------------------- MODULE TaskQueue_proofs --------------------------
(***************************************************************************)
(* Proofs about TaskQueue, for any hooks, bindings, thresholds and bounds. *)
(*                                                                         *)
(* 1. No processing flag outlives the run of its task, with both           *)
(* goroutines compacting.  ProcessingFlagReleased says nothing while the   *)
(* handler works, so it is not inductive.  The invariant says what the     *)
(* flags are in every phase of the worker: none before a task is marked,   *)
(* and then at most that of the task in hand, which the worker does not    *)
(* change until it is released.                                            *)
(*                                                                         *)
(* 2. No context is lost, and none moves to another hook, in every run     *)
(* that is Undisturbed.  NoContextLost does not say where the contexts of  *)
(* a task in hand are, so it is not inductive either.  QueueInv says it    *)
(* for every phase of the worker: what a merge has collected so far and    *)
(* what is still to come, what a combination has read and will delete,     *)
(* that the worker holds the head of the queue, and that a finished run    *)
(* left nothing that only its task carried.                                *)
(***************************************************************************)
EXTENDS TaskQueue, FiniteSetTheorems, WellFoundedInduction, TLAPS

\* The points of the worker with a task in hand, before the flag is set, and with the flag set.
Ready == {"cap", "get", "size", "scan", "merge", "mark"}
Before == {"wait", "first"} \cup Ready
Working == {"handle", "combine", "delete", "run", "skip", "result"}

\* Only the worker marks tasks, and only the one it works on.
FlagFollowsWorker ==
    /\ pc["worker"] \in Before \cup Working \cup {"stopped"}
    /\ pc["worker"] \in Before => processing = {}
    /\ pc["worker"] \in Working => processing \subseteq {cur}

\* The points of both goroutines.
Points == Before \cup Working \cup {"stopped", "idle", "count", "check"}

FlagInv == pc \in [Actors -> Points] /\ FlagFollowsWorker

\* The steps of a compaction belong to one goroutine and touch no flag.
LEMMA CompactKeepsFlags ==
    ASSUME FlagInv, NEW a \in Actors, Compact(a)
    PROVE  FlagInv'
<1> USE DEF FlagInv, FlagFollowsWorker, Actors, Ready, Before, Working, Points, queueVars
<1>1. CASE MergeStart(a)
  <2>1. UNCHANGED <<pc, processing, cur>>
    BY <1>1 DEF MergeStart
  <2> QED
    BY <2>1
<1>2. CASE MergeElement(a)
  <2>1. UNCHANGED <<pc, processing, cur>>
    BY <1>2 DEF MergeElement
  <2> QED
    BY <2>1
<1>3. CASE MergeFinish(a)
  <2>1. UNCHANGED <<pc, processing, cur>>
    BY <1>3 DEF MergeFinish
  <2> QED
    BY <2>1
<1>4. CASE \/ IsAnyCapReached(a) \/ GetReachedCap(a) \/ CompactionLength(a) \/ CompactionScan(a)
           \/ MergeEnd(a)
  <2>1. UNCHANGED <<processing, cur>> /\ pc[a] \in Ready
    BY <1>4 DEF IsAnyCapReached, GetReachedCap, CompactionLength, CompactionScan, MergeEnd
  <2>2. PICK p \in {"get", "size", "scan", "merge", Resume(a)} : pc' = [pc EXCEPT ![a] = p]
    BY <1>4 DEF IsAnyCapReached, GetReachedCap, CompactionLength, CompactionScan, MergeEnd
  <2>3. CASE a = "worker"
    BY <2>1, <2>2, <2>3 DEF Resume
  <2>4. CASE a = "events"
    BY <2>1, <2>2, <2>4 DEF Resume
  <2> QED
    BY <2>3, <2>4
<1> QED
  BY <1>1, <1>2, <1>3, <1>4 DEF Compact

\* AddLast and the check that may start a compaction leave the worker where it is.
LEMMA EventsKeepFlags ==
    ASSUME FlagInv, AddLast \/ AddLastCount \/ AddLastCheck \/ Stop \/ UNCHANGED vars
    PROVE  FlagInv'
<1> USE DEF FlagInv, FlagFollowsWorker, Actors, Ready, Before, Working, Points
<1>1. UNCHANGED <<processing, cur>>
  BY DEF AddLast, AddLastCount, AddLastCheck, Stop, vars, queueVars
<1>2. \/ pc' = pc
      \/ \E p \in {"idle", "count", "check", "cap"} : pc' = [pc EXCEPT !["events"] = p]
  BY DEF AddLast, AddLastCount, AddLastCheck, Stop, vars
<1> QED
  BY <1>1, <1>2

\* The worker: a flag is set at the start of a run and cleared at its end, a panic included.
LEMMA WorkerKeepsFlags ==
    ASSUME FlagInv,
           \/ WaitForTask \/ GetFirst \/ MarkProcessing
           \/ HandleEnableKubernetesBindings \/ HandleHookRun \/ CombineCollect \/ CombineDelete
           \/ RunHook \/ SkipHook \/ HandlerPanic \/ ApplyResult
    PROVE  FlagInv'
<1> DEFINE Goes(S) == \E p \in S : pc' = [pc EXCEPT !["worker"] = p]
<1> USE DEF FlagInv, FlagFollowsWorker, Actors, Ready, Before, Working, Points, queueVars, StopWorker, Return
<1>1. CASE WaitForTask \/ GetFirst
  <2>1. processing' = processing /\ pc["worker"] \in Before
    BY <1>1 DEF WaitForTask, GetFirst
  <2>2. Goes({"stopped", "first", "cap"})
    BY <1>1 DEF WaitForTask, GetFirst
  <2> QED
    BY <2>1, <2>2
<1>2. CASE MarkProcessing
  BY <1>2 DEF MarkProcessing
<1>3. CASE HandleEnableKubernetesBindings \/ HandleHookRun
  <2>1. UNCHANGED <<processing, cur>> /\ pc["worker"] \in Working
    BY <1>3 DEF HandleEnableKubernetesBindings, HandleHookRun
  <2>2. Goes({"result", "skip", "combine", "run"})
    BY <1>3 DEF HandleEnableKubernetesBindings, HandleHookRun
  <2> QED
    BY <2>1, <2>2
<1>4. CASE CombineCollect \/ CombineDelete
  <2>1. UNCHANGED <<processing, cur>> /\ pc["worker"] \in Working
    BY <1>4 DEF CombineCollect, CombineDelete
  <2>2. Goes({"run", "delete"})
    BY <1>4 DEF CombineCollect, CombineDelete
  <2> QED
    BY <2>1, <2>2
<1>5. CASE RunHook \/ SkipHook
  <2>1. UNCHANGED <<processing, cur>> /\ pc["worker"] \in Working
    BY <1>5 DEF RunHook, SkipHook
  <2>2. Goes({"result"})
    BY <1>5 DEF RunHook, SkipHook
  <2> QED
    BY <2>1, <2>2
<1>6. CASE HandlerPanic
  <2>1. processing' = {} /\ Goes({"wait"})
    BY <1>6 DEF HandlerPanic
  <2> QED
    BY <2>1
<1>7. CASE ApplyResult
  <2>1. Goes({"stopped"}) \/ (Goes({"wait"}) /\ processing' = {})
    BY <1>7 DEF ApplyResult
  <2> QED
    BY <2>1
<1> QED
  BY <1>1, <1>2, <1>3, <1>4, <1>5, <1>6, <1>7

\* However AddLast, the two compactions, panics, failures and Stop interleave, a worker that
\* waits for a task or has not marked it yet leaves no flag set: processOne and ProcessResult
\* release what processOne has set.
THEOREM FlagsAreReleased == Spec => []ProcessingFlagReleased
<1>1. Init => FlagInv
  BY DEF Init, FlagInv, FlagFollowsWorker, Actors, Ready, Before, Working, Points
<1>2. FlagInv /\ [Next]_vars => FlagInv'
  <2> SUFFICES ASSUME FlagInv, [Next]_vars PROVE FlagInv'
    OBVIOUS
  <2>1. CASE Compact("events") \/ Compact("worker")
    BY <2>1, CompactKeepsFlags DEF Actors
  <2>2. CASE AddLast \/ AddLastCount \/ AddLastCheck \/ Stop \/ UNCHANGED vars
    BY <2>2, EventsKeepFlags
  <2>3. CASE \/ WaitForTask \/ GetFirst \/ MarkProcessing
             \/ HandleEnableKubernetesBindings \/ HandleHookRun \/ CombineCollect \/ CombineDelete
             \/ RunHook \/ SkipHook \/ HandlerPanic \/ ApplyResult
    BY <2>3, WorkerKeepsFlags
  <2> QED
    BY <2>1, <2>2, <2>3 DEF Next, EventsStep, WorkerStep
<1>3. FlagInv => ProcessingFlagReleased
  BY DEF FlagInv, FlagFollowsWorker, ProcessingFlagReleased, Ready, Before
<1> QED
  BY <1>1, <1>2, <1>3, PTL DEF Spec

-----------------------------------------------------------------------------
(* Induction over the natural numbers, for sets.                           *)

\* A set of natural numbers has a least element.
LEMMA Least ==
    ASSUME NEW T, T \subseteq Nat, T # {}
    PROVE  \E n \in T : \A m \in T : n <= m
<1>1. IsWellFoundedOn(OpToRel(<, Nat), Nat)
  BY NatLessThanWellFounded
<1>2. PICK n \in T : \A m \in T : ~(<<m, n>> \in OpToRel(<, Nat))
  BY <1>1, WFMin
<1>3. \A m \in T : ~(m < n)
  BY <1>2 DEF OpToRel
<1> QED
  BY <1>3

\* Induction up to n, over the set of numbers that have a property.
LEMMA UpTo ==
    ASSUME NEW n \in Nat, NEW S, 0 \in S, \A i \in 0..(n - 1) : i \in S => i + 1 \in S
    PROVE  \A i \in 0..n : i \in S
<1> SUFFICES ASSUME (0..n) \ S # {} PROVE FALSE
  OBVIOUS
<1>1. PICK i \in (0..n) \ S : \A j \in (0..n) \ S : i <= j
  <2>1. (0..n) \ S \subseteq Nat
    OBVIOUS
  <2> QED
    BY <2>1, Least
<1>2. i # 0 /\ i - 1 \in 0..(n - 1) /\ i - 1 \in S
  BY <1>1
<1> QED
  BY <1>1, <1>2

-----------------------------------------------------------------------------
(* The operators on sequences.                                             *)

\* A function on 1..n is a sequence.
LEMMA Listed ==
    ASSUME NEW S, NEW n \in Nat, NEW f \in [1..n -> S]
    PROVE  f \in Seq(S) /\ Len(f) = n
  OBVIOUS

\* Concatenation, by position.
LEMMA Joined ==
    ASSUME NEW S, NEW a \in Seq(S), NEW b \in Seq(S)
    PROVE  /\ a \o b \in Seq(S) /\ Len(a \o b) = Len(a) + Len(b)
           /\ \A k \in 1..Len(a) : (a \o b)[k] = a[k]
           /\ \A k \in 1..Len(b) : (a \o b)[Len(a) + k] = b[k]
  OBVIOUS

\* Parts, by position; sequences that agree at every position.
LEMMA PartOf ==
    ASSUME NEW a \in Seq(Nat), NEW i \in 1..(Len(a) + 1), NEW j \in 0..Len(a), i <= j + 1
    PROVE  /\ SubSeq(a, i, j) \in Seq(Nat) /\ Len(SubSeq(a, i, j)) = j - i + 1
           /\ \A k \in 1..(j - i + 1) : SubSeq(a, i, j)[k] = a[i + k - 1]
  BY SMTT(30)

LEMMA SameSequence ==
    ASSUME NEW a \in Seq(Nat), NEW b \in Seq(Nat), Len(a) = Len(b), \A k \in 1..Len(a) : a[k] = b[k]
    PROVE  a = b
  OBVIOUS

\* OnlyAt is computed from the left.
LEMMA OnlyAtUnfolds ==
    ASSUME NEW s, Len(s) \in Nat, NEW K
    PROVE  \E f : /\ f[0] = <<>>
                  /\ \A i \in 1..Len(s) : f[i] = IF i \in K THEN Append(f[i - 1], s[i]) ELSE f[i - 1]
                  /\ OnlyAt(s, K) = f[Len(s)]
<1> DEFINE n == Len(s)
           V(i, x) == IF i \in K THEN Append(x, s[i]) ELSE x
           P(m, f) == f[0] = <<>> /\ \A i \in 1..m : f[i] = V(i, f[i - 1])
           S == {m \in 0..n : \E f : P(m, f)}
           Body(f) == [i \in 0..n |-> IF i = 0 THEN <<>> ELSE V(i, f[i - 1])]
           only == CHOOSE f : f = Body(f)
<1>1. OnlyAt(s, K) = only[n]
  BY DEF OnlyAt
<1> HIDE DEF V
<1>2. 0 \in S
  <2>1. P(0, [i \in 0..n |-> <<>>])
    OBVIOUS
  <2>2. \E f : P(0, f)
    <3> HIDE DEF P
    <3> QED
      BY <2>1
  <2> QED
    BY <2>2
<1>3. ASSUME NEW m \in 0..(n - 1), m \in S PROVE m + 1 \in S
  <2>1. PICK f : P(m, f)
    BY <1>3
  <2> DEFINE g == [i \in 0..n |-> IF i <= m THEN f[i] ELSE V(m + 1, f[m])]
  <2>2. m + 1 \in 0..n /\ m \in 0..n
    OBVIOUS
  <2>3. \A i \in 0..m : g[i] = f[i]
    BY <2>2
  <2>4. g[m + 1] = V(m + 1, f[m])
    BY <2>2
  <2> HIDE DEF g
  <2>5. g[0] = <<>>
    BY <2>1, <2>3
  <2>6. ASSUME NEW i \in 1..(m + 1) PROVE g[i] = V(i, g[i - 1])
    <3>1. CASE i = m + 1
      BY <2>3, <2>4, <3>1
    <3>2. CASE i # m + 1
      <4>1. i \in 1..m /\ i \in 0..m /\ i - 1 \in 0..m
        BY <3>2
      <4> QED
        BY <2>1, <2>3, <4>1
    <3> QED
      BY <3>1, <3>2
  <2>7. P(m + 1, g)
    BY <2>5, <2>6
  <2> QED
    BY <2>2, <2>7
<1>4. PICK f : P(n, f)
  <2>1. \A m \in 0..n : m \in S
    <3> HIDE DEF S, n
    <3> QED
      BY <1>2, <1>3, UpTo, Zenon DEF n
  <2>2. n \in 0..n
    OBVIOUS
  <2> QED
    BY <2>1, <2>2
<1>5. \E g : g = Body(g)
  <2> DEFINE g == [i \in 0..n |-> f[i]]
  <2>1. ASSUME NEW i \in 0..n PROVE g[i] = IF i = 0 THEN <<>> ELSE V(i, g[i - 1])
    <3>1. CASE i = 0
      BY <1>4, <3>1
    <3>2. CASE i # 0
      <4>1. i \in 1..n /\ i - 1 \in 0..n
        BY <3>2
      <4> QED
        BY <1>4, <3>2, <4>1
    <3> QED
      BY <3>1, <3>2
  <2>2. g = Body(g)
    <3>1. g = [i \in 0..n |-> g[i]]
      OBVIOUS
    <3> HIDE DEF g
    <3> QED
      BY <2>1, <3>1
  <2> QED
    BY <2>2
<1>6. only = Body(only)
  <2> HIDE DEF Body
  <2> QED
    BY <1>5
<1> HIDE DEF only
<1>7. only[0] = <<>> /\ \A i \in 1..n : only[i] = V(i, only[i - 1])
  BY <1>6
<1> QED
  BY <1>1, <1>7 DEF V

\* r has the elements of s at the positions of K up to m, in their order.
Selects(S, s, K, m, r) ==
    /\ r \in Seq(S)
    /\ \E p \in [1..Len(r) -> 1..m] :
          /\ \A k \in 1..Len(r) : p[k] \in K /\ r[k] = s[p[k]]
          /\ \A k, l \in 1..Len(r) : k < l => p[k] < p[l]
          /\ \A i \in 1..m : i \in K => \E k \in 1..Len(r) : p[k] = i

LEMMA OnlyAtSelects ==
    ASSUME NEW S, NEW s \in Seq(S), NEW K
    PROVE  Selects(S, s, K, Len(s), OnlyAt(s, K))
<1> DEFINE n == Len(s)
<1>1. n \in Nat
  OBVIOUS
<1>2. PICK f : /\ f[0] = <<>>
               /\ \A i \in 1..n : f[i] = IF i \in K THEN Append(f[i - 1], s[i]) ELSE f[i - 1]
               /\ OnlyAt(s, K) = f[n]
  BY <1>1, OnlyAtUnfolds
<1> DEFINE T == {m \in 0..n : Selects(S, s, K, m, f[m])}
<1>3. 0 \in T
  <2> DEFINE p == [k \in 1..0 |-> 0]
  <2>1. <<>> \in Seq(S) /\ Len(<<>>) = 0
    OBVIOUS
  <2>2. p \in [1..0 -> 1..0] /\ (\A k \in 1..0 : FALSE)
    OBVIOUS
  <2> HIDE DEF p
  <2>3. Selects(S, s, K, 0, <<>>)
    BY <2>1, <2>2 DEF Selects
  <2> QED
    BY <1>1, <1>2, <2>3
<1>4. ASSUME NEW m \in 0..(n - 1), m \in T PROVE m + 1 \in T
  <2>1. m + 1 \in 1..n /\ m + 1 \in 0..n /\ (m + 1) - 1 = m /\ m \in Nat
    BY <1>1
  <2>2. f[m + 1] = IF m + 1 \in K THEN Append(f[m], s[m + 1]) ELSE f[m]
    BY <1>2, <2>1
  <2>3. Selects(S, s, K, m, f[m])
    BY <1>4
  <2> DEFINE r == f[m]  q == f[m + 1]
  <2>4. r \in Seq(S)
    BY <2>3 DEF Selects
  <2>5. PICK p \in [1..Len(r) -> 1..m] :
          /\ \A k \in 1..Len(r) : p[k] \in K /\ r[k] = s[p[k]]
          /\ \A k, l \in 1..Len(r) : k < l => p[k] < p[l]
          /\ \A i \in 1..m : i \in K => \E k \in 1..Len(r) : p[k] = i
    BY <2>3 DEF Selects
  <2>6. CASE m + 1 \notin K
    <3>1. q = r
      BY <2>2, <2>6
    <3>2. p \in [1..Len(r) -> 1..(m + 1)]
      BY <2>1
    <3>3. \A i \in 1..(m + 1) : i \in K => \E k \in 1..Len(r) : p[k] = i
      BY <2>1, <2>5, <2>6
    <3>4. Selects(S, s, K, m + 1, r)
      <4> HIDE DEF r
      <4> QED
        BY <2>4, <2>5, <3>2, <3>3 DEF Selects
    <3> QED
      BY <2>1, <3>1, <3>4
  <2>7. CASE m + 1 \in K
    <3> DEFINE z == Len(r) + 1
               o == [k \in 1..z |-> IF k = z THEN m + 1 ELSE p[k]]
    <3>1. s[m + 1] \in S
      BY <2>1
    <3>2. q = Append(r, s[m + 1])
      BY <2>2, <2>7
    <3>3. q \in Seq(S) /\ Len(q) = z /\ q[z] = s[m + 1] /\ \A k \in 1..Len(r) : q[k] = r[k]
      BY <2>4, <3>1, <3>2
    <3>4. Len(r) \in Nat /\ (\A k \in 1..z : k = z \/ k \in 1..Len(r)) /\ z \in 1..z
      BY <2>4
    <3>5. o \in [1..z -> 1..(m + 1)]
      BY <2>1, <3>4
    <3>6. o[z] = m + 1 /\ \A k \in 1..Len(r) : o[k] = p[k]
      BY <3>4
    <3> HIDE DEF o, z
    <3>7. \A k \in 1..z : o[k] \in K /\ q[k] = s[o[k]]
      BY <2>5, <2>7, <3>3, <3>4, <3>6
    <3>8. \A k, l \in 1..z : k < l => o[k] < o[l]
      <4> SUFFICES ASSUME NEW k \in 1..z, NEW l \in 1..z, k < l PROVE o[k] < o[l]
        OBVIOUS
      <4>1. k \in 1..Len(r)
        BY <3>4 DEF z
      <4>2. CASE l = z
        <5>1. p[k] \in 1..m
          BY <4>1
        <5> QED
          BY <2>1, <3>6, <4>1, <4>2, <5>1
      <4>3. CASE l # z
        BY <2>5, <3>4, <3>6, <4>1, <4>3
      <4> QED
        BY <4>2, <4>3
    <3>9. \A i \in 1..(m + 1) : i \in K => \E k \in 1..z : o[k] = i
      <4> SUFFICES ASSUME NEW i \in 1..(m + 1), i \in K PROVE \E k \in 1..z : o[k] = i
        OBVIOUS
      <4>1. CASE i = m + 1
        BY <3>4, <3>6, <4>1
      <4>2. CASE i # m + 1
        <5>1. i \in 1..m
          BY <2>1, <4>2
        <5>2. PICK k \in 1..Len(r) : p[k] = i
          BY <2>5, <5>1
        <5>3. k \in 1..z
          BY <3>4 DEF z
        <5> QED
          BY <3>6, <5>2, <5>3
      <4> QED
        BY <4>1, <4>2
    <3>10. Selects(S, s, K, m + 1, q)
      BY <3>3, <3>5, <3>7, <3>8, <3>9 DEF Selects
    <3> QED
      BY <2>1, <3>10
  <2> QED
    BY <2>6, <2>7
<1>5. \A m \in 0..n : m \in T
  <2> HIDE DEF T, n
  <2> QED
    BY <1>1, <1>3, <1>4, UpTo, Zenon
<1>6. n \in 0..n
  BY <1>1
<1> QED
  BY <1>2, <1>5, <1>6

Injective(s) == \A i, j \in 1..Len(s) : s[i] = s[j] => i = j

\* What Only keeps: the elements of s that are in X, none twice if none is in s twice, the
\* first one at its place, so that the first of s can only be the first of the result.
Keeps(S, s, X, r) ==
    /\ r \in Seq(S)
    /\ \A k \in 1..Len(r) : \E i \in 1..Len(s) : r[k] = s[i] /\ s[i] \in X
    /\ \A i \in 1..Len(s) : s[i] \in X => \E k \in 1..Len(r) : r[k] = s[i]
    /\ Injective(s) => Injective(r)
    /\ Injective(s) => \A k \in 2..Len(r) : r[k] # s[1]
    /\ s # <<>> /\ s[1] \in X => r # <<>> /\ r[1] = s[1]

LEMMA OnlyKeeps ==
    ASSUME NEW S, NEW s \in Seq(S), NEW X
    PROVE  Keeps(S, s, X, Only(s, X))
<1> DEFINE K == {i \in DOMAIN s : s[i] \in X}
           r == Only(s, X)
           n == Len(s)
<1>1. n \in Nat /\ DOMAIN s = 1..n /\ (s = <<>> <=> n = 0)
  OBVIOUS
<1>2. Selects(S, s, K, n, r)
  BY OnlyAtSelects DEF Only
<1>3. r \in Seq(S)
  BY <1>2 DEF Selects
<1>4. PICK p \in [1..Len(r) -> 1..n] :
        /\ \A k \in 1..Len(r) : p[k] \in K /\ r[k] = s[p[k]]
        /\ \A k, l \in 1..Len(r) : k < l => p[k] < p[l]
        /\ \A i \in 1..n : i \in K => \E k \in 1..Len(r) : p[k] = i
  BY <1>2 DEF Selects
<1>5. Len(r) \in Nat /\ (r = <<>> <=> Len(r) = 0)
  BY <1>3
<1>6. \A k \in 1..Len(r) : p[k] \in 1..n /\ s[p[k]] \in X
  BY <1>4
<1>7. \A i \in 1..n : i \in K <=> s[i] \in X
  BY <1>1
<1> HIDE DEF K, r, n
<1>8. \A k, l \in 1..Len(r) : p[k] = p[l] => k = l
  <2> SUFFICES ASSUME NEW k \in 1..Len(r), NEW l \in 1..Len(r), p[k] = p[l], k # l PROVE FALSE
    OBVIOUS
  <2>1. k < l \/ l < k
    BY <1>5
  <2>2. p[k] \in Nat /\ p[l] \in Nat
    BY <1>6, <1>1
  <2> QED
    BY <1>4, <2>1, <2>2
<1>9. ASSUME Injective(s) PROVE Injective(r)
  BY <1>4, <1>6, <1>8, <1>9 DEF Injective, n
<1>10. ASSUME Injective(s), NEW k \in 2..Len(r) PROVE r[k] # s[1]
  <2>1. 1 \in 1..Len(r) /\ k \in 1..Len(r) /\ 1 < k
    BY <1>5
  <2>2. p[1] \in 1..n /\ p[k] \in 1..n /\ p[1] < p[k]
    BY <1>4, <1>6, <2>1
  <2>3. p[k] # 1 /\ 1 \in 1..n
    BY <1>1, <2>2
  <2> QED
    BY <1>4, <1>10, <2>1, <2>2, <2>3 DEF Injective, n
<1>11. ASSUME s # <<>>, s[1] \in X PROVE r # <<>> /\ r[1] = s[1]
  <2>1. 1 \in 1..n
    BY <1>1, <1>11
  <2>2. PICK k \in 1..Len(r) : p[k] = 1
    BY <1>4, <1>7, <1>11, <2>1
  <2>3. 1 \in 1..Len(r) /\ Len(r) # 0
    BY <1>5
  <2>4. k = 1
    <3> SUFFICES ASSUME k # 1 PROVE FALSE
      OBVIOUS
    <3>1. 1 < k
      BY <1>5
    <3>2. p[1] < p[k] /\ p[1] \in 1..n
      BY <1>4, <1>6, <2>3, <3>1
    <3> QED
      BY <1>1, <2>2, <3>2
  <2> QED
    BY <1>4, <1>5, <2>2, <2>3, <2>4
<1>12. \A i \in 1..n : s[i] \in X => \E k \in 1..Len(r) : r[k] = s[i]
  BY <1>4, <1>7
<1>13. \A k \in 1..Len(r) : \E i \in 1..n : r[k] = s[i] /\ s[i] \in X
  BY <1>4, <1>6
<1>14. Keeps(S, s, X, r)
  BY <1>3, <1>9, <1>10, <1>11, <1>12, <1>13 DEF Keeps, n
<1> QED
  BY <1>14 DEF r

\* FlattenSeq: the elements of all the parts.
Flattens(S, ss, m, r) ==
    /\ r \in Seq(S)
    /\ \A k \in 1..Len(r) : \E i \in 1..m : \E l \in 1..Len(ss[i]) : r[k] = ss[i][l]
    /\ \A i \in 1..m : \A l \in 1..Len(ss[i]) : \E k \in 1..Len(r) : r[k] = ss[i][l]

LEMMA FlattenElements ==
    ASSUME NEW S, NEW ss, NEW n \in Nat, ss \in [1..n -> Seq(S)]
    PROVE  Flattens(S, ss, n, FlattenSeq(ss))
<1>1. ss \in Seq(Seq(S)) /\ Len(ss) = n
  OBVIOUS
<1>2. CASE n = 0
  <2>1. FlattenSeq(ss) = ss
    BY <1>1, <1>2 DEF FlattenSeq
  <2>2. ss = <<>>
    BY <1>1, <1>2
  <2> QED
    BY <1>2, <2>1, <2>2 DEF Flattens
<1>3. CASE n # 0
  <2> DEFINE V(i, x) == x \o ss[i]
             P(m, f) == f[1] = ss[1] /\ \A i \in 2..m : f[i] = V(i, f[i - 1])
             U == {m \in 0..n : m = 0 \/ \E f : P(m, f)}
             Body(f) == [i \in 1..n |-> IF i = 1 THEN ss[i] ELSE V(i, f[i - 1])]
             flatten == CHOOSE f : f = Body(f)
  <2>1. FlattenSeq(ss) = flatten[n]
    BY <1>1, <1>3 DEF FlattenSeq
  <2> HIDE DEF V
  <2>2. ASSUME NEW m \in 0..(n - 1), m \in U PROVE m + 1 \in U
    <3>1. m + 1 \in 0..n /\ m + 1 \in 1..n
      OBVIOUS
    <3>2. CASE m = 0
      <4>1. P(1, [i \in 1..n |-> ss[1]])
        BY <1>3
      <4>2. \E f : P(1, f)
        <5> HIDE DEF P
        <5> QED
          BY <4>1
      <4> QED
        BY <3>1, <3>2, <4>2
    <3>3. CASE m # 0
      <4>1. PICK f : P(m, f)
        BY <2>2, <3>3
      <4> DEFINE g == [i \in 1..n |-> IF i <= m THEN f[i] ELSE V(m + 1, f[m])]
      <4>2. \A i \in 1..m : g[i] = f[i]
        BY <3>1
      <4>3. g[m + 1] = V(m + 1, f[m])
        BY <3>1
      <4> HIDE DEF g
      <4>4. g[1] = ss[1]
        BY <3>3, <4>1, <4>2
      <4>5. ASSUME NEW i \in 2..(m + 1) PROVE g[i] = V(i, g[i - 1])
        <5>1. CASE i = m + 1
          <6>1. m \in 1..m /\ i - 1 = m
            BY <3>3, <5>1
          <6> QED
            BY <4>2, <4>3, <5>1, <6>1
        <5>2. CASE i # m + 1
          <6>1. i \in 2..m /\ i \in 1..m /\ i - 1 \in 1..m
            BY <5>2
          <6> QED
            BY <4>1, <4>2, <6>1
        <5> QED
          BY <5>1, <5>2
      <4>6. P(m + 1, g)
        BY <4>4, <4>5
      <4> QED
        BY <3>1, <4>6
    <3> QED
      BY <3>2, <3>3
  <2>3. PICK f : P(n, f)
    <3>1. 0 \in U
      OBVIOUS
    <3>2. \A m \in 0..n : m \in U
      <4> HIDE DEF U
      <4> QED
        BY <2>2, <3>1, UpTo, Zenon
    <3>3. n \in 0..n
      OBVIOUS
    <3> QED
      BY <1>3, <3>2, <3>3
  <2>4. \E g : g = Body(g)
    <3> DEFINE g == [i \in 1..n |-> f[i]]
    <3>1. ASSUME NEW i \in 1..n PROVE g[i] = IF i = 1 THEN ss[i] ELSE V(i, g[i - 1])
      <4>1. CASE i = 1
        BY <2>3, <4>1
      <4>2. CASE i # 1
        <5>1. i \in 2..n /\ i - 1 \in 1..n
          BY <4>2
        <5> QED
          BY <2>3, <4>2, <5>1
      <4> QED
        BY <4>1, <4>2
    <3>2. g = Body(g)
      <4>1. g = [i \in 1..n |-> g[i]]
        OBVIOUS
      <4> HIDE DEF g
      <4> QED
        BY <3>1, <4>1
    <3> QED
      BY <3>2
  <2>5. flatten = Body(flatten)
    <3> HIDE DEF Body
    <3> QED
      BY <2>4
  <2> HIDE DEF flatten
  <2>6. flatten[1] = ss[1] /\ \A i \in 2..n : flatten[i] = flatten[i - 1] \o ss[i]
    <3>1. flatten[1] = ss[1] /\ \A i \in 2..n : flatten[i] = V(i, flatten[i - 1])
      BY <1>3, <2>5
    <3> QED
      BY <3>1 DEF V
  <2> DEFINE W == {m \in 0..n : m = 0 \/ Flattens(S, ss, m, flatten[m])}
  <2>7. ASSUME NEW m \in 0..(n - 1), m \in W PROVE m + 1 \in W
    <3>1. m + 1 \in 0..n /\ m + 1 \in 1..n /\ ss[m + 1] \in Seq(S)
      OBVIOUS
    <3>2. CASE m = 0
      <4>1. ss[1] \in Seq(S) /\ flatten[1] = ss[1] /\ 1 \in 1..1
        BY <2>6, <3>1, <3>2
      <4>2. Flattens(S, ss, 1, ss[1])
        BY <4>1 DEF Flattens
      <4> QED
        BY <3>1, <3>2, <4>1, <4>2
    <3>3. CASE m # 0
      <4>1. m + 1 \in 2..n /\ (m + 1) - 1 = m /\ m \in Nat
        BY <3>3
      <4> DEFINE r == flatten[m]  b == ss[m + 1]
      <4>2. flatten[m + 1] = r \o b
        BY <2>6, <4>1
      <4>3. Flattens(S, ss, m, r)
        BY <2>7, <3>3
      <4>4. r \in Seq(S) /\ b \in Seq(S)
        BY <3>1, <4>3 DEF Flattens
      <4> HIDE DEF r, b
      <4>5. /\ r \o b \in Seq(S) /\ Len(r \o b) = Len(r) + Len(b)
            /\ \A k \in 1..Len(r) : (r \o b)[k] = r[k]
            /\ \A k \in 1..Len(b) : (r \o b)[Len(r) + k] = b[k]
        BY <4>4, Joined
      <4>6. Len(r) \in Nat /\ Len(b) \in Nat
        BY <4>4
      <4> DEFINE q == r \o b
      <4>7. ASSUME NEW k \in 1..Len(q) PROVE \E i \in 1..(m + 1) : \E l \in 1..Len(ss[i]) : q[k] = ss[i][l]
        <5>1. CASE k \in 1..Len(r)
          <6>1. PICK i \in 1..m : \E l \in 1..Len(ss[i]) : r[k] = ss[i][l]
            BY <4>3, <5>1 DEF Flattens
          <6>2. i \in 1..(m + 1)
            BY <4>1
          <6> QED
            BY <4>5, <5>1, <6>1, <6>2
        <5>2. CASE k \notin 1..Len(r)
          <6> DEFINE l == k - Len(r)
          <6>1. l \in 1..Len(b) /\ k = Len(r) + l /\ m + 1 \in 1..(m + 1)
            BY <4>1, <4>5, <4>6, <5>2
          <6> HIDE DEF l
          <6>2. q[k] = ss[m + 1][l]
            BY <4>5, <6>1 DEF b
          <6> QED
            BY <6>1, <6>2 DEF b
        <5> QED
          BY <5>1, <5>2
      <4>8. ASSUME NEW i \in 1..(m + 1), NEW l \in 1..Len(ss[i]) PROVE \E k \in 1..Len(q) : q[k] = ss[i][l]
        <5>1. CASE i = m + 1
          <6>1. Len(r) + l \in 1..Len(q) /\ q[Len(r) + l] = ss[i][l]
            BY <4>5, <4>6, <5>1 DEF b
          <6> QED
            BY <6>1
        <5>2. CASE i # m + 1
          <6>1. i \in 1..m
            BY <4>1, <5>2
          <6>2. PICK k \in 1..Len(r) : r[k] = ss[i][l]
            BY <4>3, <6>1 DEF Flattens
          <6>3. k \in 1..Len(q)
            BY <4>5, <4>6
          <6> QED
            BY <4>5, <6>2, <6>3
        <5> QED
          BY <5>1, <5>2
      <4> HIDE DEF q
      <4>9. Flattens(S, ss, m + 1, q)
        BY <4>5, <4>7, <4>8 DEF q, Flattens
      <4> QED
        BY <3>1, <4>2, <4>9 DEF q
    <3> QED
      BY <3>2, <3>3
  <2>8. \A m \in 0..n : m \in W
    <3>1. 0 \in W
      OBVIOUS
    <3> HIDE DEF W
    <3> QED
      BY <2>7, <3>1, UpTo, Zenon
  <2>9. n \in 0..n
    OBVIOUS
  <2>10. Flattens(S, ss, n, flatten[n])
    BY <1>3, <2>8, <2>9
  <2> QED
    BY <2>1, <2>10
<1> QED
  BY <1>2, <1>3

\* The sets of elements.
LEMMA ToSetIs ==
    ASSUME NEW S, NEW s \in Seq(S)
    PROVE  /\ ToSet(s) \subseteq S
           /\ \A i \in 1..Len(s) : s[i] \in ToSet(s)
           /\ \A x \in ToSet(s) : \E i \in 1..Len(s) : x = s[i]
<1>1. DOMAIN s = 1..Len(s) /\ \A i \in 1..Len(s) : s[i] \in S
  OBVIOUS
<1> QED
  BY <1>1 DEF ToSet

LEMMA ToSetJoined ==
    ASSUME NEW S, NEW a \in Seq(S), NEW b \in Seq(S)
    PROVE  ToSet(a \o b) = ToSet(a) \cup ToSet(b)
<1> DEFINE c == a \o b
<1>1. /\ c \in Seq(S) /\ Len(c) = Len(a) + Len(b)
      /\ \A k \in 1..Len(a) : c[k] = a[k]
      /\ \A k \in 1..Len(b) : c[Len(a) + k] = b[k]
  OBVIOUS
<1>2. Len(a) \in Nat /\ Len(b) \in Nat
  OBVIOUS
<1> HIDE DEF c
<1>3. ASSUME NEW x \in ToSet(c) PROVE x \in ToSet(a) \cup ToSet(b)
  <2>1. PICK k \in 1..Len(c) : x = c[k]
    BY <1>1, ToSetIs
  <2>2. CASE k \in 1..Len(a)
    BY <1>1, <2>1, <2>2, ToSetIs
  <2>3. CASE k \notin 1..Len(a)
    <3>1. PICK l \in 1..Len(b) : k = Len(a) + l
      <4>1. k - Len(a) \in 1..Len(b) /\ k = Len(a) + (k - Len(a))
        BY <1>1, <1>2, <2>3
      <4> QED
        BY <4>1
    <3>2. x = b[l]
      BY <1>1, <2>1, <3>1
    <3> QED
      BY <3>2, ToSetIs
  <2> QED
    BY <2>2, <2>3
<1>4. ASSUME NEW x \in ToSet(a) PROVE x \in ToSet(c)
  <2>1. PICK k \in 1..Len(a) : x = a[k]
    BY ToSetIs
  <2>2. k \in 1..Len(c)
    BY <1>1, <1>2
  <2> QED
    BY <1>1, <2>1, <2>2, ToSetIs
<1>5. ASSUME NEW x \in ToSet(b) PROVE x \in ToSet(c)
  <2>1. PICK k \in 1..Len(b) : x = b[k]
    BY ToSetIs
  <2>2. Len(a) + k \in 1..Len(c) /\ c[Len(a) + k] = x
    BY <1>1, <1>2, <2>1
  <2> QED
    BY <1>1, <2>2, ToSetIs
<1> QED
  BY <1>3, <1>4, <1>5 DEF c

LEMMA ToSetOnly ==
    ASSUME NEW S, NEW s \in Seq(S), NEW X
    PROVE  ToSet(Only(s, X)) = ToSet(s) \cap X
<1> DEFINE r == Only(s, X)
<1>1. /\ r \in Seq(S)
      /\ \A k \in 1..Len(r) : \E i \in 1..Len(s) : r[k] = s[i] /\ s[i] \in X
      /\ \A i \in 1..Len(s) : s[i] \in X => \E k \in 1..Len(r) : r[k] = s[i]
  <2>1. Keeps(S, s, X, r)
    BY OnlyKeeps
  <2> HIDE DEF r
  <2> QED
    BY <2>1 DEF Keeps
<1> HIDE DEF r
<1>2. ASSUME NEW x \in ToSet(r) PROVE x \in ToSet(s) \cap X
  <2>1. PICK k \in 1..Len(r) : x = r[k]
    BY <1>1, ToSetIs
  <2>2. PICK i \in 1..Len(s) : r[k] = s[i] /\ s[i] \in X
    BY <1>1
  <2> QED
    BY <2>1, <2>2, ToSetIs
<1>3. ASSUME NEW x \in ToSet(s) \cap X PROVE x \in ToSet(r)
  <2>1. PICK i \in 1..Len(s) : x = s[i]
    BY ToSetIs
  <2>2. PICK k \in 1..Len(r) : r[k] = s[i]
    BY <1>1, <2>1
  <2> QED
    BY <1>1, <2>1, <2>2, ToSetIs
<1> QED
  BY <1>2, <1>3 DEF r

LEMMA ToSetFlatten ==
    ASSUME NEW S, NEW ss, NEW n \in Nat, ss \in [1..n -> Seq(S)]
    PROVE  /\ FlattenSeq(ss) \in Seq(S)
           /\ ToSet(FlattenSeq(ss)) = UNION {ToSet(ss[i]) : i \in 1..n}
<1> DEFINE r == FlattenSeq(ss)
<1>1. /\ r \in Seq(S)
      /\ \A k \in 1..Len(r) : \E i \in 1..n : \E l \in 1..Len(ss[i]) : r[k] = ss[i][l]
      /\ \A i \in 1..n : \A l \in 1..Len(ss[i]) : \E k \in 1..Len(r) : r[k] = ss[i][l]
  <2>1. Flattens(S, ss, n, r)
    BY FlattenElements
  <2> HIDE DEF r
  <2> QED
    BY <2>1 DEF Flattens
<1>2. \A i \in 1..n : ss[i] \in Seq(S)
  OBVIOUS
<1> HIDE DEF r
<1>3. ASSUME NEW x \in ToSet(r) PROVE \E i \in 1..n : x \in ToSet(ss[i])
  <2>1. PICK k \in 1..Len(r) : x = r[k]
    BY <1>1, ToSetIs
  <2>2. PICK i \in 1..n : \E l \in 1..Len(ss[i]) : r[k] = ss[i][l]
    BY <1>1
  <2> QED
    BY <1>2, <2>1, <2>2, ToSetIs
<1>4. ASSUME NEW i \in 1..n, NEW x \in ToSet(ss[i]) PROVE x \in ToSet(r)
  <2>1. PICK l \in 1..Len(ss[i]) : x = ss[i][l]
    BY <1>2, ToSetIs
  <2>2. PICK k \in 1..Len(r) : r[k] = ss[i][l]
    BY <1>1
  <2> QED
    BY <1>1, <2>1, <2>2, ToSetIs
<1> QED
  BY <1>1, <1>3, <1>4 DEF r

\* The first element and the others.
LEMMA HeadAndTail ==
    ASSUME NEW S, NEW s \in Seq(S), s # <<>>
    PROVE  /\ Head(s) = s[1] /\ s[1] \in S /\ Tail(s) \in Seq(S)
           /\ ToSet(s) = {s[1]} \cup ToSet(Tail(s))
           /\ Injective(s) => Injective(Tail(s)) /\ s[1] \notin ToSet(Tail(s))
<1> DEFINE r == Tail(s)
<1>1. /\ Head(s) = s[1] /\ s[1] \in S /\ r \in Seq(S)
      /\ Len(s) \in Nat /\ Len(s) >= 1 /\ Len(r) = Len(s) - 1
      /\ \A k \in 1..Len(r) : r[k] = s[k + 1]
  OBVIOUS
<1> HIDE DEF r
<1>2. \A k \in 1..Len(r) : k + 1 \in 1..Len(s) /\ k + 1 # 1
  BY <1>1
<1>3. 1 \in 1..Len(s)
  BY <1>1
<1>4. ASSUME NEW x \in ToSet(s) PROVE x = s[1] \/ x \in ToSet(r)
  <2>1. PICK k \in 1..Len(s) : x = s[k]
    BY ToSetIs
  <2>2. CASE k # 1
    <3>1. k - 1 \in 1..Len(r) /\ (k - 1) + 1 = k
      BY <1>1, <2>2
    <3>2. r[k - 1] = x
      BY <1>1, <2>1, <3>1
    <3> QED
      BY <1>1, <3>1, <3>2, ToSetIs
  <2> QED
    BY <2>1, <2>2
<1>5. ASSUME NEW x \in ToSet(r) PROVE \E k \in 1..Len(r) : x = s[k + 1]
  BY <1>1, ToSetIs
<1>6. ASSUME NEW x \in ToSet(r) PROVE x \in ToSet(s)
  BY <1>2, <1>5, ToSetIs
<1>7. s[1] \in ToSet(s)
  BY <1>3, ToSetIs
<1>8. ASSUME Injective(s) PROVE Injective(r) /\ s[1] \notin ToSet(r)
  <2>1. s[1] \notin ToSet(r)
    BY <1>2, <1>3, <1>5, <1>8 DEF Injective
  <2>2. ASSUME NEW i \in 1..Len(r), NEW j \in 1..Len(r), r[i] = r[j] PROVE i = j
    <3>1. i + 1 = j + 1
      BY <1>1, <1>2, <1>8, <2>2 DEF Injective
    <3> QED
      BY <3>1
  <2> QED
    BY <2>1, <2>2 DEF Injective
<1> QED
  BY <1>1, <1>4, <1>6, <1>7, <1>8 DEF r

-----------------------------------------------------------------------------
(* No context is lost but in the ways that Undisturbed names.              *)

\* A slice whose elements can be read.
Readable(heap, s) ==
    /\ s = [arr |-> s.arr, len |-> s.len, val |-> s.val]
    /\ \/ s.arr = 0 /\ s.val \in Seq(Nat)
       \/ s.arr \in 1..Len(heap) /\ s.len \in 0..Len(heap[s.arr])

\* What the tasks info say of groups, of the contexts that S stands for, and whether every
\* context is done or stood for.
GroupIn(inf, i) == IF inf[i].bind = 0 THEN NoGroup ELSE Bindings[inf[i].bind].group

CareIn(inf, S) ==
    S \cup {i \in DOMAIN inf : /\ GroupIn(inf, i) # NoGroup
                               /\ inf[i].kind = "HookRun"
                               /\ \E j \in S : inf[j].hook = inf[i].hook /\ GroupIn(inf, j) = GroupIn(inf, i)}

CoveredIn(inf, dn, S) == \A i \in DOMAIN inf : inf[i].kind = "HookRun" => i \in dn \cup CareIn(inf, S)

\* The contexts of a task, of the queue, of the queue but one task, and of the worker's merge.
Has(t) == ToSet(Contexts(t))
Queued == UNION {Has(t) : t \in ToSet(queue)}
QueuedBut(u) == UNION {Has(t) : t \in ToSet(queue) \ {u}}
Merge == comp["worker"]
Merged == ToSet(Contents(ctxHeap, Merge.ctx))
InHand == IF Merge.target = 0 THEN {} ELSE Merged

\* Tasks, and contexts, of a hook.
OfHook(S, h) == \A i \in S : i \in Tasks /\ info[i].kind = "HookRun" /\ info[i].hook = h

\* A task carries contexts of its hook; an Enable task carries none.
TaskOK(t) ==
    /\ Readable(ctxHeap, meta[t].ctx)
    /\ OfHook(Has(t), info[t].hook)
    /\ info[t].kind = "Enable" => Has(t) = {}

Fields == {"ctx", "mon", "others", "sync", "res"}

IsMerge(m) ==
    m = [live |-> m.live, ids |-> m.ids, groups |-> m.groups, grp |-> m.grp, target |-> m.target,
         ctx |-> m.ctx, mon |-> m.mon]

\* The locals of the compactions; the events goroutine merges nothing.
MergeLocals ==
    /\ comp = [a \in Actors |-> comp[a]]
    /\ IsMerge(comp["events"]) /\ comp["events"].target = 0
    /\ IsMerge(Merge)

Tables ==
    /\ Len(info) \in Nat /\ info = [i \in 1..Len(info) |-> info[i]]
    /\ meta = [i \in 1..Len(info) |-> meta[i]]
    /\ ctxHeap \in Seq(Seq(Nat)) /\ ctxPool \subseteq 1..Len(ctxHeap)
    /\ queue \in Seq(Tasks) /\ Injective(queue)
    /\ \A t \in ToSet(queue) : TaskOK(t)
    /\ pc \in [Actors -> Points]
    /\ run = [f \in Fields |-> run[f]]
    /\ MergeLocals

\* Tasks of one hook that wait in the queue to be merged.
MergeOK(s, h) ==
    s \in Seq(Tasks) /\ Injective(s) /\ ToSet(s) \subseteq ToSet(queue) /\ OfHook(ToSet(s), h)

\* A group that the scan collected: the head of the queue can only be the merge target.
GroupOK(g) == Len(g) > 1 /\ MergeOK(g, info[g[1]].hook) /\ cur \notin ToSet(Tail(g))

\* The groups are of different hooks.
GroupsOK ==
    /\ \A g \in Merge.groups : GroupOK(g)
    /\ \A f, g \in Merge.groups : info[f[1]].hook = info[g[1]].hook => f = g

\* What the merge in hand has collected: the contexts of the target and more of its hook.
Collected ==
    LET t == Merge.target IN
    /\ t \in ToSet(queue) /\ info[t].kind = "HookRun"
    /\ MergeOK(Merge.grp, info[t].hook) /\ cur \notin ToSet(Merge.grp) /\ t \notin ToSet(Merge.grp)
    /\ \A g \in Merge.groups : info[g[1]].hook # info[t].hook
    /\ Readable(ctxHeap, Merge.ctx) /\ Merge.ctx.arr # 0
    /\ OfHook(Merged, info[t].hook) /\ Has(t) \subseteq Merged
    /\ meta[t].ctx.arr = Merge.ctx.arr => meta[t].ctx.len <= Merge.ctx.len

Merging ==
    /\ pc["worker"] # "merge" => Merge.target = 0
    /\ Merge.target = 0 => Merge.grp = <<>>
    /\ pc["worker"] = "merge" => GroupsOK
    /\ Merge.target # 0 => Collected

\* The worker has the head of the queue in hand, and what a run has is what the task carries.
Holding ==
    /\ pc["worker"] \in Ready \cup Working => queue # <<>> /\ queue[1] = cur
    /\ pc["worker"] \in {"combine", "delete", "run", "skip"} => info[cur].kind = "HookRun"
    /\ pc["worker"] \in {"combine", "run", "skip"} => run.ctx = meta[cur].ctx
    /\ pc["worker"] = "delete" =>
          /\ run.others \subseteq ToSet(queue) \ {cur}
          /\ run.ctx.arr = 0 /\ Readable(ctxHeap, run.ctx)
          /\ OfHook(ToSet(run.ctx.val), info[cur].hook)
          /\ \A t \in run.others \cup {cur} : Has(t) \subseteq CareIn(info, ToSet(run.ctx.val))
    /\ pc["worker"] = "result" /\ run.res = "Success" /\ info[cur].kind # "Enable" =>
          CoveredIn(info, done, QueuedBut(cur))

QueueInv == Tables /\ Merging /\ Holding /\ CoveredIn(info, done, Queued \cup InHand)

\* Reading a slice.
Reads(heap, s, c) ==
    /\ c \in Seq(Nat)
    /\ s.arr = 0 => c = s.val
    /\ s.arr # 0 => Len(c) = s.len /\ \A k \in 1..s.len : c[k] = heap[s.arr][k]

LEMMA Contained ==
    ASSUME NEW heap \in Seq(Seq(Nat)), NEW s, Readable(heap, s)
    PROVE  Reads(heap, s, Contents(heap, s))
<1>1. CASE s.arr = 0
  BY <1>1 DEF Readable, Contents, Reads
<1>2. CASE s.arr # 0
  <2> DEFINE a == heap[s.arr]
  <2>1. a \in Seq(Nat) /\ s.len \in 0..Len(a)
    BY <1>2 DEF Readable
  <2>2. Contents(heap, s) = SubSeq(a, 1, s.len)
    BY <1>2 DEF Contents
  <2> HIDE DEF a
  <2>3. /\ SubSeq(a, 1, s.len) \in Seq(Nat) /\ Len(SubSeq(a, 1, s.len)) = s.len
        /\ \A k \in 1..s.len : SubSeq(a, 1, s.len)[k] = a[k]
    BY <2>1
  <2>4. Reads(heap, s, SubSeq(a, 1, s.len))
    BY <1>2, <2>3 DEF Reads, a
  <2> QED
    BY <2>2, <2>4
<1> QED
  BY <1>1, <1>2

\* Writing behind the first n elements of an array, or to a new one.
LEMMA Written ==
    ASSUME NEW heap \in Seq(Seq(Nat)), NEW a \in 1..(Len(heap) + 1), NEW n \in Nat, NEW xs \in Seq(Nat),
           IF a = Len(heap) + 1 THEN n = 0 ELSE n <= Len(heap[a])
    PROVE  /\ WriteAt(heap, a, n, xs) \in Seq(Seq(Nat))
           /\ Len(WriteAt(heap, a, n, xs)) \in Nat /\ Len(WriteAt(heap, a, n, xs)) >= Len(heap)
           /\ a \in 1..Len(WriteAt(heap, a, n, xs))
           /\ \A b \in 1..Len(heap) : b # a => WriteAt(heap, a, n, xs)[b] = heap[b]
           /\ n + Len(xs) \in 0..Len(WriteAt(heap, a, n, xs)[a])
           /\ \A k \in 1..n : WriteAt(heap, a, n, xs)[a][k] = heap[a][k]
           /\ \A k \in 1..Len(xs) : WriteAt(heap, a, n, xs)[a][n + k] = xs[k]
<1> DEFINE h == WriteAt(heap, a, n, xs)
<1>1. Len(heap) \in Nat /\ Len(xs) \in Nat
  OBVIOUS
<1>2. CASE a = Len(heap) + 1
  <2>1. h = Append(heap, xs)
    BY <1>1, <1>2 DEF WriteAt
  <2>2. /\ h \in Seq(Seq(Nat)) /\ Len(h) = Len(heap) + 1 /\ h[Len(heap) + 1] = xs
        /\ \A b \in 1..Len(heap) : h[b] = heap[b]
    BY <2>1
  <2> HIDE DEF h
  <2>3. n = 0 /\ (\A k \in 1..n : FALSE) /\ \A k \in 1..Len(xs) : n + k = k
    BY <1>2
  <2>4. \A k \in 1..Len(xs) : h[a][n + k] = xs[k]
    BY <1>2, <2>2, <2>3
  <2>5. Len(h) \in Nat /\ Len(h) >= Len(heap) /\ a \in 1..Len(h) /\ n + Len(xs) \in 0..Len(h[a])
    BY <1>1, <1>2, <2>2, <2>3
  <2> QED
    BY <2>2, <2>3, <2>4, <2>5 DEF h
<1>3. CASE a # Len(heap) + 1
  <2> DEFINE o == heap[a]
             u == SubSeq(o, 1, n)
             v == SubSeq(o, n + Len(xs) + 1, Len(o))
             w == u \o xs \o v
  <2>1. a \in 1..Len(heap) /\ ~(a > Len(heap)) /\ o \in Seq(Nat) /\ Len(o) \in Nat /\ n <= Len(o)
    BY <1>1, <1>3
  <2>2. h = [heap EXCEPT ![a] = w]
    BY <2>1 DEF WriteAt
  <2>3. u \in Seq(Nat) /\ Len(u) = n /\ \A k \in 1..n : u[k] = o[k]
    <3> HIDE DEF o
    <3>1. 1 \in 1..(Len(o) + 1) /\ n \in 0..Len(o) /\ 1 <= n + 1 /\ n - 1 + 1 = n /\ \A k \in 1..n : 1 + k - 1 = k
      BY <2>1
    <3>2. /\ u \in Seq(Nat) /\ Len(u) = n - 1 + 1
          /\ \A k \in 1..(n - 1 + 1) : u[k] = o[1 + k - 1]
      BY <2>1, <3>1, PartOf
    <3> HIDE DEF u
    <3> QED
      BY <3>1, <3>2
  <2>4. v \in Seq(Nat) /\ Len(v) \in Nat
    <3> HIDE DEF o
    <3>1. CASE n + Len(xs) + 1 > Len(o)
      BY <1>1, <2>1, <3>1, SMTT(30)
    <3>2. CASE ~(n + Len(xs) + 1 > Len(o))
      <4> DEFINE i == n + Len(xs) + 1  j == Len(o)
      <4>1. i \in 1..(Len(o) + 1) /\ j \in 0..Len(o) /\ i <= j + 1 /\ j - i + 1 \in Nat
        BY <1>1, <2>1, <3>2
      <4> HIDE DEF i, j
      <4>2. SubSeq(o, i, j) \in Seq(Nat) /\ Len(SubSeq(o, i, j)) = j - i + 1
        BY <2>1, <4>1, PartOf
      <4> QED
        BY <4>1, <4>2 DEF i, j
    <3> QED
      BY <3>1, <3>2
  <2> DEFINE y == u \o xs
  <2> HIDE DEF u, v
  <2>5. y \in Seq(Nat) /\ Len(y) = n + Len(xs) /\ (\A k \in 1..n : y[k] = u[k]) /\ \A k \in 1..Len(xs) : y[n + k] = xs[k]
    <3>1. /\ u \o xs \in Seq(Nat) /\ Len(u \o xs) = Len(u) + Len(xs)
          /\ \A k \in 1..Len(u) : (u \o xs)[k] = u[k]
          /\ \A k \in 1..Len(xs) : (u \o xs)[Len(u) + k] = xs[k]
      <4>1. u \in Seq(Nat)
        BY <2>3
      <4> QED
        BY <4>1, Joined
    <3> QED
      BY <2>3, <3>1
  <2>6. w = y \o v
    OBVIOUS
  <2> HIDE DEF y, w
  <2>7. w \in Seq(Nat) /\ Len(w) = n + Len(xs) + Len(v) /\ \A k \in 1..(n + Len(xs)) : w[k] = y[k]
    <3>1. /\ y \o v \in Seq(Nat) /\ Len(y \o v) = Len(y) + Len(v)
          /\ \A k \in 1..Len(y) : (y \o v)[k] = y[k]
      <4>1. y \in Seq(Nat) /\ v \in Seq(Nat)
        BY <2>4, <2>5
      <4> QED
        BY <4>1, Joined
    <3> QED
      BY <2>5, <2>6, <3>1
  <2>8. /\ h \in Seq(Seq(Nat)) /\ Len(h) = Len(heap) /\ h[a] = w
        /\ \A b \in 1..Len(heap) : b # a => h[b] = heap[b]
    <3> HIDE DEF h
    <3> QED
      BY <2>1, <2>2, <2>7
  <2> HIDE DEF h
  <2>9. \A k \in 1..n : h[a][k] = heap[a][k]
    <3> TAKE k \in 1..n
    <3>1. k \in 1..(n + Len(xs))
      BY <1>1
    <3> QED
      BY <2>3, <2>5, <2>7, <2>8, <3>1
  <2>10. \A k \in 1..Len(xs) : h[a][n + k] = xs[k]
    <3> TAKE k \in 1..Len(xs)
    <3>1. n + k \in 1..(n + Len(xs))
      BY <1>1
    <3> QED
      BY <2>5, <2>7, <2>8, <3>1
  <2>11. Len(h) \in Nat /\ Len(h) >= Len(heap) /\ a \in 1..Len(h) /\ n + Len(xs) \in 0..Len(h[a])
    <3>1. n + Len(xs) \in 0..Len(h[a])
      <4>1. PICK p, q : p = Len(xs) /\ q = Len(v)
        OBVIOUS
      <4>2. p \in Nat /\ q \in Nat /\ Len(h[a]) = n + p + q
        BY <1>1, <2>4, <2>7, <2>8, <4>1
      <4>3. n + p \in 0..(n + p + q)
        BY <4>2
      <4> QED
        BY <4>1, <4>2, <4>3
    <3>2. Len(h) \in Nat /\ Len(h) >= Len(heap) /\ a \in 1..Len(h)
      BY <1>1, <2>1, <2>8
    <3> QED
      BY <3>1, <3>2
  <2> QED
    BY <2>8, <2>9, <2>10, <2>11 DEF h
<1> QED
  BY <1>2, <1>3

\* A slice of another array, or of the part in front of what is written, has what it had.
LEMMA WrittenElsewhere ==
    ASSUME NEW heap \in Seq(Seq(Nat)), NEW a \in 1..(Len(heap) + 1), NEW n \in Nat, NEW xs \in Seq(Nat),
           IF a = Len(heap) + 1 THEN n = 0 ELSE n <= Len(heap[a]),
           NEW s, Readable(heap, s), s.arr = a => s.len <= n
    PROVE  /\ Readable(WriteAt(heap, a, n, xs), s)
           /\ Contents(WriteAt(heap, a, n, xs), s) = Contents(heap, s)
<1> DEFINE h == WriteAt(heap, a, n, xs)
<1>1. /\ h \in Seq(Seq(Nat)) /\ Len(h) \in Nat /\ Len(h) >= Len(heap) /\ a \in 1..Len(h)
      /\ \A b \in 1..Len(heap) : b # a => h[b] = heap[b]
      /\ n + Len(xs) \in 0..Len(h[a])
      /\ \A k \in 1..n : h[a][k] = heap[a][k]
  BY Written
<1>2. Len(heap) \in Nat /\ Len(xs) \in Nat
  OBVIOUS
<1> HIDE DEF h
<1>3. CASE s.arr = 0
  BY <1>3 DEF Readable, Contents, h
<1>4. CASE s.arr # 0
  <2>1. s.arr \in 1..Len(heap) /\ s.len \in 0..Len(heap[s.arr]) /\ s.arr \in 1..Len(h)
    BY <1>1, <1>2, <1>4 DEF Readable
  <2>2. s.len \in 0..Len(h[s.arr])
    <3>1. CASE s.arr = a
      <4>1. PICK m : m = Len(h[a])
        OBVIOUS
      <4>2. PICK l : l = s.len
        OBVIOUS
      <4>3. m \in Nat /\ n + Len(xs) \in 0..m
        <5>1. h[a] \in Seq(Nat)
          BY <1>1
        <5>2. Len(h[a]) \in Nat
          BY <5>1
        <5> QED
          BY <1>1, <4>1, <5>2
      <4>4. l \in Nat /\ l <= n
        <5>1. heap[s.arr] \in Seq(Nat)
          BY <2>1
        <5>2. Len(heap[s.arr]) \in Nat /\ l \in 0..Len(heap[s.arr])
          BY <2>1, <4>2, <5>1
        <5>3. l \in Nat
          BY <5>2
        <5> QED
          BY <3>1, <4>2, <5>3
      <4>5. l \in 0..m
        BY <1>2, <4>3, <4>4
      <4> QED
        BY <3>1, <4>1, <4>2, <4>5
    <3>2. CASE s.arr # a
      BY <1>1, <2>1, <3>2
    <3> QED
      BY <3>1, <3>2
  <2>3. Readable(h, s)
    BY <2>1, <2>2 DEF Readable
  <2>4. /\ Contents(heap, s) \in Seq(Nat) /\ Len(Contents(heap, s)) = s.len
        /\ \A k \in 1..s.len : Contents(heap, s)[k] = heap[s.arr][k]
    BY <1>4, Contained DEF Reads
  <2>5. /\ Contents(h, s) \in Seq(Nat) /\ Len(Contents(h, s)) = s.len
        /\ \A k \in 1..s.len : Contents(h, s)[k] = h[s.arr][k]
    BY <1>1, <1>4, <2>3, Contained DEF Reads
  <2>6. \A k \in 1..s.len : h[s.arr][k] = heap[s.arr][k]
    <3> TAKE k \in 1..s.len
    <3>1. CASE s.arr = a
      <4>1. k \in 1..n
        BY <2>1, <3>1
      <4> QED
        BY <1>1, <3>1, <4>1
    <3>2. CASE s.arr # a
      BY <1>1, <2>1, <3>2
    <3> QED
      BY <3>1, <3>2
  <2>7. Contents(h, s) = Contents(heap, s)
    <3> DEFINE p == Contents(h, s)  q == Contents(heap, s)
    <3>1. p \in Seq(Nat) /\ q \in Seq(Nat) /\ Len(p) = Len(q) /\ \A k \in 1..Len(q) : p[k] = q[k]
      BY <2>4, <2>5, <2>6
    <3> HIDE DEF p, q
    <3>2. p = q
      BY <3>1, SameSequence
    <3> QED
      BY <3>2 DEF p, q
  <2> QED
    BY <2>3, <2>7 DEF h
<1> QED
  BY <1>3, <1>4

\* The slice that is extended by what is written.
LEMMA WrittenSlice ==
    ASSUME NEW heap \in Seq(Seq(Nat)), NEW a \in 1..(Len(heap) + 1), NEW n \in Nat, NEW xs \in Seq(Nat),
           IF a = Len(heap) + 1 THEN n = 0 ELSE n <= Len(heap[a]),
           NEW s, s = [arr |-> a, len |-> n + Len(xs), val |-> s.val]
    PROVE  /\ Readable(WriteAt(heap, a, n, xs), s)
           /\ ToSet(Contents(WriteAt(heap, a, n, xs), s)) = {heap[a][k] : k \in 1..n} \cup ToSet(xs)
<1> DEFINE h == WriteAt(heap, a, n, xs)
<1>1. /\ h \in Seq(Seq(Nat)) /\ a \in 1..Len(h)
      /\ n + Len(xs) \in 0..Len(h[a])
      /\ \A k \in 1..n : h[a][k] = heap[a][k]
      /\ \A k \in 1..Len(xs) : h[a][n + k] = xs[k]
  BY Written
<1>2. Len(xs) \in Nat /\ a # 0
  OBVIOUS
<1> HIDE DEF h
<1>3. s.arr = a /\ s.len = n + Len(xs)
  OBVIOUS
<1>4. Readable(h, s)
  BY <1>1, <1>3 DEF Readable
<1> DEFINE c == Contents(h, s)
<1>5. c \in Seq(Nat) /\ Len(c) = n + Len(xs) /\ \A k \in 1..(n + Len(xs)) : c[k] = h[a][k]
  <2>1. /\ c \in Seq(Nat)
        /\ s.arr # 0 => Len(c) = s.len /\ \A k \in 1..s.len : c[k] = h[s.arr][k]
    <3>1. Reads(h, s, c)
      BY <1>1, <1>4, Contained
    <3> HIDE DEF c
    <3> QED
      BY <3>1 DEF Reads
  <2> HIDE DEF c
  <2> QED
    BY <1>2, <1>3, <2>1
<1> HIDE DEF c
<1>6. ASSUME NEW x \in ToSet(c) PROVE x \in {heap[a][k] : k \in 1..n} \cup ToSet(xs)
  <2>1. PICK k \in 1..(n + Len(xs)) : x = c[k]
    BY <1>5, ToSetIs
  <2>2. CASE k \in 1..n
    BY <1>1, <1>5, <2>1, <2>2
  <2>3. CASE k \notin 1..n
    <3>1. k - n \in 1..Len(xs) /\ n + (k - n) = k
      BY <1>2, <2>3
    <3>2. x = xs[k - n]
      BY <1>1, <1>5, <2>1, <3>1
    <3> QED
      BY <3>1, <3>2, ToSetIs
  <2> QED
    BY <2>2, <2>3
<1>7. ASSUME NEW k \in 1..n PROVE heap[a][k] \in ToSet(c)
  <2>1. k \in 1..(n + Len(xs))
    BY <1>2
  <2>2. c[k] = heap[a][k]
    BY <1>1, <1>5, <2>1
  <2> QED
    BY <1>5, <2>1, <2>2, ToSetIs
<1>8. ASSUME NEW x \in ToSet(xs) PROVE x \in ToSet(c)
  <2>1. PICK k \in 1..Len(xs) : x = xs[k]
    BY ToSetIs
  <2>2. n + k \in 1..(n + Len(xs))
    BY <1>2
  <2>3. c[n + k] = x
    BY <1>1, <1>5, <2>1, <2>2
  <2> QED
    BY <1>5, <2>2, <2>3, ToSetIs
<1> QED
  BY <1>4, <1>6, <1>7, <1>8 DEF h, c

\* Who stands for P stands for all that P stands for, also when there are more tasks.
LEMMA CareGrows ==
    ASSUME NEW inf, NEW inf2, DOMAIN inf \subseteq DOMAIN inf2, \A i \in DOMAIN inf : inf2[i] = inf[i],
           NEW P, P \subseteq DOMAIN inf, NEW Q, P \subseteq CareIn(inf2, Q)
    PROVE  CareIn(inf, P) \subseteq CareIn(inf2, Q)
<1>1. \A i \in DOMAIN inf : GroupIn(inf2, i) = GroupIn(inf, i) /\ i \in DOMAIN inf2
  BY DEF GroupIn
<1> SUFFICES ASSUME NEW i \in CareIn(inf, P), i \notin P PROVE i \in CareIn(inf2, Q)
  OBVIOUS
<1>2. /\ i \in DOMAIN inf /\ GroupIn(inf, i) # NoGroup /\ inf[i].kind = "HookRun"
      /\ \E j \in P : inf[j].hook = inf[i].hook /\ GroupIn(inf, j) = GroupIn(inf, i)
  BY DEF CareIn
<1>3. PICK j \in P : inf[j].hook = inf[i].hook /\ GroupIn(inf, j) = GroupIn(inf, i)
  BY <1>2
<1>4. j \in DOMAIN inf /\ inf2[j] = inf[j] /\ inf2[i] = inf[i]
  BY <1>2, <1>3
<1>5. \E k \in Q : inf2[k].hook = inf2[i].hook /\ GroupIn(inf2, k) = GroupIn(inf2, i)
  <2>1. CASE j \in Q
    BY <1>1, <1>2, <1>3, <1>4, <2>1
  <2>2. CASE j \notin Q
    <3>1. PICK k \in Q : inf2[k].hook = inf2[j].hook /\ GroupIn(inf2, k) = GroupIn(inf2, j)
      BY <2>2 DEF CareIn
    <3> QED
      BY <1>1, <1>2, <1>3, <1>4, <3>1
  <2> QED
    BY <2>1, <2>2
<1> QED
  BY <1>1, <1>2, <1>4, <1>5 DEF CareIn

LEMMA CareOfBoth ==
    ASSUME NEW inf, NEW A, NEW B
    PROVE  CareIn(inf, A \cup B) = CareIn(inf, A) \cup CareIn(inf, B)
  BY DEF CareIn

LEMMA CareOfMore ==
    ASSUME NEW inf, NEW A, NEW B, A \subseteq B
    PROVE  CareIn(inf, A) \subseteq CareIn(inf, B) /\ A \subseteq CareIn(inf, A)
  BY DEF CareIn

\* Every context stays covered if what P stood for is done or stood for by Q, and new ones are in Q.
LEMMA StillCovered ==
    ASSUME NEW inf, NEW inf2, DOMAIN inf \subseteq DOMAIN inf2, \A i \in DOMAIN inf : inf2[i] = inf[i],
           NEW dn, NEW dn2, dn \subseteq dn2, NEW P, NEW Q, CareIn(inf, P) \subseteq dn2 \cup CareIn(inf2, Q),
           \A i \in DOMAIN inf2 \ DOMAIN inf : inf2[i].kind = "HookRun" => i \in Q,
           CoveredIn(inf, dn, P)
    PROVE  CoveredIn(inf2, dn2, Q)
<1>1. Q \subseteq CareIn(inf2, Q)
  BY DEF CareIn
<1> QED
  BY <1>1 DEF CoveredIn

LEMMA CareIs ==
    ASSUME NEW S
    PROVE  TakenCare(S) = CareIn(info, S)
  BY DEF TakenCare, CareIn, GroupOf, GroupIn, Tasks

\* A context that CompactAdjacent drops is followed by others of its group, the last of which is kept.
LEMMA AdjacentCovers ==
    ASSUME NEW h, NEW cs \in Seq(Nat), OfHook(ToSet(cs), h)
    PROVE  /\ CompactAdjacent(cs) \in Seq(Nat) /\ ToSet(CompactAdjacent(cs)) \subseteq ToSet(cs)
           /\ ToSet(cs) \subseteq CareIn(info, ToSet(CompactAdjacent(cs)))
<1> DEFINE K == {k \in DOMAIN cs : \/ GroupOf(cs[k]) = NoGroup
                                   \/ k = Len(cs)
                                   \/ GroupOf(cs[k + 1]) # GroupOf(cs[k])}
           r == CompactAdjacent(cs)
           n == Len(cs)
<1>1. n \in Nat /\ DOMAIN cs = 1..n
  OBVIOUS
<1>2. r = OnlyAt(cs, K)
  BY DEF CompactAdjacent
<1>3. /\ r \in Seq(Nat)
      /\ \A k \in 1..Len(r) : \E i \in 1..n : i \in K /\ r[k] = cs[i]
      /\ \A i \in 1..n : i \in K => \E k \in 1..Len(r) : r[k] = cs[i]
  <2> HIDE DEF r, K, n
  <2>1. Selects(Nat, cs, K, n, r)
    BY <1>2, OnlyAtSelects DEF n
  <2> QED
    BY <2>1, ZenonT(30) DEF Selects
<1>4. \A k \in 1..n : k \in K <=> (GroupOf(cs[k]) = NoGroup \/ k = n \/ GroupOf(cs[k + 1]) # GroupOf(cs[k]))
  BY <1>1
<1> HIDE DEF r, K
<1>5. ToSet(r) \subseteq ToSet(cs)
  <2> SUFFICES ASSUME NEW x \in ToSet(r) PROVE x \in ToSet(cs)
    OBVIOUS
  <2>1. PICK k \in 1..Len(r) : x = r[k]
    BY <1>3, ToSetIs
  <2>2. PICK i \in 1..n : r[k] = cs[i]
    BY <1>3
  <2> QED
    BY <2>1, <2>2, ToSetIs
<1>6. ASSUME NEW k \in 1..n PROVE cs[k] \in CareIn(info, ToSet(r))
  <2>1. CASE k \in K
    <3>1. PICK l \in 1..Len(r) : r[l] = cs[k]
      BY <1>3, <2>1
    <3>2. cs[k] \in ToSet(r)
      BY <1>3, <3>1, ToSetIs
    <3> QED
      BY <3>2 DEF CareIn
  <2>2. CASE k \notin K
    <3> DEFINE g == GroupOf(cs[k])
               T == {m \in k..n : m = n \/ GroupOf(cs[m + 1]) # g}
    <3>1. g # NoGroup
      BY <1>4, <2>2
    <3>2. T \subseteq Nat /\ n \in T
      BY <1>1
    <3>3. PICK m \in T : \A o \in T : m <= o
      <4> HIDE DEF T
      <4> QED
        BY <3>2, Least
    <3> HIDE DEF g
    <3>4. m \in k..n /\ (m = n \/ GroupOf(cs[m + 1]) # g) /\ m \in 1..n
      <4>1. m \in k..n /\ (m = n \/ GroupOf(cs[m + 1]) # g)
        BY <3>3
      <4>2. m \in k..n
        BY <4>1
      <4>3. m \in 1..n
        <5> HIDE DEF T
        <5> QED
          BY <1>1, <4>2
      <4> QED
        BY <4>1, <4>3
    <3>5. GroupOf(cs[m]) = g
      <4>1. CASE m # k
        <5>1. m - 1 \in k..n /\ m - 1 # n /\ (m - 1) + 1 = m /\ ~(m <= m - 1)
          <6>1. m \in k..n
            BY <3>4
          <6> HIDE DEF T
          <6> QED
            BY <1>1, <4>1, <6>1
        <5>2. m - 1 \notin T
          BY <3>3, <5>1
        <5> QED
          BY <5>1, <5>2
      <4> QED
        BY <4>1 DEF g
    <3> HIDE DEF T
    <3>6. m \in K
      BY <1>4, <3>4, <3>5
    <3>7. PICK l \in 1..Len(r) : r[l] = cs[m]
      BY <1>3, <3>4, <3>6
    <3>8. cs[m] \in ToSet(r)
      BY <1>3, <3>7, ToSetIs
    <3>9. cs[m] \in ToSet(cs) /\ cs[k] \in ToSet(cs)
      BY <3>4, ToSetIs
    <3>10. /\ cs[k] \in DOMAIN info /\ info[cs[k]].kind = "HookRun" /\ info[cs[k]].hook = h
           /\ info[cs[m]].hook = h
      BY <3>9 DEF OfHook, Tasks
    <3>11. GroupIn(info, cs[k]) = g /\ GroupIn(info, cs[m]) = g
      BY <3>5 DEF GroupIn, GroupOf, g
    <3> QED
      BY <3>1, <3>8, <3>10, <3>11 DEF CareIn
  <2> QED
    BY <2>1, <2>2
<1>7. ToSet(cs) \subseteq CareIn(info, ToSet(r))
  BY <1>6, ToSetIs
<1> QED
  BY <1>3, <1>5, <1>7 DEF r

\* compactBindingContexts keeps the contexts without a group and the last one of each group.
LEMMA CompactCovers ==
    ASSUME NEW h, NEW cs \in Seq(Nat), OfHook(ToSet(cs), h), NEW r \in CompactBindingContexts(cs)
    PROVE  /\ r \in Seq(Nat) /\ ToSet(r) \subseteq ToSet(cs)
           /\ ToSet(cs) \subseteq CareIn(info, ToSet(r))
<1> DEFINE n == Len(cs)
           L == {l \in 1..n : IsLastOfGroup(cs, l)}
           lasts == {cs[k] : k \in L}
           u == Only(cs, Ungrouped)
<1>1. n \in Nat /\ DOMAIN cs = 1..n /\ \A k \in 1..n : cs[k] \in Nat
  OBVIOUS
<1>2. PICK o \in Orders(lasts) : r = u \o o
  BY DEF CompactBindingContexts
<1>3. u \in Seq(Nat) /\ ToSet(u) = ToSet(cs) \cap Ungrouped
  <2>1. Keeps(Nat, cs, Ungrouped, Only(cs, Ungrouped))
    BY OnlyKeeps
  <2>2. u \in Seq(Nat)
    BY <2>1 DEF Keeps
  <2> QED
    BY <2>2, ToSetOnly
<1>4. IsFiniteSet(lasts)
  <2>1. IsFiniteSet(1..n)
    BY <1>1, FS_Interval
  <2>2. IsFiniteSet(L)
    BY <2>1, FS_Subset
  <2> DEFINE F == [k \in L |-> cs[k]]
  <2>3. F \in Surjection(L, lasts)
    BY DEF Surjection
  <2> HIDE DEF L, lasts, F
  <2> QED
    BY <2>2, <2>3, FS_Surjection
<1>5. Cardinality(lasts) \in Nat
  BY <1>4, FS_CardinalityType
<1>6. lasts \subseteq ToSet(cs) /\ lasts \subseteq Nat
  BY <1>1 DEF ToSet
<1> HIDE DEF lasts, u, L
<1>7. o \in Seq(Nat) /\ ToSet(o) = lasts
  <2>1. o \in [1..Cardinality(lasts) -> lasts] /\ ToSet(o) = lasts
    BY DEF Orders
  <2>2. o \in [1..Cardinality(lasts) -> Nat]
    BY <1>6, <2>1
  <2> QED
    BY <1>5, <2>1, <2>2
<1>8. r \in Seq(Nat) /\ ToSet(r) = (ToSet(cs) \cap Ungrouped) \cup lasts
  <2>1. u \o o \in Seq(Nat)
    BY <1>3, <1>7
  <2>2. ToSet(u \o o) = ToSet(u) \cup ToSet(o)
    BY <1>3, <1>7, ToSetJoined
  <2> QED
    BY <1>2, <1>3, <1>7, <2>1, <2>2
<1>9. ASSUME NEW k \in 1..n PROVE cs[k] \in CareIn(info, ToSet(r))
  <2>1. cs[k] \in ToSet(cs)
    BY ToSetIs
  <2>2. /\ cs[k] \in DOMAIN info /\ info[cs[k]].kind = "HookRun" /\ info[cs[k]].hook = h
    BY <2>1 DEF OfHook, Tasks
  <2>3. CASE GroupOf(cs[k]) = NoGroup
    <3>1. cs[k] \in ToSet(r)
      BY <1>8, <2>1, <2>2, <2>3 DEF Ungrouped, Tasks
    <3> QED
      BY <3>1 DEF CareIn
  <2>4. CASE GroupOf(cs[k]) # NoGroup
    <3> DEFINE g == GroupOf(cs[k])
               T == {m \in k..n : \A l \in (m + 1)..n : GroupOf(cs[l]) # g}
    <3>1. T \subseteq Nat /\ n \in T
      BY <1>1
    <3>2. PICK m \in T : \A p \in T : m <= p
      <4> HIDE DEF T
      <4> QED
        BY <3>1, Least
    <3> HIDE DEF g
    <3>3. m \in k..n /\ m \in 1..n /\ \A l \in (m + 1)..n : GroupOf(cs[l]) # g
      <4>1. m \in k..n /\ \A l \in (m + 1)..n : GroupOf(cs[l]) # g
        BY <3>2
      <4>2. m \in 1..n
        <5>1. m \in k..n
          BY <4>1
        <5> QED
          BY <1>1, <5>1
      <4> QED
        BY <4>1, <4>2
    <3>4. GroupOf(cs[m]) = g
      <4>1. CASE m # k
        <5>1. m - 1 \in k..n /\ (m - 1) + 1 = m /\ ~(m <= m - 1)
          <6>1. m \in k..n
            BY <3>3
          <6> QED
            BY <1>1, <4>1, <6>1
        <5>2. m - 1 \notin T
          BY <3>2, <5>1
        <5>3. PICK l \in m..n : GroupOf(cs[l]) = g
          BY <5>1, <5>2
        <5>4. l = m \/ l \in (m + 1)..n
          BY <1>1, <3>3
        <5> QED
          BY <3>3, <5>3, <5>4
      <4> QED
        BY <4>1 DEF g
    <3>5. IsLastOfGroup(cs, m)
      BY <2>4, <3>3, <3>4 DEF IsLastOfGroup, g
    <3> HIDE DEF T
    <3>6. cs[m] \in lasts
      BY <3>3, <3>5 DEF lasts, L
    <3>7. cs[m] \in ToSet(r) /\ cs[m] \in ToSet(cs)
      BY <1>6, <1>8, <3>6
    <3>8. info[cs[m]].hook = h
      BY <3>7 DEF OfHook
    <3>9. GroupIn(info, cs[k]) = g /\ GroupIn(info, cs[m]) = g /\ g # NoGroup
      BY <2>4, <3>4 DEF GroupIn, GroupOf, g
    <3> QED
      BY <2>2, <3>7, <3>8, <3>9 DEF CareIn
  <2> QED
    BY <2>3, <2>4
<1>10. ToSet(cs) \subseteq CareIn(info, ToSet(r))
  BY <1>9, ToSetIs
<1> QED
  BY <1>6, <1>8, <1>10

-----------------------------------------------------------------------------
(* What the steps of the goroutines leave alone.                           *)

\* What is known of a queued task.
LEMMA QueuedTask ==
    ASSUME Tables, NEW t \in ToSet(queue)
    PROVE  /\ t \in Tasks /\ t \in 1..Len(info) /\ t \in Nat /\ t # 0 /\ TaskOK(t)
           /\ Contexts(t) \in Seq(Nat) /\ Has(t) \subseteq Tasks /\ Has(t) \subseteq Queued
<1>1. t \in Tasks /\ Tasks = 1..Len(info) /\ Len(info) \in Nat
  BY ToSetIs DEF Tables, Tasks
<1>2. TaskOK(t) /\ ctxHeap \in Seq(Seq(Nat))
  BY DEF Tables
<1>3. Readable(ctxHeap, meta[t].ctx)
  BY <1>2 DEF TaskOK
<1>4. Contexts(t) \in Seq(Nat)
  <2>1. Reads(ctxHeap, meta[t].ctx, Contexts(t))
    BY <1>2, <1>3, Contained DEF Contexts
  <2> QED
    BY <2>1 DEF Reads
<1>5. Has(t) \subseteq Tasks /\ Has(t) \subseteq Queued
  BY <1>2 DEF TaskOK, OfHook, Queued
<1> QED
  BY <1>1, <1>2, <1>4, <1>5

LEMMA QueuedAreTasks ==
    ASSUME Tables
    PROVE  Queued \subseteq Tasks
  BY QueuedTask DEF Queued

LEMMA InHandAreTasks ==
    ASSUME Merging
    PROVE  InHand \subseteq Tasks
  BY DEF Merging, InHand, Collected, OfHook

\* The tables and the contexts are as they were.
LEMMA SameTables ==
    ASSUME Tables, UNCHANGED <<info, meta, ctxHeap, ctxPool, queue>>, MergeLocals', Merge' = Merge,
           pc' \in [Actors -> Points], run' = [f \in Fields |-> run'[f]]
    PROVE  /\ Tables' /\ Queued' = Queued /\ InHand' = InHand
           /\ \A t : Has(t)' = Has(t) /\ TaskOK(t)' = TaskOK(t)
<1>1. ASSUME NEW t PROVE Has(t)' = Has(t) /\ TaskOK(t)' = TaskOK(t)
  <2>1. Has(t)' = Has(t)
    BY DEF Has, Contexts, Contents
  <2>2. OfHook(Has(t), info[t].hook)' = OfHook(Has(t), info[t].hook)
    BY <2>1 DEF OfHook, Tasks
  <2> QED
    BY <2>1, <2>2 DEF TaskOK
<1>2. Merged' = Merged
  BY DEF Merged
<1> QED
  BY <1>1, <1>2 DEF Tables, Queued, InHand, Tasks

\* There are more tasks, and the earlier ones are as they were.
Grown ==
    /\ Len(info') \in Nat /\ Len(info) \in Nat /\ Len(info) <= Len(info')
    /\ info' = [i \in 1..Len(info') |-> info'[i]] /\ meta' = [i \in 1..Len(info') |-> meta'[i]]
    /\ Tasks = 1..Len(info) /\ Tasks' = 1..Len(info')
    /\ \A i \in Tasks : i \in Tasks' /\ info'[i] = info[i] /\ meta'[i] = meta[i]

LEMMA NothingGrown ==
    ASSUME Tables, UNCHANGED <<info, meta>>
    PROVE  Grown
  BY DEF Tables, Grown, Tasks

LEMMA Created ==
    ASSUME Tables, NEW n \in Nat, NEW recs, recs = [k \in 1..n |-> recs[k]], Create(recs)
    PROVE  /\ Grown /\ Len(info') = Len(info) + n
           /\ \A k \in 1..n : /\ info'[Len(info) + k] = recs[k]
                              /\ meta'[Len(info) + k] = NewMeta(Len(info) + k, recs[k])
           /\ NewIds(recs) = [k \in 1..n |-> Len(info) + k]
<1> DEFINE m == Len(info)
           news == [k \in 1..n |-> NewMeta(m + k, recs[k])]
           S == {info[i] : i \in 1..m} \cup {recs[k] : k \in 1..n}
           T == {meta[i] : i \in 1..m} \cup {news[k] : k \in 1..n}
<1>1. m \in Nat /\ info = [i \in 1..m |-> info[i]] /\ meta = [i \in 1..m |-> meta[i]]
  BY DEF Tables
<1>2. recs \in [1..n -> S] /\ info \in [1..m -> S]
  BY <1>1
<1>3. info \in Seq(S) /\ recs \in Seq(S) /\ Len(recs) = n
  <2> HIDE DEF S, m
  <2> QED
    BY <1>1, <1>2, Listed
<1>4. news \in [1..n -> T] /\ meta \in [1..m -> T]
  <2>1. meta \in [1..m -> T]
    <3> HIDE DEF news
    <3> QED
      BY <1>1
  <2>2. news = [k \in 1..n |-> news[k]]
    OBVIOUS
  <2> HIDE DEF news
  <2> QED
    BY <2>1, <2>2
<1>5. info' = info \o recs /\ meta' = meta \o news /\ NewIds(recs) = [k \in 1..n |-> m + k]
  BY <1>3 DEF Create, NewIds
<1>6. \A k \in 1..n : news[k] = NewMeta(m + k, recs[k])
  OBVIOUS
<1> HIDE DEF news
<1>7. news \in Seq(T) /\ meta \in Seq(T) /\ Len(news) = n /\ Len(meta) = m
  <2> HIDE DEF T, m
  <2> QED
    BY <1>1, <1>4, Listed
<1> HIDE DEF S, T
<1>8. /\ info' \in Seq(S) /\ Len(info') = m + n
      /\ \A k \in 1..m : info'[k] = info[k]
      /\ \A k \in 1..n : info'[m + k] = recs[k]
  BY <1>3, <1>5, Joined
<1>9. /\ meta' \in Seq(T) /\ Len(meta') = m + n
      /\ \A k \in 1..m : meta'[k] = meta[k]
      /\ \A k \in 1..n : meta'[m + k] = news[k]
  BY <1>5, <1>7, Joined
<1>10. Tasks = 1..m /\ Tasks' = 1..(m + n)
  BY <1>1, <1>8 DEF Tasks
<1>11. m + n \in Nat /\ m <= m + n /\ \A i \in 1..m : i \in 1..(m + n)
  BY <1>1
<1>12. info' = [i \in 1..(m + n) |-> info'[i]] /\ meta' = [i \in 1..(m + n) |-> meta'[i]]
  BY <1>8, <1>9
<1>13. Grown
  BY <1>1, <1>8, <1>9, <1>10, <1>11, <1>12 DEF Grown
<1> QED
  BY <1>5, <1>6, <1>8, <1>9, <1>13

\* A task that was there is as it was, a new one has its own context.
LEMMA OldTaskOK ==
    ASSUME Tables, Grown, ctxHeap' = ctxHeap, NEW t \in ToSet(queue)
    PROVE  TaskOK(t)' /\ Has(t)' = Has(t)
<1>1. t \in Tasks /\ TaskOK(t)
  BY QueuedTask
<1>2. info'[t] = info[t] /\ meta'[t] = meta[t] /\ t \in Tasks'
  BY <1>1 DEF Grown
<1>3. Has(t)' = Has(t)
  BY <1>2 DEF Has, Contexts, Contents
<1>4. OfHook(Has(t), info[t].hook)'
  BY <1>1, <1>2, <1>3 DEF TaskOK, OfHook, Grown
<1> QED
  BY <1>1, <1>2, <1>3, <1>4 DEF TaskOK

LEMMA NewTaskOK ==
    ASSUME NEW t \in Nat, t \in Tasks', NEW rec, rec.kind \in {"HookRun", "Enable"},
           info'[t] = rec, meta'[t] = NewMeta(t, rec)
    PROVE  TaskOK(t)' /\ Has(t)' = IF rec.kind = "HookRun" THEN {t} ELSE {}
<1> DEFINE cs == IF rec.kind = "HookRun" THEN <<t>> ELSE <<>>
<1>1. meta'[t].ctx = [arr |-> 0, len |-> Len(cs), val |-> cs]
  BY DEF NewMeta, Owned
<1>2. cs \in Seq(Nat) /\ ToSet(cs) = IF rec.kind = "HookRun" THEN {t} ELSE {}
  BY DEF ToSet
<1> HIDE DEF cs
<1>3. Has(t)' = ToSet(cs)
  BY <1>1 DEF Has, Contexts, Contents
<1>4. Readable(ctxHeap, meta[t].ctx)'
  BY <1>1, <1>2 DEF Readable
<1>5. OfHook(Has(t), info[t].hook)'
  BY <1>2, <1>3 DEF OfHook
<1> QED
  BY <1>2, <1>3, <1>4, <1>5 DEF TaskOK

LEMMA InQueue ==
    ASSUME Tables, Holding, pc["worker"] \in Ready \cup Working
    PROVE  cur \in ToSet(queue) /\ queue # <<>> /\ queue[1] = cur
<1>1. queue # <<>> /\ queue[1] = cur /\ queue \in Seq(Tasks)
  BY DEF Holding, Tables
<1>2. 1 \in 1..Len(queue)
  BY <1>1
<1> QED
  BY <1>1, <1>2, ToSetIs

LEMMA MergeGrows ==
    ASSUME Grown, ToSet(queue) \subseteq ToSet(queue'), NEW s, NEW h, MergeOK(s, h)
    PROVE  MergeOK(s, h)'
<1>1. s \in Seq(Tasks') /\ Injective(s)
  <2>1. s \in Seq(Tasks) /\ Tasks \subseteq Tasks' /\ Injective(s)
    BY DEF MergeOK, Grown
  <2> QED
    BY <2>1
<1>2. OfHook(ToSet(s), h)'
  BY DEF MergeOK, OfHook, Grown
<1> QED
  BY <1>1, <1>2 DEF MergeOK

\* The events goroutine adds tasks behind the others: what the worker holds is as it was.
LEMMA Extended ==
    ASSUME QueueInv, Grown, Merge' = Merge, UNCHANGED <<ctxHeap, cur, run, done>>, pc'["worker"] = pc["worker"],
           ToSet(queue) \subseteq ToSet(queue'), queue # <<>> => queue' # <<>> /\ queue'[1] = queue[1],
           \A i \in Tasks' \ Tasks : info'[i].kind = "HookRun" => i \in ToSet(queue') /\ i \in Has(i)'
    PROVE  Merging' /\ Holding' /\ CoveredIn(info, done, Queued \cup InHand)'
<1> USE DEF QueueInv
<1>1. \A t \in ToSet(queue) : /\ Has(t)' = Has(t) /\ t \in Tasks /\ t \in Tasks'
                              /\ info'[t] = info[t] /\ meta'[t] = meta[t] /\ Has(t) \subseteq Tasks
  BY OldTaskOK, QueuedTask DEF Grown
<1>2. Merge' = Merge /\ Merged' = Merged /\ InHand' = InHand
  BY DEF Merged, InHand
<1>3. ASSUME NEW S, OfHook(S, info[cur].hook) PROVE CareIn(info, S) \subseteq CareIn(info', S) /\ S \subseteq Tasks
  <2>1. S \subseteq DOMAIN info /\ DOMAIN info \subseteq DOMAIN info' /\ \A i \in DOMAIN info : info'[i] = info[i]
    BY <1>3 DEF OfHook, Tasks, Grown
  <2>2. S \subseteq CareIn(info', S)
    BY DEF CareIn
  <2> QED
    BY <2>1, <2>2, CareGrows DEF Tasks
<1>4. Merging'
  <2>1. ASSUME pc["worker"] = "merge" PROVE GroupsOK'
    <3>1. GroupsOK
      BY <2>1 DEF Merging
    <3>2. ASSUME NEW g \in Merge.groups PROVE GroupOK(g)' /\ info'[g[1]] = info[g[1]]
      <4>1. GroupOK(g)
        BY <3>1 DEF GroupsOK
      <4>2. g \in Seq(Tasks) /\ Len(g) > 1
        BY <4>1 DEF GroupOK, MergeOK
      <4>3. g[1] \in Tasks
        BY <4>2
      <4>4. info'[g[1]] = info[g[1]]
        BY <4>3 DEF Grown
      <4>5. MergeOK(g, info[g[1]].hook)'
        <5> DEFINE h == info[g[1]].hook
        <5>1. MergeOK(g, h) /\ h = info'[g[1]].hook
          BY <4>1, <4>4 DEF GroupOK
        <5>2. ASSUME NEW h0, MergeOK(g, h0) PROVE MergeOK(g, h0)'
          BY <5>2, MergeGrows
        <5> QED
          BY <5>1, <5>2 DEF MergeOK, OfHook
      <4> QED
        BY <4>1, <4>4, <4>5 DEF GroupOK
    <3> QED
      BY <1>2, <3>1, <3>2 DEF GroupsOK
  <2>2. ASSUME Merge.target # 0 PROVE Collected'
    <3> DEFINE t == Merge.target
    <3>1. Collected
      BY <2>2 DEF Merging
    <3>2. t \in ToSet(queue)
      BY <3>1 DEF Collected
    <3>3. t' = t /\ info'[t] = info[t] /\ meta'[t] = meta[t] /\ Has(t)' = Has(t)
      <4>1. t' = t
        BY <1>2
      <4>2. meta'[t] = meta[t]
        BY <1>1, <3>2
      <4>3. Has(t)' = Has(t)
        BY <4>1, <4>2 DEF Has, Contexts, Contents
      <4> QED
        BY <1>1, <3>2, <4>1, <4>3
    <3>4. MergeOK(Merge.grp, info[t].hook)'
      <4>1. MergeOK(Merge.grp, info[t].hook)
        BY <3>1 DEF Collected
      <4>2. PICK s, h : s = Merge.grp /\ h = info[t].hook
        OBVIOUS
      <4>3. MergeOK(s, h)'
        BY <4>1, <4>2, MergeGrows
      <4>4. s = Merge'.grp /\ h = info'[t'].hook
        BY <1>2, <3>3, <4>2
      <4> QED
        BY <4>3, <4>4 DEF MergeOK, OfHook
    <3>5. ASSUME NEW g \in Merge.groups PROVE info'[g[1]].hook # info[t].hook
      <4>1. info[g[1]].hook # info[t].hook
        BY <3>1 DEF Collected
      <4>2. pc["worker"] = "merge"
        BY <2>2 DEF Merging
      <4>3. g \in Seq(Tasks) /\ Len(g) > 1
        BY <4>2 DEF Merging, GroupsOK, GroupOK, MergeOK
      <4>4. g[1] \in Tasks
        BY <4>3
      <4> QED
        BY <4>1, <4>4 DEF Grown
    <3>6. OfHook(Merged, info[t].hook)'
      BY <1>2, <3>1, <3>3 DEF Collected, OfHook, Grown
    <3> HIDE DEF t
    <3>7. /\ info[t].kind = "HookRun" /\ cur \notin ToSet(Merge.grp) /\ t \notin ToSet(Merge.grp)
          /\ Readable(ctxHeap, Merge.ctx) /\ Merge.ctx.arr # 0 /\ Has(t) \subseteq Merged
          /\ meta[t].ctx.arr = Merge.ctx.arr => meta[t].ctx.len <= Merge.ctx.len
      BY <3>1 DEF Collected, t
    <3>8. /\ t' \in ToSet(queue') /\ info'[t'].kind = "HookRun" /\ cur' \notin ToSet(Merge'.grp) /\ t' \notin ToSet(Merge'.grp)
          /\ Readable(ctxHeap', Merge'.ctx) /\ Merge'.ctx.arr # 0 /\ Has(t)' \subseteq Merged'
          /\ meta'[t'].ctx.arr = Merge'.ctx.arr => meta'[t'].ctx.len <= Merge'.ctx.len
      BY <1>2, <3>2, <3>3, <3>7
    <3>9. \A g \in Merge'.groups : info'[g[1]].hook # info'[t'].hook
      BY <1>2, <3>3, <3>5
    <3> QED
      BY <3>4, <3>6, <3>8, <3>9 DEF Collected, t
  <2> QED
    BY <1>2, <2>1, <2>2 DEF Merging
<1>5. CoveredIn(info, done, Queued \cup InHand)'
  <2> DEFINE P == Queued \cup InHand  Q == Queued' \cup InHand'
  <2>1. P \subseteq DOMAIN info /\ DOMAIN info \subseteq DOMAIN info' /\ \A i \in DOMAIN info : info'[i] = info[i]
    BY QueuedAreTasks, InHandAreTasks DEF Tasks, Grown
  <2>2. P \subseteq Q
    BY <1>1, <1>2 DEF Queued
  <2>3. \A i \in DOMAIN info' \ DOMAIN info : info'[i].kind = "HookRun" => i \in Q
    BY DEF Tasks, Queued
  <2> HIDE DEF P, Q
  <2>4. CareIn(info, P) \subseteq CareIn(info', Q)
    <3>1. P \subseteq CareIn(info', Q)
      BY <2>2 DEF CareIn
    <3> QED
      BY <2>1, <3>1, CareGrows
  <2>5. CoveredIn(info, done, P)
    BY DEF P
  <2>6. CoveredIn(info', done, Q)
    BY <2>1, <2>3, <2>4, <2>5, StillCovered
  <2> QED
    BY <2>6 DEF Q
<1>6. Holding'
  <2>1. CASE pc["worker"] \notin Ready \cup Working
    BY <2>1 DEF Holding, Ready, Working
  <2>2. CASE pc["worker"] \in Ready \cup Working
    <3>1. cur \in ToSet(queue) /\ queue # <<>> /\ queue[1] = cur
      BY <2>2, InQueue
    <3>2. info'[cur] = info[cur] /\ meta'[cur] = meta[cur] /\ cur \in Tasks
      BY <1>1, <3>1
    <3>3. ASSUME pc["worker"] = "delete"
          PROVE  /\ run.others \subseteq ToSet(queue') \ {cur}
                 /\ OfHook(ToSet(run.ctx.val), info[cur].hook)'
                 /\ \A t \in run.others \cup {cur} : Has(t)' \subseteq CareIn(info', ToSet(run.ctx.val))
      <4>1. /\ run.others \subseteq ToSet(queue) \ {cur}
            /\ OfHook(ToSet(run.ctx.val), info[cur].hook)
            /\ \A t \in run.others \cup {cur} : Has(t) \subseteq CareIn(info, ToSet(run.ctx.val))
        BY <3>3 DEF Holding
      <4>2. OfHook(ToSet(run.ctx.val), info[cur].hook)'
        BY <3>2, <4>1 DEF OfHook, Grown
      <4>3. CareIn(info, ToSet(run.ctx.val)) \subseteq CareIn(info', ToSet(run.ctx.val))
        BY <1>3, <4>1
      <4> QED
        BY <1>1, <3>1, <4>1, <4>2, <4>3
    <3>4. ASSUME pc["worker"] = "result" /\ run.res = "Success" /\ info[cur].kind # "Enable"
          PROVE  CoveredIn(info, done, QueuedBut(cur))'
      <4> DEFINE P == QueuedBut(cur)  Q == QueuedBut(cur)'
      <4>1. P \subseteq DOMAIN info /\ DOMAIN info \subseteq DOMAIN info' /\ \A i \in DOMAIN info : info'[i] = info[i]
        BY <1>1 DEF QueuedBut, Tasks, Grown
      <4>2. P \subseteq Q
        BY <1>1 DEF QueuedBut
      <4>3. \A i \in DOMAIN info' \ DOMAIN info : info'[i].kind = "HookRun" => i \in Q
        BY <3>2 DEF Tasks, QueuedBut
      <4>4. CoveredIn(info, done, P)
        BY <3>4 DEF Holding
      <4> HIDE DEF P, Q
      <4>5. CareIn(info, P) \subseteq CareIn(info', Q)
        <5>1. P \subseteq CareIn(info', Q)
          BY <4>2 DEF CareIn
        <5> QED
          BY <4>1, <5>1, CareGrows
      <4>6. CoveredIn(info', done, Q)
        BY <4>1, <4>3, <4>4, <4>5, StillCovered
      <4> QED
        BY <4>6 DEF Q
    <3> QED
      BY <3>1, <3>2, <3>3, <3>4 DEF Holding
  <2> QED
    BY <2>1, <2>2
<1> QED
  BY <1>4, <1>5, <1>6

-----------------------------------------------------------------------------
(* The steps keep the invariant.                                           *)

\* Added tasks: the new task is the last of the queue and has its own context.
LEMMA AddLastKeeps == QueueInv /\ AddLast => QueueInv'
<1> SUFFICES ASSUME QueueInv, AddLast PROVE QueueInv'
  OBVIOUS
<1> USE DEF QueueInv
<1> DEFINE n == Len(info) + 1
<1>1. PICK k \in DOMAIN Bindings : /\ Create(<<HookRunTask(k, FALSE)>>)
                                   /\ queue' = StorageAddLast(NewIds(<<HookRunTask(k, FALSE)>>))
  BY DEF AddLast
<1> DEFINE rec == HookRunTask(k, FALSE)
           recs == <<rec>>
<1>2. recs = [j \in 1..1 |-> recs[j]] /\ recs[1] = rec /\ 1 \in 1..1
  OBVIOUS
<1>3. rec.kind = "HookRun"
  BY DEF HookRunTask
<1> HIDE DEF rec
<1>4. /\ Grown /\ Len(info') = n
      /\ info'[n] = rec /\ meta'[n] = NewMeta(n, rec)
      /\ NewIds(recs) = [j \in 1..1 |-> Len(info) + j]
  <2> HIDE DEF recs
  <2>1. Create(recs)
    BY <1>1 DEF recs, rec
  <2>2. /\ Grown /\ Len(info') = Len(info) + 1
        /\ \A j \in 1..1 : /\ info'[Len(info) + j] = recs[j]
                           /\ meta'[Len(info) + j] = NewMeta(Len(info) + j, recs[j])
        /\ NewIds(recs) = [j \in 1..1 |-> Len(info) + j]
    BY <1>2, <2>1, Created
  <2> QED
    BY <1>2, <2>2
<1>5. Len(info) \in Nat /\ n \in Nat /\ Tasks = 1..Len(info) /\ Tasks' = 1..n /\ n \in Tasks' /\ n \notin Tasks
  <2>1. Len(info) \in Nat /\ Tasks = 1..Len(info) /\ Tasks' = 1..n
    BY <1>4 DEF Grown
  <2> QED
    BY <2>1
<1>6. UNCHANGED <<ctxHeap, ctxPool, comp, cur, run, done>> /\ pc' = [pc EXCEPT !["events"] = "count"]
  BY DEF AddLast, heapVars, histVars
<1>7. pc'["worker"] = pc["worker"] /\ pc' \in [Actors -> Points]
  BY <1>6 DEF Tables, Actors, Points
<1>8. queue \in Seq(Tasks) /\ Injective(queue) /\ queue \in Seq(Tasks')
  <2>1. queue \in Seq(Tasks) /\ Injective(queue) /\ Tasks \subseteq Tasks'
    BY <1>4 DEF Tables, Grown
  <2> QED
    BY <2>1
<1> DEFINE new == NewIds(recs)
<1>9. new \in Seq(Tasks') /\ Len(new) = 1 /\ new[1] = n /\ ToSet(new) = {n}
  <2>1. new = [j \in 1..1 |-> Len(info) + j]
    BY <1>4
  <2>2. new \in [1..1 -> Tasks'] /\ new[1] = n
    BY <1>5, <2>1
  <2> HIDE DEF new, n
  <2>3. new \in Seq(Tasks') /\ Len(new) = 1
    BY <2>2, Listed
  <2>4. ToSet(new) = {n}
    BY <2>2, <2>3 DEF ToSet
  <2> QED
    BY <2>2, <2>3, <2>4
<1>10. queue' = queue \o new
  BY <1>1 DEF StorageAddLast, rec
<1> HIDE DEF new, n
<1>11. /\ queue' \in Seq(Tasks') /\ Len(queue') = Len(queue) + 1
       /\ \A i \in 1..Len(queue) : queue'[i] = queue[i]
       /\ queue'[Len(queue) + 1] = n
       /\ ToSet(queue') = ToSet(queue) \cup {n}
  <2>1. ToSet(queue \o new) = ToSet(queue) \cup ToSet(new)
    BY <1>8, <1>9, ToSetJoined
  <2>2. /\ queue \o new \in Seq(Tasks') /\ Len(queue \o new) = Len(queue) + Len(new)
        /\ \A i \in 1..Len(queue) : (queue \o new)[i] = queue[i]
        /\ \A i \in 1..Len(new) : (queue \o new)[Len(queue) + i] = new[i]
    <3>1. queue \in Seq(Tasks') /\ new \in Seq(Tasks')
      BY <1>8, <1>9
    <3> QED
      BY <3>1, Joined
  <2> QED
    BY <1>9, <1>10, <2>1, <2>2
<1>12. Len(queue) \in Nat /\ \A i \in 1..(Len(queue) + 1) : i = Len(queue) + 1 \/ i \in 1..Len(queue)
  BY <1>8
<1>13. \A i \in 1..Len(queue) : queue[i] \in Tasks
  BY <1>8
<1>14. Injective(queue')
  BY <1>5, <1>8, <1>11, <1>12, <1>13 DEF Injective
<1>15. \A t \in ToSet(queue) : TaskOK(t)' /\ Has(t)' = Has(t)
  BY <1>4, <1>6, OldTaskOK
<1>16. Tables'
  <2>1. \A t \in ToSet(queue') : TaskOK(t)'
    <3> SUFFICES ASSUME NEW t \in ToSet(queue'), t \notin ToSet(queue) PROVE TaskOK(t)'
      BY <1>15
    <3>1. t = n
      BY <1>11
    <3> QED
      BY <1>3, <1>4, <1>5, <3>1, NewTaskOK
  <2>2. MergeLocals'
    BY <1>6 DEF Tables, MergeLocals, Merge
  <2>3. Len(info') \in Nat /\ info' = [i \in 1..Len(info') |-> info'[i]] /\ meta' = [i \in 1..Len(info') |-> meta'[i]]
    BY <1>4 DEF Grown
  <2> QED
    BY <1>6, <1>7, <1>11, <1>14, <2>1, <2>2, <2>3 DEF Tables
<1>17. queue # <<>> => queue' # <<>> /\ queue'[1] = queue[1]
  <2> SUFFICES ASSUME queue # <<>> PROVE queue' # <<>> /\ queue'[1] = queue[1]
    OBVIOUS
  <2>1. 1 \in 1..Len(queue) /\ Len(queue') # 0
    BY <1>8, <1>11
  <2> QED
    BY <1>11, <2>1
<1>18. \A i \in Tasks' \ Tasks : info'[i].kind = "HookRun" => i \in ToSet(queue') /\ i \in Has(i)'
  <2> TAKE i \in Tasks' \ Tasks
  <2>1. i = n
    BY <1>5 DEF n
  <2>2. i \in Nat /\ i \in Tasks' /\ info'[i] = rec /\ meta'[i] = NewMeta(i, rec)
    BY <1>4, <1>5, <2>1
  <2>3. Has(i)' = {i}
    BY <1>3, <2>2, NewTaskOK
  <2> QED
    BY <1>11, <2>1, <2>3
<1>19. Merging' /\ Holding' /\ CoveredIn(info, done, Queued \cup InHand)'
  <2>1. Merge' = Merge
    BY <1>6 DEF Merge
  <2> QED
    BY <1>4, <1>6, <1>7, <1>11, <1>17, <1>18, <2>1, Extended
<1> QED
  BY <1>16, <1>19

\* The other steps that leave the queue and the contexts to the worker.
LEMMA EventsKeep ==
    ASSUME QueueInv, Undisturbed', AddLastCount \/ AddLastCheck \/ Compact("events") \/ Stop \/ UNCHANGED vars,
           pc["events"] # "merge"
    PROVE  QueueInv'
<1> USE DEF QueueInv
<1>1. \/ AddLastCount \/ AddLastCheck \/ Stop \/ UNCHANGED vars
      \/ IsAnyCapReached("events") \/ GetReachedCap("events") \/ CompactionLength("events")
      \/ CompactionScan("events")
  BY DEF Compact, MergeStart, MergeElement, MergeFinish, MergeEnd
<1>2. UNCHANGED <<info, meta, ctxHeap, ctxPool, queue, cur, run, done>>
  BY <1>1 DEF AddLastCount, AddLastCheck, Stop, vars, taskVars, heapVars, queueVars, histVars,
              IsAnyCapReached, GetReachedCap, CompactionLength, CompactionScan
<1>3. pc'["events"] # "merge"
  BY DEF Undisturbed, WorkerCompactsAlone
<1>4. pc \in [Actors -> Points] /\ MergeLocals
  BY DEF Tables
<1>5. /\ MergeLocals' /\ Merge' = Merge
      /\ pc'["worker"] = pc["worker"] /\ pc' \in [Actors -> Points]
  <2>1. CASE AddLastCount \/ AddLastCheck \/ IsAnyCapReached("events")
    <3>1. comp' = comp /\ \E p \in {"check", "cap", "get", "idle"} : pc' = [pc EXCEPT !["events"] = p]
      BY <2>1 DEF AddLastCount, AddLastCheck, IsAnyCapReached, Resume
    <3> QED
      BY <1>4, <3>1 DEF MergeLocals, Merge, Actors, Points, Ready, Before
  <2>2. CASE GetReachedCap("events")
    <3>1. comp' = [comp EXCEPT !["events"].live = TRUE] /\ pc' = [pc EXCEPT !["events"] = "size"]
      BY <2>2 DEF GetReachedCap
    <3>2. pc'["worker"] = pc["worker"] /\ pc' \in [Actors -> Points]
      BY <1>4, <3>1 DEF Actors, Points, Ready, Before
    <3>3. /\ comp' = [a \in Actors |-> comp'[a]] /\ Merge' = Merge
          /\ comp'["events"] = [comp["events"] EXCEPT !.live = TRUE]
      BY <1>4, <3>1 DEF MergeLocals, Merge, Actors
    <3> QED
      BY <1>4, <3>2, <3>3 DEF MergeLocals, IsMerge
  <2>3. CASE CompactionLength("events")
    <3>1. /\ comp' = [comp EXCEPT !["events"] = Idle] \/ comp' = comp
          /\ \E p \in {"scan", "idle"} : pc' = [pc EXCEPT !["events"] = p]
      BY <2>3 DEF CompactionLength, Resume
    <3>2. pc'["worker"] = pc["worker"] /\ pc' \in [Actors -> Points]
      BY <1>4, <3>1 DEF Actors, Points, Ready, Before
    <3>3. /\ comp' = [a \in Actors |-> comp'[a]] /\ Merge' = Merge
          /\ comp'["events"] = Idle \/ comp'["events"] = comp["events"]
      BY <1>4, <3>1 DEF MergeLocals, Merge, Actors
    <3>4. IsMerge(Idle) /\ Idle.target = 0
      BY DEF IsMerge, Idle
    <3> QED
      BY <1>4, <3>2, <3>3, <3>4 DEF MergeLocals
  <2>4. CASE CompactionScan("events")
    BY <1>3, <1>4, <2>4 DEF CompactionScan, Actors
  <2>5. CASE Stop \/ UNCHANGED vars
    BY <1>4, <2>5 DEF Stop, vars, MergeLocals, Merge
  <2> QED
    BY <1>1, <2>1, <2>2, <2>3, <2>4, <2>5
<1>6. run' = [f \in Fields |-> run'[f]]
  BY <1>2 DEF Tables
<1>7. Tables'
  BY <1>2, <1>5, <1>6, SameTables
<1>8. Grown
  BY <1>2, NothingGrown
<1>9. Tasks' = Tasks
  BY <1>2 DEF Tasks
<1> QED
  BY <1>2, <1>5, <1>7, <1>8, <1>9, Extended

\* The locals of the handler are a record.
LEMMA LocalsStay ==
    ASSUME run = [f \in Fields |-> run[f]]
    PROVE  /\ NoRun = [f \in Fields |-> NoRun[f]]
           /\ \A r : [run EXCEPT !.res = r] = [f \in Fields |-> [run EXCEPT !.res = r][f]]
           /\ \A r : [run EXCEPT !.res = r].ctx = run.ctx /\ [run EXCEPT !.res = r].res = r
<1>1. NoRun = [f \in Fields |-> NoRun[f]]
  BY DEF NoRun, Fields
<1>2. ASSUME NEW r
      PROVE  /\ [run EXCEPT !.res = r] = [f \in Fields |-> [run EXCEPT !.res = r][f]]
             /\ [run EXCEPT !.res = r].ctx = run.ctx /\ [run EXCEPT !.res = r].res = r
  BY DEF Fields
<1> QED
  BY <1>1, <1>2

\* Steps of the worker that touch neither the queue nor a merge.
LEMMA WorkerSame ==
    ASSUME QueueInv, UNCHANGED <<info, meta, ctxHeap, ctxPool, queue, comp>>, NEW p \in Points \ {"merge"},
           pc' = [pc EXCEPT !["worker"] = p], pc["worker"] # "merge", run' = [f \in Fields |-> run'[f]]
    PROVE  /\ Tables' /\ Merging' /\ pc'["worker"] = p
           /\ Queued' = Queued /\ InHand' = InHand /\ InHand = {} /\ Tasks' = Tasks
           /\ \A t : Has(t)' = Has(t) /\ TaskOK(t)' = TaskOK(t)
<1> USE DEF QueueInv
<1>1. pc'["worker"] = p /\ pc' \in [Actors -> Points]
  BY DEF Tables, Actors
<1>2. /\ Tables' /\ Queued' = Queued /\ InHand' = InHand
      /\ \A t : Has(t)' = Has(t) /\ TaskOK(t)' = TaskOK(t)
  <2>1. MergeLocals' /\ Merge' = Merge
    BY DEF Tables, MergeLocals, Merge
  <2> QED
    BY <1>1, <2>1, SameTables
<1>3. Merge.target = 0 /\ Merge.grp = <<>> /\ Merge' = Merge
  BY DEF Merging, Merge
<1>4. Merging'
  BY <1>1, <1>3 DEF Merging
<1>5. InHand = {} /\ Tasks' = Tasks
  BY <1>3 DEF InHand, Tasks
<1> QED
  BY <1>1, <1>2, <1>4, <1>5

\* Up to the handler: the worker takes the head of the queue.
LEMMA TakingKeeps ==
    QueueInv /\ (WaitForTask \/ GetFirst \/ MarkProcessing \/ HandlerPanic) => QueueInv'
<1> SUFFICES ASSUME QueueInv, WaitForTask \/ GetFirst \/ MarkProcessing \/ HandlerPanic PROVE QueueInv'
  OBVIOUS
<1> USE DEF QueueInv
<1>1. UNCHANGED <<info, meta, ctxHeap, ctxPool, queue, comp, done>> /\ pc["worker"] # "merge"
  BY DEF WaitForTask, GetFirst, MarkProcessing, HandlerPanic, taskVars, heapVars, queueVars, histVars
<1>2. run' = [f \in Fields |-> run'[f]]
  <2>1. run' = run \/ run' = NoRun
    BY DEF WaitForTask, GetFirst, MarkProcessing, HandlerPanic
  <2>2. run = [f \in Fields |-> run[f]]
    BY DEF Tables
  <2> QED
    BY <2>1, <2>2, LocalsStay
<1>3. PICK p \in {"stopped", "first", "cap", "handle", "wait"} :
        /\ pc' = [pc EXCEPT !["worker"] = p]
        /\ p = "cap" => queue # <<>> /\ cur' = Head(queue)
        /\ p = "handle" => pc["worker"] = "mark" /\ cur' = cur
  BY DEF WaitForTask, GetFirst, MarkProcessing, HandlerPanic, StopWorker
<1>4. p \in Points \ {"merge"}
  BY DEF Points, Ready, Before, Working
<1>5. Tables' /\ Merging' /\ pc'["worker"] = p /\ Queued' = Queued /\ InHand' = InHand
  BY <1>1, <1>2, <1>3, <1>4, WorkerSame
<1>6. p \in {"cap", "handle"} => queue # <<>> /\ queue[1] = cur'
  BY <1>3 DEF Holding, Ready
<1>7. Holding'
  BY <1>1, <1>5, <1>6 DEF Holding, Ready, Working
<1> QED
  BY <1>1, <1>5, <1>7

\* The handlers read the task; a result that is no success leaves everything in place.
LEMMA HandlersKeep ==
    QueueInv /\ (HandleEnableKubernetesBindings \/ HandleHookRun) => QueueInv'
<1> SUFFICES ASSUME QueueInv, HandleEnableKubernetesBindings \/ HandleHookRun PROVE QueueInv'
  OBVIOUS
<1> USE DEF QueueInv
<1>1. UNCHANGED <<info, meta, ctxHeap, ctxPool, queue, comp, done, cur>> /\ pc["worker"] = "handle"
  BY DEF HandleEnableKubernetesBindings, HandleHookRun, taskVars, heapVars, queueVars, histVars
<1>2. run = [f \in Fields |-> run[f]]
  BY DEF Tables
<1>3. queue # <<>> /\ queue[1] = cur
  BY <1>1, InQueue DEF Ready, Working
<1>4. CASE HandleEnableKubernetesBindings \/ (HandleHookRun /\ Return("Repeat"))
  <2>1. PICK r \in {"Success", "Fail", "Repeat"} :
          /\ run' = [run EXCEPT !.res = r] /\ pc' = [pc EXCEPT !["worker"] = "result"]
          /\ r = "Success" => info[cur].kind = "Enable"
    BY <1>4 DEF HandleEnableKubernetesBindings, Return
  <2>2. run' = [f \in Fields |-> run'[f]] /\ run'.res = r
    BY <1>2, <2>1, LocalsStay
  <2>3. "result" \in Points \ {"merge"}
    BY DEF Points, Ready, Working
  <2>4. Tables' /\ Merging' /\ pc'["worker"] = "result" /\ Queued' = Queued /\ InHand' = InHand
    BY <1>1, <2>1, <2>2, <2>3, WorkerSame
  <2>5. Holding'
    BY <1>1, <1>3, <2>1, <2>2, <2>4 DEF Holding, Ready, Working
  <2> QED
    BY <1>1, <2>4, <2>5
<1>5. CASE HandleHookRun /\ ~Return("Repeat")
  <2>1. PICK sync : run' = [NoRun EXCEPT !.ctx = meta[cur].ctx, !.mon = meta[cur].mon, !.sync = sync]
    BY <1>5 DEF HandleHookRun
  <2>2. PICK p \in {"skip", "combine", "run"} : pc' = [pc EXCEPT !["worker"] = p]
    BY <1>5 DEF HandleHookRun
  <2>3. run' = [f \in Fields |-> run'[f]] /\ run'.ctx = meta[cur].ctx
    BY <2>1 DEF NoRun, Fields
  <2>4. p \in Points \ {"merge"}
    BY DEF Points, Ready, Working
  <2>5. Tables' /\ Merging' /\ pc'["worker"] = p /\ Queued' = Queued /\ InHand' = InHand
    BY <1>1, <2>2, <2>3, <2>4, WorkerSame
  <2>6. info[cur].kind = "HookRun"
    BY <1>5 DEF HandleHookRun
  <2>7. Holding'
    BY <1>1, <1>3, <2>3, <2>5, <2>6 DEF Holding, Ready, Working
  <2> QED
    BY <1>1, <2>5, <2>7
<1> QED
  BY <1>4, <1>5

\* At the end of a run, what depended on it is done or the run has not succeeded.
LEMMA RunEnds ==
    ASSUME QueueInv, UNCHANGED <<info, meta, ctxHeap, ctxPool, queue, comp, cur>>,
           pc["worker"] \in {"run", "skip"}, NEW r, Return(r), done \subseteq done',
           r = "Success" => LeftToRun \subseteq done'
    PROVE  QueueInv'
<1> USE DEF QueueInv
<1>1. run' = [run EXCEPT !.res = r] /\ pc' = [pc EXCEPT !["worker"] = "result"]
  BY DEF Return
<1>2. run' = [f \in Fields |-> run'[f]] /\ run'.res = r
  BY <1>1, LocalsStay DEF Tables
<1>3. /\ Tables' /\ Merging' /\ pc'["worker"] = "result" /\ Tasks' = Tasks
      /\ Queued' = Queued /\ InHand' = InHand /\ InHand = {} /\ \A t : Has(t)' = Has(t)
  <2>1. "result" \in Points \ {"merge"} /\ pc["worker"] # "merge"
    BY DEF Points, Ready, Working
  <2> QED
    BY <1>1, <1>2, <2>1, WorkerSame
<1>4. cur \in ToSet(queue) /\ queue # <<>> /\ queue[1] = cur /\ info[cur].kind = "HookRun"
  <2>1. pc["worker"] \in Ready \cup Working
    BY DEF Ready, Working
  <2> QED
    BY <2>1, InQueue DEF Holding
<1>5. RunContexts = Has(cur)
  BY DEF RunContexts, Has, Contexts, Holding
<1>6. Queued = Has(cur) \cup QueuedBut(cur)
  BY <1>4 DEF Queued, QueuedBut
<1>7. CareIn(info, Has(cur)) \subseteq LeftToRun \cup QueuedBut(cur)
  <2>1. TakenCare(RunContexts) = CareIn(info, Has(cur))
    BY <1>5, CareIs
  <2> QED
    BY <2>1 DEF LeftToRun, QueuedBut, Has
<1>8. CoveredIn(info, done', Queued)
  BY <1>3 DEF CoveredIn
<1>9. ASSUME r = "Success" PROVE CoveredIn(info, done', QueuedBut(cur))
  <2> DEFINE A == Has(cur)  B == QueuedBut(cur)
  <2>1. CareIn(info, A \cup B) = CareIn(info, A) \cup CareIn(info, B) /\ B \subseteq CareIn(info, B)
    BY CareOfBoth, CareOfMore
  <2>2. CareIn(info, A \cup B) \subseteq done' \cup CareIn(info, B)
    BY <1>7, <1>9, <2>1
  <2> HIDE DEF A, B
  <2>3. CoveredIn(info, done', A \cup B)
    BY <1>6, <1>8 DEF A, B
  <2>4. CoveredIn(info, done', B)
    BY <2>2, <2>3 DEF CoveredIn
  <2> QED
    BY <2>4 DEF B
<1>10. QueuedBut(cur)' = QueuedBut(cur)
  BY <1>3 DEF QueuedBut
<1>11. Holding'
  BY <1>2, <1>3, <1>4, <1>9, <1>10 DEF Holding, Ready, Working
<1>12. CoveredIn(info, done, Queued \cup InHand)'
  BY <1>3, <1>8
<1> QED
  BY <1>3, <1>11, <1>12

\* A run that fails and may do so, and a Synchronization that is skipped, are left with
\* contexts that may be dropped: that is what Undisturbed asks of them.
LEMMA RunsKeep == QueueInv /\ Undisturbed /\ (RunHook \/ SkipHook) => QueueInv'
<1> SUFFICES ASSUME QueueInv, Undisturbed, RunHook \/ SkipHook PROVE QueueInv'
  OBVIOUS
<1>1. UNCHANGED <<info, meta, ctxHeap, ctxPool, queue, comp, cur>> /\ pc["worker"] \in {"run", "skip"}
  BY DEF RunHook, SkipHook, taskVars, heapVars, queueVars
<1>2. LeftToRun \subseteq TakenCare(RunContexts)
  BY DEF LeftToRun
<1>3. \E r : Return(r) /\ done \subseteq done' /\ (r = "Success" => LeftToRun \subseteq done')
  <2>1. CASE SkipHook
    <3>1. pc["worker"] = "skip" /\ Return("Success") /\ done' = done \cup {i \in LeftToRun : NotExecuted(i)}
      BY <2>1 DEF SkipHook
    <3>2. \A i \in LeftToRun : NotExecuted(i)
      BY <3>1 DEF Undisturbed, SkipsAgree
    <3> QED
      BY <3>1, <3>2
  <2>2. CASE RunHook
    <3>1. pc["worker"] = "run"
      BY <2>2 DEF RunHook
    <3>2. \/ Return("Success") /\ done' = done \cup TakenCare(RunContexts)
          \/ AllowFailure(cur) /\ Return("Success") /\ done' = done \cup {i \in LeftToRun : AllowFailure(i)}
          \/ Return("Fail") /\ done' = done
      BY <2>2 DEF RunHook, histVars
    <3>3. AllowFailure(cur) => \A i \in LeftToRun : AllowFailure(i)
      BY <3>1 DEF Undisturbed, FailuresAgree
    <3>4. CASE Return("Success") /\ done' = done \cup TakenCare(RunContexts)
      BY <1>2, <3>4
    <3>5. CASE AllowFailure(cur) /\ Return("Success") /\ done' = done \cup {i \in LeftToRun : AllowFailure(i)}
      BY <3>3, <3>5
    <3>6. CASE Return("Fail") /\ done' = done
      BY <3>6
    <3> QED
      BY <3>2, <3>4, <3>5, <3>6
  <2> QED
    BY <2>1, <2>2
<1> QED
  BY <1>1, <1>3, RunEnds

\* combineBindingContextForHook: the tasks behind the head that are of its hook, and their contexts.
LEMMA CollectKeeps == QueueInv /\ CombineCollect => QueueInv'
<1> SUFFICES ASSUME QueueInv, CombineCollect PROVE QueueInv'
  OBVIOUS
<1> USE DEF QueueInv
<1> DEFINE tail == CombinedTasks
           parts == [k \in 1..Len(tail) |-> Contexts(tail[k])]
           cs == Contexts(cur) \o FlattenSeq(parts)
           h == info[cur].hook
<1>1. UNCHANGED <<info, meta, ctxHeap, ctxPool, queue, comp, done, cur>> /\ pc["worker"] = "combine"
  BY DEF CombineCollect, queueVars, histVars
<1>2. run = [f \in Fields |-> run[f]]
  BY DEF Tables
<1>3. cur \in ToSet(queue) /\ queue # <<>> /\ queue[1] = cur /\ info[cur].kind = "HookRun" /\ run.ctx = meta[cur].ctx
  <2>1. pc["worker"] \in Ready \cup Working
    BY <1>1 DEF Ready, Working
  <2> QED
    BY <1>1, <2>1, InQueue DEF Holding
<1>4. CASE tail = <<>>
  <2>1. run' = run /\ pc' = [pc EXCEPT !["worker"] = "run"]
    BY <1>4 DEF CombineCollect
  <2>2. "run" \in Points \ {"merge"} /\ pc["worker"] # "merge"
    BY <1>1 DEF Points, Ready, Working
  <2>3. Tables' /\ Merging' /\ pc'["worker"] = "run" /\ Queued' = Queued /\ InHand' = InHand
    <3> HIDE DEF tail
    <3> QED
      BY <1>1, <1>2, <2>1, <2>2, WorkerSame
  <2>4. Holding'
    BY <1>1, <1>3, <2>1, <2>3 DEF Holding, Ready, Working
  <2> QED
    BY <1>1, <2>3, <2>4
<1>5. CASE tail # <<>>
  <2>1. pc' = [pc EXCEPT !["worker"] = "delete"]
    BY <1>5 DEF CombineCollect
  <2>2. PICK mon : run' = [run EXCEPT !.others = ToSet(tail), !.ctx = Owned(CompactAdjacent(cs)), !.mon = mon]
    BY <1>5 DEF CombineCollect
  <2>3. queue \in Seq(Tasks)
    BY DEF Tables
  <2>4. /\ tail \in Seq(Tasks)
        /\ \A k \in 1..Len(tail) : \E i \in 1..Len(queue) :
              tail[k] = queue[i] /\ queue[i] # cur /\ Same(queue[i], cur)
    <3> DEFINE K == {i \in DOMAIN queue : queue[i] # cur /\ \A j \in 1..i : Same(queue[j], cur)}
    <3>1. tail = OnlyAt(queue, K)
      BY DEF CombinedTasks
    <3>2. \A i \in K : i \in 1..i
      <4>1. DOMAIN queue = 1..Len(queue)
        BY <2>3
      <4> QED
        BY <4>1
    <3>3. \A i \in K : queue[i] # cur /\ Same(queue[i], cur)
      BY <3>2
    <3> HIDE DEF K, tail
    <3>4. Selects(Tasks, queue, K, Len(queue), tail)
      BY <2>3, <3>1, OnlyAtSelects
    <3>5. tail \in Seq(Tasks) /\ \A k \in 1..Len(tail) : \E i \in 1..Len(queue) : i \in K /\ tail[k] = queue[i]
      BY <3>4 DEF Selects
    <3> QED
      BY <3>3, <3>5
  <2> HIDE DEF tail
  <2>5. \A t \in ToSet(tail) : t \in ToSet(queue) \ {cur} /\ info[t].hook = h
    <3> TAKE t \in ToSet(tail)
    <3>1. PICK k \in 1..Len(tail) : t = tail[k]
      BY <2>4, ToSetIs
    <3>2. PICK i \in 1..Len(queue) : tail[k] = queue[i] /\ queue[i] # cur /\ Same(queue[i], cur)
      BY <2>4
    <3>3. queue[i] \in ToSet(queue)
      BY <2>3, ToSetIs
    <3> QED
      BY <3>1, <3>2, <3>3 DEF Same
  <2>6. ASSUME NEW t \in ToSet(queue), info[t].hook = h PROVE Contexts(t) \in Seq(Nat) /\ OfHook(Has(t), h)
    <3>1. Contexts(t) \in Seq(Nat) /\ TaskOK(t)
      BY QueuedTask
    <3> QED
      BY <2>6, <3>1 DEF TaskOK
  <2>7. Len(tail) \in Nat /\ \A k \in 1..Len(tail) : tail[k] \in ToSet(tail)
    BY <2>4, ToSetIs
  <2>8. parts \in [1..Len(tail) -> Seq(Nat)]
    BY <2>5, <2>6, <2>7
  <2>9. /\ FlattenSeq(parts) \in Seq(Nat)
        /\ ToSet(FlattenSeq(parts)) = UNION {ToSet(parts[k]) : k \in 1..Len(tail)}
    <3> HIDE DEF parts
    <3> QED
      BY <2>7, <2>8, ToSetFlatten
  <2>10. UNION {ToSet(parts[k]) : k \in 1..Len(tail)} = UNION {Has(t) : t \in ToSet(tail)}
    <3>1. \A k \in 1..Len(tail) : ToSet(parts[k]) = Has(tail[k])
      BY DEF Has
    <3>2. \A t \in ToSet(tail) : \E k \in 1..Len(tail) : t = tail[k]
      BY <2>4, ToSetIs
    <3> HIDE DEF parts
    <3> QED
      BY <2>7, <3>1, <3>2
  <2> DEFINE ts == ToSet(tail) \cup {cur}
  <2>11. cs \in Seq(Nat) /\ ToSet(cs) = UNION {Has(t) : t \in ts}
    <3>1. Contexts(cur) \in Seq(Nat)
      BY <1>3, <2>6
    <3> HIDE DEF parts
    <3>2. cs \in Seq(Nat)
      BY <2>9, <3>1
    <3>3. ToSet(cs) = ToSet(Contexts(cur)) \cup ToSet(FlattenSeq(parts))
      BY <2>9, <3>1, ToSetJoined
    <3> QED
      BY <2>9, <2>10, <3>2, <3>3 DEF Has
  <2>12. OfHook(ToSet(cs), h)
    <3>1. \A t \in ts : OfHook(Has(t), h)
      BY <1>3, <2>5, <2>6
    <3> HIDE DEF cs, ts
    <3> QED
      BY <2>11, <3>1 DEF OfHook
  <2> HIDE DEF cs
  <2> DEFINE r == CompactAdjacent(cs)
  <2>13. r \in Seq(Nat) /\ ToSet(r) \subseteq ToSet(cs) /\ ToSet(cs) \subseteq CareIn(info, ToSet(r))
    BY <2>11, <2>12, AdjacentCovers
  <2> HIDE DEF r
  <2>14. run' = [f \in Fields |-> run'[f]] /\ run'.others = ToSet(tail) /\ run'.ctx = Owned(r)
    BY <1>2, <2>2 DEF Fields, r
  <2>15. Readable(ctxHeap, run'.ctx) /\ run'.ctx.arr = 0 /\ run'.ctx.val = r
    BY <2>13, <2>14 DEF Owned, Readable
  <2>16. "delete" \in Points \ {"merge"} /\ pc["worker"] # "merge"
    BY <1>1 DEF Points, Ready, Working
  <2>17. /\ Tables' /\ Merging' /\ pc'["worker"] = "delete" /\ Queued' = Queued /\ InHand' = InHand
         /\ \A t : Has(t)' = Has(t)
    BY <1>1, <2>1, <2>14, <2>16, WorkerSame
  <2>18. \A i \in ToSet(r) : i \in Tasks' /\ info'[i].kind = "HookRun" /\ info'[i].hook = info'[cur'].hook
    BY <1>1, <2>12, <2>13 DEF OfHook, Tasks
  <2>19. \A t \in ts : Has(t)' \subseteq CareIn(info, ToSet(r))
    BY <2>11, <2>13, <2>17
  <2>20. Holding'
    <3>1. run'.others \subseteq ToSet(queue') \ {cur'}
      BY <1>1, <2>5, <2>14
    <3>2. \A t \in run'.others \cup {cur'} : Has(t)' \subseteq CareIn(info', ToSet(run'.ctx.val))
      BY <1>1, <2>14, <2>15, <2>19
    <3>3. OfHook(ToSet(run.ctx.val), info[cur].hook)'
      BY <2>15, <2>18 DEF OfHook
    <3> QED
      BY <1>1, <1>3, <2>15, <2>17, <3>1, <3>2, <3>3 DEF Holding, Ready, Working
  <2> QED
    BY <1>1, <2>17, <2>20
<1> QED
  BY <1>4, <1>5

\* The queue without the tasks of X.
LEMMA Pruned ==
    ASSUME Tables, NEW X
    PROVE  /\ Only(queue, Tasks \ X) \in Seq(Tasks) /\ Injective(Only(queue, Tasks \ X))
           /\ ToSet(Only(queue, Tasks \ X)) = ToSet(queue) \ X
           /\ queue # <<>> /\ queue[1] \notin X =>
                 Only(queue, Tasks \ X) # <<>> /\ Only(queue, Tasks \ X)[1] = queue[1]
<1> DEFINE r == Only(queue, Tasks \ X)
<1>1. queue \in Seq(Tasks) /\ Injective(queue)
  BY DEF Tables
<1>2. Keeps(Tasks, queue, Tasks \ X, r)
  BY <1>1, OnlyKeeps
<1>3. ToSet(r) = ToSet(queue) \cap (Tasks \ X) /\ ToSet(queue) \subseteq Tasks
  BY <1>1, ToSetOnly, ToSetIs
<1>4. queue # <<>> => queue[1] \in Tasks
  BY <1>1
<1> HIDE DEF r
<1>5. r \in Seq(Tasks) /\ Injective(r)
  BY <1>1, <1>2 DEF Keeps
<1>6. queue # <<>> /\ queue[1] \notin X => r # <<>> /\ r[1] = queue[1]
  BY <1>2, <1>4 DEF Keeps
<1>7. ToSet(r) = ToSet(queue) \ X
  BY <1>3
<1> QED
  BY <1>5, <1>6, <1>7 DEF r

\* combineBindingContextForHook: the collected tasks are deleted, the task has their contexts.
LEMMA DeleteKeeps == QueueInv /\ CombineDelete => QueueInv'
<1> SUFFICES ASSUME QueueInv, CombineDelete PROVE QueueInv'
  OBVIOUS
<1> USE DEF QueueInv
<1>1. /\ UNCHANGED <<info, ctxHeap, ctxPool, comp, done, cur, run>> /\ pc["worker"] = "delete"
      /\ pc' = [pc EXCEPT !["worker"] = "run"] /\ queue' = Only(queue, Tasks \ run.others)
      /\ meta' = [meta EXCEPT ![cur] = [ctx |-> run.ctx, mon |-> run.mon]]
  BY DEF CombineDelete, heapVars, histVars
<1>2. cur \in ToSet(queue) /\ queue # <<>> /\ queue[1] = cur /\ info[cur].kind = "HookRun"
  <2>1. pc["worker"] \in Ready \cup Working
    BY <1>1 DEF Ready, Working
  <2> QED
    BY <1>1, <2>1, InQueue DEF Holding
<1>3. cur \in 1..Len(info) /\ meta = [i \in 1..Len(info) |-> meta[i]]
  BY <1>2, QueuedTask DEF Tables
<1>4. /\ run.others \subseteq ToSet(queue) \ {cur} /\ run.ctx.arr = 0 /\ Readable(ctxHeap, run.ctx)
      /\ OfHook(ToSet(run.ctx.val), info[cur].hook)
      /\ \A t \in run.others \cup {cur} : Has(t) \subseteq CareIn(info, ToSet(run.ctx.val))
  BY <1>1 DEF Holding
<1>5. /\ queue' \in Seq(Tasks) /\ Injective(queue') /\ ToSet(queue') = ToSet(queue) \ run.others
      /\ queue' # <<>> /\ queue'[1] = cur
  BY <1>1, <1>2, <1>4, Pruned
<1>6. /\ meta'[cur].ctx = run.ctx /\ meta' = [i \in 1..Len(info) |-> meta'[i]]
      /\ \A t \in 1..Len(info) : t # cur => meta'[t] = meta[t]
  BY <1>1, <1>3
<1>7. Tasks' = Tasks
  BY <1>1 DEF Tasks
<1>8. ASSUME NEW t \in ToSet(queue), t # cur PROVE TaskOK(t)' /\ Has(t)' = Has(t)
  <2>1. t \in 1..Len(info) /\ TaskOK(t)
    BY QueuedTask
  <2>2. meta'[t] = meta[t]
    BY <1>6, <1>8, <2>1
  <2>3. Has(t)' = Has(t)
    BY <1>1, <2>2 DEF Has, Contexts, Contents
  <2>4. OfHook(Has(t), info[t].hook)'
    BY <1>1, <1>7, <2>1, <2>3 DEF TaskOK, OfHook
  <2> QED
    BY <1>1, <2>1, <2>2, <2>3, <2>4 DEF TaskOK
<1>9. ASSUME NEW t, t = cur PROVE TaskOK(t)' /\ Has(t)' = ToSet(run.ctx.val)
  <2>1. Has(t)' = ToSet(run.ctx.val)
    BY <1>1, <1>4, <1>6, <1>9 DEF Has, Contexts, Contents
  <2>2. OfHook(Has(t), info[t].hook)'
    BY <1>1, <1>4, <1>7, <1>9, <2>1 DEF OfHook
  <2> QED
    BY <1>1, <1>2, <1>4, <1>6, <1>9, <2>1, <2>2 DEF TaskOK
<1>10. pc' \in [Actors -> Points] /\ pc'["worker"] = "run"
  BY <1>1 DEF Tables, Actors, Points, Ready, Working
<1>11. Merge' = Merge /\ Merge.target = 0 /\ Merge.grp = <<>> /\ InHand = {} /\ InHand' = {}
  BY <1>1 DEF Merge, Merging, InHand
<1>12. Tables'
  <2>1. \A t \in ToSet(queue') : TaskOK(t)'
    BY <1>5, <1>8, <1>9
  <2>2. MergeLocals'
    BY <1>1, <1>11 DEF Tables, MergeLocals
  <2> QED
    BY <1>1, <1>5, <1>6, <1>7, <1>10, <2>1, <2>2 DEF Tables
<1>13. Merging'
  BY <1>10, <1>11 DEF Merging
<1>14. Holding'
  BY <1>1, <1>2, <1>5, <1>6, <1>10 DEF Holding, Ready, Working
<1>15. CoveredIn(info, done, Queued \cup InHand)'
  <2> DEFINE v == ToSet(run.ctx.val)  P == Queued  Q == Queued'
  <2>1. v \subseteq Q
    <3>1. PICK t : t = cur
      OBVIOUS
    <3>2. t \in ToSet(queue') /\ Has(t)' = v
      BY <1>2, <1>4, <1>5, <1>9, <3>1
    <3> QED
      BY <3>2 DEF Queued
  <2>2. CareIn(info, v) \subseteq CareIn(info, Q) /\ Q \subseteq CareIn(info, Q)
    <3> HIDE DEF v, Q
    <3> QED
      BY <2>1, CareOfMore
  <2>3. P \subseteq CareIn(info, Q)
    <3> SUFFICES ASSUME NEW t \in ToSet(queue), NEW i \in Has(t) PROVE i \in CareIn(info, Q)
      BY DEF Queued
    <3>1. CASE t \in run.others \cup {cur}
      BY <1>4, <2>2, <3>1
    <3>2. CASE t \notin run.others \cup {cur}
      <4>1. t \in ToSet(queue') /\ Has(t)' = Has(t)
        BY <1>5, <1>8, <3>2
      <4>2. i \in Q
        BY <4>1 DEF Queued
      <4> QED
        BY <2>2, <4>2
    <3> QED
      BY <3>1, <3>2
  <2>4. P \subseteq DOMAIN info /\ CoveredIn(info, done, P)
    BY <1>11, QueuedAreTasks DEF Tasks
  <2> HIDE DEF P, Q
  <2>5. CareIn(info, P) \subseteq CareIn(info, Q)
    BY <2>3, <2>4, CareGrows
  <2>6. CoveredIn(info, done, Q)
    BY <2>4, <2>5 DEF CoveredIn
  <2> QED
    BY <1>1, <1>11, <2>6 DEF Q
<1> QED
  BY <1>12, <1>13, <1>14, <1>15

\* A result that is not applied, or no success, leaves the queue as it is.
LEMMA OtherResultKeeps ==
    ASSUME QueueInv, ApplyResult, cancelled \/ run.res # "Success"
    PROVE  QueueInv'
<1> USE DEF QueueInv
<1>1. UNCHANGED <<info, meta, ctxHeap, ctxPool, queue, comp, done>> /\ pc["worker"] = "result" /\ run' = NoRun
  BY DEF ApplyResult, heapVars, queueVars, histVars, ResultQueue
<1>2. PICK p \in {"stopped", "wait"} : pc' = [pc EXCEPT !["worker"] = p]
  BY DEF ApplyResult, StopWorker
<1>3. run' = [f \in Fields |-> run'[f]]
  BY <1>1, LocalsStay DEF Tables
<1>4. p \in Points \ {"merge"} /\ pc["worker"] # "merge"
  BY <1>1 DEF Points, Ready, Before
<1>5. Tables' /\ Merging' /\ pc'["worker"] = p /\ Queued' = Queued /\ InHand' = InHand
  BY <1>1, <1>2, <1>3, <1>4, WorkerSame
<1>6. Holding'
  BY <1>5 DEF Holding, Ready, Working
<1> QED
  BY <1>1, <1>5, <1>6

\* Success: the task leaves the queue, its contexts are done, and the head tasks have theirs.
LEMMA SuccessKeeps ==
    ASSUME QueueInv, ApplyResult, ~cancelled, run.res = "Success"
    PROVE  QueueInv'
<1> USE DEF QueueInv
<1> DEFINE m == Len(info)
           new == NewIds(HeadTasks)
           rest == Only(queue, Tasks \ {cur})
<1>1. /\ UNCHANGED <<ctxHeap, ctxPool, comp, done>> /\ pc["worker"] = "result" /\ run' = NoRun
      /\ pc' = [pc EXCEPT !["worker"] = "wait"] /\ Create(HeadTasks) /\ queue' = new \o rest
  BY DEF ApplyResult, heapVars, histVars, ResultQueue
<1>2. cur \in ToSet(queue) /\ queue # <<>> /\ queue[1] = cur
  <2>1. pc["worker"] \in Ready \cup Working
    BY <1>1 DEF Ready, Working
  <2> QED
    BY <2>1, InQueue
<1>3. PICK n \in Nat : /\ HeadTasks = [k \in 1..n |-> HeadTasks[k]]
                       /\ \A k \in 1..n : HeadTasks[k].kind = "HookRun"
  <2> DEFINE own == {k \in DOMAIN Bindings : Bindings[k].hook = info[cur].hook}
             all == [k \in DOMAIN Bindings |-> k]
             order == OnlyAt(all, own)
  <2>1. CASE info[cur].kind = "Enable"
    <3>1. HeadTasks = [k \in 1..Len(order) |-> HookRunTask(order[k], TRUE)]
      BY <2>1 DEF HeadTasks
    <3>2. all \in Seq(Nat)
      <4>1. DOMAIN Bindings = 1..Len(Bindings) /\ Len(Bindings) \in Nat
        BY BindingsAssumption
      <4>2. all \in [1..Len(Bindings) -> Nat]
        BY <4>1
      <4> HIDE DEF all
      <4> QED
        BY <4>1, <4>2, Listed
    <3> HIDE DEF own, all
    <3>3. Selects(Nat, all, own, Len(all), order)
      BY <3>2, OnlyAtSelects
    <3> HIDE DEF order
    <3>4. Len(order) \in Nat
      BY <3>3 DEF Selects
    <3>5. \A k \in 1..Len(order) : HeadTasks[k].kind = "HookRun"
      BY <3>1 DEF HookRunTask
    <3> QED
      BY <3>1, <3>4, <3>5
  <2>2. CASE info[cur].kind # "Enable"
    <3>1. HeadTasks = <<>>
      BY <2>2 DEF HeadTasks
    <3>2. HeadTasks = [k \in 1..0 |-> HeadTasks[k]] /\ \A k \in 1..0 : FALSE
      BY <3>1
    <3> QED
      BY <3>2
  <2> QED
    BY <2>1, <2>2
<1> HIDE DEF new
<1>4. /\ Grown /\ Len(info') = m + n
      /\ \A k \in 1..n : info'[m + k] = HeadTasks[k] /\ meta'[m + k] = NewMeta(m + k, HeadTasks[k])
      /\ new = [k \in 1..n |-> m + k]
  <2>1. PICK recs : recs = HeadTasks
    OBVIOUS
  <2>2. recs = [k \in 1..n |-> recs[k]] /\ Create(recs) /\ new = NewIds(recs)
    BY <1>1, <1>3, <2>1 DEF new
  <2>3. /\ Grown /\ Len(info') = Len(info) + n
        /\ \A k \in 1..n : /\ info'[Len(info) + k] = recs[k]
                           /\ meta'[Len(info) + k] = NewMeta(Len(info) + k, recs[k])
        /\ NewIds(recs) = [k \in 1..n |-> Len(info) + k]
    BY <2>2, Created
  <2> QED
    BY <2>1, <2>2, <2>3
<1>5. m \in Nat /\ Tasks = 1..m /\ Tasks' = 1..(m + n) /\ Tasks \subseteq Tasks'
  BY <1>4 DEF Grown
<1> HIDE DEF m
<1>6. new \in Seq(Tasks') /\ Len(new) = n /\ \A k \in 1..n : new[k] = m + k
  <2>1. new \in [1..n -> Tasks'] /\ \A k \in 1..n : new[k] = m + k
    <3>1. \A k \in 1..n : m + k \in 1..(m + n)
      BY <1>5
    <3> QED
      BY <1>4, <1>5, <3>1
  <2> QED
    BY <2>1, Listed
<1>7. rest \in Seq(Tasks) /\ Injective(rest) /\ ToSet(rest) = ToSet(queue) \ {cur}
  BY Pruned
<1> HIDE DEF rest
<1>8. rest \in Seq(Tasks') /\ Len(rest) \in Nat /\ \A k \in 1..Len(rest) : rest[k] \in 1..m
  BY <1>5, <1>7
<1>9. /\ queue' \in Seq(Tasks') /\ Len(queue') = n + Len(rest)
      /\ \A k \in 1..n : queue'[k] = m + k
      /\ \A k \in 1..Len(rest) : queue'[n + k] = rest[k]
  <2>1. new \in Seq(Tasks') /\ rest \in Seq(Tasks')
    BY <1>6, <1>8
  <2>2. /\ new \o rest \in Seq(Tasks') /\ Len(new \o rest) = Len(new) + Len(rest)
        /\ \A k \in 1..Len(new) : (new \o rest)[k] = new[k]
        /\ \A k \in 1..Len(rest) : (new \o rest)[Len(new) + k] = rest[k]
    BY <2>1, Joined
  <2> QED
    BY <1>1, <1>6, <2>2
<1>10. ToSet(queue') = {m + k : k \in 1..n} \cup (ToSet(queue) \ {cur})
  <2>1. new \in Seq(Tasks') /\ rest \in Seq(Tasks')
    BY <1>6, <1>8
  <2>2. ToSet(new \o rest) = ToSet(new) \cup ToSet(rest)
    BY <2>1, ToSetJoined
  <2>3. ToSet(new) = {m + k : k \in 1..n}
    BY <1>6 DEF ToSet
  <2> QED
    BY <1>1, <1>7, <2>2, <2>3
<1>11. Injective(queue')
  <2> SUFFICES ASSUME NEW i \in 1..(n + Len(rest)), NEW j \in 1..(n + Len(rest)), queue'[i] = queue'[j] PROVE i = j
    BY <1>9 DEF Injective
  <2>1. ASSUME NEW k \in 1..(n + Len(rest)), k \notin 1..n
        PROVE  k - n \in 1..Len(rest) /\ queue'[k] = rest[k - n] /\ rest[k - n] \in 1..m
    <3>1. k - n \in 1..Len(rest) /\ n + (k - n) = k
      BY <1>8, <2>1
    <3> QED
      BY <1>8, <1>9, <3>1
  <2>2. \A k \in 1..n : queue'[k] = m + k /\ m + k \notin 1..m
    BY <1>5, <1>9
  <2>3. CASE i \in 1..n /\ j \in 1..n
    BY <1>5, <2>2, <2>3
  <2>4. CASE i \notin 1..n /\ j \notin 1..n
    <3>1. i - n = j - n
      BY <1>7, <2>1, <2>4 DEF Injective
    <3> QED
      BY <3>1
  <2>5. CASE (i \in 1..n /\ j \notin 1..n) \/ (i \notin 1..n /\ j \in 1..n)
    BY <2>1, <2>2, <2>5
  <2> QED
    BY <2>3, <2>4, <2>5
<1>12. \A t \in ToSet(queue) : TaskOK(t)' /\ Has(t)' = Has(t)
  BY <1>1, <1>4, OldTaskOK
<1>13. ASSUME NEW t \in {m + k : k \in 1..n} PROVE TaskOK(t)' /\ Has(t)' = {t}
  <2>1. PICK k \in 1..n : t = m + k
    OBVIOUS
  <2>2. t \in Nat /\ t \in Tasks' /\ info'[t] = HeadTasks[k] /\ meta'[t] = NewMeta(t, HeadTasks[k])
    BY <1>4, <1>5, <2>1
  <2>3. PICK rec : rec = HeadTasks[k]
    OBVIOUS
  <2> QED
    BY <1>3, <2>2, <2>3, NewTaskOK
<1>14. pc' \in [Actors -> Points] /\ pc'["worker"] = "wait" /\ run' = [f \in Fields |-> run'[f]]
  BY <1>1, LocalsStay DEF Tables, Actors, Points, Ready, Before
<1>15. Merge' = Merge /\ Merge.target = 0 /\ Merge.grp = <<>> /\ InHand = {} /\ InHand' = {}
  BY <1>1 DEF Merge, Merging, InHand
<1>16. Tables'
  <2>1. \A t \in ToSet(queue') : TaskOK(t)'
    BY <1>10, <1>12, <1>13
  <2>2. Len(info') \in Nat /\ info' = [i \in 1..Len(info') |-> info'[i]] /\ meta' = [i \in 1..Len(info') |-> meta'[i]]
    BY <1>4 DEF Grown
  <2>3. MergeLocals'
    BY <1>1, <1>15 DEF Tables, MergeLocals
  <2> QED
    BY <1>1, <1>9, <1>11, <1>14, <2>1, <2>2, <2>3 DEF Tables
<1>17. Merging' /\ Holding'
  BY <1>14, <1>15 DEF Merging, Holding, Ready, Working
<1>18. CoveredIn(info, done, Queued \cup InHand)'
  <2> DEFINE P == QueuedBut(cur)  Q == Queued'
  <2>1. CoveredIn(info, done, P)
    <3>1. CASE info[cur].kind # "Enable"
      BY <1>1, <3>1 DEF Holding
    <3>2. CASE info[cur].kind = "Enable"
      <4>1. Has(cur) = {}
        BY <1>2, <3>2 DEF Tables, TaskOK
      <4>2. Queued = P
        BY <1>2, <4>1 DEF Queued, QueuedBut
      <4> QED
        BY <1>15, <4>2
    <3> QED
      BY <3>1, <3>2
  <2>2. P \subseteq DOMAIN info /\ DOMAIN info \subseteq DOMAIN info' /\ \A i \in DOMAIN info : info'[i] = info[i]
    BY <1>4, QueuedTask DEF QueuedBut, Tasks, Grown
  <2>3. P \subseteq Q
    BY <1>10, <1>12 DEF QueuedBut, Queued
  <2>4. \A i \in DOMAIN info' \ DOMAIN info : info'[i].kind = "HookRun" => i \in Q
    <3> TAKE i \in DOMAIN info' \ DOMAIN info
    <3>1. i \in 1..(m + n) /\ i \notin 1..m
      BY <1>5 DEF Tasks
    <3>2. i \in {m + k : k \in 1..n}
      <4>1. i - m \in 1..n /\ i = m + (i - m)
        BY <1>5, <3>1
      <4> QED
        BY <4>1
    <3>3. i \in ToSet(queue') /\ i \in Has(i)'
      BY <1>10, <1>13, <3>2
    <3> QED
      BY <3>3 DEF Queued
  <2> HIDE DEF P, Q
  <2>5. CareIn(info, P) \subseteq CareIn(info', Q)
    <3>1. P \subseteq CareIn(info', Q)
      BY <2>3 DEF CareIn
    <3> QED
      BY <2>2, <3>1, CareGrows
  <2>6. CoveredIn(info', done, Q)
    BY <2>1, <2>2, <2>4, <2>5, StillCovered
  <2> QED
    BY <1>1, <1>15, <2>6 DEF Q
<1> QED
  BY <1>16, <1>17, <1>18

-----------------------------------------------------------------------------
(* The worker's merge.                                                     *)

\* The scan: the tasks of a hook, of which only the first can be the head of the queue.
LEMMA GroupCollects ==
    ASSUME Tables, queue # <<>>, queue[1] = cur, NEW h, NEW ids, Len(Group(h, ids)) > 1
    PROVE  GroupOK(Group(h, ids)) /\ info[Group(h, ids)[1]].hook = h
<1> DEFINE r == Group(h, ids)
           X == {t \in Tasks : info[t].kind = "HookRun" /\ info[t].hook = h /\ (h \in ids \/ ids = {})
                               /\ t \notin processing}
<1>1. queue \in Seq(Tasks) /\ Injective(queue)
  BY DEF Tables
<1>2. r = Only(queue, X)
  BY DEF Group
<1>3. \A t \in X : t \in Tasks /\ info[t].kind = "HookRun" /\ info[t].hook = h
  OBVIOUS
<1> HIDE DEF X
<1>4. Keeps(Tasks, queue, X, r) /\ ToSet(r) = ToSet(queue) \cap X
  BY <1>1, <1>2, OnlyKeeps, ToSetOnly
<1>5. Len(r) > 1
  OBVIOUS
<1> HIDE DEF r
<1>6. r \in Seq(Tasks) /\ Injective(r) /\ \A k \in 2..Len(r) : r[k] # cur
  BY <1>1, <1>4 DEF Keeps
<1>7. MergeOK(r, h)
  BY <1>3, <1>4, <1>6 DEF MergeOK, OfHook
<1>8. r[1] \in ToSet(r)
  <2>1. 1 \in 1..Len(r)
    BY <1>5, <1>6
  <2> QED
    BY <1>6, <2>1, ToSetIs
<1>9. info[r[1]].hook = h
  BY <1>7, <1>8 DEF MergeOK, OfHook
<1>10. cur \notin ToSet(Tail(r))
  <2> DEFINE q == Tail(r)
  <2>1. q \in Seq(Tasks) /\ Len(q) = Len(r) - 1 /\ Len(r) \in Nat /\ \A k \in 1..Len(q) : q[k] = r[k + 1]
    BY <1>5, <1>6
  <2> HIDE DEF q
  <2>2. \A k \in 1..Len(q) : k + 1 \in 2..Len(r)
    BY <2>1
  <2>3. ASSUME NEW x \in ToSet(q) PROVE x # cur
    <3>1. PICK k \in 1..Len(q) : x = q[k]
      BY <2>1, ToSetIs
    <3>2. k + 1 \in 2..Len(r) /\ x = r[k + 1]
      BY <2>1, <2>2, <3>1
    <3> QED
      BY <1>6, <3>2
  <2> QED
    BY <2>3 DEF q
<1> QED
  BY <1>5, <1>7, <1>9, <1>10 DEF GroupOK, r

LEMMA ScanKeeps == QueueInv /\ CompactionScan("worker") => QueueInv'
<1> SUFFICES ASSUME QueueInv, CompactionScan("worker") PROVE QueueInv'
  OBVIOUS
<1> USE DEF QueueInv
<1>1. /\ UNCHANGED <<info, meta, ctxHeap, ctxPool, queue, done, cur, run>> /\ pc["worker"] = "scan"
      /\ pc' = [pc EXCEPT !["worker"] = "merge"]
  BY DEF CompactionScan, taskVars, heapVars, queueVars, histVars
<1>2. queue # <<>> /\ queue[1] = cur /\ cur \in ToSet(queue)
  BY <1>1, InQueue DEF Ready
<1>3. run' = [f \in Fields |-> run'[f]] /\ Merge.target = 0
  BY <1>1 DEF Tables, Merging
<1>4. pc' \in [Actors -> Points] /\ pc'["worker"] = "merge"
  BY <1>1 DEF Tables, Actors, Points, Ready, Before
<1>5. PICK ids : ids = CompactionIDs("worker")
  OBVIOUS
<1>6. PICK G : G = {g \in {Group(h, ids) : h \in Hooks} : Len(g) > 1}
  OBVIOUS
<1>7. comp' = [comp EXCEPT !["worker"] = [Idle EXCEPT !.groups = G]]
  BY <1>5, <1>6 DEF CompactionScan
<1>8. /\ comp' = [a \in Actors |-> comp'[a]] /\ comp'["events"] = comp["events"]
      /\ Merge' = [Idle EXCEPT !.groups = G]
  BY <1>7 DEF Tables, MergeLocals, Merge, Actors
<1>9. IsMerge(Merge)' /\ Merge'.groups = G /\ Merge'.grp = <<>> /\ Merge'.target = 0
  BY <1>8 DEF IsMerge, Idle
<1>10. MergeLocals'
  BY <1>8, <1>9 DEF Tables, MergeLocals
<1>11. Tasks' = Tasks
  BY <1>1 DEF Tasks
<1>12. ASSUME NEW t PROVE Has(t)' = Has(t) /\ TaskOK(t)' = TaskOK(t)
  <2>1. Has(t)' = Has(t)
    BY <1>1 DEF Has, Contexts, Contents
  <2>2. OfHook(Has(t), info[t].hook)' = OfHook(Has(t), info[t].hook)
    BY <1>1, <1>11, <2>1 DEF OfHook
  <2> QED
    BY <1>1, <2>1, <2>2 DEF TaskOK
<1>13. Tables'
  BY <1>1, <1>3, <1>4, <1>10, <1>11, <1>12 DEF Tables
<1>14. \A g \in G : GroupOK(g) /\ \E h : g = Group(h, ids) /\ info[g[1]].hook = h
  BY <1>2, <1>6, GroupCollects
<1>15. ASSUME NEW g \in G PROVE GroupOK(g)'
  <2>1. MergeOK(g, info[g[1]].hook)' = MergeOK(g, info[g[1]].hook)
    BY <1>1, <1>11 DEF MergeOK, OfHook
  <2> QED
    BY <1>1, <1>14, <2>1 DEF GroupOK
<1>16. GroupsOK'
  BY <1>1, <1>9, <1>14, <1>15 DEF GroupsOK
<1>17. Merging'
  BY <1>4, <1>9, <1>16 DEF Merging
<1>18. Holding'
  BY <1>1, <1>2, <1>4 DEF Holding, Ready, Working
<1>19. Queued' = Queued /\ InHand' = {} /\ InHand = {}
  BY <1>1, <1>3, <1>9, <1>12 DEF Queued, InHand
<1> QED
  BY <1>1, <1>13, <1>17, <1>18, <1>19

\* A task whose slice reads as before.
LEMMA TaskStays ==
    ASSUME NEW t, TaskOK(t), info' = info, meta'[t] = meta[t], Readable(ctxHeap', meta[t].ctx), Has(t)' = Has(t)
    PROVE  TaskOK(t)'
<1>1. OfHook(Has(t), info[t].hook)' = OfHook(Has(t), info[t].hook)
  BY DEF OfHook, Tasks
<1> QED
  BY <1>1 DEF TaskOK

\* The groups that are left wait as before.
LEMMA GroupsStay ==
    ASSUME UNCHANGED <<info, cur>>, NEW G, \A g \in G : GroupOK(g),
           \A g \in G : ToSet(g) \subseteq ToSet(queue')
    PROVE  \A g \in G : GroupOK(g)'
<1> TAKE g \in G
<1>1. GroupOK(g) /\ Tasks' = Tasks
  BY DEF Tasks
<1>2. MergeOK(g, info[g[1]].hook)'
  BY <1>1 DEF GroupOK, MergeOK, OfHook
<1> QED
  BY <1>1, <1>2 DEF GroupOK

\* The next group: the target's contexts are copied to an array of the pool, or to a new one.
LEMMA StartKeeps ==
    ASSUME QueueInv, Undisturbed', MergeStart("worker")
    PROVE  QueueInv'
<1> USE DEF QueueInv
<1>1. /\ UNCHANGED <<info, meta, queue, done, pc, cur, run>> /\ pc["worker"] = "merge"
      /\ Merge.target = 0 /\ Merge.grp = <<>> /\ GroupsOK /\ InHand = {}
  BY DEF MergeStart, queueVars, histVars, Merge, Merging, InHand
<1>2. PICK g \in Merge.groups, c \in ctxPool \cup {Len(ctxHeap) + 1}, m \in monPool \cup {Len(monHeap) + 1} :
        /\ ctxHeap' = WriteAt(ctxHeap, c, 0, Contexts(Head(g))) /\ ctxPool' = ctxPool \ {c}
        /\ comp' = [comp EXCEPT !["worker"] =
                        [live |-> FALSE, ids |-> {}, groups |-> @.groups \ {g}, grp |-> Tail(g), target |-> Head(g),
                         ctx |-> Window(c, Len(Contexts(Head(g)))), mon |-> Window(m, Len(Monitors(Head(g))))]]
  BY ZenonT(30) DEF MergeStart, Merge
<1>3. PICK t : t = g[1]
  OBVIOUS
<1>4. PICK cs : cs = Contexts(t)
  OBVIOUS
<1>5. GroupOK(g) /\ g \in Seq(Tasks) /\ g # <<>> /\ Injective(g)
  BY <1>1 DEF GroupsOK, GroupOK, MergeOK
<1>6. /\ Head(g) = t /\ Tail(g) \in Seq(Tasks) /\ ToSet(g) = {t} \cup ToSet(Tail(g))
      /\ Injective(Tail(g)) /\ t \notin ToSet(Tail(g))
  BY <1>3, <1>5, HeadAndTail
<1>7. t \in ToSet(queue) /\ info[t].kind = "HookRun" /\ t # 0 /\ t \in Tasks
  BY <1>3, <1>5, <1>6, QueuedTask DEF GroupOK, MergeOK, OfHook
<1>8. TaskOK(t) /\ cs \in Seq(Nat) /\ ToSet(cs) = Has(t) /\ Len(cs) \in Nat
  BY <1>4, <1>7, QueuedTask DEF Has
<1>9. /\ ctxHeap \in Seq(Seq(Nat)) /\ c \in 1..(Len(ctxHeap) + 1) /\ c # 0
      /\ IF c = Len(ctxHeap) + 1 THEN 0 = 0 ELSE 0 <= Len(ctxHeap[c])
  <2>1. ctxHeap \in Seq(Seq(Nat)) /\ ctxPool \subseteq 1..Len(ctxHeap) /\ Len(ctxHeap) \in Nat
    BY DEF Tables
  <2>2. c \in 1..(Len(ctxHeap) + 1)
    BY <2>1
  <2>3. CASE c # Len(ctxHeap) + 1
    <3>1. ctxHeap[c] \in Seq(Nat)
      BY <2>1, <2>2, <2>3
    <3> QED
      BY <2>1, <2>2, <3>1
  <2> QED
    BY <2>1, <2>2, <2>3
<1>10. PICK mon : /\ ctxHeap' = WriteAt(ctxHeap, c, 0, cs)
                  /\ comp' = [comp EXCEPT !["worker"] =
                                [live |-> FALSE, ids |-> {}, groups |-> Merge.groups \ {g}, grp |-> Tail(g),
                                 target |-> t, ctx |-> Window(c, Len(cs)), mon |-> mon]]
  BY <1>2, <1>4, <1>6 DEF Merge
<1>11. /\ comp' = [a \in Actors |-> comp'[a]] /\ comp'["events"] = comp["events"]
       /\ Merge' = [live |-> FALSE, ids |-> {}, groups |-> Merge.groups \ {g}, grp |-> Tail(g),
                    target |-> t, ctx |-> Window(c, Len(cs)), mon |-> mon]
  <2>1. comp = [a \in Actors |-> comp[a]]
    BY DEF Tables, MergeLocals
  <2> QED
    BY <1>10, <2>1 DEF Merge, Actors
<1>12. /\ MergeLocals'
       /\ Merge'.groups = Merge.groups \ {g} /\ Merge'.grp = Tail(g) /\ Merge'.target = t
       /\ Merge'.ctx = [arr |-> c, len |-> Len(cs), val |-> <<>>]
  BY <1>11 DEF Tables, MergeLocals, IsMerge, Window
<1>13. \A u \in ToSet(queue) : u # t => meta[u].ctx.arr # c
  BY <1>1, <1>7, <1>12 DEF Undisturbed, ArraysHaveOneOwner, Merge, Actors
<1>14. ctxHeap' \in Seq(Seq(Nat)) /\ Len(ctxHeap') \in Nat /\ Len(ctxHeap') >= Len(ctxHeap) /\ c \in 1..Len(ctxHeap')
  BY <1>8, <1>9, <1>10, Written
<1>15. ASSUME NEW s, Readable(ctxHeap, s), s.arr # c
       PROVE  Readable(ctxHeap', s) /\ Contents(ctxHeap', s) = Contents(ctxHeap, s)
  <2>1. PICK n \in Nat : n = 0
    OBVIOUS
  <2>2. /\ IF c = Len(ctxHeap) + 1 THEN n = 0 ELSE n <= Len(ctxHeap[c])
        /\ s.arr = c => s.len <= n
    BY <1>9, <1>15, <2>1
  <2>3. /\ Readable(WriteAt(ctxHeap, c, n, cs), s)
        /\ Contents(WriteAt(ctxHeap, c, n, cs), s) = Contents(ctxHeap, s)
    BY <1>8, <1>9, <1>15, <2>2, WrittenElsewhere
  <2> QED
    BY <1>10, <2>1, <2>3
<1>16. ASSUME NEW s, s = [arr |-> c, len |-> Len(cs), val |-> s.val]
       PROVE  Readable(ctxHeap', s) /\ ToSet(Contents(ctxHeap', s)) = ToSet(cs)
  <2>1. PICK n \in Nat : n = 0
    OBVIOUS
  <2>2. /\ IF c = Len(ctxHeap) + 1 THEN n = 0 ELSE n <= Len(ctxHeap[c])
        /\ s = [arr |-> c, len |-> n + Len(cs), val |-> s.val]
    BY <1>8, <1>9, <1>16, <2>1
  <2>3. /\ Readable(WriteAt(ctxHeap, c, n, cs), s)
        /\ ToSet(Contents(WriteAt(ctxHeap, c, n, cs), s)) = {ctxHeap[c][k] : k \in 1..n} \cup ToSet(cs)
    BY <1>8, <1>9, <2>2, WrittenSlice
  <2>4. {ctxHeap[c][k] : k \in 1..n} = {}
    BY <2>1
  <2> QED
    BY <1>10, <2>1, <2>3, <2>4
<1>17. ASSUME NEW u \in ToSet(queue) PROVE Readable(ctxHeap', meta[u].ctx) /\ Has(u)' = Has(u)
  <2>1. Readable(ctxHeap, meta[u].ctx)
    BY QueuedTask DEF TaskOK
  <2>2. Has(u)' = ToSet(Contents(ctxHeap', meta[u].ctx)) /\ Has(u) = ToSet(Contents(ctxHeap, meta[u].ctx))
    BY <1>1 DEF Has, Contexts
  <2>3. CASE meta[u].ctx.arr # c
    BY <1>15, <2>1, <2>2, <2>3
  <2>4. CASE meta[u].ctx.arr = c
    <3>1. u = t
      BY <1>13, <2>4
    <3>2. Reads(ctxHeap, meta[u].ctx, cs)
      BY <1>4, <1>9, <2>1, <3>1, Contained DEF Contexts
    <3>3. meta[u].ctx = [arr |-> c, len |-> Len(cs), val |-> meta[u].ctx.val]
      BY <1>9, <2>1, <2>4, <3>2 DEF Reads, Readable
    <3>4. Readable(ctxHeap', meta[u].ctx) /\ ToSet(Contents(ctxHeap', meta[u].ctx)) = ToSet(cs)
      BY <1>16, <3>3
    <3> QED
      BY <1>8, <2>2, <3>1, <3>4
  <2> QED
    BY <2>3, <2>4
<1>18. Readable(ctxHeap', Merge'.ctx) /\ Merged' = ToSet(cs)
  <2>1. PICK s : s = Merge'.ctx
    OBVIOUS
  <2>2. s = [arr |-> c, len |-> Len(cs), val |-> s.val]
    BY <1>12, <2>1
  <2> QED
    BY <1>16, <2>1, <2>2 DEF Merged
<1>19. \A u \in ToSet(queue) : TaskOK(u)'
  BY <1>1, <1>17, QueuedTask, TaskStays
<1>20. Tasks' = Tasks
  BY <1>1 DEF Tasks
<1>21. Tables'
  <2>1. ctxPool' \subseteq 1..Len(ctxHeap')
    BY <1>2, <1>9, <1>14 DEF Tables
  <2> QED
    BY <1>1, <1>11, <1>12, <1>14, <1>19, <1>20, <2>1 DEF Tables
<1>22. GroupsOK'
  <2>1. \A f \in Merge.groups : GroupOK(f)'
    <3>1. \A f \in Merge.groups : GroupOK(f) /\ ToSet(f) \subseteq ToSet(queue')
      BY <1>1 DEF GroupsOK, GroupOK, MergeOK
    <3> QED
      BY <1>1, <3>1, GroupsStay
  <2> QED
    BY <1>1, <1>12, <2>1 DEF GroupsOK
<1>23. Collected'
  <2>1. MergeOK(Tail(g), info[t].hook)'
    BY <1>1, <1>3, <1>5, <1>6, <1>20 DEF GroupOK, MergeOK, OfHook
  <2>2. cur \notin ToSet(Tail(g)) /\ \A f \in Merge.groups \ {g} : info[f[1]].hook # info[t].hook
    BY <1>1, <1>3, <1>5 DEF GroupOK, GroupsOK
  <2>3. OfHook(Merged, info[t].hook)' /\ Has(t)' \subseteq Merged'
    BY <1>1, <1>7, <1>8, <1>17, <1>18, <1>20 DEF TaskOK, OfHook
  <2>4. meta[t].ctx.arr = c => meta[t].ctx.len <= Len(cs)
    <3>1. Reads(ctxHeap, meta[t].ctx, cs)
      BY <1>4, <1>8, <1>9, Contained DEF Contexts, TaskOK
    <3> QED
      BY <1>8, <1>9, <3>1 DEF Reads
  <2> QED
    BY <1>1, <1>6, <1>7, <1>9, <1>12, <1>18, <2>1, <2>2, <2>3, <2>4 DEF Collected
<1>24. Merging'
  BY <1>1, <1>7, <1>12, <1>22, <1>23 DEF Merging
<1>25. Holding'
  <2>1. queue # <<>> /\ queue[1] = cur
    BY <1>1, InQueue DEF Ready
  <2> QED
    BY <1>1, <2>1 DEF Holding, Ready, Working
<1>26. (Queued \cup InHand)' = Queued \cup InHand
  <2>1. Queued' = Queued
    BY <1>1, <1>17 DEF Queued
  <2>2. InHand' = Has(t) /\ Has(t) \subseteq Queued
    BY <1>7, <1>8, <1>12, <1>18 DEF InHand, Queued
  <2> QED
    BY <1>1, <2>1, <2>2
<1>27. CoveredIn(info, done, Queued \cup InHand)'
  <2>1. PICK S : S = Queued \cup InHand
    OBVIOUS
  <2> QED
    BY <1>1, <1>26, <2>1
<1> QED
  BY <1>21, <1>24, <1>25, <1>27

\* The next element: its contexts are appended to the array in hand, and it leaves the queue.
LEMMA ElementKeeps ==
    ASSUME QueueInv, Undisturbed, MergeElement("worker")
    PROVE  QueueInv'
<1> USE DEF QueueInv
<1>1. /\ UNCHANGED <<info, meta, ctxPool, done, pc, cur, run>> /\ pc["worker"] = "merge"
      /\ Merge.grp # <<>> /\ Merge.target # 0 /\ GroupsOK /\ Collected
  BY DEF MergeElement, histVars, Merge, Merging
<1>2. PICK e : e = Head(Merge.grp)
  OBVIOUS
<1>3. PICK t : t = Merge.target
  OBVIOUS
<1>4. PICK xs : xs = Contexts(e)
  OBVIOUS
<1>5. PICK c : c = Merge.ctx.arr
  OBVIOUS
<1>6. PICK n : n = Merge.ctx.len
  OBVIOUS
<1>7. /\ t \in ToSet(queue) /\ info[t].kind = "HookRun" /\ MergeOK(Merge.grp, info[t].hook)
      /\ cur \notin ToSet(Merge.grp) /\ t \notin ToSet(Merge.grp)
      /\ \A g \in Merge.groups : info[g[1]].hook # info[t].hook
      /\ Readable(ctxHeap, Merge.ctx) /\ c # 0 /\ OfHook(Merged, info[t].hook) /\ Has(t) \subseteq Merged
      /\ meta[t].ctx.arr = c => meta[t].ctx.len <= n
  BY <1>1, <1>3, <1>5, <1>6 DEF Collected
<1>8. /\ Tail(Merge.grp) \in Seq(Tasks) /\ ToSet(Merge.grp) = {e} \cup ToSet(Tail(Merge.grp))
      /\ Injective(Tail(Merge.grp)) /\ e \notin ToSet(Tail(Merge.grp))
  <2>1. Merge.grp \in Seq(Tasks) /\ Injective(Merge.grp)
    BY <1>7 DEF MergeOK
  <2> QED
    BY <1>1, <1>2, <2>1, HeadAndTail
<1>9. e \in ToSet(queue) /\ info[e].hook = info[t].hook /\ e # t /\ e # cur
  BY <1>7, <1>8 DEF MergeOK, OfHook
<1>10. TaskOK(e) /\ xs \in Seq(Nat) /\ ToSet(xs) = Has(e) /\ Len(xs) \in Nat
  BY <1>4, <1>9, QueuedTask DEF Has
<1>11. /\ ctxHeap' = WriteAt(ctxHeap, c, n, xs) /\ queue' = Only(queue, Tasks \ {e})
       /\ comp' = [comp EXCEPT !["worker"].grp = Tail(@), !["worker"].ctx.len = @ + Len(xs),
                               !["worker"].mon.len = @ + Len(Monitors(e))]
  BY <1>2, <1>4, <1>5, <1>6 DEF MergeElement, Merge
<1>12. /\ comp' = [a \in Actors |-> comp'[a]] /\ comp'["events"] = comp["events"]
       /\ Merge' = [Merge EXCEPT !.grp = Tail(@), !.ctx.len = @ + Len(xs),
                                 !.mon.len = @ + Len(Monitors(e))]
  <2>1. comp = [a \in Actors |-> comp[a]]
    BY DEF Tables, MergeLocals
  <2>2. comp' = [a \in Actors |-> comp'[a]]
    BY <1>11, <2>1
  <2>3. comp'["events"] = comp["events"]
    BY <1>11, <2>1 DEF Actors
  <2>4. comp'["worker"] = [comp["worker"] EXCEPT !.grp = Tail(@), !.ctx.len = @ + Len(xs),
                                                 !.mon.len = @ + Len(Monitors(e))]
    BY <1>11, <2>1 DEF Actors
  <2> QED
    BY <2>2, <2>3, <2>4 DEF Merge
<1>13. /\ MergeLocals'
       /\ Merge'.groups = Merge.groups /\ Merge'.grp = Tail(Merge.grp) /\ Merge'.target = t
       /\ Merge'.ctx = [Merge.ctx EXCEPT !.len = @ + Len(xs)]
  <2>1. PICK m : m = Merge
    OBVIOUS
  <2>2. /\ IsMerge(m)
        /\ Merge' = [m EXCEPT !.grp = Tail(@), !.ctx.len = @ + Len(xs), !.mon.len = @ + Len(Monitors(e))]
    BY <1>12, <2>1 DEF Tables, MergeLocals
  <2> QED
    BY <1>3, <1>12, <2>1, <2>2 DEF Tables, MergeLocals, IsMerge
<1>14. Merge'.ctx = [arr |-> c, len |-> n + Len(xs), val |-> Merge'.ctx.val]
  BY <1>5, <1>6, <1>7, <1>13 DEF Readable
<1>15. ctxHeap \in Seq(Seq(Nat)) /\ c \in 1..Len(ctxHeap) /\ n \in 0..Len(ctxHeap[c]) /\ n \in Nat
  <2>1. ctxHeap \in Seq(Seq(Nat)) /\ c \in 1..Len(ctxHeap) /\ n \in 0..Len(ctxHeap[c])
    BY <1>5, <1>6, <1>7 DEF Tables, Readable
  <2>2. ctxHeap[c] \in Seq(Nat)
    BY <2>1
  <2> QED
    BY <2>1, <2>2
<1>16. c \in 1..(Len(ctxHeap) + 1) /\ IF c = Len(ctxHeap) + 1 THEN n = 0 ELSE n <= Len(ctxHeap[c])
  BY <1>15
<1>17. ctxHeap' \in Seq(Seq(Nat)) /\ Len(ctxHeap') \in Nat /\ Len(ctxHeap') >= Len(ctxHeap)
  BY <1>10, <1>11, <1>15, <1>16, Written
<1>18. ASSUME NEW u \in ToSet(queue) PROVE Readable(ctxHeap', meta[u].ctx) /\ Has(u)' = Has(u)
  <2>1. Readable(ctxHeap, meta[u].ctx)
    BY QueuedTask DEF TaskOK
  <2>2. meta[u].ctx.arr = c => meta[u].ctx.len <= n
    <3>1. CASE u # t
      BY <1>1, <1>3, <1>5, <3>1 DEF Undisturbed, ArraysHaveOneOwner, Merge, Actors
    <3> QED
      BY <1>7, <3>1
  <2>3. PICK s : s = meta[u].ctx
    OBVIOUS
  <2>4. /\ Readable(WriteAt(ctxHeap, c, n, xs), s)
        /\ Contents(WriteAt(ctxHeap, c, n, xs), s) = Contents(ctxHeap, s)
    BY <1>10, <1>15, <1>16, <2>1, <2>2, <2>3, WrittenElsewhere
  <2> QED
    BY <1>1, <1>11, <2>3, <2>4 DEF Has, Contexts
<1>19. Readable(ctxHeap', Merge'.ctx) /\ Merged' = Merged \cup Has(e)
  <2>1. PICK s : s = Merge'.ctx
    OBVIOUS
  <2>2. s = [arr |-> c, len |-> n + Len(xs), val |-> s.val]
    BY <1>14, <2>1
  <2>3. /\ Readable(WriteAt(ctxHeap, c, n, xs), s)
        /\ ToSet(Contents(WriteAt(ctxHeap, c, n, xs), s)) = {ctxHeap[c][k] : k \in 1..n} \cup ToSet(xs)
    <3>1. ctxHeap \in Seq(Seq(Nat)) /\ n \in Nat /\ xs \in Seq(Nat)
      BY <1>10, <1>15
    <3> QED
      BY <1>16, <2>2, <3>1, WrittenSlice, SMTT(30)
  <2>4. {ctxHeap[c][k] : k \in 1..n} = Merged
    <3>1. PICK v : v = Contents(ctxHeap, Merge.ctx)
      OBVIOUS
    <3>2. Reads(ctxHeap, Merge.ctx, v)
      BY <1>7, <1>15, <3>1, Contained
    <3>3. v \in Seq(Nat) /\ Len(v) = n /\ \A k \in 1..n : v[k] = ctxHeap[c][k]
      BY <1>5, <1>6, <1>7, <3>2 DEF Reads
    <3>4. ToSet(v) = {ctxHeap[c][k] : k \in 1..n}
      BY <3>3, ToSetIs
    <3> QED
      BY <3>1, <3>4 DEF Merged
  <2> QED
    BY <1>10, <1>11, <2>1, <2>3, <2>4 DEF Merged
<1>20. queue # <<>> /\ queue[1] = cur
  BY <1>1, InQueue DEF Ready
<1>21. /\ queue' \in Seq(Tasks) /\ Injective(queue') /\ ToSet(queue') = ToSet(queue) \ {e}
       /\ queue' # <<>> /\ queue'[1] = cur
  BY <1>9, <1>11, <1>20, Pruned
<1>22. Tasks' = Tasks
  BY <1>1 DEF Tasks
<1>23. Tables'
  <2>1. \A u \in ToSet(queue) : TaskOK(u)'
    BY <1>1, <1>18, QueuedTask, TaskStays
  <2>2. ctxPool' \subseteq 1..Len(ctxHeap')
    BY <1>1, <1>15, <1>17 DEF Tables
  <2> QED
    BY <1>1, <1>12, <1>13, <1>17, <1>21, <1>22, <2>1, <2>2 DEF Tables
<1>24. GroupsOK'
  <2>1. ASSUME NEW g \in Merge.groups PROVE GroupOK(g) /\ ToSet(g) \subseteq ToSet(queue')
    <3>1. GroupOK(g) /\ ToSet(g) \subseteq ToSet(queue) /\ OfHook(ToSet(g), info[g[1]].hook)
      BY <1>1 DEF GroupsOK, GroupOK, MergeOK
    <3>2. e \notin ToSet(g)
      BY <1>7, <1>9, <3>1 DEF OfHook
    <3> QED
      BY <1>21, <3>1, <3>2
  <2>2. \A g \in Merge.groups : GroupOK(g)'
    BY <1>1, <2>1, GroupsStay
  <2> QED
    BY <1>1, <1>13, <2>2 DEF GroupsOK
<1>25. Collected'
  <2>1. PICK r : r = Tail(Merge.grp)
    OBVIOUS
  <2>2. /\ r \in Seq(Tasks) /\ Injective(r) /\ ToSet(r) \subseteq ToSet(queue')
        /\ OfHook(ToSet(r), info[t].hook) /\ cur \notin ToSet(r) /\ t \notin ToSet(r)
    BY <1>7, <1>8, <1>21, <2>1 DEF MergeOK, OfHook
  <2>3. MergeOK(r, info[t].hook)'
    BY <1>1, <1>22, <2>2 DEF MergeOK, OfHook
  <2>4. OfHook(Merged, info[t].hook)' /\ Has(t)' \subseteq Merged'
    BY <1>1, <1>7, <1>9, <1>10, <1>18, <1>19, <1>22 DEF TaskOK, OfHook
  <2>5. Merge'.ctx.arr = c /\ Merge'.ctx.len = n + Len(xs)
    BY <1>14
  <2>6. meta[t].ctx.arr = c => meta[t].ctx.len <= n + Len(xs)
    <3>1. meta[t].ctx.arr = c => meta[t].ctx.len \in Nat
      <4>1. Readable(ctxHeap, meta[t].ctx)
        BY <1>7, QueuedTask DEF TaskOK
      <4>2. meta[t].ctx.arr = c => meta[t].ctx.len \in 0..Len(ctxHeap[c]) /\ ctxHeap[c] \in Seq(Nat)
        BY <1>7, <1>15, <4>1 DEF Readable
      <4> QED
        BY <4>2
    <3> QED
      BY <1>7, <1>10, <1>15, <3>1
  <2> QED
    BY <1>1, <1>7, <1>9, <1>13, <1>19, <1>21, <2>1, <2>2, <2>3, <2>4, <2>5, <2>6 DEF Collected
<1>26. Merging'
  BY <1>1, <1>3, <1>13, <1>24, <1>25 DEF Merging
<1>27. Holding'
  BY <1>1, <1>21 DEF Holding, Ready, Working
<1>28. CoveredIn(info, done, Queued \cup InHand)'
  <2>1. InHand = Merged /\ InHand' = Merged'
    BY <1>1, <1>3, <1>13 DEF InHand
  <2>2. \A u \in ToSet(queue) : u # e => Has(u) \subseteq Queued'
    BY <1>18, <1>21 DEF Queued
  <2>3. Queued \cup InHand \subseteq (Queued \cup InHand)'
    BY <1>19, <2>1, <2>2 DEF Queued
  <2>4. PICK P : P = Queued \cup InHand
    OBVIOUS
  <2>5. PICK Q : Q = (Queued \cup InHand)'
    OBVIOUS
  <2>6. CareIn(info, P) \subseteq CareIn(info, Q)
    BY <2>3, <2>4, <2>5, CareOfMore
  <2>7. CoveredIn(info, done, Q)
    BY <2>4, <2>6 DEF CoveredIn
  <2> QED
    BY <1>1, <2>5, <2>7
<1> QED
  BY <1>23, <1>26, <1>27, <1>28

\* The end of a group: what is in hand, or the compacted copy of it, becomes the target's.
LEMMA FinishKeeps ==
    ASSUME QueueInv, MergeFinish("worker")
    PROVE  QueueInv'
<1> USE DEF QueueInv
<1>1. /\ UNCHANGED <<info, ctxHeap, queue, done, pc, cur, run>> /\ pc["worker"] = "merge"
      /\ Merge.target # 0 /\ GroupsOK /\ Collected
  BY DEF MergeFinish, queueVars, histVars, Merge, Merging
<1>2. PICK t : t = Merge.target
  OBVIOUS
<1>3. PICK cs : cs = Contents(ctxHeap, Merge.ctx)
  OBVIOUS
<1>4. PICK G : G = Merge.groups
  OBVIOUS
<1>5. /\ t \in ToSet(queue) /\ info[t].kind = "HookRun" /\ Readable(ctxHeap, Merge.ctx) /\ Merge.ctx.arr # 0
      /\ OfHook(Merged, info[t].hook) /\ Has(t) \subseteq Merged
  BY <1>1, <1>2 DEF Collected
<1>6. t \in 1..Len(info) /\ meta = [i \in 1..Len(info) |-> meta[i]] /\ ctxHeap \in Seq(Seq(Nat)) /\ TaskOK(t)
  BY <1>5, QueuedTask DEF Tables
<1>7. cs \in Seq(Nat) /\ ToSet(cs) = Merged
  <2>1. Reads(ctxHeap, Merge.ctx, cs)
    BY <1>3, <1>5, <1>6, Contained
  <2> QED
    BY <1>3, <2>1 DEF Reads, Merged
<1>8. /\ ctxPool' = ctxPool \cup {Merge.ctx.arr}
      /\ comp' = [comp EXCEPT !["worker"] = [Idle EXCEPT !.groups = G]]
  BY <1>4 DEF MergeFinish, Merge
<1>9. PICK res : /\ res = Merge.ctx \/ \E s \in CompactBindingContexts(cs) : res = Owned(s)
                 /\ meta' = [meta EXCEPT ![t] = [ctx |-> res, mon |-> Merge.mon]]
  <2> DEFINE shared == Len(cs) < 2 \/ \A k \in 1..Len(cs) : GroupOf(cs[k]) = NoGroup
  <2>1. \E r \in IF shared THEN {Merge.ctx} ELSE {Owned(s) : s \in CompactBindingContexts(cs)} :
            meta' = [meta EXCEPT ![t] = [ctx |-> r, mon |-> Merge.mon]]
    BY <1>2, <1>3 DEF MergeFinish, Merge
  <2> HIDE DEF shared
  <2> QED
    BY <2>1
<1>10. PICK V : V = ToSet(Contents(ctxHeap, res))
  OBVIOUS
<1>11. Readable(ctxHeap, res) /\ V \subseteq Merged /\ Merged \subseteq CareIn(info, V)
  <2>1. CASE res = Merge.ctx
    BY <1>5, <1>10, <2>1 DEF Merged, CareIn
  <2>2. CASE res # Merge.ctx
    <3>1. PICK s \in CompactBindingContexts(cs) : res = Owned(s)
      BY <1>9, <2>2
    <3>2. s \in Seq(Nat) /\ ToSet(s) \subseteq ToSet(cs) /\ ToSet(cs) \subseteq CareIn(info, ToSet(s))
      <4>1. PICK h : h = info[t].hook
        OBVIOUS
      <4>2. OfHook(ToSet(cs), h)
        BY <1>5, <1>7, <4>1
      <4> QED
        BY <1>7, <4>2, CompactCovers
    <3>3. res = [arr |-> 0, len |-> Len(s), val |-> s]
      BY <3>1 DEF Owned
    <3>4. Readable(ctxHeap, res) /\ Contents(ctxHeap, res) = s
      BY <3>2, <3>3 DEF Readable, Contents
    <3> QED
      BY <1>7, <1>10, <3>2, <3>4
  <2> QED
    BY <2>1, <2>2
<1>12. /\ meta'[t].ctx = res /\ meta' = [i \in 1..Len(info) |-> meta'[i]]
       /\ \A u \in 1..Len(info) : u # t => meta'[u] = meta[u]
  BY <1>6, <1>9
<1>13. Tasks' = Tasks
  BY <1>1 DEF Tasks
<1>14. ASSUME NEW u \in ToSet(queue), u # t PROVE TaskOK(u)' /\ Has(u)' = Has(u)
  <2>1. TaskOK(u) /\ meta'[u] = meta[u] /\ Readable(ctxHeap', meta[u].ctx)
    BY <1>1, <1>12, <1>14, QueuedTask DEF TaskOK
  <2>2. Has(u)' = Has(u)
    BY <1>1, <2>1 DEF Has, Contexts
  <2> QED
    BY <1>1, <2>1, <2>2, TaskStays
<1>15. TaskOK(t)' /\ Has(t)' = V
  <2>1. Has(t)' = V
    BY <1>1, <1>10, <1>12 DEF Has, Contexts
  <2>2. OfHook(Has(t), info[t].hook)'
    BY <1>1, <1>5, <1>11, <1>13, <2>1 DEF OfHook
  <2> QED
    BY <1>1, <1>5, <1>11, <1>12, <2>1, <2>2 DEF TaskOK
<1>16. /\ comp' = [a \in Actors |-> comp'[a]] /\ comp'["events"] = comp["events"]
       /\ Merge' = [Idle EXCEPT !.groups = G]
  BY <1>8 DEF Tables, MergeLocals, Merge, Actors
<1>17. MergeLocals' /\ Merge'.groups = G /\ Merge'.grp = <<>> /\ Merge'.target = 0
  BY <1>16 DEF Tables, MergeLocals, IsMerge, Idle
<1>18. Tables'
  <2>1. \A u \in ToSet(queue) : TaskOK(u)'
    BY <1>14, <1>15
  <2>2. ctxPool' \subseteq 1..Len(ctxHeap')
    BY <1>1, <1>5, <1>8 DEF Tables, Readable
  <2> QED
    BY <1>1, <1>12, <1>13, <1>16, <1>17, <2>1, <2>2 DEF Tables
<1>19. GroupsOK'
  <2>1. \A g \in G : GroupOK(g) /\ ToSet(g) \subseteq ToSet(queue')
    BY <1>1, <1>4 DEF GroupsOK, GroupOK, MergeOK
  <2>2. \A g \in G : GroupOK(g)'
    BY <1>1, <2>1, GroupsStay
  <2> QED
    BY <1>1, <1>4, <1>17, <2>2 DEF GroupsOK
<1>20. Merging'
  BY <1>1, <1>17, <1>19 DEF Merging
<1>21. Holding'
  <2>1. queue # <<>> /\ queue[1] = cur
    BY <1>1, InQueue DEF Ready
  <2> QED
    BY <1>1, <2>1 DEF Holding, Ready, Working
<1>22. CoveredIn(info, done, Queued \cup InHand)'
  <2>1. PICK P : P = Queued \cup InHand
    OBVIOUS
  <2>2. PICK Q : Q = Queued'
    OBVIOUS
  <2>3. InHand = Merged /\ InHand' = {}
    BY <1>1, <1>17 DEF InHand
  <2>4. V \subseteq Q /\ \A u \in ToSet(queue) : u # t => Has(u) \subseteq Q
    BY <1>1, <1>5, <1>14, <1>15, <2>2 DEF Queued
  <2>5. CareIn(info, V) \subseteq CareIn(info, Q) /\ Q \subseteq CareIn(info, Q)
    BY <2>4, CareOfMore
  <2>6. P \subseteq CareIn(info, Q)
    BY <1>5, <1>11, <2>1, <2>3, <2>4, <2>5 DEF Queued
  <2>7. P \subseteq DOMAIN info
    BY <2>1, QueuedAreTasks, InHandAreTasks DEF Tasks
  <2>8. CareIn(info, P) \subseteq CareIn(info, Q)
    BY <2>6, <2>7, CareGrows
  <2>9. CoveredIn(info, done, Q)
    BY <2>1, <2>8 DEF CoveredIn
  <2> QED
    BY <1>1, <2>2, <2>3, <2>9
<1> QED
  BY <1>18, <1>20, <1>21, <1>22

\* The steps up to the scan, and the end of the compaction.
LEMMA GateKeeps ==
    ASSUME QueueInv,
           \/ IsAnyCapReached("worker") \/ GetReachedCap("worker") \/ CompactionLength("worker")
           \/ MergeEnd("worker")
    PROVE  QueueInv'
<1> USE DEF QueueInv
<1>1. /\ UNCHANGED <<info, meta, ctxHeap, ctxPool, queue, done, cur, run>>
      /\ pc["worker"] \in Ready /\ Merge.target = 0 /\ Merge.grp = <<>>
  BY DEF IsAnyCapReached, GetReachedCap, CompactionLength, MergeEnd, Merge, Merging, Ready,
         taskVars, heapVars, queueVars, histVars
<1>2. PICK p \in {"get", "size", "scan", "mark"} : pc' = [pc EXCEPT !["worker"] = p]
  BY DEF IsAnyCapReached, GetReachedCap, CompactionLength, MergeEnd, Resume
<1>3. pc' \in [Actors -> Points] /\ pc'["worker"] = p
  BY <1>2 DEF Tables, Actors, Points, Ready, Before
<1>4. IsMerge(Idle) /\ Idle.target = 0 /\ Idle.grp = <<>>
  BY DEF IsMerge, Idle
<1>5. MergeLocals' /\ Merge'.target = 0 /\ Merge'.grp = <<>>
  <2>1. MergeLocals
    BY DEF Tables
  <2>2. CASE IsAnyCapReached("worker")
    BY <1>1, <2>1, <2>2 DEF IsAnyCapReached, MergeLocals, Merge
  <2>3. CASE GetReachedCap("worker")
    <3>1. comp' = [comp EXCEPT !["worker"].live = TRUE]
      BY <2>3 DEF GetReachedCap
    <3>2. /\ comp' = [a \in Actors |-> comp'[a]] /\ comp'["events"] = comp["events"]
          /\ Merge' = [Merge EXCEPT !.live = TRUE]
      BY <2>1, <3>1 DEF MergeLocals, Merge, Actors
    <3> QED
      BY <1>1, <2>1, <3>2 DEF MergeLocals, IsMerge
  <2>4. CASE CompactionLength("worker")
    <3>1. comp' = [comp EXCEPT !["worker"] = Idle] \/ comp' = comp
      BY <2>4 DEF CompactionLength
    <3>2. /\ comp' = [a \in Actors |-> comp'[a]] /\ comp'["events"] = comp["events"]
          /\ Merge' = Idle \/ Merge' = Merge
      BY <2>1, <3>1 DEF MergeLocals, Merge, Actors
    <3> QED
      BY <1>1, <1>4, <2>1, <3>2 DEF MergeLocals
  <2>5. CASE MergeEnd("worker")
    <3>1. PICK ids : ids = CompactionIDs("events")
      OBVIOUS
    <3>2. comp' = [b \in Actors |-> IF b = "worker" THEN Idle
                                   ELSE [comp[b] EXCEPT !.live = FALSE, !.ids = CompactionIDs(b)]]
      BY <2>5 DEF MergeEnd
    <3>3. /\ comp' = [a \in Actors |-> comp'[a]] /\ Merge' = Idle
          /\ comp'["events"] = [comp["events"] EXCEPT !.live = FALSE, !.ids = ids]
      BY <3>1, <3>2 DEF Merge, Actors
    <3> QED
      BY <1>4, <2>1, <3>3 DEF MergeLocals, IsMerge
  <2> QED
    BY <2>2, <2>3, <2>4, <2>5
<1>6. Tasks' = Tasks
  BY <1>1 DEF Tasks
<1>7. ASSUME NEW t \in ToSet(queue) PROVE TaskOK(t)' /\ Has(t)' = Has(t)
  <2>1. TaskOK(t) /\ meta'[t] = meta[t] /\ Readable(ctxHeap', meta[t].ctx)
    BY <1>1, QueuedTask DEF TaskOK
  <2>2. Has(t)' = Has(t)
    BY <1>1 DEF Has, Contexts
  <2> QED
    BY <1>1, <2>1, <2>2, TaskStays
<1>8. Tables'
  BY <1>1, <1>3, <1>5, <1>6, <1>7 DEF Tables
<1>9. Merging'
  BY <1>3, <1>5 DEF Merging
<1>10. Holding'
  <2>1. queue # <<>> /\ queue[1] = cur
    BY <1>1, InQueue DEF Ready
  <2> QED
    BY <1>1, <1>3, <2>1 DEF Holding, Ready, Working
<1>11. Queued' = Queued /\ InHand' = {} /\ InHand = {}
  BY <1>1, <1>5, <1>7 DEF Queued, InHand
<1> QED
  BY <1>1, <1>8, <1>9, <1>10, <1>11

-----------------------------------------------------------------------------
(* The theorem.                                                            *)

\* bootstrapMainQueue's tasks carry no context.
LEMMA InitQueue == Init => QueueInv
<1> SUFFICES ASSUME Init PROVE QueueInv
  OBVIOUS
<1>1. PICK n \in Nat : n = Len(Startup)
  BY StartupAssumption
<1>2. /\ info = [k \in 1..n |-> EnableTask(Startup[k])] /\ meta = [k \in 1..n |-> NewMeta(k, EnableTask(Startup[k]))]
      /\ queue = [k \in 1..n |-> k] /\ ctxHeap = <<>> /\ ctxPool = {} /\ run = NoRun /\ comp = [a \in Actors |-> Idle]
      /\ pc = [worker |-> "wait", events |-> "idle"]
  BY <1>1 DEF Init
<1>3. Len(info) = n /\ Tasks = 1..n
  BY <1>2 DEF Tasks
<1>4. queue \in Seq(Tasks) /\ Len(queue) = n /\ Injective(queue)
  <2>1. queue \in [1..n -> Tasks] /\ \A k \in 1..n : queue[k] = k
    BY <1>2, <1>3
  <2>2. queue \in Seq(Tasks) /\ Len(queue) = n
    BY <2>1, Listed
  <2> QED
    BY <2>1, <2>2 DEF Injective
<1>5. ASSUME NEW t \in 1..n PROVE TaskOK(t) /\ info[t].kind = "Enable" /\ Has(t) = {}
  <2>1. info[t] = EnableTask(Startup[t]) /\ meta[t] = NewMeta(t, EnableTask(Startup[t]))
    BY <1>2
  <2>2. info[t].kind = "Enable" /\ meta[t].ctx = [arr |-> 0, len |-> Len(<<>>), val |-> <<>>]
    BY <2>1 DEF EnableTask, NewMeta, Owned
  <2>3. Has(t) = {}
    BY <2>2 DEF Has, Contexts, Contents, ToSet
  <2>4. Readable(ctxHeap, meta[t].ctx)
    BY <2>2 DEF Readable
  <2> QED
    BY <2>2, <2>3, <2>4 DEF TaskOK, OfHook
<1>6. ToSet(queue) \subseteq 1..n
  BY <1>3, <1>4, ToSetIs
<1>7. Merge = Idle /\ comp["events"] = Idle /\ Idle.target = 0 /\ Idle.grp = <<>> /\ IsMerge(Idle)
  BY <1>2 DEF Merge, IsMerge, Idle, Actors
<1>8. pc \in [Actors -> Points] /\ pc["worker"] = "wait"
  BY <1>2 DEF Actors, Points, Ready, Before
<1>9. Tables
  <2>1. run = [f \in Fields |-> run[f]]
    BY <1>2 DEF NoRun, Fields
  <2>2. ctxHeap \in Seq(Seq(Nat)) /\ ctxPool \subseteq 1..Len(ctxHeap)
    BY <1>2
  <2>3. info = [i \in 1..n |-> info[i]] /\ meta = [i \in 1..n |-> meta[i]]
    BY <1>2
  <2>4. MergeLocals
    BY <1>2, <1>7 DEF MergeLocals
  <2> QED
    BY <1>3, <1>4, <1>5, <1>6, <1>7, <1>8, <2>1, <2>2, <2>3, <2>4 DEF Tables
<1>10. Merging /\ Holding
  BY <1>7, <1>8 DEF Merging, Holding, Ready, Working
<1>11. CoveredIn(info, done, Queued \cup InHand)
  BY <1>3, <1>5 DEF CoveredIn, Tasks
<1> QED
  BY <1>9, <1>10, <1>11 DEF QueueInv

LEMMA QueueCovers == QueueInv => NoContextLost
<1> SUFFICES ASSUME QueueInv PROVE NoContextLost
  OBVIOUS
<1>1. Tables /\ Merging /\ CoveredIn(info, done, Queued \cup InHand)
  BY DEF QueueInv
<1> DEFINE queued == {t \in Tasks : Contains(queue, t)}
           inMerge == {a \in Actors : comp[a].target \in queued}
<1>2. \A t \in ToSet(queue) : t \in queued
  BY <1>1, ToSetIs DEF Tables, Contains
<1>3. Pending = UNION ({ToSet(Contexts(t)) : t \in queued}
                       \cup {ToSet(Contents(ctxHeap, comp[a].ctx)) : a \in inMerge})
  BY DEF Pending
<1>4. Merge.target # 0 => "worker" \in inMerge
  BY <1>1, <1>2 DEF Merging, Collected, Merge, Actors
<1> HIDE DEF queued, inMerge
<1>5. Queued \subseteq Pending
  BY <1>2, <1>3 DEF Queued, Has
<1>6. InHand \subseteq Pending
  BY <1>3, <1>4 DEF InHand, Merged, Merge
<1>7. PICK P : P = Queued \cup InHand
  OBVIOUS
<1>8. CareIn(info, P) \subseteq CareIn(info, Pending)
  BY <1>5, <1>6, <1>7, CareOfMore
<1>9. TakenCare(Pending) = CareIn(info, Pending)
  BY CareIs
<1> QED
  BY <1>1, <1>7, <1>8, <1>9 DEF NoContextLost, CoveredIn, Tasks

LEMMA StepKeeps == QueueInv /\ Undisturbed /\ Undisturbed' /\ [Next]_vars => QueueInv'
<1> SUFFICES ASSUME QueueInv, Undisturbed, Undisturbed', [Next]_vars PROVE QueueInv'
  OBVIOUS
<1>1. CASE AddLast
  BY <1>1, AddLastKeeps
<1>2. CASE AddLastCount \/ AddLastCheck \/ Compact("events") \/ Stop \/ UNCHANGED vars
  BY <1>2, EventsKeep DEF Undisturbed, WorkerCompactsAlone
<1>3. CASE WaitForTask \/ GetFirst \/ MarkProcessing \/ HandlerPanic
  BY <1>3, TakingKeeps
<1>4. CASE HandleEnableKubernetesBindings \/ HandleHookRun
  BY <1>4, HandlersKeep
<1>5. CASE RunHook \/ SkipHook
  BY <1>5, RunsKeep
<1>6. CASE CombineCollect \/ CombineDelete
  BY <1>6, CollectKeeps, DeleteKeeps
<1>7. CASE ApplyResult
  BY <1>7, OtherResultKeeps, SuccessKeeps
<1>8. CASE Compact("worker")
  BY <1>8, GateKeeps, ScanKeeps, StartKeeps, ElementKeeps, FinishKeeps DEF Compact
<1> QED
  BY <1>1, <1>2, <1>3, <1>4, <1>5, <1>6, <1>7, <1>8 DEF Next, EventsStep, WorkerStep

\* Compaction by the worker, combination, retries, panics and results lose no context, for any
\* bindings, queue length and number of events, in every run in which only the worker compacts, no
\* merge writes to an array that another queued task uses, and the contexts that a run which may
\* fail, or is skipped, is the last to have may fail or be skipped by their own bindings.
THEOREM ContextsAreKept == Spec => LossNeedsDisturbance
<1> QED
  BY InitQueue, StepKeeps, QueueCovers, PTL DEF Spec, LossNeedsDisturbance

\* Under the same conditions no hook is run with the contexts of another one.
THEOREM ContextsStayWithHook == Spec /\ []Undisturbed => []OwnContexts
<1>1. QueueInv => OwnContexts
  <2> SUFFICES ASSUME QueueInv, NEW t \in Tasks, Contains(queue, t), NEW k \in 1..Len(Contexts(t))
               PROVE  info[Contexts(t)[k]].hook = info[t].hook
    BY DEF OwnContexts
  <2>1. Tables /\ queue \in Seq(Tasks)
    BY DEF QueueInv, Tables
  <2>2. t \in ToSet(queue)
    BY <2>1, ToSetIs DEF Contains
  <2>3. Contexts(t) \in Seq(Nat) /\ OfHook(Has(t), info[t].hook)
    BY <2>1, <2>2, QueuedTask DEF TaskOK
  <2>4. Contexts(t)[k] \in Has(t)
    BY <2>3, ToSetIs DEF Has
  <2> QED
    BY <2>3, <2>4 DEF OfHook
<1> QED
  BY <1>1, InitQueue, StepKeeps, PTL DEF Spec
=============================================================================
