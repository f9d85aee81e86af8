------------------------- MODULE TaskStorage_proofs -------------------------
(***************************************************************************)
(* Proofs about TaskStorage, for any number of tasks, batches and callers. *)
(***************************************************************************)
EXTENDS TaskStorage, FiniteSetTheorems, WellFoundedInduction, TLAPS

-----------------------------------------------------------------------------
(* Induction over the natural numbers, for sets, and recursive functions.  *)

\* A set of natural numbers has a least element.
LEMMA Least ==
    ASSUME NEW T, T \subseteq Nat, T # {}
    PROVE  \E n \in T : \A m \in T : n <= m
<1>1. IsWellFoundedOn(OpToRel(<, Nat), Nat)
  BY NatLessThanWellFounded
<1>2. PICK n \in T : \A m \in T : ~(<<m, n>> \in OpToRel(<, Nat))
  BY <1>1, WFMin
<1>3. \A m \in T : ~(m < n)
  BY <1>2 DEF OpToRel
<1> QED
  BY <1>3

\* Induction up to n, over the set of numbers that have a property.
LEMMA UpTo ==
    ASSUME NEW n \in Nat, NEW S, 0 \in S, \A i \in 0..(n - 1) : i \in S => i + 1 \in S
    PROVE  \A i \in 0..n : i \in S
<1> SUFFICES ASSUME (0..n) \ S # {} PROVE FALSE
  OBVIOUS
<1>1. PICK i \in (0..n) \ S : \A j \in (0..n) \ S : i <= j
  <2>1. (0..n) \ S \subseteq Nat
    OBVIOUS
  <2> QED
    BY <2>1, Least
<1>2. i # 0 /\ i - 1 \in 0..(n - 1) /\ i - 1 \in S
  BY <1>1
<1> QED
  BY <1>1, <1>2

-----------------------------------------------------------------------------
(* The ring of a list is a sequence of elements.                           *)

\* The node at a position: the sentinel is before the first and behind the last.
Node(s, i) == IF i \in DOMAIN s THEN s[i] ELSE Root

ListType(l) ==
    /\ l.next \in [Nodes -> Nodes \cup {NoNode}]
    /\ l.prev \in [Nodes -> Nodes \cup {NoNode}]
    /\ l.inList \in [Elements -> BOOLEAN]
    /\ l.value \in [Elements -> 0..MaxTasks]

Ring(l, s) ==
    /\ s \in Seq(Elements) /\ l.len = Len(s)
    /\ \A i, j \in DOMAIN s : s[i] = s[j] => i = j
    /\ \A e \in Elements : l.inList[e] <=> \E i \in DOMAIN s : s[i] = e
    /\ \A i \in 0..Len(s) : l.next[Node(s, i)] = Node(s, i + 1) /\ l.prev[Node(s, i + 1)] = Node(s, i)

\* Tasks are in one element each, and stay there.
Values(l) ==
    /\ \A e, f \in Elements : l.value[e] = l.value[f] /\ l.value[e] # Nil => e = f
    /\ \A e \in Elements : l.inList[e] => l.value[e] # Nil

Agrees(w) ==
    /\ w.ix = [t \in DOMAIN w.ix |-> w.ix[t]]
    /\ \A t \in DOMAIN w.ix : w.ix[t] \in Elements /\ w.l.inList[w.ix[t]] /\ w.l.value[w.ix[t]] = t
    /\ \A e \in Elements : w.l.inList[e] => w.l.value[e] \in DOMAIN w.ix

WorkOK(w, s) == ListType(w.l) /\ Ring(w.l, s) /\ Values(w.l) /\ Agrees(w)

Tasks(l, s) == [i \in 1..Len(s) |-> l.value[s[i]]]

Inv ==
    /\ minted \in 0..MaxTasks
    /\ \E s \in Seq(Elements) : WorkOK(Work, s)
    /\ \A e \in Elements : items.value[e] <= minted
    /\ held \in [Callers -> SUBSET Elements]
    /\ \A c \in Callers : \A e \in held[c] : items.value[e] # Nil

-----------------------------------------------------------------------------
(* Insertion.                                                              *)

\* An address is left for a task that has none: there are as many as tasks.
LEMMA FreshExists ==
    ASSUME NEW w, ListType(w.l), Values(w.l), NEW t \in 1..MaxTasks, \A e \in Elements : w.l.value[e] # t
    PROVE  FreshElement(w) \in Elements /\ w.l.value[FreshElement(w)] = Nil
<1> DEFINE T == (1..MaxTasks) \ {t}
           f == w.l.value
<1>1. MaxTasks \in Nat /\ IsFiniteSet(Elements) /\ MaxTasks <= Cardinality(Elements)
  BY StorageAssumption
<1>2. IsFiniteSet(1..MaxTasks) /\ Cardinality(1..MaxTasks) = MaxTasks
  <2>1. 1 \in Int /\ MaxTasks \in Int /\ ~(1 > MaxTasks)
    BY <1>1
  <2>2. IsFiniteSet(1..MaxTasks) /\ Cardinality(1..MaxTasks) = IF 1 > MaxTasks THEN 0 ELSE MaxTasks - 1 + 1
    BY <2>1, FS_Interval
  <2> QED
    BY <1>1, <2>1, <2>2
<1>3. IsFiniteSet(T) /\ Cardinality(T) = MaxTasks - 1
  BY <1>2, FS_RemoveElement
<1>4. Cardinality(T) < Cardinality(Elements)
  <2>1. Cardinality(Elements) \in Nat
    BY <1>1, FS_CardinalityType
  <2> HIDE DEF T
  <2> QED
    BY <1>1, <1>3, <2>1
<1>5. \E e \in Elements : f[e] = Nil
  <2> SUFFICES ASSUME \A e \in Elements : f[e] # Nil PROVE FALSE
    OBVIOUS
  <2>1. f \in [Elements -> T]
    BY <1>1 DEF ListType, Nil
  <2>2. \E x, y \in Elements : x # y /\ f[x] = f[y]
    <3> HIDE DEF T, f
    <3> QED
      BY <1>1, <1>3, <1>4, <2>1, FS_PigeonHole
  <2> QED
    BY <2>2 DEF Values
<1> QED
  BY <1>5 DEF FreshElement

\* The sequence with x behind position p.
Inserted(s, p, x) == [k \in 1..(Len(s) + 1) |-> IF k <= p THEN s[k] ELSE IF k = p + 1 THEN x ELSE s[k - 1]]

LEMMA InsertedProperties ==
    ASSUME NEW s, Len(s) \in Nat, NEW p \in 0..Len(s), NEW x
    PROVE  /\ Len(Inserted(s, p, x)) = Len(s) + 1
           /\ DOMAIN Inserted(s, p, x) = 1..(Len(s) + 1)
           /\ \A k \in 1..p : Inserted(s, p, x)[k] = s[k]
           /\ Inserted(s, p, x)[p + 1] = x
           /\ \A k \in (p + 2)..(Len(s) + 1) : Inserted(s, p, x)[k] = s[k - 1]
           /\ \A X : s \in Seq(X) /\ x \in X => Inserted(s, p, x) \in Seq(X)
<1> DEFINE n == Len(s)
           V(k) == IF k <= p THEN s[k] ELSE IF k = p + 1 THEN x ELSE s[k - 1]
           r == [k \in 1..(n + 1) |-> V(k)]
<1>1. Inserted(s, p, x) = r
  BY DEF Inserted
<1>2. Len(r) = n + 1 /\ DOMAIN r = 1..(n + 1) /\ \A k \in 1..(n + 1) : r[k] = V(k)
  <2> HIDE DEF V
  <2> QED
    OBVIOUS
<1>3. ASSUME NEW X, s \in Seq(X), x \in X PROVE r \in Seq(X)
  <2>1. \A k \in 1..(n + 1) : V(k) \in X
    BY <1>3
  <2> HIDE DEF V
  <2> QED
    BY <2>1
<1> HIDE DEF r
<1>4. /\ \A k \in 1..p : r[k] = s[k]
      /\ r[p + 1] = x
      /\ \A k \in (p + 2)..(n + 1) : r[k] = s[k - 1]
  BY <1>2
<1> QED
  BY <1>1, <1>2, <1>3, <1>4

\* Positions of nodes are unique from the sentinel before the first one, and from the first
\* one to the sentinel behind the last.
LEMMA NodeInjective ==
    ASSUME NEW s \in Seq(Elements), \A i, j \in DOMAIN s : s[i] = s[j] => i = j
    PROVE  /\ \A i, j \in 0..Len(s) : Node(s, i) = Node(s, j) => i = j
           /\ \A i, j \in 1..(Len(s) + 1) : Node(s, i) = Node(s, j) => i = j
           /\ \A i \in 0..(Len(s) + 1) : Node(s, i) \in Nodes
           /\ Node(s, 0) = Root /\ Node(s, Len(s) + 1) = Root
           /\ \A i \in 1..Len(s) : Node(s, i) = s[i] /\ s[i] \in Elements /\ s[i] # Root
<1>1. Root \notin Elements
  BY StorageAssumption
<1>2. Len(s) \in Nat /\ DOMAIN s = 1..Len(s)
  OBVIOUS
<1>3. \A i \in 1..Len(s) : Node(s, i) = s[i] /\ s[i] \in Elements /\ s[i] # Root
  BY <1>1, <1>2 DEF Node
<1>4. Node(s, 0) = Root /\ Node(s, Len(s) + 1) = Root
  BY <1>2 DEF Node
<1>5. ASSUME NEW i \in 0..Len(s), NEW j \in 0..Len(s), Node(s, i) = Node(s, j) PROVE i = j
  BY <1>2, <1>3, <1>4, <1>5
<1>6. ASSUME NEW i \in 1..(Len(s) + 1), NEW j \in 1..(Len(s) + 1), Node(s, i) = Node(s, j) PROVE i = j
  BY <1>2, <1>3, <1>4, <1>6
<1>7. \A i \in 0..(Len(s) + 1) : Node(s, i) \in Nodes
  BY <1>2, <1>3, <1>4 DEF Nodes
<1> QED
  BY <1>3, <1>4, <1>5, <1>6, <1>7

LEMMA NodeInserted ==
    ASSUME NEW s \in Seq(Elements), NEW p \in 0..Len(s), NEW e \in Elements
    PROVE  /\ \A i \in 0..p : Node(Inserted(s, p, e), i) = Node(s, i)
           /\ Node(Inserted(s, p, e), p + 1) = e
           /\ \A i \in (p + 2)..(Len(s) + 2) : Node(Inserted(s, p, e), i) = Node(s, i - 1)
<1> DEFINE s2 == Inserted(s, p, e)
<1>1. /\ DOMAIN s2 = 1..(Len(s) + 1)
      /\ \A k \in 1..p : s2[k] = s[k]
      /\ s2[p + 1] = e
      /\ \A k \in (p + 2)..(Len(s) + 1) : s2[k] = s[k - 1]
  <2>1. Len(s) \in Nat
    OBVIOUS
  <2> QED
    BY <2>1, InsertedProperties
<1>2. DOMAIN s = 1..Len(s) /\ Len(s) \in Nat
  OBVIOUS
<1> HIDE DEF s2
<1>3. \A i \in 0..p : Node(s2, i) = Node(s, i)
  BY <1>1, <1>2 DEF Node
<1>4. Node(s2, p + 1) = e
  BY <1>1, <1>2 DEF Node
<1>5. \A i \in (p + 2)..(Len(s) + 2) : Node(s2, i) = Node(s, i - 1)
  BY <1>1, <1>2 DEF Node
<1> QED
  BY <1>3, <1>4, <1>5 DEF s2

\* insert puts an element that is in no list behind the node at position p.
LEMMA RingInsert ==
    ASSUME NEW l, NEW s, ListType(l), Ring(l, s), NEW p \in 0..Len(s), NEW e \in Elements, ~l.inList[e], NEW v
    PROVE  Ring(InsertElement(l, e, v, Node(s, p)), Inserted(s, p, e))
<1> DEFINE l2 == InsertElement(l, e, v, Node(s, p))
           s2 == Inserted(s, p, e)
           n == Len(s)
           at == Node(s, p)
<1>1. s \in Seq(Elements) /\ n \in Nat /\ DOMAIN s = 1..n /\ l.len = n /\ (\A i, j \in DOMAIN s : s[i] = s[j] => i = j)
      /\ (\A i \in DOMAIN s : s[i] # e)
  BY DEF Ring
<1>2. \A i \in 0..n : l.next[Node(s, i)] = Node(s, i + 1) /\ l.prev[Node(s, i + 1)] = Node(s, i)
  BY DEF Ring
<1>3. /\ \A i, j \in 0..n : Node(s, i) = Node(s, j) => i = j
      /\ \A i, j \in 1..(n + 1) : Node(s, i) = Node(s, j) => i = j
      /\ \A i \in 0..(n + 1) : Node(s, i) \in Nodes
  BY <1>1, NodeInjective
<1>4. \A i \in 0..(n + 1) : Node(s, i) # e
  <2>1. e # Root
    BY StorageAssumption
  <2> QED
    BY <1>1, <2>1 DEF Node
<1>5. /\ \A i \in 0..p : Node(s2, i) = Node(s, i)
      /\ Node(s2, p + 1) = e
      /\ \A i \in (p + 2)..(n + 2) : Node(s2, i) = Node(s, i - 1)
  BY <1>1, NodeInserted
<1>6. /\ s2 \in Seq(Elements) /\ Len(s2) = n + 1 /\ DOMAIN s2 = 1..(n + 1)
      /\ \A k \in 1..p : s2[k] = s[k]
      /\ s2[p + 1] = e
      /\ \A k \in (p + 2)..(n + 1) : s2[k] = s[k - 1]
  BY <1>1, InsertedProperties
<1>7. /\ l2.next = [l.next EXCEPT ![e] = l.next[at], ![at] = e]
      /\ l2.prev = [l.prev EXCEPT ![e] = at, ![l.next[at]] = e]
      /\ l2.inList = [l.inList EXCEPT ![e] = TRUE]
      /\ l2.len = l.len + 1
  BY DEF InsertElement
<1>8. l.next[at] = Node(s, p + 1) /\ at \in Nodes /\ e \in Nodes /\ at # e
  BY <1>1, <1>2, <1>3, <1>4 DEF Nodes
<1> HIDE DEF l2, s2, n, at
<1>9. /\ DOMAIN l.next = Nodes /\ DOMAIN l.prev = Nodes /\ DOMAIN l.inList = Elements
  BY DEF ListType
<1>10. /\ l2.next[e] = Node(s, p + 1) /\ l2.next[at] = e
       /\ \A x \in Nodes : x # e /\ x # at => l2.next[x] = l.next[x]
  BY <1>7, <1>8, <1>9
<1>11. /\ l2.prev[Node(s, p + 1)] = e /\ l2.prev[e] = at
       /\ \A x \in Nodes : x # e /\ x # Node(s, p + 1) => l2.prev[x] = l.prev[x]
  <2>1. Node(s, p + 1) # e /\ Node(s, p + 1) \in Nodes
    BY <1>1, <1>3, <1>4 DEF n
  <2> QED
    BY <1>7, <1>8, <1>9, <2>1
<1>12. p \in 0..n /\ p \in Nat
  BY <1>1 DEF n
<1>13. ASSUME NEW i \in 0..(n + 1)
       PROVE  l2.next[Node(s2, i)] = Node(s2, i + 1) /\ l2.prev[Node(s2, i + 1)] = Node(s2, i)
  <2>1. CASE i < p
    <3>1. i \in 0..n /\ i + 1 \in 0..p /\ i \in 0..p /\ i # p /\ i + 1 \in 1..(n + 1) /\ p + 1 \in 1..(n + 1) /\ i + 1 # p + 1
      BY <1>1, <1>12, <2>1
    <3>2. Node(s2, i) = Node(s, i) /\ Node(s2, i + 1) = Node(s, i + 1)
      BY <1>5, <3>1
    <3>3. Node(s, i) \in Nodes /\ Node(s, i) # e /\ Node(s, i) # at
      BY <1>1, <1>3, <1>4, <1>12, <3>1 DEF at
    <3>4. Node(s, i + 1) \in Nodes /\ Node(s, i + 1) # e /\ Node(s, i + 1) # Node(s, p + 1)
      BY <1>1, <1>3, <1>4, <1>12, <3>1
    <3> QED
      BY <1>2, <1>10, <1>11, <3>1, <3>2, <3>3, <3>4
  <2>2. CASE i = p
    BY <1>5, <1>10, <1>11, <1>12, <2>2 DEF at
  <2>3. CASE i = p + 1
    <3>1. i + 1 \in (p + 2)..(n + 2) /\ (i + 1) - 1 = p + 1
      BY <1>1, <1>12, <2>3
    <3>2. Node(s2, i) = e /\ Node(s2, i + 1) = Node(s, p + 1)
      BY <1>5, <2>3, <3>1
    <3> QED
      BY <1>10, <1>11, <3>2
  <2>4. CASE i > p + 1
    <3>1. /\ i \in (p + 2)..(n + 2) /\ i + 1 \in (p + 2)..(n + 2) /\ (i + 1) - 1 = i /\ (i - 1) + 1 = i
          /\ i - 1 \in 0..n /\ i - 1 # p /\ i \in 1..(n + 1) /\ i # p + 1 /\ p + 1 \in 1..(n + 1)
      BY <1>1, <1>12, <2>4
    <3>2. Node(s2, i) = Node(s, i - 1) /\ Node(s2, i + 1) = Node(s, i)
      BY <1>5, <3>1
    <3>3. Node(s, i - 1) \in Nodes /\ Node(s, i - 1) # e /\ Node(s, i - 1) # at
      BY <1>1, <1>3, <1>4, <1>12, <3>1 DEF at
    <3>4. Node(s, i) \in Nodes /\ Node(s, i) # e /\ Node(s, i) # Node(s, p + 1)
      BY <1>1, <1>3, <1>4, <1>12, <3>1
    <3> QED
      BY <1>2, <1>10, <1>11, <3>1, <3>2, <3>3, <3>4
  <2> QED
    BY <1>12, <2>1, <2>2, <2>3, <2>4
<1>14. \A i, j \in DOMAIN s2 : s2[i] = s2[j] => i = j
  <2> DEFINE o == [k \in 1..(n + 1) |-> IF k <= p THEN k ELSE k - 1]
  <2>1. \A k \in 1..(n + 1) : k # p + 1 => s2[k] = s[o[k]] /\ o[k] \in DOMAIN s
    BY <1>1, <1>6, <1>12
  <2>2. \A i, j \in 1..(n + 1) : i # p + 1 /\ j # p + 1 /\ o[i] = o[j] => i = j
    BY <1>1, <1>12
  <2> HIDE DEF o
  <2> QED
    BY <1>1, <1>6, <2>1, <2>2
<1>15. \A f \in Elements : l2.inList[f] <=> \E i \in DOMAIN s2 : s2[i] = f
  <2>1. ASSUME NEW f \in Elements, l2.inList[f] PROVE \E i \in DOMAIN s2 : s2[i] = f
    <3>1. CASE f = e
      BY <1>1, <1>6, <1>12, <3>1
    <3>2. CASE f # e
      <4>1. PICK i \in DOMAIN s : s[i] = f
        BY <1>7, <1>9, <2>1, <3>2 DEF Ring
      <4>2. CASE i <= p
        BY <1>1, <1>6, <1>12, <4>1, <4>2
      <4>3. CASE i > p
        <5>1. i + 1 \in (p + 2)..(n + 1) /\ i + 1 \in 1..(n + 1) /\ (i + 1) - 1 = i
          BY <1>1, <1>12, <4>1, <4>3
        <5> QED
          BY <1>6, <4>1, <5>1
      <4> QED
        BY <1>1, <1>12, <4>2, <4>3
    <3> QED
      BY <3>1, <3>2
  <2>2. ASSUME NEW f \in Elements, NEW i \in DOMAIN s2, s2[i] = f PROVE l2.inList[f]
    <3>1. i \in 1..p \/ i = p + 1 \/ i \in (p + 2)..(n + 1)
      BY <1>1, <1>6, <1>12
    <3>2. f = e \/ \E j \in DOMAIN s : s[j] = f
      <4>1. CASE i \in 1..p
        BY <1>1, <1>6, <1>12, <2>2, <4>1
      <4>2. CASE i = p + 1
        BY <1>6, <2>2, <4>2
      <4>3. CASE i \in (p + 2)..(n + 1)
        <5>1. i - 1 \in DOMAIN s
          BY <1>1, <1>12, <4>3
        <5> QED
          BY <1>6, <2>2, <4>3, <5>1
      <4> QED
        BY <3>1, <4>1, <4>2, <4>3
    <3> QED
      BY <1>7, <1>9, <3>2 DEF Ring
  <2> QED
    BY <2>1, <2>2
<1>16. l2.len = Len(s2)
  BY <1>1, <1>6, <1>7
<1>17. Ring(l2, s2)
  BY <1>6, <1>13, <1>14, <1>15, <1>16 DEF Ring
<1> QED
  BY <1>17 DEF l2, s2, at

\* A task without an element gets one behind the node at position p, and its entry.
LEMMA InsertOK ==
    ASSUME NEW w, NEW s, WorkOK(w, s), NEW p \in 0..Len(s),
           NEW t \in 1..MaxTasks, \A e \in Elements : w.l.value[e] # t
    PROVE  \E s2 : LET w2 == InsertValue(w, t, Node(s, p))
                       e == FreshElement(w)
                   IN /\ s2 = Inserted(s, p, e)
                      /\ WorkOK(w2, s2)
                      /\ Tasks(w2.l, s2) = Inserted(Tasks(w.l, s), p, t)
                      /\ e \in Elements /\ w.l.value[e] = Nil
                      /\ w2.l.value = [w.l.value EXCEPT ![e] = t]
<1> DEFINE e == FreshElement(w)
           at == Node(s, p)
           l2 == InsertElement(w.l, e, t, at)
           w2 == InsertValue(w, t, at)
           s2 == Inserted(s, p, e)
<1>1. ListType(w.l) /\ Ring(w.l, s) /\ Values(w.l) /\ Agrees(w)
  BY DEF WorkOK
<1>2. e \in Elements /\ w.l.value[e] = Nil /\ e # Root /\ t # Nil
  BY <1>1, FreshExists, StorageAssumption DEF Nil
<1>3. ~w.l.inList[e]
  BY <1>1, <1>2 DEF Values
<1>4. Len(s) \in Nat /\ s \in Seq(Elements) /\ DOMAIN s = 1..Len(s) /\ (\A i, j \in DOMAIN s : s[i] = s[j] => i = j)
  BY <1>1 DEF Ring
<1>5. Ring(l2, s2)
  <2> HIDE DEF e
  <2> QED
    BY <1>1, <1>2, <1>3, RingInsert
<1>6. w2.l = l2 /\ w2.ix = [u \in DOMAIN w.ix \cup {t} |-> IF u = t THEN e ELSE w.ix[u]]
  BY DEF InsertValue
<1>7. at \in Nodes /\ w.l.next[at] \in Nodes /\ e \in Nodes
  <2>1. p \in 0..Len(s) /\ p + 1 \in 0..(Len(s) + 1) /\ p \in 0..(Len(s) + 1)
    BY <1>4
  <2>2. Node(s, p) \in Nodes /\ Node(s, p + 1) \in Nodes
    BY <1>4, <2>1, NodeInjective
  <2>3. w.l.next[at] = Node(s, p + 1)
    BY <1>1, <2>1 DEF Ring
  <2> QED
    BY <1>2, <2>2, <2>3 DEF Nodes
<1>8. /\ l2.next = [w.l.next EXCEPT ![e] = w.l.next[at], ![at] = e]
      /\ l2.prev = [w.l.prev EXCEPT ![e] = at, ![w.l.next[at]] = e]
      /\ l2.inList = [w.l.inList EXCEPT ![e] = TRUE]
      /\ l2.value = [w.l.value EXCEPT ![e] = t]
  BY DEF InsertElement
<1> HIDE DEF e, at, l2, w2, s2
<1>9. ListType(l2)
  <2>1. t \in 0..MaxTasks
    BY StorageAssumption
  <2> DEFINE T == Nodes \cup {NoNode}
  <2>2. w.l.next \in [Nodes -> T] /\ w.l.prev \in [Nodes -> T]
    BY <1>1 DEF ListType
  <2>3. at \in T /\ e \in T /\ w.l.next[at] \in T
    BY <1>7
  <2>4. l2.next \in [Nodes -> T]
    <3> HIDE DEF T
    <3> QED
      BY <1>8, <2>2, <2>3
  <2>5. l2.prev \in [Nodes -> T]
    <3> HIDE DEF T
    <3> QED
      BY <1>8, <2>2, <2>3
  <2>6. l2.inList \in [Elements -> BOOLEAN]
    BY <1>1, <1>2, <1>8 DEF ListType
  <2>7. l2.value \in [Elements -> 0..MaxTasks]
    BY <1>1, <1>2, <1>8, <2>1 DEF ListType
  <2> QED
    BY <2>4, <2>5, <2>6, <2>7 DEF ListType
<1>10. DOMAIN w.l.value = Elements /\ DOMAIN w.l.inList = Elements
  BY <1>1 DEF ListType
<1>11. Values(l2)
  BY <1>1, <1>2, <1>8, <1>10 DEF Values
<1>12. Agrees(w2)
  <2>1. DOMAIN w2.ix = DOMAIN w.ix \cup {t} /\ w2.ix = [u \in DOMAIN w2.ix |-> w2.ix[u]]
    BY <1>6
  <2>2. ASSUME NEW u \in DOMAIN w2.ix PROVE w2.ix[u] \in Elements /\ l2.inList[w2.ix[u]] /\ l2.value[w2.ix[u]] = u
    <3>1. CASE u = t
      BY <1>2, <1>6, <1>8, <1>10, <2>1, <3>1
    <3>2. CASE u # t
      <4>1. u \in DOMAIN w.ix /\ w2.ix[u] = w.ix[u]
        BY <1>6, <2>1, <3>2
      <4>2. w.ix[u] \in Elements /\ w.l.inList[w.ix[u]] /\ w.l.value[w.ix[u]] = u
        BY <1>1, <4>1 DEF Agrees
      <4> QED
        BY <1>3, <1>8, <1>10, <4>1, <4>2
    <3> QED
      BY <3>1, <3>2
  <2>3. ASSUME NEW f \in Elements, l2.inList[f] PROVE l2.value[f] \in DOMAIN w2.ix
    <3>1. CASE f = e
      BY <1>2, <1>8, <1>10, <2>1, <3>1
    <3>2. CASE f # e
      <4>1. w.l.inList[f] /\ l2.value[f] = w.l.value[f]
        BY <1>2, <1>8, <1>10, <2>3, <3>2
      <4> QED
        BY <1>1, <2>1, <4>1 DEF Agrees
    <3> QED
      BY <3>1, <3>2
  <2> QED
    BY <1>6, <2>1, <2>2, <2>3 DEF Agrees
<1>13. Tasks(l2, s2) = Inserted(Tasks(w.l, s), p, t)
  <2> DEFINE q == Tasks(w.l, s)
             n == Len(s)
  <2>1. /\ Len(s2) = n + 1
        /\ \A k \in 1..p : s2[k] = s[k]
        /\ s2[p + 1] = e
        /\ \A k \in (p + 2)..(n + 1) : s2[k] = s[k - 1]
    BY <1>4, InsertedProperties DEF s2
  <2>2. q = [i \in 1..n |-> w.l.value[s[i]]] /\ Len(q) = n
    BY <1>4 DEF Tasks
  <2>3. Tasks(l2, s2) = [k \in 1..(n + 1) |-> l2.value[s2[k]]]
    BY <2>1 DEF Tasks
  <2>4. Inserted(q, p, t) = [k \in 1..(n + 1) |-> IF k <= p THEN q[k] ELSE IF k = p + 1 THEN t ELSE q[k - 1]]
    BY <2>2 DEF Inserted
  <2>5. \A i \in 1..n : s[i] \in Elements /\ l2.value[s[i]] = w.l.value[s[i]]
    <3>1. ASSUME NEW i \in 1..n PROVE s[i] \in Elements /\ s[i] # e
      <4>1. s[i] \in Elements /\ i \in DOMAIN s
        BY <1>4
      <4>2. w.l.inList[s[i]]
        BY <1>1, <4>1 DEF Ring
      <4> QED
        BY <1>3, <4>1, <4>2
    <3> QED
      BY <1>8, <1>10, <3>1
  <2>6. l2.value[e] = t
    BY <1>2, <1>8, <1>10
  <2> HIDE DEF q, n
  <2>7. n \in Nat /\ p \in 0..n
    BY <1>4 DEF n
  <2>8. ASSUME NEW k \in 1..(n + 1)
        PROVE  l2.value[s2[k]] = IF k <= p THEN q[k] ELSE IF k = p + 1 THEN t ELSE q[k - 1]
    <3>1. CASE k <= p
      BY <2>1, <2>2, <2>5, <2>7, <3>1
    <3>2. CASE k = p + 1
      BY <2>1, <2>6, <2>7, <3>2
    <3>3. CASE k > p + 1
      <4>1. k \in (p + 2)..(n + 1) /\ k - 1 \in 1..n
        BY <2>7, <3>3
      <4> QED
        BY <2>1, <2>2, <2>5, <2>7, <3>3, <4>1
    <3> QED
      BY <2>7, <3>1, <3>2, <3>3
  <2>9. Tasks(l2, s2) = Inserted(q, p, t)
    BY <2>3, <2>4, <2>8
  <2> QED
    BY <2>9 DEF q
<1>14. WorkOK(w2, s2)
  BY <1>5, <1>6, <1>9, <1>11, <1>12 DEF WorkOK
<1>15. /\ s2 = Inserted(s, p, e) /\ WorkOK(w2, s2) /\ Tasks(w2.l, s2) = Inserted(Tasks(w.l, s), p, t)
       /\ e \in Elements /\ w.l.value[e] = Nil /\ w2.l.value = [w.l.value EXCEPT ![e] = t]
  BY <1>2, <1>6, <1>8, <1>13, <1>14 DEF s2
<1> QED
  BY <1>15 DEF e, w2, at

\* The recursion of PutBehind.
PutsBehind(f, w, ts, at) ==
    /\ f[0] = w
    /\ \A i \in 1..Len(ts) : f[i] = InsertValue(f[i - 1], ts[Len(ts) - i + 1], at)
    /\ PutBehind(w, ts, at) = f[Len(ts)]

LEMMA PutBehindUnfolds ==
    ASSUME NEW w, NEW ts, Len(ts) \in Nat, NEW at
    PROVE  \E f : PutsBehind(f, w, ts, at)
<1> DEFINE n == Len(ts)
           V(i, x) == InsertValue(x, ts[n - i + 1], at)
           P(m, f) == f[0] = w /\ \A i \in 1..m : f[i] = V(i, f[i - 1])
           S == {m \in 0..n : \E f : P(m, f)}
           Body(f) == [i \in 0..n |-> IF i = 0 THEN w ELSE V(i, f[i - 1])]
           put == CHOOSE f : f = Body(f)
<1>1. PutBehind(w, ts, at) = put[n]
  BY DEF PutBehind
<1> HIDE DEF V
<1>2. 0 \in S
  <2>1. P(0, [i \in 0..n |-> w])
    OBVIOUS
  <2>2. \E f : P(0, f)
    <3> HIDE DEF P
    <3> QED
      BY <2>1
  <2> QED
    BY <2>2
<1>3. ASSUME NEW m \in 0..(n - 1), m \in S PROVE m + 1 \in S
  <2>1. PICK f : P(m, f)
    BY <1>3
  <2> DEFINE g == [i \in 0..n |-> IF i <= m THEN f[i] ELSE V(m + 1, f[m])]
  <2>2. m + 1 \in 0..n /\ m \in 0..n
    OBVIOUS
  <2>3. \A i \in 0..m : g[i] = f[i]
    BY <2>2
  <2>4. g[m + 1] = V(m + 1, f[m])
    BY <2>2
  <2> HIDE DEF g
  <2>5. g[0] = w
    BY <2>1, <2>3
  <2>6. ASSUME NEW i \in 1..(m + 1) PROVE g[i] = V(i, g[i - 1])
    <3>1. CASE i = m + 1
      BY <2>3, <2>4, <3>1
    <3>2. CASE i # m + 1
      <4>1. i \in 1..m /\ i \in 0..m /\ i - 1 \in 0..m
        BY <3>2
      <4> QED
        BY <2>1, <2>3, <4>1
    <3> QED
      BY <3>1, <3>2
  <2>7. P(m + 1, g)
    BY <2>5, <2>6
  <2> QED
    BY <2>2, <2>7
<1>4. PICK f : P(n, f)
  <2>1. \A m \in 0..n : m \in S
    <3> HIDE DEF S, n
    <3> QED
      BY <1>2, <1>3, UpTo, Zenon DEF n
  <2>2. n \in 0..n
    OBVIOUS
  <2> QED
    BY <2>1, <2>2
<1>5. \E g : g = Body(g)
  <2> DEFINE g == [i \in 0..n |-> f[i]]
  <2>1. ASSUME NEW i \in 0..n PROVE g[i] = IF i = 0 THEN w ELSE V(i, g[i - 1])
    <3>1. CASE i = 0
      BY <1>4, <3>1
    <3>2. CASE i # 0
      <4>1. i \in 1..n /\ i - 1 \in 0..n
        BY <3>2
      <4> QED
        BY <1>4, <3>2, <4>1
    <3> QED
      BY <3>1, <3>2
  <2>2. g = Body(g)
    <3>1. g = [i \in 0..n |-> g[i]]
      OBVIOUS
    <3> HIDE DEF g
    <3> QED
      BY <2>1, <3>1
  <2> QED
    BY <2>2
<1>6. put = Body(put)
  <2> HIDE DEF Body
  <2> QED
    BY <1>5
<1> HIDE DEF put
<1>7. put[0] = w /\ \A i \in 1..n : put[i] = V(i, put[i - 1])
  BY <1>6
<1> QED
  BY <1>1, <1>7 DEF V, PutsBehind

\* Values of l2 are those of l, or new ones between lo and hi in elements that had none.
Grown(l, l2, lo, hi) ==
    \A e \in Elements : l2.value[e] = l.value[e] \/ (l.value[e] = Nil /\ l2.value[e] \in lo..hi)

\* The last i of the tasks from ts, of n, behind position p of q.
PartBehind(q, p, ts, n, i) ==
    [k \in 1..(Len(q) + i) |-> IF k <= p THEN q[k] ELSE IF k <= p + i THEN ts[n - i + (k - p)] ELSE q[k - i]]

LEMMA PartBehindStep ==
    ASSUME NEW q, Len(q) \in Nat, NEW p \in 0..Len(q), NEW ts, NEW n \in Nat, NEW i \in 0..(n - 1)
    PROVE  Inserted(PartBehind(q, p, ts, n, i), p, ts[n - i]) = PartBehind(q, p, ts, n, i + 1)
<1> DEFINE m == Len(q)
           V(j, k) == IF k <= p THEN q[k] ELSE IF k <= p + j THEN ts[n - j + (k - p)] ELSE q[k - j]
           r == [k \in 1..(m + i) |-> V(i, k)]
           I(k) == IF k <= p THEN r[k] ELSE IF k = p + 1 THEN ts[n - i] ELSE r[k - 1]
<1>1. PartBehind(q, p, ts, n, i) = r /\ PartBehind(q, p, ts, n, i + 1) = [k \in 1..(m + (i + 1)) |-> V(i + 1, k)]
  BY DEF PartBehind
<1>2. Len(r) = m + i /\ \A k \in 1..(m + i) : r[k] = V(i, k)
  <2> HIDE DEF V
  <2> QED
    OBVIOUS
<1>3. Inserted(r, p, ts[n - i]) = [k \in 1..((m + i) + 1) |-> I(k)]
  <2> HIDE DEF r
  <2> QED
    BY <1>2 DEF Inserted
<1> HIDE DEF r
<1>4. (m + i) + 1 = m + (i + 1)
  OBVIOUS
<1>5. ASSUME NEW k \in 1..(m + (i + 1)) PROVE I(k) = V(i + 1, k)
  <2>1. CASE k <= p
    <3>1. k \in 1..(m + i)
      BY <2>1
    <3> QED
      BY <1>2, <2>1, <3>1
  <2>2. CASE k = p + 1
    <3>1. ~(k <= p) /\ k <= p + (i + 1) /\ n - (i + 1) + (k - p) = n - i
      BY <2>2
    <3> QED
      BY <2>2, <3>1
  <2>3. CASE k > p + 1
    <3>1. k - 1 \in 1..(m + i) /\ ~(k <= p) /\ k # p + 1 /\ ~(k - 1 <= p)
      BY <2>3
    <3>2. I(k) = V(i, k - 1)
      BY <1>2, <3>1
    <3>3. n - i + ((k - 1) - p) = n - (i + 1) + (k - p) /\ (k - 1) - i = k - (i + 1) /\ (k - 1 <= p + i <=> k <= p + (i + 1))
      BY <3>1
    <3>4. V(i, k - 1) = V(i + 1, k)
      BY <3>1, <3>3
    <3> QED
      BY <3>2, <3>4
  <2> QED
    BY <2>1, <2>2, <2>3
<1>6. [k \in 1..(m + (i + 1)) |-> I(k)] = [k \in 1..(m + (i + 1)) |-> V(i + 1, k)]
  <2> HIDE DEF I, V
  <2> QED
    BY <1>5
<1> QED
  <2> HIDE DEF I, V
  <2> QED
    BY <1>1, <1>3, <1>4, <1>6

\* New tasks behind a node: they get elements and entries, in their order.
LEMMA PutBehindOK ==
    ASSUME NEW w, NEW s, WorkOK(w, s), NEW p \in 0..Len(s),
           NEW from \in Nat, NEW n \in Nat, from + n <= MaxTasks, \A e \in Elements : w.l.value[e] <= from
    PROVE  \E s2 : LET w2 == PutBehind(w, NewTasks(from, n), Node(s, p))
                   IN /\ WorkOK(w2, s2)
                      /\ Tasks(w2.l, s2) = PartBehind(Tasks(w.l, s), p, NewTasks(from, n), n, n)
                      /\ Grown(w.l, w2.l, from + 1, from + n)
<1> DEFINE ts == NewTasks(from, n)
           at == Node(s, p)
           q == Tasks(w.l, s)
           G(x, r, i) == /\ WorkOK(x, r) /\ Node(r, p) = at /\ Len(r) = Len(s) + i
                         /\ Tasks(x.l, r) = PartBehind(q, p, ts, n, i)
                         /\ Grown(w.l, x.l, from + n - i + 1, from + n)
<1>1. Len(ts) = n /\ \A k \in 1..n : ts[k] = from + k
  BY DEF NewTasks
<1>2. Len(s) \in Nat /\ s \in Seq(Elements) /\ Len(q) = Len(s) /\ q = [i \in 1..Len(s) |-> w.l.value[s[i]]]
  BY DEF WorkOK, Ring, Tasks
<1>3. PICK f : /\ f[0] = w
               /\ \A i \in 1..n : f[i] = InsertValue(f[i - 1], ts[n - i + 1], at)
               /\ PutBehind(w, ts, at) = f[n]
  <2> HIDE DEF ts, at
  <2>1. Len(ts) \in Nat
    BY <1>1
  <2>2. PICK f : PutsBehind(f, w, ts, at)
    BY <2>1, PutBehindUnfolds
  <2> QED
    BY <1>1, <2>2 DEF PutsBehind
<1> DEFINE S == {i \in 0..n : \E r : G(f[i], r, i)}
<1> HIDE DEF ts, at, q
<1>4. 0 \in S
  <2>1. PartBehind(q, p, ts, n, 0) = q
    <3> DEFINE V(k) == IF k <= p THEN q[k] ELSE IF k <= p + 0 THEN ts[n - 0 + (k - p)] ELSE q[k - 0]
    <3>1. PartBehind(q, p, ts, n, 0) = [k \in 1..(Len(q) + 0) |-> V(k)]
      BY DEF PartBehind
    <3>2. Len(q) + 0 = Len(s) /\ \A k \in 1..Len(s) : V(k) = q[k]
      BY <1>2
    <3>3. q = [k \in 1..Len(s) |-> q[k]]
      BY <1>2
    <3> HIDE DEF V
    <3> QED
      BY <3>1, <3>2, <3>3
  <2>2. Grown(w.l, w.l, from + n - 0 + 1, from + n)
    BY DEF Grown
  <2>3. Len(s) = Len(s) + 0
    BY <1>2
  <2>4. G(f[0], s, 0)
    BY <1>3, <2>1, <2>2, <2>3 DEF at, q
  <2> HIDE DEF G
  <2> QED
    BY <2>4
<1>5. ASSUME NEW i \in 0..(n - 1), i \in S PROVE i + 1 \in S
  <2>1. PICK r : G(f[i], r, i)
    BY <1>5
  <2> DEFINE x == f[i]
             t == ts[n - i]
             e == FreshElement(x)
             y == f[i + 1]
  <2>2. i + 1 \in 1..n /\ i \in 0..n /\ i + 1 \in 0..n /\ (i + 1) - 1 = i /\ n - (i + 1) + 1 = n - i /\ n - i \in 1..n
    OBVIOUS
  <2>3. y = InsertValue(x, t, at) /\ t = from + (n - i)
    BY <1>1, <1>3, <2>2
  <2>4. t \in 1..MaxTasks
    <3>1. MaxTasks \in Nat
      BY StorageAssumption
    <3>2. from + (n - i) \in 1..MaxTasks
      BY <3>1
    <3> QED
      BY <2>3, <3>2
  <2>5. \A g \in Elements : x.l.value[g] # t
    <3>1. ASSUME NEW g \in Elements PROVE w.l.value[g] # t /\ ~(t \in (from + n - i + 1)..(from + n))
      <4>1. w.l.value[g] <= from /\ w.l.value[g] \in 0..MaxTasks
        BY DEF WorkOK, ListType
      <4>2. from + (n - i) > from /\ from + (n - i) < from + n - i + 1 /\ from + (n - i) \in Int
        BY <2>2
      <4>3. t > from /\ t < from + n - i + 1 /\ t \in Int
        BY <2>3, <4>2
      <4> QED
        BY <4>1, <4>3
    <3> QED
      BY <2>1, <3>1 DEF Grown
  <2>6. p \in 0..Len(r) /\ Node(r, p) = at /\ WorkOK(x, r) /\ Len(r) = Len(s) + i
    BY <1>2, <2>1
  <2> HIDE DEF x, t, e, y
  <2>7. PICK r2 : /\ r2 = Inserted(r, p, e)
                  /\ WorkOK(y, r2)
                  /\ Tasks(y.l, r2) = Inserted(Tasks(x.l, r), p, t)
                  /\ e \in Elements /\ x.l.value[e] = Nil
                  /\ y.l.value = [x.l.value EXCEPT ![e] = t]
    BY <2>3, <2>4, <2>5, <2>6, InsertOK DEF e
  <2>8. r \in Seq(Elements) /\ Len(r) \in Nat
    BY <2>6 DEF WorkOK, Ring
  <2>9. Node(r2, p) = at
    <3>1. p \in 0..p
      BY <2>6
    <3> QED
      BY <2>6, <2>7, <2>8, <3>1, NodeInserted
  <2>10. Len(r2) = Len(s) + (i + 1)
    <3>1. Len(r2) = Len(r) + 1
      BY <2>6, <2>7, <2>8, InsertedProperties
    <3> QED
      BY <1>2, <2>6, <3>1
  <2>11. Tasks(y.l, r2) = PartBehind(q, p, ts, n, i + 1)
    <3>1. p \in 0..Len(q) /\ Len(q) \in Nat
      BY <1>2
    <3>2. Tasks(x.l, r) = PartBehind(q, p, ts, n, i)
      BY <2>1 DEF x
    <3> QED
      BY <2>7, <3>1, <3>2, PartBehindStep DEF t
  <2>12. Grown(w.l, y.l, from + n - (i + 1) + 1, from + n)
    <3>1. t \in (from + n - (i + 1) + 1)..(from + n)
      BY <2>2, <2>3
    <3>2. (from + n - i + 1)..(from + n) \subseteq (from + n - (i + 1) + 1)..(from + n)
      OBVIOUS
    <3>3. x.l.value \in [Elements -> 0..MaxTasks]
      BY <2>6 DEF WorkOK, ListType
    <3>4. Grown(w.l, x.l, from + n - i + 1, from + n)
      BY <2>1 DEF x
    <3>5. ASSUME NEW g \in Elements
          PROVE  \/ y.l.value[g] = w.l.value[g]
                 \/ w.l.value[g] = Nil /\ y.l.value[g] \in (from + n - (i + 1) + 1)..(from + n)
      <4>1. CASE g = e
        <5>1. y.l.value[g] = t
          BY <2>7, <3>3, <4>1
        <5>2. Nil \notin (from + n - i + 1)..(from + n)
          BY <2>2 DEF Nil
        <5>3. w.l.value[g] = Nil
          BY <2>7, <3>4, <4>1, <5>2 DEF Grown
        <5> QED
          BY <3>1, <5>1, <5>3
      <4>2. CASE g # e
        <5>1. y.l.value[g] = x.l.value[g]
          BY <2>7, <3>3, <4>2
        <5> QED
          BY <3>2, <3>4, <5>1 DEF Grown
      <4> QED
        BY <4>1, <4>2
    <3> QED
      BY <3>5 DEF Grown
  <2>13. G(y, r2, i + 1)
    BY <2>7, <2>9, <2>10, <2>11, <2>12
  <2> HIDE DEF G
  <2> QED
    BY <2>2, <2>13 DEF y
<1>6. \A i \in 0..n : i \in S
  <2> HIDE DEF S
  <2> QED
    BY <1>4, <1>5, UpTo, Zenon
<1>7. PICK r : G(f[n], r, n)
  <2> HIDE DEF G
  <2>1. n \in 0..n
    OBVIOUS
  <2> QED
    BY <1>6, <2>1
<1>8. from + n - n + 1 = from + 1
  OBVIOUS
<1> QED
  BY <1>3, <1>7, <1>8 DEF ts, at, q

\* The recursion of PutLast.
PutsLast(f, w, ts) ==
    /\ f[0] = w
    /\ \A i \in 1..Len(ts) : f[i] = InsertValue(f[i - 1], ts[i], f[i - 1].l.prev[Root])
    /\ PutLast(w, ts) = f[Len(ts)]

LEMMA PutLastUnfolds ==
    ASSUME NEW w, NEW ts, Len(ts) \in Nat
    PROVE  \E f : PutsLast(f, w, ts)
<1> DEFINE n == Len(ts)
           V(i, x) == InsertValue(x, ts[i], x.l.prev[Root])
           P(m, f) == f[0] = w /\ \A i \in 1..m : f[i] = V(i, f[i - 1])
           S == {m \in 0..n : \E f : P(m, f)}
           Body(f) == [i \in 0..n |-> IF i = 0 THEN w ELSE V(i, f[i - 1])]
           put == CHOOSE f : f = Body(f)
<1>1. PutLast(w, ts) = put[n]
  BY DEF PutLast
<1> HIDE DEF V
<1>2. 0 \in S
  <2>1. P(0, [i \in 0..n |-> w])
    OBVIOUS
  <2>2. \E f : P(0, f)
    <3> HIDE DEF P
    <3> QED
      BY <2>1
  <2> QED
    BY <2>2
<1>3. ASSUME NEW m \in 0..(n - 1), m \in S PROVE m + 1 \in S
  <2>1. PICK f : P(m, f)
    BY <1>3
  <2> DEFINE g == [i \in 0..n |-> IF i <= m THEN f[i] ELSE V(m + 1, f[m])]
  <2>2. m + 1 \in 0..n /\ m \in 0..n
    OBVIOUS
  <2>3. \A i \in 0..m : g[i] = f[i]
    BY <2>2
  <2>4. g[m + 1] = V(m + 1, f[m])
    BY <2>2
  <2> HIDE DEF g
  <2>5. g[0] = w
    BY <2>1, <2>3
  <2>6. ASSUME NEW i \in 1..(m + 1) PROVE g[i] = V(i, g[i - 1])
    <3>1. CASE i = m + 1
      BY <2>3, <2>4, <3>1
    <3>2. CASE i # m + 1
      <4>1. i \in 1..m /\ i \in 0..m /\ i - 1 \in 0..m
        BY <3>2
      <4> QED
        BY <2>1, <2>3, <4>1
    <3> QED
      BY <3>1, <3>2
  <2>7. P(m + 1, g)
    BY <2>5, <2>6
  <2> QED
    BY <2>2, <2>7
<1>4. PICK f : P(n, f)
  <2>1. \A m \in 0..n : m \in S
    <3> HIDE DEF S, n
    <3> QED
      BY <1>2, <1>3, UpTo, Zenon DEF n
  <2>2. n \in 0..n
    OBVIOUS
  <2> QED
    BY <2>1, <2>2
<1>5. \E g : g = Body(g)
  <2> DEFINE g == [i \in 0..n |-> f[i]]
  <2>1. ASSUME NEW i \in 0..n PROVE g[i] = IF i = 0 THEN w ELSE V(i, g[i - 1])
    <3>1. CASE i = 0
      BY <1>4, <3>1
    <3>2. CASE i # 0
      <4>1. i \in 1..n /\ i - 1 \in 0..n
        BY <3>2
      <4> QED
        BY <1>4, <3>2, <4>1
    <3> QED
      BY <3>1, <3>2
  <2>2. g = Body(g)
    <3>1. g = [i \in 0..n |-> g[i]]
      OBVIOUS
    <3> HIDE DEF g
    <3> QED
      BY <2>1, <3>1
  <2> QED
    BY <2>2
<1>6. put = Body(put)
  <2> HIDE DEF Body
  <2> QED
    BY <1>5
<1> HIDE DEF put
<1>7. put[0] = w /\ \A i \in 1..n : put[i] = V(i, put[i - 1])
  BY <1>6
<1> QED
  BY <1>1, <1>7 DEF V, PutsLast

\* The first i of the tasks from ts behind q.
PartLast(q, ts, i) == [k \in 1..(Len(q) + i) |-> IF k <= Len(q) THEN q[k] ELSE ts[k - Len(q)]]

LEMMA PartLastStep ==
    ASSUME NEW q, Len(q) \in Nat, NEW ts, NEW i \in Nat
    PROVE  Inserted(PartLast(q, ts, i), Len(q) + i, ts[i + 1]) = PartLast(q, ts, i + 1)
<1> DEFINE m == Len(q)
           V(k) == IF k <= m THEN q[k] ELSE ts[k - m]
           r == [k \in 1..(m + i) |-> V(k)]
           I(k) == IF k <= m + i THEN r[k] ELSE IF k = (m + i) + 1 THEN ts[i + 1] ELSE r[k - 1]
<1>1. PartLast(q, ts, i) = r /\ PartLast(q, ts, i + 1) = [k \in 1..(m + (i + 1)) |-> V(k)]
  BY DEF PartLast
<1>2. Len(r) = m + i /\ \A k \in 1..(m + i) : r[k] = V(k)
  <2> HIDE DEF V
  <2> QED
    OBVIOUS
<1>3. Inserted(r, m + i, ts[i + 1]) = [k \in 1..((m + i) + 1) |-> I(k)]
  <2> HIDE DEF r
  <2> QED
    BY <1>2 DEF Inserted
<1> HIDE DEF r
<1>4. (m + i) + 1 = m + (i + 1)
  OBVIOUS
<1>5. ASSUME NEW k \in 1..(m + (i + 1)) PROVE I(k) = V(k)
  <2>1. CASE k <= m + i
    <3>1. k \in 1..(m + i)
      BY <2>1
    <3> QED
      BY <1>2, <2>1, <3>1
  <2>2. CASE k = (m + i) + 1
    <3>1. ~(k <= m) /\ ~(k <= m + i) /\ k - m = i + 1
      BY <2>2
    <3> QED
      BY <2>2, <3>1
  <2> QED
    BY <2>1, <2>2
<1>6. [k \in 1..(m + (i + 1)) |-> I(k)] = [k \in 1..(m + (i + 1)) |-> V(k)]
  <2> HIDE DEF I, V
  <2> QED
    BY <1>5
<1> QED
  <2> HIDE DEF I, V
  <2> QED
    BY <1>1, <1>3, <1>4, <1>6

\* The last node, behind which addLast puts a task.
LEMMA LastNode ==
    ASSUME NEW w, NEW s, WorkOK(w, s)
    PROVE  Len(s) \in Nat /\ s \in Seq(Elements) /\ w.l.prev[Root] = Node(s, Len(s)) /\ w.l.next[Root] = Node(s, 1)
<1>1. Len(s) \in Nat /\ s \in Seq(Elements)
  BY DEF WorkOK, Ring
<1>2. Len(s) \in 0..Len(s) /\ 0 \in 0..Len(s) /\ 0 + 1 = 1
  BY <1>1
<1>3. Node(s, 0) = Root /\ Node(s, Len(s) + 1) = Root
  BY <1>1 DEF Node
<1>4. \A i \in 0..Len(s) : w.l.next[Node(s, i)] = Node(s, i + 1) /\ w.l.prev[Node(s, i + 1)] = Node(s, i)
  BY DEF WorkOK, Ring
<1>5. w.l.prev[Node(s, Len(s) + 1)] = Node(s, Len(s)) /\ w.l.next[Node(s, 0)] = Node(s, 0 + 1)
  BY <1>2, <1>4
<1> QED
  BY <1>1, <1>2, <1>3, <1>5

\* New tasks at the end: they get elements and entries, in their order.
LEMMA PutLastOK ==
    ASSUME NEW w, NEW s, WorkOK(w, s),
           NEW from \in Nat, NEW n \in Nat, from + n <= MaxTasks, \A e \in Elements : w.l.value[e] <= from
    PROVE  \E s2 : LET w2 == PutLast(w, NewTasks(from, n))
                   IN /\ WorkOK(w2, s2)
                      /\ Tasks(w2.l, s2) = PartLast(Tasks(w.l, s), NewTasks(from, n), n)
                      /\ Grown(w.l, w2.l, from + 1, from + n)
<1> DEFINE ts == NewTasks(from, n)
           q == Tasks(w.l, s)
           G(x, r, i) == /\ WorkOK(x, r) /\ Len(r) = Len(s) + i
                         /\ Tasks(x.l, r) = PartLast(q, ts, i)
                         /\ Grown(w.l, x.l, from + 1, from + i)
<1>1. Len(ts) = n /\ \A k \in 1..n : ts[k] = from + k
  BY DEF NewTasks
<1>2. Len(s) \in Nat /\ s \in Seq(Elements) /\ Len(q) = Len(s) /\ q = [i \in 1..Len(s) |-> w.l.value[s[i]]]
  BY DEF WorkOK, Ring, Tasks
<1>3. PICK f : /\ f[0] = w
               /\ \A i \in 1..n : f[i] = InsertValue(f[i - 1], ts[i], f[i - 1].l.prev[Root])
               /\ PutLast(w, ts) = f[n]
  <2> HIDE DEF ts
  <2>1. Len(ts) \in Nat
    BY <1>1
  <2>2. PICK f : PutsLast(f, w, ts)
    BY <2>1, PutLastUnfolds
  <2> QED
    BY <1>1, <2>2 DEF PutsLast
<1> DEFINE S == {i \in 0..n : \E r : G(f[i], r, i)}
<1> HIDE DEF ts, q
<1>4. 0 \in S
  <2>1. PartLast(q, ts, 0) = q
    <3> DEFINE V(k) == IF k <= Len(q) THEN q[k] ELSE ts[k - Len(q)]
    <3>1. PartLast(q, ts, 0) = [k \in 1..(Len(q) + 0) |-> V(k)]
      BY DEF PartLast
    <3>2. Len(q) + 0 = Len(s) /\ \A k \in 1..Len(s) : V(k) = q[k]
      BY <1>2
    <3>3. q = [k \in 1..Len(s) |-> q[k]]
      BY <1>2
    <3> HIDE DEF V
    <3> QED
      BY <3>1, <3>2, <3>3
  <2>2. Grown(w.l, w.l, from + 1, from + 0)
    BY DEF Grown
  <2>3. Len(s) = Len(s) + 0
    BY <1>2
  <2>4. G(f[0], s, 0)
    BY <1>3, <2>1, <2>2, <2>3 DEF q
  <2> HIDE DEF G
  <2> QED
    BY <2>4
<1>5. ASSUME NEW i \in 0..(n - 1), i \in S PROVE i + 1 \in S
  <2>1. PICK r : G(f[i], r, i)
    BY <1>5
  <2> DEFINE x == f[i]
             t == ts[i + 1]
             e == FreshElement(x)
             y == f[i + 1]
             p == Len(r)
  <2>2. i + 1 \in 1..n /\ i \in 0..n /\ i + 1 \in 0..n /\ (i + 1) - 1 = i
    OBVIOUS
  <2>3. y = InsertValue(x, t, x.l.prev[Root]) /\ t = from + (i + 1)
    BY <1>1, <1>3, <2>2
  <2>4. t \in 1..MaxTasks
    <3>1. MaxTasks \in Nat
      BY StorageAssumption
    <3>2. from + (i + 1) \in 1..MaxTasks
      BY <3>1
    <3> QED
      BY <2>3, <3>2
  <2>5. \A g \in Elements : x.l.value[g] # t
    <3>1. ASSUME NEW g \in Elements PROVE w.l.value[g] # t /\ ~(t \in (from + 1)..(from + i))
      <4>1. w.l.value[g] <= from /\ w.l.value[g] \in 0..MaxTasks
        BY DEF WorkOK, ListType
      <4>2. t > from /\ t > from + i /\ t \in Int
        BY <2>2, <2>3
      <4> QED
        BY <4>1, <4>2
    <3> QED
      BY <2>1, <3>1 DEF Grown
  <2>6. /\ p \in 0..Len(r) /\ p \in Nat /\ WorkOK(x, r) /\ Len(r) = Len(s) + i
        /\ x.l.prev[Root] = Node(r, p) /\ r \in Seq(Elements)
    <3>1. WorkOK(x, r) /\ Len(r) = Len(s) + i
      BY <2>1
    <3>2. Len(r) \in Nat /\ r \in Seq(Elements) /\ x.l.prev[Root] = Node(r, p)
      <4> HIDE DEF x, G
      <4> QED
        BY <3>1, LastNode DEF p
    <3> QED
      BY <3>1, <3>2
  <2> HIDE DEF x, t, e, y, p
  <2>7. PICK r2 : /\ r2 = Inserted(r, p, e)
                  /\ WorkOK(y, r2)
                  /\ Tasks(y.l, r2) = Inserted(Tasks(x.l, r), p, t)
                  /\ e \in Elements /\ x.l.value[e] = Nil
                  /\ y.l.value = [x.l.value EXCEPT ![e] = t]
    BY <2>3, <2>4, <2>5, <2>6, InsertOK DEF e
  <2>8. Len(r2) = Len(s) + (i + 1)
    <3>1. Len(r2) = Len(r) + 1
      <4>1. Len(r) \in Nat /\ p \in 0..Len(r)
        BY <2>6
      <4>2. Len(Inserted(r, p, e)) = Len(r) + 1
        BY <4>1, InsertedProperties
      <4> QED
        BY <2>7, <4>2
    <3> QED
      BY <1>2, <2>6, <3>1
  <2>9. Tasks(y.l, r2) = PartLast(q, ts, i + 1)
    <3>1. p = Len(q) + i /\ Len(q) \in Nat /\ i \in Nat
      BY <1>2, <2>6 DEF p
    <3>2. Tasks(x.l, r) = PartLast(q, ts, i)
      BY <2>1 DEF x
    <3> QED
      BY <2>7, <3>1, <3>2, PartLastStep DEF t
  <2>10. Grown(w.l, y.l, from + 1, from + (i + 1))
    <3>1. t \in (from + 1)..(from + (i + 1))
      BY <2>2, <2>3
    <3>2. (from + 1)..(from + i) \subseteq (from + 1)..(from + (i + 1))
      OBVIOUS
    <3>3. x.l.value \in [Elements -> 0..MaxTasks]
      BY <2>6 DEF WorkOK, ListType
    <3>4. Grown(w.l, x.l, from + 1, from + i)
      BY <2>1 DEF x
    <3>5. ASSUME NEW g \in Elements
          PROVE  \/ y.l.value[g] = w.l.value[g]
                 \/ w.l.value[g] = Nil /\ y.l.value[g] \in (from + 1)..(from + (i + 1))
      <4>1. CASE g = e
        <5>1. y.l.value[g] = t
          BY <2>7, <3>3, <4>1
        <5>2. Nil \notin (from + 1)..(from + i)
          BY DEF Nil
        <5>3. w.l.value[g] = Nil
          BY <2>7, <3>4, <4>1, <5>2 DEF Grown
        <5> QED
          BY <3>1, <5>1, <5>3
      <4>2. CASE g # e
        <5>1. y.l.value[g] = x.l.value[g]
          BY <2>7, <3>3, <4>2
        <5> QED
          BY <3>2, <3>4, <5>1 DEF Grown
      <4> QED
        BY <4>1, <4>2
    <3> QED
      BY <3>5 DEF Grown
  <2>11. G(y, r2, i + 1)
    BY <2>7, <2>8, <2>9, <2>10
  <2> HIDE DEF G
  <2> QED
    BY <2>2, <2>11 DEF y
<1>6. \A i \in 0..n : i \in S
  <2> HIDE DEF S
  <2> QED
    BY <1>4, <1>5, UpTo, Zenon
<1>7. PICK r : G(f[n], r, n)
  <2> HIDE DEF G
  <2>1. n \in 0..n
    OBVIOUS
  <2> QED
    BY <1>6, <2>1
<1> QED
  BY <1>3, <1>7 DEF ts, q

-----------------------------------------------------------------------------
(* Removal.                                                                *)

\* The sequence without its i-th member.
RemovedAt(s, i) == [k \in 1..(Len(s) - 1) |-> IF k < i THEN s[k] ELSE s[k + 1]]

LEMMA RemovedProperties ==
    ASSUME NEW s, Len(s) \in Nat, NEW i \in 1..Len(s)
    PROVE  /\ Len(RemovedAt(s, i)) = Len(s) - 1
           /\ DOMAIN RemovedAt(s, i) = 1..(Len(s) - 1)
           /\ \A k \in 1..(i - 1) : RemovedAt(s, i)[k] = s[k]
           /\ \A k \in i..(Len(s) - 1) : RemovedAt(s, i)[k] = s[k + 1]
           /\ \A X : s \in Seq(X) => RemovedAt(s, i) \in Seq(X)
<1> DEFINE n == Len(s)
           V(k) == IF k < i THEN s[k] ELSE s[k + 1]
           r == [k \in 1..(n - 1) |-> V(k)]
<1>1. RemovedAt(s, i) = r
  BY DEF RemovedAt
<1>2. Len(r) = n - 1 /\ DOMAIN r = 1..(n - 1) /\ \A k \in 1..(n - 1) : r[k] = V(k)
  <2> HIDE DEF V
  <2>1. n - 1 \in Nat
    OBVIOUS
  <2> QED
    BY <2>1
<1>3. ASSUME NEW X, s \in Seq(X) PROVE r \in Seq(X)
  <2>1. \A k \in 1..(n - 1) : V(k) \in X
    BY <1>3
  <2>2. n - 1 \in Nat
    OBVIOUS
  <2> HIDE DEF V
  <2> QED
    BY <2>1, <2>2
<1> HIDE DEF r
<1>4. /\ \A k \in 1..(i - 1) : r[k] = s[k]
      /\ \A k \in i..(n - 1) : r[k] = s[k + 1]
  BY <1>2
<1> QED
  BY <1>1, <1>2, <1>3, <1>4

LEMMA NodeRemoved ==
    ASSUME NEW s \in Seq(Elements), NEW i \in 1..Len(s)
    PROVE  /\ \A k \in 0..(i - 1) : Node(RemovedAt(s, i), k) = Node(s, k)
           /\ \A k \in i..Len(s) : Node(RemovedAt(s, i), k) = Node(s, k + 1)
<1> DEFINE r == RemovedAt(s, i)
<1>1. DOMAIN s = 1..Len(s) /\ Len(s) \in Nat
  OBVIOUS
<1>2. /\ DOMAIN r = 1..(Len(s) - 1)
      /\ \A k \in 1..(i - 1) : r[k] = s[k]
      /\ \A k \in i..(Len(s) - 1) : r[k] = s[k + 1]
  BY <1>1, RemovedProperties
<1> HIDE DEF r
<1>3. \A k \in 0..(i - 1) : Node(r, k) = Node(s, k)
  BY <1>1, <1>2 DEF Node
<1>4. \A k \in i..Len(s) : Node(r, k) = Node(s, k + 1)
  BY <1>1, <1>2 DEF Node
<1> QED
  BY <1>3, <1>4 DEF r

\* remove takes the element at position i out.
LEMMA RingUnlink ==
    ASSUME NEW l, NEW s, ListType(l), Ring(l, s), NEW i \in 1..Len(s)
    PROVE  Ring(Unlink(l, s[i]), RemovedAt(s, i))
<1> DEFINE e == s[i]
           l2 == Unlink(l, e)
           r == RemovedAt(s, i)
           n == Len(s)
<1>1. s \in Seq(Elements) /\ n \in Nat /\ DOMAIN s = 1..n /\ l.len = n /\ (\A j, k \in DOMAIN s : s[j] = s[k] => j = k)
  BY DEF Ring
<1>2. \A j \in 0..n : l.next[Node(s, j)] = Node(s, j + 1) /\ l.prev[Node(s, j + 1)] = Node(s, j)
  BY DEF Ring
<1>3. /\ \A j, k \in 0..n : Node(s, j) = Node(s, k) => j = k
      /\ \A j, k \in 1..(n + 1) : Node(s, j) = Node(s, k) => j = k
      /\ \A j \in 0..(n + 1) : Node(s, j) \in Nodes
      /\ Node(s, i) = e /\ e \in Elements /\ e # Root
  BY <1>1, NodeInjective
<1>4. /\ \A k \in 0..(i - 1) : Node(r, k) = Node(s, k)
      /\ \A k \in i..n : Node(r, k) = Node(s, k + 1)
  BY <1>1, NodeRemoved
<1>5. /\ r \in Seq(Elements) /\ Len(r) = n - 1 /\ DOMAIN r = 1..(n - 1)
      /\ \A k \in 1..(i - 1) : r[k] = s[k]
      /\ \A k \in i..(n - 1) : r[k] = s[k + 1]
  BY <1>1, RemovedProperties
<1>6. /\ l2.next = [[l.next EXCEPT ![l.prev[e]] = l.next[e]] EXCEPT ![e] = NoNode]
      /\ l2.prev = [[l.prev EXCEPT ![l.next[e]] = l.prev[e]] EXCEPT ![e] = NoNode]
      /\ l2.inList = [l.inList EXCEPT ![e] = FALSE]
      /\ l2.len = l.len - 1
  BY DEF Unlink
<1> HIDE DEF l2, r, n, e
<1>7. i \in 1..n /\ n \in Nat
  BY <1>1 DEF n
<1>8. l.next[e] = Node(s, i + 1) /\ l.prev[e] = Node(s, i - 1)
  <2>1. i \in 0..n /\ i - 1 \in 0..n /\ (i - 1) + 1 = i
    BY <1>7
  <2> QED
    BY <1>2, <1>3, <2>1
<1>9. Node(s, i + 1) \in Nodes /\ Node(s, i - 1) \in Nodes /\ Node(s, i + 1) # e /\ Node(s, i - 1) # e /\ e \in Nodes
  <2>1. i + 1 \in 0..(n + 1) /\ i - 1 \in 0..(n + 1) /\ i \in 0..n /\ i - 1 \in 0..n /\ i \in 1..(n + 1) /\ i + 1 \in 1..(n + 1)
        /\ i # i - 1 /\ i # i + 1
    BY <1>7
  <2> QED
    BY <1>3, <2>1 DEF Nodes
<1>10. DOMAIN l.next = Nodes /\ DOMAIN l.prev = Nodes /\ DOMAIN l.inList = Elements
  BY DEF ListType
<1>11. /\ l2.next[Node(s, i - 1)] = Node(s, i + 1)
       /\ \A x \in Nodes : x # e /\ x # Node(s, i - 1) => l2.next[x] = l.next[x]
  BY <1>6, <1>8, <1>9, <1>10
<1>12. /\ l2.prev[Node(s, i + 1)] = Node(s, i - 1)
       /\ \A x \in Nodes : x # e /\ x # Node(s, i + 1) => l2.prev[x] = l.prev[x]
  BY <1>6, <1>8, <1>9, <1>10
<1>13. ASSUME NEW j \in 0..(n - 1)
       PROVE  l2.next[Node(r, j)] = Node(r, j + 1) /\ l2.prev[Node(r, j + 1)] = Node(r, j)
  <2>1. CASE j < i - 1
    <3>1. /\ j \in 0..n /\ j \in 0..(i - 1) /\ j + 1 \in 0..(i - 1) /\ j + 1 \in 1..(n + 1)
          /\ i \in 0..n /\ i - 1 \in 0..n /\ i \in 1..(n + 1) /\ i + 1 \in 1..(n + 1)
          /\ j # i /\ j # i - 1 /\ j + 1 # i /\ j + 1 # i + 1 /\ j + 1 \in 0..(n + 1) /\ j \in 0..(n + 1)
      BY <1>7, <2>1
    <3>2. Node(r, j) = Node(s, j) /\ Node(r, j + 1) = Node(s, j + 1)
      BY <1>4, <3>1
    <3>3. Node(s, j) \in Nodes /\ Node(s, j) # e /\ Node(s, j) # Node(s, i - 1)
      BY <1>3, <3>1
    <3>4. Node(s, j + 1) \in Nodes /\ Node(s, j + 1) # e /\ Node(s, j + 1) # Node(s, i + 1)
      BY <1>3, <3>1
    <3> QED
      BY <1>2, <1>11, <1>12, <3>1, <3>2, <3>3, <3>4
  <2>2. CASE j = i - 1
    <3>1. j + 1 = i /\ i \in i..n /\ j \in 0..(i - 1)
      BY <1>7, <2>2
    <3>2. Node(r, j) = Node(s, i - 1) /\ Node(r, j + 1) = Node(s, i + 1)
      BY <1>4, <2>2, <3>1
    <3> QED
      BY <1>11, <1>12, <3>2
  <2>3. CASE j > i - 1
    <3>1. /\ j \in i..n /\ j + 1 \in i..n /\ j + 1 \in 0..n /\ (j + 1) + 1 \in 1..(n + 1)
          /\ i \in 0..n /\ i - 1 \in 0..n /\ i \in 1..(n + 1) /\ i + 1 \in 1..(n + 1)
          /\ j + 1 # i /\ j + 1 # i - 1 /\ (j + 1) + 1 # i /\ (j + 1) + 1 # i + 1
          /\ j + 1 \in 0..(n + 1) /\ (j + 1) + 1 \in 0..(n + 1)
      BY <1>7, <2>3
    <3>2. Node(r, j) = Node(s, j + 1) /\ Node(r, j + 1) = Node(s, (j + 1) + 1)
      BY <1>4, <3>1
    <3>3. Node(s, j + 1) \in Nodes /\ Node(s, j + 1) # e /\ Node(s, j + 1) # Node(s, i - 1)
      BY <1>3, <3>1
    <3>4. Node(s, (j + 1) + 1) \in Nodes /\ Node(s, (j + 1) + 1) # e /\ Node(s, (j + 1) + 1) # Node(s, i + 1)
      BY <1>3, <3>1
    <3> QED
      BY <1>2, <1>11, <1>12, <3>1, <3>2, <3>3, <3>4
  <2> QED
    BY <1>7, <2>1, <2>2, <2>3
<1> DEFINE o == [k \in 1..(n - 1) |-> IF k < i THEN k ELSE k + 1]
<1>14. /\ \A k \in 1..(n - 1) : r[k] = s[o[k]] /\ o[k] \in DOMAIN s /\ o[k] # i
       /\ \A j, k \in 1..(n - 1) : o[j] = o[k] => j = k
       /\ \A k \in DOMAIN s : k # i => \E j \in 1..(n - 1) : o[j] = k
  <2>1. \A k \in 1..(n - 1) : r[k] = s[o[k]] /\ o[k] \in DOMAIN s /\ o[k] # i
    BY <1>1, <1>5, <1>7
  <2>2. \A j, k \in 1..(n - 1) : o[j] = o[k] => j = k
    BY <1>7
  <2>3. ASSUME NEW k \in DOMAIN s, k # i PROVE \E j \in 1..(n - 1) : o[j] = k
    <3>1. CASE k < i
      <4>1. k \in 1..(n - 1) /\ o[k] = k
        BY <1>1, <1>7, <3>1
      <4> QED
        BY <4>1
    <3>2. CASE k > i
      <4>1. k - 1 \in 1..(n - 1) /\ o[k - 1] = k
        BY <1>1, <1>7, <3>2
      <4> QED
        BY <4>1
    <3> QED
      BY <1>1, <1>7, <2>3, <3>1, <3>2
  <2> QED
    BY <2>1, <2>2, <2>3
<1> HIDE DEF o
<1>15. \A j, k \in DOMAIN r : r[j] = r[k] => j = k
  <2>1. ASSUME NEW j \in 1..(n - 1), NEW k \in 1..(n - 1), r[j] = r[k] PROVE j = k
    <3>1. s[o[j]] = s[o[k]] /\ o[j] \in DOMAIN s /\ o[k] \in DOMAIN s
      BY <1>14, <2>1
    <3>2. o[j] = o[k]
      BY <1>1, <3>1
    <3> QED
      BY <1>14, <3>2
  <2> QED
    BY <1>5, <2>1
<1>16. \A f \in Elements : l2.inList[f] <=> \E j \in DOMAIN r : r[j] = f
  <2>1. ASSUME NEW f \in Elements, l2.inList[f] PROVE \E j \in DOMAIN r : r[j] = f
    <3>1. f # e /\ l.inList[f]
      BY <1>3, <1>6, <1>10, <2>1
    <3>2. PICK k \in DOMAIN s : s[k] = f
      BY <3>1 DEF Ring
    <3>3. k # i
      BY <3>1, <3>2 DEF e
    <3>4. PICK j \in 1..(n - 1) : o[j] = k
      BY <1>14, <3>3
    <3> QED
      BY <1>5, <1>14, <3>2, <3>4
  <2>2. ASSUME NEW f \in Elements, NEW j \in DOMAIN r, r[j] = f PROVE l2.inList[f]
    <3>1. f = s[o[j]] /\ o[j] \in DOMAIN s /\ o[j] # i
      BY <1>5, <1>14, <2>2
    <3>2. l.inList[f]
      BY <3>1 DEF Ring
    <3>3. f # e
      BY <1>1, <1>7, <3>1 DEF e
    <3> QED
      BY <1>6, <1>10, <3>2, <3>3
  <2> QED
    BY <2>1, <2>2
<1>17. Ring(l2, r)
  <2>1. l2.len = Len(r)
    BY <1>1, <1>5, <1>6
  <2>2. \A j \in 0..Len(r) : l2.next[Node(r, j)] = Node(r, j + 1) /\ l2.prev[Node(r, j + 1)] = Node(r, j)
    BY <1>5, <1>13
  <2> QED
    BY <1>5, <1>15, <1>16, <2>1, <2>2 DEF Ring
<1> QED
  BY <1>17 DEF l2, r, e

\* removeElement of the element at position i.
LEMMA DropOK ==
    ASSUME NEW w, NEW s, WorkOK(w, s), NEW i \in 1..Len(s)
    PROVE  /\ WorkOK(Drop(w, s[i]), RemovedAt(s, i))
           /\ Tasks(Drop(w, s[i]).l, RemovedAt(s, i)) = RemovedAt(Tasks(w.l, s), i)
           /\ Drop(w, s[i]).l.value = w.l.value
<1> DEFINE e == s[i]
           w2 == Drop(w, e)
           l2 == Unlink(w.l, e)
           r == RemovedAt(s, i)
           n == Len(s)
           t == w.l.value[e]
<1>1. ListType(w.l) /\ Ring(w.l, s) /\ Values(w.l) /\ Agrees(w)
  BY DEF WorkOK
<1>2. s \in Seq(Elements) /\ n \in Nat /\ DOMAIN s = 1..n /\ (\A j, k \in DOMAIN s : s[j] = s[k] => j = k)
  BY <1>1 DEF Ring
<1>3. e \in Elements /\ w.l.inList[e]
  BY <1>1, <1>2 DEF Ring
<1>4. w2.l = l2 /\ w2.ix = [u \in DOMAIN w.ix \ {t} |-> w.ix[u]]
  BY <1>3 DEF Drop, RemoveFromList, Without
<1>5. Ring(l2, r)
  BY <1>1, RingUnlink
<1>6. /\ l2.next = [[w.l.next EXCEPT ![w.l.prev[e]] = w.l.next[e]] EXCEPT ![e] = NoNode]
      /\ l2.prev = [[w.l.prev EXCEPT ![w.l.next[e]] = w.l.prev[e]] EXCEPT ![e] = NoNode]
      /\ l2.inList = [w.l.inList EXCEPT ![e] = FALSE]
      /\ l2.value = w.l.value
  BY DEF Unlink
<1> HIDE DEF e, w2, l2, r, t
<1>7. ListType(l2)
  <2>1. e \in Nodes
    BY <1>3 DEF Nodes
  <2> DEFINE T == Nodes \cup {NoNode}
  <2>2. w.l.next \in [Nodes -> T] /\ w.l.prev \in [Nodes -> T] /\ NoNode \in T
    BY <1>1 DEF ListType
  <2>3. l2.next \in [Nodes -> T]
    <3> HIDE DEF T
    <3>1. w.l.next[e] \in T
      BY <2>1, <2>2
    <3> QED
      BY <1>6, <2>2, <3>1
  <2>4. l2.prev \in [Nodes -> T]
    <3> HIDE DEF T
    <3>1. w.l.prev[e] \in T
      BY <2>1, <2>2
    <3> QED
      BY <1>6, <2>2, <3>1
  <2>5. l2.inList \in [Elements -> BOOLEAN] /\ l2.value \in [Elements -> 0..MaxTasks]
    BY <1>1, <1>3, <1>6 DEF ListType
  <2> QED
    BY <2>3, <2>4, <2>5 DEF ListType
<1>8. DOMAIN w.l.inList = Elements /\ \A f \in Elements : l2.inList[f] => f # e /\ w.l.inList[f]
  BY <1>1, <1>3, <1>6 DEF ListType
<1>9. \A f \in Elements : f # e /\ w.l.inList[f] => l2.inList[f]
  BY <1>6, <1>8
<1>10. Values(l2)
  BY <1>1, <1>6, <1>8 DEF Values
<1>11. t # Nil
  BY <1>1, <1>3 DEF Values, t
<1>12. Agrees(w2)
  <2>1. DOMAIN w2.ix = DOMAIN w.ix \ {t} /\ w2.ix = [u \in DOMAIN w2.ix |-> w2.ix[u]]
    BY <1>4
  <2>2. ASSUME NEW u \in DOMAIN w2.ix PROVE w2.ix[u] \in Elements /\ l2.inList[w2.ix[u]] /\ l2.value[w2.ix[u]] = u
    <3>1. u \in DOMAIN w.ix /\ u # t /\ w2.ix[u] = w.ix[u]
      BY <1>4, <2>1
    <3>2. w.ix[u] \in Elements /\ w.l.inList[w.ix[u]] /\ w.l.value[w.ix[u]] = u
      BY <1>1, <3>1 DEF Agrees
    <3>3. w.ix[u] # e
      BY <3>1, <3>2 DEF t
    <3> QED
      BY <1>6, <1>9, <3>1, <3>2, <3>3
  <2>3. ASSUME NEW f \in Elements, l2.inList[f] PROVE l2.value[f] \in DOMAIN w2.ix
    <3>1. f # e /\ w.l.inList[f]
      BY <1>8, <2>3
    <3>2. w.l.value[f] # t
      BY <1>1, <1>3, <1>11, <3>1 DEF Values, t
    <3> QED
      BY <1>1, <1>6, <2>1, <3>1, <3>2 DEF Agrees
  <2> QED
    BY <1>4, <2>1, <2>2, <2>3 DEF Agrees
<1>13. Tasks(l2, r) = RemovedAt(Tasks(w.l, s), i)
  <2> DEFINE q == Tasks(w.l, s)
             I(k) == IF k < i THEN q[k] ELSE q[k + 1]
  <2>1. /\ Len(r) = n - 1
        /\ \A k \in 1..(i - 1) : r[k] = s[k]
        /\ \A k \in i..(n - 1) : r[k] = s[k + 1]
    BY <1>2, RemovedProperties DEF r
  <2>2. Len(q) = n /\ \A k \in 1..n : q[k] = w.l.value[s[k]]
    BY <1>2 DEF Tasks
  <2>3. Tasks(l2, r) = [k \in 1..(n - 1) |-> w.l.value[r[k]]]
    BY <1>6, <2>1 DEF Tasks
  <2> HIDE DEF q
  <2>4. RemovedAt(q, i) = [k \in 1..(n - 1) |-> I(k)]
    BY <2>2 DEF RemovedAt
  <2>5. ASSUME NEW k \in 1..(n - 1) PROVE w.l.value[r[k]] = I(k)
    <3>1. CASE k < i
      BY <1>2, <2>1, <2>2, <3>1
    <3>2. CASE ~(k < i)
      <4>1. k \in i..(n - 1) /\ k + 1 \in 1..n
        BY <1>2, <3>2
      <4> QED
        BY <2>1, <2>2, <3>2, <4>1
    <3> QED
      BY <3>1, <3>2
  <2>6. Tasks(l2, r) = RemovedAt(q, i)
    <3> HIDE DEF I
    <3> QED
      BY <2>3, <2>4, <2>5
  <2> QED
    BY <2>6 DEF q
<1>14. WorkOK(w2, r)
  BY <1>4, <1>5, <1>7, <1>10, <1>12 DEF WorkOK
<1> QED
  BY <1>4, <1>6, <1>13, <1>14 DEF w2, e, r

\* removeElement of an element that has left the list: its task is not in the index either.
LEMMA StaleDrop ==
    ASSUME NEW w, NEW s, WorkOK(w, s), NEW e \in Elements, ~w.l.inList[e], w.l.value[e] # Nil
    PROVE  /\ Drop(w, e).l = w.l /\ Drop(w, e).ix = w.ix
           /\ \A i \in DOMAIN s : w.l.value[s[i]] # w.l.value[e]
<1>1. Ring(w.l, s) /\ Values(w.l) /\ Agrees(w)
  BY DEF WorkOK
<1>2. w.l.value[e] \notin DOMAIN w.ix
  BY <1>1 DEF Agrees, Values
<1>3. Drop(w, e).ix = [u \in DOMAIN w.ix |-> w.ix[u]] /\ Drop(w, e).l = w.l
  <2>1. DOMAIN w.ix \ {w.l.value[e]} = DOMAIN w.ix
    BY <1>2
  <2> QED
    BY <2>1 DEF Drop, RemoveFromList, Without
<1>4. Drop(w, e).ix = w.ix
  BY <1>1, <1>3 DEF Agrees
<1>5. \A i \in DOMAIN s : s[i] \in Elements /\ w.l.inList[s[i]]
  BY <1>1 DEF Ring
<1>6. \A i \in DOMAIN s : w.l.value[s[i]] # w.l.value[e]
  BY <1>1, <1>5 DEF Values
<1> QED
  BY <1>3, <1>4, <1>6

-----------------------------------------------------------------------------
(* Reading the list.                                                       *)

\* The tasks of the list are those along its ring.
LEMMA TasksOfRing ==
    ASSUME NEW l, NEW s, Ring(l, s)
    PROVE  TasksOf(l) = Tasks(l, s)
<1> DEFINE n == Len(s)
           Body(f) == [i \in 0..l.len |-> IF i = 0 THEN Root ELSE l.next[f[i - 1]]]
           at == CHOOSE f : f = Body(f)
           g == [i \in 0..n |-> Node(s, i)]
           S == {i \in 0..n : at[i] = Node(s, i)}
<1>1. s \in Seq(Elements) /\ n \in Nat /\ DOMAIN s = 1..n /\ l.len = n
  BY DEF Ring
<1>2. TasksOf(l) = [i \in 1..l.len |-> l.value[at[i]]]
  BY DEF TasksOf
<1>3. Node(s, 0) = Root /\ \A i \in 1..n : Node(s, i) = s[i] /\ l.next[Node(s, i - 1)] = Node(s, i)
  <2>1. Node(s, 0) = Root /\ \A i \in 1..n : Node(s, i) = s[i]
    BY <1>1 DEF Node
  <2>2. ASSUME NEW i \in 1..n PROVE l.next[Node(s, i - 1)] = Node(s, i)
    <3>1. i - 1 \in 0..n /\ (i - 1) + 1 = i
      BY <1>1
    <3> QED
      BY <3>1 DEF Ring
  <2> QED
    BY <2>1, <2>2
<1>4. g = Body(g)
  <2>1. \A i \in 0..n : g[i] = IF i = 0 THEN Root ELSE l.next[g[i - 1]]
    BY <1>1, <1>3
  <2>2. g = [i \in 0..n |-> g[i]]
    OBVIOUS
  <2> HIDE DEF g
  <2> QED
    BY <1>1, <2>1, <2>2
<1>5. at = Body(at)
  <2> HIDE DEF Body, g
  <2> QED
    BY <1>4
<1> HIDE DEF at, g
<1>6. at[0] = Root /\ \A i \in 1..n : at[i] = l.next[at[i - 1]]
  <2>1. at = [i \in 0..n |-> IF i = 0 THEN Root ELSE l.next[at[i - 1]]]
    BY <1>1, <1>5
  <2>2. 0 \in 0..n /\ \A i \in 1..n : i \in 0..n /\ i # 0
    BY <1>1
  <2>3. at[0] = Root
    BY <2>1, <2>2
  <2> HIDE DEF n
  <2> QED
    BY <2>1, <2>2, <2>3
<1>7. 0 \in S
  BY <1>1, <1>3, <1>6
<1>8. ASSUME NEW i \in 0..(n - 1), i \in S PROVE i + 1 \in S
  <2>1. i + 1 \in 1..n /\ i + 1 \in 0..n /\ (i + 1) - 1 = i
    BY <1>1
  <2>2. at[i + 1] = l.next[at[i]]
    BY <1>6, <2>1
  <2>3. at[i] = Node(s, i)
    BY <1>8
  <2>4. at[i + 1] = Node(s, i + 1)
    BY <1>3, <2>1, <2>2, <2>3
  <2> QED
    BY <2>1, <2>4
<1>9. \A i \in 0..n : i \in S
  <2> HIDE DEF S, n
  <2> QED
    BY <1>1, <1>7, <1>8, UpTo, Zenon
<1>10. \A i \in 1..n : at[i] = s[i]
  BY <1>1, <1>3, <1>9
<1> QED
  BY <1>1, <1>2, <1>10 DEF Tasks

\* The ring has no more nodes than there are elements.
LEMMA RingLength ==
    ASSUME NEW l, NEW s, Ring(l, s)
    PROVE  Len(s) \in Nat /\ Cardinality(Elements) \in Nat /\ Len(s) <= Cardinality(Elements)
<1>1. s \in Seq(Elements) /\ Len(s) \in Nat /\ DOMAIN s = 1..Len(s) /\ (\A j, k \in DOMAIN s : s[j] = s[k] => j = k)
  BY DEF Ring
<1>2. IsFiniteSet(Elements) /\ Cardinality(Elements) \in Nat
  BY StorageAssumption, FS_CardinalityType
<1>3. SUFFICES ASSUME Cardinality(Elements) < Len(s) PROVE FALSE
  BY <1>1, <1>2
<1>4. IsFiniteSet(1..Len(s)) /\ Cardinality(1..Len(s)) = Len(s)
  <2>1. 1 \in Int /\ Len(s) \in Int /\ ~(1 > Len(s))
    BY <1>1, <1>2, <1>3
  <2>2. IsFiniteSet(1..Len(s)) /\ Cardinality(1..Len(s)) = IF 1 > Len(s) THEN 0 ELSE Len(s) - 1 + 1
    BY <2>1, FS_Interval
  <2> QED
    BY <1>1, <2>1, <2>2
<1>5. s \in [1..Len(s) -> Elements]
  BY <1>1
<1>6. \E x, y \in 1..Len(s) : x # y /\ s[x] = s[y]
  <2> DEFINE D == 1..Len(s)
  <2>1. IsFiniteSet(D) /\ Cardinality(Elements) < Cardinality(D) /\ s \in [D -> Elements]
    BY <1>3, <1>4, <1>5
  <2> HIDE DEF D
  <2>2. \E x, y \in D : x # y /\ s[x] = s[y]
    BY <1>2, <2>1, FS_PigeonHole
  <2> QED
    BY <2>2 DEF D
<1> QED
  BY <1>1, <1>6

\* Front and Back.
LEMMA FrontBack ==
    ASSUME NEW w, NEW s, WorkOK(w, s)
    PROVE  /\ w.l.len = Len(s)
           /\ Len(s) = 0 => ListFront(w.l) = NoNode /\ ListBack(w.l) = NoNode
           /\ Len(s) > 0 => /\ ListFront(w.l) = s[1] /\ ListBack(w.l) = s[Len(s)]
                            /\ s[1] \in Elements /\ s[Len(s)] \in Elements /\ s[1] # NoNode /\ s[Len(s)] # NoNode
<1>1. Len(s) \in Nat /\ s \in Seq(Elements) /\ w.l.prev[Root] = Node(s, Len(s)) /\ w.l.next[Root] = Node(s, 1)
  BY LastNode
<1>2. w.l.len = Len(s)
  BY DEF WorkOK, Ring
<1>3. ASSUME Len(s) > 0 PROVE ListFront(w.l) = s[1] /\ ListBack(w.l) = s[Len(s)] /\ s[1] \in Elements /\ s[Len(s)] \in Elements
  <2>1. 1 \in DOMAIN s /\ Len(s) \in DOMAIN s
    BY <1>1, <1>3
  <2> QED
    BY <1>1, <1>2, <1>3, <2>1 DEF ListFront, ListBack, Node
<1>4. NoNode \notin Elements
  BY StorageAssumption
<1> QED
  BY <1>2, <1>3, <1>4 DEF ListFront, ListBack

\* A walk from Front visits the elements of the ring.
LEMMA WalkRing ==
    ASSUME NEW w, NEW s, WorkOK(w, s)
    PROVE  Walk(w.l) = s
<1> DEFINE n == Len(s)
           l == w.l
           C == Cardinality(Elements)
           Body(f) == [i \in 1..C |-> IF i = 1 THEN ListFront(l)
                                      ELSE IF f[i - 1] = NoNode THEN NoNode ELSE NextOf(l, f[i - 1])]
           at == CHOOSE f : f = Body(f)
           V(i) == IF i <= n THEN s[i] ELSE NoNode
           g == [i \in 1..C |-> V(i)]
           S == {i \in 0..C : i = 0 \/ at[i] = V(i)}
<1>1. ListType(l) /\ Ring(l, s)
  BY DEF WorkOK
<1>2. n \in Nat /\ C \in Nat /\ n <= C
  BY <1>1, RingLength
<1>3. s \in Seq(Elements) /\ DOMAIN s = 1..n /\ \A i \in 1..n : s[i] \in Elements /\ s[i] # NoNode /\ s[i] # Root /\ l.inList[s[i]]
  <2>1. s \in Seq(Elements) /\ DOMAIN s = 1..n
    BY <1>1 DEF Ring
  <2>2. \A i \in 1..n : s[i] \in Elements
    BY <2>1
  <2>3. \A i \in 1..n : l.inList[s[i]]
    BY <1>1, <2>1, <2>2 DEF Ring
  <2>4. Root \notin Elements /\ NoNode \notin Elements
    BY StorageAssumption
  <2> QED
    BY <2>1, <2>2, <2>3, <2>4
<1>4. Walk(l) = [i \in 1..Cardinality({i \in DOMAIN at : at[i] # NoNode}) |-> at[i]]
  BY DEF Walk
<1>5. C > 0 => ListFront(l) = V(1)
  BY <1>2, FrontBack
<1>6. \A i \in 2..C : V(i) = IF V(i - 1) = NoNode THEN NoNode ELSE NextOf(l, V(i - 1))
  <2> SUFFICES ASSUME NEW i \in 2..C PROVE V(i) = IF V(i - 1) = NoNode THEN NoNode ELSE NextOf(l, V(i - 1))
    OBVIOUS
  <2>1. CASE i - 1 > n
    BY <1>2, <2>1
  <2>2. CASE ~(i - 1 > n)
    <3>1. i - 1 \in 1..n /\ i - 1 \in 0..n /\ (i - 1) + 1 = i /\ V(i - 1) = s[i - 1]
      BY <1>2, <2>2
    <3>2. l.next[Node(s, i - 1)] = Node(s, i)
      BY <1>1, <3>1 DEF Ring
    <3>3. Node(s, i - 1) = s[i - 1]
      BY <1>3, <3>1 DEF Node
    <3>4. l.inList[s[i - 1]] /\ s[i - 1] # NoNode
      BY <1>3, <3>1
    <3>5. CASE i <= n
      <4>1. i \in 1..n
        BY <3>5
      <4>2. Node(s, i) = s[i] /\ s[i] # Root
        BY <1>3, <4>1 DEF Node
      <4> QED
        BY <3>1, <3>2, <3>3, <3>4, <3>5, <4>2 DEF NextOf
    <3>6. CASE ~(i <= n)
      <4>1. Node(s, i) = Root
        BY <1>2, <1>3, <3>6 DEF Node
      <4> QED
        BY <3>1, <3>2, <3>3, <3>4, <3>6, <4>1 DEF NextOf
    <3> QED
      BY <3>5, <3>6
  <2> QED
    BY <2>1, <2>2
<1> HIDE DEF V, C, n, l
<1>7. g = Body(g)
  <2>1. ASSUME NEW i \in 1..C
        PROVE  g[i] = IF i = 1 THEN ListFront(l) ELSE IF g[i - 1] = NoNode THEN NoNode ELSE NextOf(l, g[i - 1])
    <3>1. CASE i = 1
      BY <1>2, <1>5, <3>1
    <3>2. CASE i # 1
      <4>1. i \in 2..C /\ i - 1 \in 1..C
        BY <1>2, <3>2
      <4> QED
        BY <1>6, <3>2, <4>1
    <3> QED
      BY <3>1, <3>2
  <2>2. g = [i \in 1..C |-> g[i]]
    OBVIOUS
  <2> HIDE DEF g
  <2> QED
    BY <2>1, <2>2
<1>8. at = Body(at)
  <2> HIDE DEF Body, g
  <2> QED
    BY <1>7
<1> HIDE DEF at, g
<1>9. /\ DOMAIN at = 1..C
      /\ \A i \in 1..C : at[i] = IF i = 1 THEN ListFront(l) ELSE IF at[i - 1] = NoNode THEN NoNode ELSE NextOf(l, at[i - 1])
  BY <1>8
<1>10. 0 \in S
  BY <1>2
<1>11. ASSUME NEW i \in 0..(C - 1), i \in S PROVE i + 1 \in S
  <2>1. i + 1 \in 1..C /\ i + 1 \in 0..C /\ (i + 1) - 1 = i
    BY <1>2
  <2>2. at[i + 1] = V(i + 1)
    <3>1. CASE i = 0
      <4>1. i + 1 = 1 /\ C > 0
        BY <1>2, <2>1, <3>1
      <4> QED
        BY <1>5, <1>9, <2>1, <4>1
    <3>2. CASE i # 0
      <4>1. i + 1 \in 2..C /\ i + 1 # 1 /\ at[i] = V(i)
        BY <1>2, <1>11, <3>2
      <4> QED
        BY <1>6, <1>9, <2>1, <4>1
    <3> QED
      BY <3>1, <3>2
  <2> QED
    BY <2>1, <2>2
<1>12. \A i \in 0..C : i \in S
  <2> HIDE DEF S
  <2> QED
    BY <1>2, <1>10, <1>11, UpTo, Zenon
<1>13. \A i \in 1..C : at[i] = V(i)
  BY <1>2, <1>12
<1>14. {i \in DOMAIN at : at[i] # NoNode} = 1..n
  <2>1. \A i \in 1..C : V(i) # NoNode <=> i <= n
    BY <1>2, <1>3 DEF V
  <2> QED
    BY <1>2, <1>9, <1>13, <2>1
<1>15. Cardinality(1..n) = n
  <2>1. Cardinality(1..n) = IF 1 > n THEN 0 ELSE n - 1 + 1
    <3>1. 1 \in Int /\ n \in Int
      BY <1>2
    <3> QED
      BY <3>1, FS_Interval
  <2> QED
    BY <1>2, <2>1
<1>16. Walk(l) = [i \in 1..n |-> at[i]]
  BY <1>4, <1>14, <1>15
<1>17. \A i \in 1..n : at[i] = s[i]
  BY <1>2, <1>13 DEF V
<1>18. s = [i \in 1..n |-> s[i]]
  BY <1>3
<1>19. Walk(l) = s
  BY <1>16, <1>17, <1>18
<1> QED
  BY <1>19 DEF l

-----------------------------------------------------------------------------
(* The operators of TaskSequence.                                          *)

\* Concatenation and parts, by position.
LEMMA Concatenated ==
    ASSUME NEW a \in Seq(Nat), NEW b \in Seq(Nat)
    PROVE  /\ a \o b \in Seq(Nat) /\ Len(a \o b) = Len(a) + Len(b)
           /\ \A k \in 1..Len(a) : (a \o b)[k] = a[k]
           /\ \A k \in (Len(a) + 1)..(Len(a) + Len(b)) : (a \o b)[k] = b[k - Len(a)]
  OBVIOUS

LEMMA PartOf ==
    ASSUME NEW a \in Seq(Nat), NEW i \in 1..(Len(a) + 1), NEW j \in 0..Len(a), i <= j + 1
    PROVE  /\ SubSeq(a, i, j) \in Seq(Nat) /\ Len(SubSeq(a, i, j)) = j - i + 1
           /\ \A k \in 1..(j - i + 1) : SubSeq(a, i, j)[k] = a[i + k - 1]
  OBVIOUS

\* Sequences are equal that agree at every position.
LEMMA SameSequence ==
    ASSUME NEW a \in Seq(Nat), NEW b \in Seq(Nat), Len(a) = Len(b), \A k \in 1..Len(a) : a[k] = b[k]
    PROVE  a = b
  OBVIOUS

\* Tasks behind position p.
LEMMA InsertIs ==
    ASSUME NEW q \in Seq(Nat), NEW p \in 0..Len(q), NEW ts \in Seq(Nat)
    PROVE  /\ PartBehind(q, p, ts, Len(ts), Len(ts)) = Abstract!Insert(q, p, ts)
           /\ PartBehind(q, p, ts, Len(ts), Len(ts)) \in Seq(Nat)
<1> DEFINE m == Len(q)
           n == Len(ts)
           V(k) == IF k <= p THEN q[k] ELSE IF k <= p + n THEN ts[n - n + (k - p)] ELSE q[k - n]
           r == [k \in 1..(m + n) |-> V(k)]
           a == SubSeq(q, 1, p)
           c == SubSeq(q, p + 1, m)
           b == a \o ts
           d == b \o c
<1>1. PartBehind(q, p, ts, n, n) = r /\ Abstract!Insert(q, p, ts) = d
  BY DEF PartBehind, Abstract!Insert
<1>2. m \in Nat /\ n \in Nat /\ p \in 0..m
  OBVIOUS
<1>3. r \in Seq(Nat) /\ Len(r) = m + n /\ \A k \in 1..(m + n) : r[k] = V(k)
  <2>1. ASSUME NEW k \in 1..(m + n) PROVE V(k) \in Nat
    <3>1. CASE k <= p
      BY <1>2, <3>1
    <3>2. CASE ~(k <= p) /\ k <= p + n
      <4>1. n - n + (k - p) \in 1..n
        BY <1>2, <3>2
      <4> QED
        BY <3>2, <4>1
    <3>3. CASE ~(k <= p) /\ ~(k <= p + n)
      <4>1. k - n \in 1..m
        BY <1>2, <3>3
      <4> QED
        BY <3>3, <4>1
    <3> QED
      BY <3>1, <3>2, <3>3
  <2> HIDE DEF V, m, n
  <2> QED
    BY <1>2, <2>1
<1>4. a \in Seq(Nat) /\ Len(a) = p /\ \A k \in 1..p : a[k] = q[k]
  <2>1. 1 \in 1..(Len(q) + 1) /\ p \in 0..Len(q) /\ 1 <= p + 1 /\ p - 1 + 1 = p
    BY <1>2
  <2>2. a \in Seq(Nat) /\ Len(a) = p - 1 + 1 /\ \A k \in 1..(p - 1 + 1) : a[k] = q[1 + k - 1]
    BY <2>1, PartOf
  <2> HIDE DEF a
  <2> QED
    BY <2>1, <2>2
<1>5. c \in Seq(Nat) /\ Len(c) = m - p /\ \A k \in 1..(m - p) : c[k] = q[p + k]
  <2>1. p + 1 \in 1..(Len(q) + 1) /\ m \in 0..Len(q) /\ p + 1 <= m + 1 /\ m - (p + 1) + 1 = m - p
    BY <1>2
  <2>2. c \in Seq(Nat) /\ Len(c) = m - (p + 1) + 1 /\ \A k \in 1..(m - (p + 1) + 1) : c[k] = q[(p + 1) + k - 1]
    BY <2>1, PartOf
  <2>3. \A k \in 1..(m - p) : (p + 1) + k - 1 = p + k
    BY <1>2
  <2> HIDE DEF c, m
  <2> QED
    BY <2>1, <2>2, <2>3
<1> HIDE DEF a, c, r
<1>6. /\ b \in Seq(Nat) /\ Len(b) = p + n
      /\ \A k \in 1..p : b[k] = q[k]
      /\ \A k \in (p + 1)..(p + n) : b[k] = ts[k - p]
  <2>1. /\ b \in Seq(Nat) /\ Len(b) = Len(a) + Len(ts)
        /\ \A k \in 1..Len(a) : b[k] = a[k]
        /\ \A k \in (Len(a) + 1)..(Len(a) + Len(ts)) : b[k] = ts[k - Len(a)]
    BY <1>4, Concatenated
  <2> HIDE DEF b
  <2> QED
    BY <1>4, <2>1
<1> HIDE DEF b
<1>7. /\ d \in Seq(Nat) /\ Len(d) = m + n
      /\ \A k \in 1..(p + n) : d[k] = b[k]
      /\ \A k \in (p + n + 1)..(m + n) : d[k] = c[k - (p + n)]
  <2>1. /\ d \in Seq(Nat) /\ Len(d) = Len(b) + Len(c)
        /\ \A k \in 1..Len(b) : d[k] = b[k]
        /\ \A k \in (Len(b) + 1)..(Len(b) + Len(c)) : d[k] = c[k - Len(b)]
    BY <1>5, <1>6, Concatenated
  <2> HIDE DEF d, m, n
  <2>2. Len(b) = p + n /\ Len(b) + Len(c) = m + n
    BY <1>2, <1>5, <1>6
  <2> QED
    BY <2>1, <2>2
<1> HIDE DEF d, m, n
<1>8. ASSUME NEW k \in 1..(m + n) PROVE r[k] = d[k]
  <2>1. CASE k <= p
    <3>1. k \in 1..p /\ k \in 1..(p + n)
      BY <1>2, <2>1
    <3> QED
      BY <1>3, <1>6, <1>7, <2>1, <3>1
  <2>2. CASE k > p /\ k <= p + n
    <3>1. k \in (p + 1)..(p + n) /\ k \in 1..(p + n) /\ ~(k <= p) /\ n - n + (k - p) = k - p
      BY <1>2, <2>2
    <3> QED
      BY <1>3, <1>6, <1>7, <2>2, <3>1
  <2>3. CASE k > p + n
    <3>1. k \in (p + n + 1)..(m + n) /\ k - (p + n) \in 1..(m - p) /\ ~(k <= p) /\ ~(k <= p + n) /\ p + (k - (p + n)) = k - n
      BY <1>2, <2>3
    <3> QED
      BY <1>3, <1>5, <1>7, <3>1
  <2> QED
    BY <1>2, <2>1, <2>2, <2>3
<1>9. r = d
  BY <1>3, <1>7, <1>8, SameSequence
<1> QED
  BY <1>1, <1>3, <1>9 DEF n

\* Tasks in front of all.
LEMMA FrontIs ==
    ASSUME NEW q \in Seq(Nat), NEW ts \in Seq(Nat)
    PROVE  PartBehind(q, 0, ts, Len(ts), Len(ts)) = ts \o q
<1> DEFINE m == Len(q)
           n == Len(ts)
           r == PartBehind(q, 0, ts, n, n)
           d == ts \o q
<1>1. m \in Nat /\ n \in Nat /\ 0 \in 0..Len(q)
  OBVIOUS
<1>2. r \in Seq(Nat)
  BY <1>1, InsertIs
<1>3. r = [k \in 1..(m + n) |-> IF k <= 0 THEN q[k] ELSE IF k <= 0 + n THEN ts[n - n + (k - 0)] ELSE q[k - n]]
  BY DEF PartBehind
<1> HIDE DEF r, m, n
<1>4. Len(r) = m + n
  BY <1>1, <1>3
<1>5. /\ d \in Seq(Nat) /\ Len(d) = n + m
      /\ \A k \in 1..n : d[k] = ts[k]
      /\ \A k \in (n + 1)..(n + m) : d[k] = q[k - n]
  BY Concatenated DEF m, n
<1> HIDE DEF d
<1>6. ASSUME NEW k \in 1..(m + n) PROVE r[k] = d[k]
  <2>1. CASE k <= n
    <3>1. k \in 1..n /\ ~(k <= 0) /\ k <= 0 + n /\ n - n + (k - 0) = k
      BY <1>1, <2>1
    <3> QED
      BY <1>3, <1>5, <3>1
  <2>2. CASE k > n
    <3>1. k \in (n + 1)..(n + m) /\ ~(k <= 0) /\ ~(k <= 0 + n)
      BY <1>1, <2>2
    <3> QED
      BY <1>3, <1>5, <3>1
  <2> QED
    BY <1>1, <2>1, <2>2
<1>7. Len(r) = Len(d)
  BY <1>1, <1>4, <1>5
<1>8. r = d
  BY <1>2, <1>4, <1>5, <1>6, <1>7, SameSequence
<1> QED
  BY <1>8 DEF r, d, n

\* Tasks behind all.
LEMMA LastIs ==
    ASSUME NEW q \in Seq(Nat), NEW ts \in Seq(Nat)
    PROVE  PartLast(q, ts, Len(ts)) = q \o ts
<1> DEFINE m == Len(q)
           n == Len(ts)
           V(k) == IF k <= m THEN q[k] ELSE ts[k - m]
           r == [k \in 1..(m + n) |-> V(k)]
           d == q \o ts
<1>1. PartLast(q, ts, n) = r
  BY DEF PartLast
<1>2. m \in Nat /\ n \in Nat
  OBVIOUS
<1>3. r \in Seq(Nat) /\ Len(r) = m + n /\ \A k \in 1..(m + n) : r[k] = V(k)
  <2>1. \A k \in 1..(m + n) : V(k) \in Nat
    BY <1>2
  <2> HIDE DEF V, m, n
  <2> QED
    BY <1>2, <2>1
<1>4. /\ d \in Seq(Nat) /\ Len(d) = m + n
      /\ \A k \in 1..m : d[k] = q[k]
      /\ \A k \in (m + 1)..(m + n) : d[k] = ts[k - m]
  BY Concatenated
<1> HIDE DEF r, d, m, n
<1>5. ASSUME NEW k \in 1..(m + n) PROVE r[k] = d[k]
  <2>1. CASE k <= m
    <3>1. k \in 1..m
      BY <1>2, <2>1
    <3> QED
      BY <1>3, <1>4, <2>1, <3>1
  <2>2. CASE ~(k <= m)
    <3>1. k \in (m + 1)..(m + n)
      BY <1>2, <2>2
    <3> QED
      BY <1>3, <1>4, <2>2, <3>1
  <2> QED
    BY <2>1, <2>2
<1>6. r = d
  BY <1>3, <1>4, <1>5, SameSequence
<1> QED
  BY <1>1, <1>6 DEF n, d

\* A task taken out.
LEMMA RemovedIs ==
    ASSUME NEW q \in Seq(Nat), NEW i \in 1..Len(q)
    PROVE  /\ RemovedAt(q, i) = SubSeq(q, 1, i - 1) \o SubSeq(q, i + 1, Len(q))
           /\ RemovedAt(q, 1) = Tail(q)
           /\ RemovedAt(q, Len(q)) = SubSeq(q, 1, Len(q) - 1)
           /\ RemovedAt(q, i) \in Seq(Nat)
<1> DEFINE m == Len(q)
<1>1. m \in Nat /\ i \in 1..m /\ 1 \in 1..m /\ m \in 1..m
  OBVIOUS
<1>2. ASSUME NEW j \in 1..m
      PROVE  /\ RemovedAt(q, j) \in Seq(Nat) /\ Len(RemovedAt(q, j)) = m - 1
             /\ \A k \in 1..(j - 1) : RemovedAt(q, j)[k] = q[k]
             /\ \A k \in j..(m - 1) : RemovedAt(q, j)[k] = q[k + 1]
  BY <1>1, RemovedProperties
<1>3. RemovedAt(q, i) = SubSeq(q, 1, i - 1) \o SubSeq(q, i + 1, m)
  <2> DEFINE a == SubSeq(q, 1, i - 1)
             c == SubSeq(q, i + 1, m)
             d == a \o c
             r == RemovedAt(q, i)
  <2>1. a \in Seq(Nat) /\ Len(a) = i - 1 /\ \A k \in 1..(i - 1) : a[k] = q[k]
    <3>1. 1 \in 1..(Len(q) + 1) /\ i - 1 \in 0..Len(q) /\ 1 <= (i - 1) + 1 /\ (i - 1) - 1 + 1 = i - 1
      BY <1>1
    <3>2. a \in Seq(Nat) /\ Len(a) = (i - 1) - 1 + 1 /\ \A k \in 1..((i - 1) - 1 + 1) : a[k] = q[1 + k - 1]
      BY <3>1, PartOf
    <3> HIDE DEF a
    <3> QED
      BY <3>1, <3>2
  <2>2. c \in Seq(Nat) /\ Len(c) = m - i /\ \A k \in 1..(m - i) : c[k] = q[i + k]
    <3>1. i + 1 \in 1..(Len(q) + 1) /\ m \in 0..Len(q) /\ i + 1 <= m + 1 /\ m - (i + 1) + 1 = m - i
      BY <1>1
    <3>2. c \in Seq(Nat) /\ Len(c) = m - (i + 1) + 1 /\ \A k \in 1..(m - (i + 1) + 1) : c[k] = q[(i + 1) + k - 1]
      BY <3>1, PartOf
    <3>3. \A k \in 1..(m - i) : (i + 1) + k - 1 = i + k
      BY <1>1
    <3> HIDE DEF c, m
    <3> QED
      BY <3>1, <3>2, <3>3
  <2> HIDE DEF a, c
  <2>3. /\ d \in Seq(Nat) /\ Len(d) = (i - 1) + (m - i)
        /\ \A k \in 1..(i - 1) : d[k] = a[k]
        /\ \A k \in ((i - 1) + 1)..((i - 1) + (m - i)) : d[k] = c[k - (i - 1)]
    <3>1. /\ d \in Seq(Nat) /\ Len(d) = Len(a) + Len(c)
          /\ \A k \in 1..Len(a) : d[k] = a[k]
          /\ \A k \in (Len(a) + 1)..(Len(a) + Len(c)) : d[k] = c[k - Len(a)]
      BY <2>1, <2>2, Concatenated
    <3> HIDE DEF d, m
    <3> QED
      BY <2>1, <2>2, <3>1
  <2>4. r \in Seq(Nat) /\ Len(r) = m - 1
        /\ (\A k \in 1..(i - 1) : r[k] = q[k])
        /\ (\A k \in i..(m - 1) : r[k] = q[k + 1])
    BY <1>1, <1>2
  <2> HIDE DEF d, r
  <2>5. (i - 1) + (m - i) = m - 1 /\ (i - 1) + 1 = i
    BY <1>1
  <2>6. ASSUME NEW k \in 1..(m - 1) PROVE r[k] = d[k]
    <3>1. CASE k < i
      <4>1. k \in 1..(i - 1)
        BY <1>1, <3>1
      <4> QED
        BY <2>1, <2>3, <2>4, <4>1
    <3>2. CASE ~(k < i)
      <4>1. k \in i..(m - 1) /\ k - (i - 1) \in 1..(m - i) /\ i + (k - (i - 1)) = k + 1
        BY <1>1, <3>2
      <4> QED
        <5>1. r[k] = q[k + 1]
          BY <2>4, <4>1
        <5>2. c[k - (i - 1)] = q[i + (k - (i - 1))]
          BY <2>2, <4>1
        <5>3. d[k] = c[k - (i - 1)]
          BY <2>3, <2>5, <4>1
        <5> QED
          BY <4>1, <5>1, <5>2, <5>3
    <3> QED
      BY <3>1, <3>2
  <2>7. r = d
    BY <2>3, <2>4, <2>5, <2>6, SameSequence
  <2> QED
    BY <2>7 DEF r, d, a, c
<1>4. RemovedAt(q, 1) = Tail(q)
  <2>1. Tail(q) \in Seq(Nat) /\ Len(Tail(q)) = m - 1 /\ \A k \in 1..(m - 1) : Tail(q)[k] = q[k + 1]
    BY <1>1
  <2>2. RemovedAt(q, 1) \in Seq(Nat) /\ Len(RemovedAt(q, 1)) = m - 1 /\ \A k \in 1..(m - 1) : RemovedAt(q, 1)[k] = q[k + 1]
    BY <1>1, <1>2
  <2> QED
    BY <2>1, <2>2, SameSequence
<1>5. RemovedAt(q, m) = SubSeq(q, 1, m - 1)
  <2>1. 1 \in 1..(Len(q) + 1) /\ m - 1 \in 0..Len(q) /\ 1 <= (m - 1) + 1 /\ (m - 1) - 1 + 1 = m - 1
    BY <1>1
  <2> DEFINE a == SubSeq(q, 1, m - 1)
             r == RemovedAt(q, m)
  <2>2. a \in Seq(Nat) /\ Len(a) = (m - 1) - 1 + 1 /\ \A k \in 1..((m - 1) - 1 + 1) : a[k] = q[1 + k - 1]
    BY <2>1, PartOf
  <2>3. r \in Seq(Nat) /\ Len(r) = m - 1 /\ \A k \in 1..(m - 1) : r[k] = q[k]
    BY <1>1, <1>2
  <2> HIDE DEF a, r
  <2>4. \A k \in 1..(m - 1) : a[k] = q[k]
    BY <1>1, <2>1, <2>2
  <2>5. a = r
    BY <1>1, <2>1, <2>2, <2>3, <2>4, SameSequence
  <2> QED
    BY <2>5 DEF a, r
<1>6. RemovedAt(q, i) \in Seq(Nat)
  BY <1>1, <1>2
<1> QED
  BY <1>3, <1>4, <1>5, <1>6

-----------------------------------------------------------------------------
(* The list and the index stand for a sequence of tasks.                   *)

Stands(w, q) == \E s : WorkOK(w, s) /\ q = Tasks(w.l, s)

\* The sequence has tasks once, and is the one that is read from the list.
LEMMA StandsFor ==
    ASSUME NEW w, NEW s, WorkOK(w, s)
    PROVE  LET q == Tasks(w.l, s)
           IN /\ q \in Seq(Nat) /\ Len(q) = Len(s) /\ Len(s) \in Nat /\ s \in Seq(Elements)
              /\ \A i \in 1..Len(s) : q[i] = w.l.value[s[i]] /\ q[i] \in 1..MaxTasks /\ s[i] \in Elements /\ w.l.inList[s[i]]
              /\ \A i, j \in 1..Len(s) : q[i] = q[j] => i = j
              /\ TasksOf(w.l) = q
<1> DEFINE q == Tasks(w.l, s)
           n == Len(s)
<1>1. ListType(w.l) /\ Ring(w.l, s) /\ Values(w.l)
  BY DEF WorkOK
<1>2. s \in Seq(Elements) /\ n \in Nat /\ DOMAIN s = 1..n /\ (\A i, j \in DOMAIN s : s[i] = s[j] => i = j)
  BY <1>1 DEF Ring
<1>3. \A i \in 1..n : s[i] \in Elements /\ w.l.inList[s[i]]
  BY <1>1, <1>2 DEF Ring
<1>4. \A i \in 1..n : w.l.value[s[i]] \in 1..MaxTasks
  <2>1. MaxTasks \in Nat
    BY StorageAssumption
  <2> QED
    BY <1>1, <1>3, <2>1 DEF ListType, Values, Nil
<1>5. q = [i \in 1..n |-> w.l.value[s[i]]]
  BY DEF Tasks
<1> HIDE DEF q, n
<1>6. q \in Seq(Nat) /\ Len(q) = n /\ \A i \in 1..n : q[i] = w.l.value[s[i]]
  <2>1. \A i \in 1..n : w.l.value[s[i]] \in Nat
    BY <1>4
  <2> QED
    BY <1>2, <1>5, <2>1
<1>7. ASSUME NEW i \in 1..n, NEW j \in 1..n, q[i] = q[j] PROVE i = j
  <2>1. w.l.value[s[i]] = w.l.value[s[j]] /\ w.l.value[s[i]] # Nil
    BY <1>4, <1>6, <1>7 DEF Nil
  <2>2. s[i] = s[j]
    BY <1>1, <1>3, <2>1 DEF Values
  <2> QED
    BY <1>2, <2>2
<1>8. TasksOf(w.l) = q
  BY <1>1, TasksOfRing DEF q
<1> QED
  BY <1>2, <1>3, <1>4, <1>6, <1>7, <1>8 DEF q, n

\* The index finds the position of a task, and no other task is in the sequence.
LEMMA IndexPosition ==
    ASSUME NEW w, NEW s, WorkOK(w, s), NEW t
    PROVE  LET q == Tasks(w.l, s)
           IN IF t \in DOMAIN w.ix
              THEN /\ w.ix[t] \in Elements /\ w.l.inList[w.ix[t]] /\ w.l.value[w.ix[t]] = t
                   /\ Abstract!Has(q, t)
                   /\ Abstract!Position(q, t) \in 1..Len(s)
                   /\ s[Abstract!Position(q, t)] = w.ix[t]
              ELSE ~Abstract!Has(q, t)
<1> DEFINE q == Tasks(w.l, s)
<1>1. Ring(w.l, s) /\ Agrees(w)
  BY DEF WorkOK
<1>2. /\ q \in Seq(Nat) /\ Len(q) = Len(s) /\ Len(s) \in Nat /\ s \in Seq(Elements)
      /\ \A i \in 1..Len(s) : q[i] = w.l.value[s[i]] /\ s[i] \in Elements /\ w.l.inList[s[i]]
      /\ \A i, j \in 1..Len(s) : q[i] = q[j] => i = j
  BY StandsFor
<1> HIDE DEF q
<1>3. DOMAIN q = 1..Len(s) /\ DOMAIN s = 1..Len(s)
  BY <1>2
<1>4. ASSUME t \in DOMAIN w.ix
      PROVE  /\ w.ix[t] \in Elements /\ w.l.inList[w.ix[t]] /\ w.l.value[w.ix[t]] = t
             /\ Abstract!Has(q, t)
             /\ Abstract!Position(q, t) \in 1..Len(s)
             /\ s[Abstract!Position(q, t)] = w.ix[t]
  <2>1. w.ix[t] \in Elements /\ w.l.inList[w.ix[t]] /\ w.l.value[w.ix[t]] = t
    BY <1>1, <1>4 DEF Agrees
  <2>2. PICK p \in 1..Len(s) : s[p] = w.ix[t]
    BY <1>1, <1>3, <2>1 DEF Ring
  <2>3. q[p] = t
    BY <1>2, <2>1, <2>2
  <2>4. Abstract!Has(q, t)
    BY <1>3, <2>3 DEF Abstract!Has
  <2>5. Abstract!Position(q, t) = p
    <3>1. \A i \in DOMAIN q : q[i] = t => i = p
      BY <1>2, <1>3, <2>3
    <3> QED
      BY <1>3, <2>3, <3>1 DEF Abstract!Position
  <2> QED
    BY <2>1, <2>2, <2>4, <2>5
<1>5. ASSUME t \notin DOMAIN w.ix PROVE ~Abstract!Has(q, t)
  <2>1. \A i \in 1..Len(s) : q[i] \in DOMAIN w.ix
    BY <1>1, <1>2 DEF Agrees
  <2> QED
    BY <1>3, <1>5, <2>1 DEF Abstract!Has
<1> QED
  BY <1>4, <1>5 DEF q

LEMMA FreshTasks ==
    ASSUME NEW from \in Nat, NEW n \in Nat
    PROVE  NewTasks(from, n) = Abstract!Fresh(from, n) /\ NewTasks(from, n) \in Seq(Nat) /\ Len(NewTasks(from, n)) = n
  BY DEF NewTasks, Abstract!Fresh

\* addFirst.
LEMMA PutFirstStands ==
    ASSUME NEW w, NEW q, Stands(w, q),
           NEW from \in Nat, NEW n \in Nat, from + n <= MaxTasks, \A e \in Elements : w.l.value[e] <= from
    PROVE  /\ Stands(PutFirst(w, NewTasks(from, n)), Abstract!Fresh(from, n) \o q)
           /\ Grown(w.l, PutFirst(w, NewTasks(from, n)).l, from + 1, from + n)
<1> DEFINE ts == NewTasks(from, n)
           w2 == PutFirst(w, ts)
<1>1. PICK s : WorkOK(w, s) /\ q = Tasks(w.l, s)
  BY DEF Stands
<1>2. q \in Seq(Nat) /\ Len(q) = Len(s) /\ Len(s) \in Nat /\ s \in Seq(Elements)
  BY <1>1, StandsFor
<1>3. ts = Abstract!Fresh(from, n) /\ ts \in Seq(Nat) /\ Len(ts) = n
  BY FreshTasks
<1>4. 0 \in 0..Len(s) /\ Node(s, 0) = Root
  BY <1>2 DEF Node
<1>5. w2 = PutBehind(w, ts, Node(s, 0))
  BY <1>4 DEF PutFirst
<1>6. PICK s2 : /\ WorkOK(w2, s2)
                /\ Tasks(w2.l, s2) = PartBehind(q, 0, ts, n, n)
                /\ Grown(w.l, w2.l, from + 1, from + n)
  BY <1>1, <1>4, <1>5, PutBehindOK
<1> HIDE DEF ts, w2
<1>7. PartBehind(q, 0, ts, n, n) = ts \o q
  BY <1>2, <1>3, FrontIs
<1>8. Stands(w2, ts \o q) /\ Grown(w.l, w2.l, from + 1, from + n)
  BY <1>6, <1>7 DEF Stands
<1> QED
  BY <1>3, <1>8 DEF w2, ts

\* addLast.
LEMMA PutLastStands ==
    ASSUME NEW w, NEW q, Stands(w, q),
           NEW from \in Nat, NEW n \in Nat, from + n <= MaxTasks, \A e \in Elements : w.l.value[e] <= from
    PROVE  /\ Stands(PutLast(w, NewTasks(from, n)), q \o Abstract!Fresh(from, n))
           /\ Grown(w.l, PutLast(w, NewTasks(from, n)).l, from + 1, from + n)
<1> DEFINE ts == NewTasks(from, n)
           w2 == PutLast(w, ts)
<1>1. PICK s : WorkOK(w, s) /\ q = Tasks(w.l, s)
  BY DEF Stands
<1>2. q \in Seq(Nat)
  BY <1>1, StandsFor
<1>3. ts = Abstract!Fresh(from, n) /\ ts \in Seq(Nat) /\ Len(ts) = n
  BY FreshTasks
<1>4. PICK s2 : /\ WorkOK(w2, s2)
                /\ Tasks(w2.l, s2) = PartLast(q, ts, n)
                /\ Grown(w.l, w2.l, from + 1, from + n)
  BY <1>1, PutLastOK
<1> HIDE DEF ts, w2
<1>5. PartLast(q, ts, n) = q \o ts
  BY <1>2, <1>3, LastIs
<1>6. Stands(w2, q \o ts) /\ Grown(w.l, w2.l, from + 1, from + n)
  BY <1>4, <1>5 DEF Stands
<1> QED
  BY <1>3, <1>6 DEF w2, ts

\* addAfter, whether the task is queued or not.
LEMMA PutAfterStands ==
    ASSUME NEW w, NEW q, Stands(w, q), NEW t,
           NEW from \in Nat, NEW n \in Nat, from + n <= MaxTasks, \A e \in Elements : w.l.value[e] <= from
    PROVE  /\ Stands(PutAfter(w, t, NewTasks(from, n)), Abstract!After(q, t, Abstract!Fresh(from, n)))
           /\ Grown(w.l, PutAfter(w, t, NewTasks(from, n)).l, from + 1, from + n)
<1> DEFINE ts == NewTasks(from, n)
           w2 == PutAfter(w, t, ts)
           p == Abstract!Position(q, t)
<1>1. PICK s : WorkOK(w, s) /\ q = Tasks(w.l, s)
  BY DEF Stands
<1>2. q \in Seq(Nat) /\ Len(q) = Len(s) /\ Len(s) \in Nat /\ s \in Seq(Elements)
  BY <1>1, StandsFor
<1>3. ts = Abstract!Fresh(from, n) /\ ts \in Seq(Nat) /\ Len(ts) = n
  BY FreshTasks
<1>4. CASE t \notin DOMAIN w.ix
  <2>1. ~Abstract!Has(q, t)
    BY <1>1, <1>4, IndexPosition
  <2>2. w2 = w /\ Abstract!After(q, t, Abstract!Fresh(from, n)) = q
    BY <1>4, <2>1 DEF PutAfter, Abstract!After
  <2>3. Grown(w.l, w.l, from + 1, from + n)
    BY DEF Grown
  <2> QED
    BY <2>2, <2>3
<1>5. CASE t \in DOMAIN w.ix
  <2>1. Abstract!Has(q, t) /\ p \in 1..Len(s) /\ s[p] = w.ix[t] /\ w.l.inList[w.ix[t]]
    BY <1>1, <1>5, IndexPosition
  <2> HIDE DEF p
  <2>2. p \in 0..Len(s) /\ p \in 0..Len(q) /\ Node(s, p) = s[p]
    BY <1>2, <2>1 DEF Node
  <2>3. w2 = PutBehind(w, ts, Node(s, p))
    BY <1>5, <2>1, <2>2 DEF PutAfter
  <2>4. PICK s2 : /\ WorkOK(w2, s2)
                  /\ Tasks(w2.l, s2) = PartBehind(q, p, ts, n, n)
                  /\ Grown(w.l, w2.l, from + 1, from + n)
    BY <1>1, <2>2, <2>3, PutBehindOK
  <2> HIDE DEF ts, w2
  <2>5. PartBehind(q, p, ts, n, n) = Abstract!Insert(q, p, ts)
    BY <1>2, <1>3, <2>2, InsertIs
  <2>6. Abstract!After(q, t, ts) = Abstract!Insert(q, p, ts)
    BY <2>1 DEF Abstract!After, p
  <2>7. Stands(w2, Abstract!After(q, t, ts))
    BY <2>4, <2>5, <2>6 DEF Stands
  <2> QED
    BY <1>3, <2>4, <2>7 DEF w2, ts
<1> QED
  BY <1>4, <1>5

\* addBefore.
LEMMA PutBeforeStands ==
    ASSUME NEW w, NEW q, Stands(w, q), NEW t,
           NEW from \in Nat, from + 1 <= MaxTasks, \A e \in Elements : w.l.value[e] <= from
    PROVE  /\ Stands(PutBefore(w, t, from + 1), Abstract!Before(q, t, Abstract!Fresh(from, 1)))
           /\ Grown(w.l, PutBefore(w, t, from + 1).l, from + 1, from + 1)
<1> DEFINE ts == NewTasks(from, 1)
           w2 == PutBefore(w, t, from + 1)
           p == Abstract!Position(q, t)
<1>1. PICK s : WorkOK(w, s) /\ q = Tasks(w.l, s)
  BY DEF Stands
<1>2. q \in Seq(Nat) /\ Len(q) = Len(s) /\ Len(s) \in Nat /\ s \in Seq(Elements)
  BY <1>1, StandsFor
<1>3. ts = Abstract!Fresh(from, 1) /\ ts \in Seq(Nat) /\ Len(ts) = 1 /\ ts[1] = from + 1
  <2>1. 1 \in Nat
    OBVIOUS
  <2>2. ts[1] = from + 1
    BY DEF NewTasks
  <2> QED
    BY <2>1, <2>2, FreshTasks
<1>4. CASE t \notin DOMAIN w.ix
  <2>1. ~Abstract!Has(q, t)
    BY <1>1, <1>4, IndexPosition
  <2>2. w2 = w /\ Abstract!Before(q, t, Abstract!Fresh(from, 1)) = q
    BY <1>4, <2>1 DEF PutBefore, Abstract!Before
  <2>3. Grown(w.l, w.l, from + 1, from + 1)
    BY DEF Grown
  <2> QED
    BY <2>2, <2>3
<1>5. CASE t \in DOMAIN w.ix
  <2>1. Abstract!Has(q, t) /\ p \in 1..Len(s) /\ s[p] = w.ix[t] /\ w.l.inList[w.ix[t]]
    BY <1>1, <1>5, IndexPosition
  <2> HIDE DEF p
  <2>2. p - 1 \in 0..Len(s) /\ p - 1 \in 0..Len(q) /\ (p - 1) + 1 = p
    BY <1>2, <2>1
  <2>3. w.l.prev[w.ix[t]] = Node(s, p - 1)
    <3>1. Node(s, p) = s[p]
      BY <1>2, <2>1 DEF Node
    <3>2. w.l.prev[Node(s, (p - 1) + 1)] = Node(s, p - 1)
      BY <1>1, <2>2 DEF WorkOK, Ring
    <3> QED
      BY <2>1, <2>2, <3>1, <3>2
  <2>4. w2 = InsertValue(w, from + 1, Node(s, p - 1))
    BY <1>5, <2>1, <2>3 DEF PutBefore
  <2>5. from + 1 \in 1..MaxTasks /\ \A e \in Elements : w.l.value[e] # from + 1
    <3>1. \A e \in Elements : w.l.value[e] \in 0..MaxTasks
      BY <1>1 DEF WorkOK, ListType
    <3> QED
      BY <3>1, StorageAssumption
  <2> DEFINE u == FreshElement(w)
  <2>6. PICK s2 : /\ WorkOK(w2, s2)
                  /\ Tasks(w2.l, s2) = Inserted(q, p - 1, from + 1)
                  /\ u \in Elements /\ w.l.value[u] = Nil
                  /\ w2.l.value = [w.l.value EXCEPT ![u] = from + 1]
    <3> HIDE DEF w2
    <3> QED
      BY <1>1, <2>2, <2>4, <2>5, InsertOK
  <2> HIDE DEF ts, w2, u
  <2>7. Inserted(q, p - 1, from + 1) = PartBehind(q, p - 1, ts, 1, 1)
    <3> DEFINE x == from + 1
               g == p - 1
               V(k) == IF k <= g THEN q[k] ELSE IF k = g + 1 THEN x ELSE q[k - 1]
               W(k) == IF k <= g THEN q[k] ELSE IF k <= g + 1 THEN ts[1 - 1 + (k - g)] ELSE q[k - 1]
    <3>1. Inserted(q, g, x) = [k \in 1..(Len(q) + 1) |-> V(k)] /\ PartBehind(q, g, ts, 1, 1) = [k \in 1..(Len(q) + 1) |-> W(k)]
      BY DEF Inserted, PartBehind
    <3>2. \A k \in 1..(Len(q) + 1) : V(k) = W(k)
      <4>1. g \in Int /\ ts[1] = x
        BY <1>3, <2>2
      <4> HIDE DEF g, x
      <4> QED
        BY <4>1
    <3> HIDE DEF V, W, g, x
    <3>3. Inserted(q, g, x) = PartBehind(q, g, ts, 1, 1)
      BY <3>1, <3>2
    <3> QED
      BY <3>3 DEF g, x
  <2>8. PartBehind(q, p - 1, ts, 1, 1) = Abstract!Insert(q, p - 1, ts)
    <3>1. PartBehind(q, p - 1, ts, Len(ts), Len(ts)) = Abstract!Insert(q, p - 1, ts)
      BY <1>2, <1>3, <2>2, InsertIs
    <3> QED
      BY <1>3, <3>1
  <2>9. Abstract!Before(q, t, ts) = Abstract!Insert(q, p - 1, ts)
    BY <2>1 DEF Abstract!Before, p
  <2>10. Stands(w2, Abstract!Before(q, t, ts))
    BY <2>6, <2>7, <2>8, <2>9 DEF Stands
  <2>11. Grown(w.l, w2.l, from + 1, from + 1)
    <3>1. DOMAIN w.l.value = Elements
      BY <1>1 DEF WorkOK, ListType
    <3>2. from + 1 \in (from + 1)..(from + 1)
      OBVIOUS
    <3> QED
      BY <2>6, <3>1, <3>2 DEF Grown
  <2> QED
    BY <1>3, <2>10, <2>11 DEF w2, ts
<1> QED
  BY <1>4, <1>5

\* removeElement of an element with a task, whether it is still in the list or not.
LEMMA DropStands ==
    ASSUME NEW w, NEW q, Stands(w, q), NEW e \in Elements, w.l.value[e] # Nil
    PROVE  /\ Stands(Drop(w, e), Abstract!Without(q, w.l.value[e]))
           /\ Drop(w, e).l.value = w.l.value
<1> DEFINE t == w.l.value[e]
           w2 == Drop(w, e)
           p == Abstract!Position(q, t)
<1>1. PICK s : WorkOK(w, s) /\ q = Tasks(w.l, s)
  BY DEF Stands
<1>2. /\ q \in Seq(Nat) /\ Len(q) = Len(s) /\ Len(s) \in Nat /\ s \in Seq(Elements)
      /\ \A i \in 1..Len(s) : q[i] = w.l.value[s[i]]
  BY <1>1, StandsFor
<1>3. Values(w.l) /\ Agrees(w)
  BY <1>1 DEF WorkOK
<1>4. CASE w.l.inList[e]
  <2>1. t \in DOMAIN w.ix
    BY <1>3, <1>4 DEF Agrees
  <2>2. Abstract!Has(q, t) /\ p \in 1..Len(s) /\ s[p] = w.ix[t] /\ w.ix[t] \in Elements /\ w.l.value[w.ix[t]] = t
    <3> HIDE DEF t
    <3> QED
      BY <1>1, <2>1, IndexPosition
  <2>3. s[p] = e
    BY <1>3, <2>2 DEF Values
  <2> HIDE DEF p
  <2>4. /\ WorkOK(w2, RemovedAt(s, p))
        /\ Tasks(w2.l, RemovedAt(s, p)) = RemovedAt(q, p)
        /\ w2.l.value = w.l.value
    BY <1>1, <2>2, <2>3, DropOK
  <2>5. RemovedAt(q, p) = SubSeq(q, 1, p - 1) \o SubSeq(q, p + 1, Len(q))
    BY <1>2, <2>2, RemovedIs
  <2>6. Abstract!Without(q, t) = RemovedAt(q, p)
    BY <2>2, <2>5 DEF Abstract!Without, p
  <2> HIDE DEF w2
  <2>7. Stands(w2, Abstract!Without(q, t))
    BY <2>4, <2>6 DEF Stands
  <2> QED
    BY <2>4, <2>7 DEF w2
<1>5. CASE ~w.l.inList[e]
  <2>1. w2.l = w.l /\ w2.ix = w.ix /\ \A i \in DOMAIN s : w.l.value[s[i]] # t
    BY <1>1, <1>5, StaleDrop
  <2>2. ~Abstract!Has(q, t)
    BY <1>2, <2>1 DEF Abstract!Has
  <2>3. Abstract!Without(q, t) = q
    BY <2>2 DEF Abstract!Without
  <2> HIDE DEF w2
  <2>4. WorkOK(w2, s)
    BY <1>1, <2>1 DEF WorkOK, Agrees
  <2>5. Stands(w2, q)
    BY <1>1, <2>1, <2>4 DEF Stands
  <2> QED
    BY <2>1, <2>3, <2>5 DEF w2
<1> QED
  BY <1>4, <1>5

\* remove by id.
LEMMA DropIdStands ==
    ASSUME NEW w, NEW q, Stands(w, q), NEW t
    PROVE  Stands(DropId(w, t), Abstract!Without(q, t)) /\ DropId(w, t).l.value = w.l.value
<1>1. PICK s : WorkOK(w, s) /\ q = Tasks(w.l, s)
  BY DEF Stands
<1>2. CASE t \in DOMAIN w.ix
  <2>1. w.ix[t] \in Elements /\ w.l.inList[w.ix[t]] /\ w.l.value[w.ix[t]] = t
    BY <1>1, <1>2, IndexPosition
  <2>2. w.l.value[w.ix[t]] # Nil
    BY <1>1, <2>1 DEF WorkOK, Values
  <2>3. Stands(Drop(w, w.ix[t]), Abstract!Without(q, t)) /\ Drop(w, w.ix[t]).l.value = w.l.value
    BY <2>1, <2>2, DropStands
  <2> QED
    BY <1>2, <2>3 DEF DropId
<1>3. CASE t \notin DOMAIN w.ix
  <2>1. ~Abstract!Has(q, t)
    BY <1>1, <1>3, IndexPosition
  <2> QED
    BY <1>3, <2>1 DEF DropId, Abstract!Without
<1> QED
  BY <1>2, <1>3

\* The recursion of DropOthers, and that of Kept.
DropsOthers(f, w, elements, keep) ==
    /\ f[0] = w
    /\ \A i \in 1..Len(elements) :
           f[i] = IF w.l.value[elements[i]] \in keep THEN f[i - 1] ELSE Drop(f[i - 1], elements[i])
    /\ DropOthers(w, elements, keep) = f[Len(elements)]

Keeps(f, q, keep) ==
    /\ f[0] = <<>>
    /\ \A i \in 1..Len(q) : f[i] = IF q[i] \in keep THEN Append(f[i - 1], q[i]) ELSE f[i - 1]
    /\ Abstract!Kept(q, keep) = f[Len(q)]

LEMMA DropOthersUnfolds ==
    ASSUME NEW w, NEW elements, Len(elements) \in Nat, NEW keep
    PROVE  \E f : DropsOthers(f, w, elements, keep)
<1> DEFINE n == Len(elements)
           V(i, x) == IF w.l.value[elements[i]] \in keep THEN x ELSE Drop(x, elements[i])
           P(m, f) == f[0] = w /\ \A i \in 1..m : f[i] = V(i, f[i - 1])
           S == {m \in 0..n : \E f : P(m, f)}
           Body(f) == [i \in 0..n |-> IF i = 0 THEN w ELSE V(i, f[i - 1])]
           left == CHOOSE f : f = Body(f)
<1>1. DropOthers(w, elements, keep) = left[n]
  BY DEF DropOthers
<1> HIDE DEF V
<1>2. 0 \in S
  <2>1. P(0, [i \in 0..n |-> w])
    OBVIOUS
  <2>2. \E f : P(0, f)
    <3> HIDE DEF P
    <3> QED
      BY <2>1
  <2> QED
    BY <2>2
<1>3. ASSUME NEW m \in 0..(n - 1), m \in S PROVE m + 1 \in S
  <2>1. PICK f : P(m, f)
    BY <1>3
  <2> DEFINE g == [i \in 0..n |-> IF i <= m THEN f[i] ELSE V(m + 1, f[m])]
  <2>2. m + 1 \in 0..n /\ m \in 0..n
    OBVIOUS
  <2>3. \A i \in 0..m : g[i] = f[i]
    BY <2>2
  <2>4. g[m + 1] = V(m + 1, f[m])
    BY <2>2
  <2> HIDE DEF g
  <2>5. g[0] = w
    BY <2>1, <2>3
  <2>6. ASSUME NEW i \in 1..(m + 1) PROVE g[i] = V(i, g[i - 1])
    <3>1. CASE i = m + 1
      BY <2>3, <2>4, <3>1
    <3>2. CASE i # m + 1
      <4>1. i \in 1..m /\ i \in 0..m /\ i - 1 \in 0..m
        BY <3>2
      <4> QED
        BY <2>1, <2>3, <4>1
    <3> QED
      BY <3>1, <3>2
  <2>7. P(m + 1, g)
    BY <2>5, <2>6
  <2> QED
    BY <2>2, <2>7
<1>4. PICK f : P(n, f)
  <2>1. \A m \in 0..n : m \in S
    <3> HIDE DEF S, n
    <3> QED
      BY <1>2, <1>3, UpTo, Zenon DEF n
  <2>2. n \in 0..n
    OBVIOUS
  <2> QED
    BY <2>1, <2>2
<1>5. \E g : g = Body(g)
  <2> DEFINE g == [i \in 0..n |-> f[i]]
  <2>1. ASSUME NEW i \in 0..n PROVE g[i] = IF i = 0 THEN w ELSE V(i, g[i - 1])
    <3>1. CASE i = 0
      BY <1>4, <3>1
    <3>2. CASE i # 0
      <4>1. i \in 1..n /\ i - 1 \in 0..n
        BY <3>2
      <4> QED
        BY <1>4, <3>2, <4>1
    <3> QED
      BY <3>1, <3>2
  <2>2. g = Body(g)
    <3>1. g = [i \in 0..n |-> g[i]]
      OBVIOUS
    <3> HIDE DEF g
    <3> QED
      BY <2>1, <3>1
  <2> QED
    BY <2>2
<1>6. left = Body(left)
  <2> HIDE DEF Body
  <2> QED
    BY <1>5
<1> HIDE DEF left
<1>7. left[0] = w /\ \A i \in 1..n : left[i] = V(i, left[i - 1])
  BY <1>6
<1> QED
  BY <1>1, <1>7 DEF V, DropsOthers

LEMMA KeptUnfolds ==
    ASSUME NEW q, Len(q) \in Nat, NEW keep
    PROVE  \E f : Keeps(f, q, keep)
<1> DEFINE n == Len(q)
           V(i, x) == IF q[i] \in keep THEN Append(x, q[i]) ELSE x
           P(m, f) == f[0] = <<>> /\ \A i \in 1..m : f[i] = V(i, f[i - 1])
           S == {m \in 0..n : \E f : P(m, f)}
           Body(f) == [i \in 0..n |-> IF i = 0 THEN <<>> ELSE V(i, f[i - 1])]
           kept == CHOOSE f : f = Body(f)
<1>1. Abstract!Kept(q, keep) = kept[n]
  BY DEF Abstract!Kept
<1> HIDE DEF V
<1>2. 0 \in S
  <2>1. P(0, [i \in 0..n |-> <<>>])
    OBVIOUS
  <2>2. \E f : P(0, f)
    <3> HIDE DEF P
    <3> QED
      BY <2>1
  <2> QED
    BY <2>2
<1>3. ASSUME NEW m \in 0..(n - 1), m \in S PROVE m + 1 \in S
  <2>1. PICK f : P(m, f)
    BY <1>3
  <2> DEFINE g == [i \in 0..n |-> IF i <= m THEN f[i] ELSE V(m + 1, f[m])]
  <2>2. m + 1 \in 0..n /\ m \in 0..n
    OBVIOUS
  <2>3. \A i \in 0..m : g[i] = f[i]
    BY <2>2
  <2>4. g[m + 1] = V(m + 1, f[m])
    BY <2>2
  <2> HIDE DEF g
  <2>5. g[0] = <<>>
    BY <2>1, <2>3
  <2>6. ASSUME NEW i \in 1..(m + 1) PROVE g[i] = V(i, g[i - 1])
    <3>1. CASE i = m + 1
      BY <2>3, <2>4, <3>1
    <3>2. CASE i # m + 1
      <4>1. i \in 1..m /\ i \in 0..m /\ i - 1 \in 0..m
        BY <3>2
      <4> QED
        BY <2>1, <2>3, <4>1
    <3> QED
      BY <3>1, <3>2
  <2>7. P(m + 1, g)
    BY <2>5, <2>6
  <2> QED
    BY <2>2, <2>7
<1>4. PICK f : P(n, f)
  <2>1. \A m \in 0..n : m \in S
    <3> HIDE DEF S, n
    <3> QED
      BY <1>2, <1>3, UpTo, Zenon DEF n
  <2>2. n \in 0..n
    OBVIOUS
  <2> QED
    BY <2>1, <2>2
<1>5. \E g : g = Body(g)
  <2> DEFINE g == [i \in 0..n |-> f[i]]
  <2>1. ASSUME NEW i \in 0..n PROVE g[i] = IF i = 0 THEN <<>> ELSE V(i, g[i - 1])
    <3>1. CASE i = 0
      BY <1>4, <3>1
    <3>2. CASE i # 0
      <4>1. i \in 1..n /\ i - 1 \in 0..n
        BY <3>2
      <4> QED
        BY <1>4, <3>2, <4>1
    <3> QED
      BY <3>1, <3>2
  <2>2. g = Body(g)
    <3>1. g = [i \in 0..n |-> g[i]]
      OBVIOUS
    <3> HIDE DEF g
    <3> QED
      BY <2>1, <3>1
  <2> QED
    BY <2>2
<1>6. kept = Body(kept)
  <2> HIDE DEF Body
  <2> QED
    BY <1>5
<1> HIDE DEF kept
<1>7. kept[0] = <<>> /\ \A i \in 1..n : kept[i] = V(i, kept[i - 1])
  BY <1>6
<1> QED
  BY <1>1, <1>7 DEF V, Keeps

\* DeleteFunc: a step either leaves the next element or takes it out, so that behind the
\* kept ones are those not yet visited.
LEMMA DropOthersStands ==
    ASSUME NEW w, NEW s, WorkOK(w, s), NEW keep
    PROVE  /\ Stands(DropOthers(w, s, keep), Abstract!Kept(Tasks(w.l, s), keep))
           /\ DropOthers(w, s, keep).l.value = w.l.value
<1> DEFINE q == Tasks(w.l, s)
           n == Len(s)
           v == w.l.value
<1>1. /\ q \in Seq(Nat) /\ Len(q) = n /\ n \in Nat /\ s \in Seq(Elements)
      /\ \A i \in 1..n : q[i] = v[s[i]]
  BY StandsFor
<1>2. PICK f : /\ f[0] = w
               /\ \A i \in 1..n : f[i] = IF v[s[i]] \in keep THEN f[i - 1] ELSE Drop(f[i - 1], s[i])
               /\ DropOthers(w, s, keep) = f[n]
  <2>1. PICK f : DropsOthers(f, w, s, keep)
    BY <1>1, DropOthersUnfolds
  <2> QED
    BY <2>1 DEF DropsOthers
<1> HIDE DEF q, v
<1>3. PICK g : /\ g[0] = <<>>
               /\ \A i \in 1..n : g[i] = IF q[i] \in keep THEN Append(g[i - 1], q[i]) ELSE g[i - 1]
               /\ Abstract!Kept(q, keep) = g[n]
  <2>1. PICK g : Keeps(g, q, keep)
    BY <1>1, KeptUnfolds
  <2> QED
    BY <1>1, <2>1 DEF Keeps
<1> DEFINE G(x, k, r, i) == /\ WorkOK(x, r) /\ x.l.value = v /\ k \in Seq(Nat)
                            /\ Len(r) = Len(k) + (n - i)
                            /\ \A j \in 1..Len(k) : k[j] = v[r[j]]
                            /\ \A j \in 1..(n - i) : r[Len(k) + j] = s[i + j]
           S == {i \in 0..n : \E r : G(f[i], g[i], r, i)}
<1> HIDE DEF n
<1>4. 0 \in S
  <2>1. <<>> \in Seq(Nat) /\ Len(<<>>) = 0
    OBVIOUS
  <2>2. Len(s) = 0 + (n - 0) /\ \A j \in 1..(n - 0) : s[0 + j] = s[0 + j]
    BY <1>1 DEF n
  <2>3. w.l.value = v
    BY DEF v
  <2>4. G(f[0], g[0], s, 0)
    BY <1>2, <1>3, <2>1, <2>2, <2>3
  <2>5. \E r : G(f[0], g[0], r, 0)
    <3> HIDE DEF G
    <3> QED
      BY <2>4
  <2>6. 0 \in 0..n
    BY <1>1
  <2> HIDE DEF G
  <2> QED
    BY <2>5, <2>6
<1>5. ASSUME NEW i \in 0..(n - 1), i \in S PROVE i + 1 \in S
  <2>1. PICK r : G(f[i], g[i], r, i)
    BY <1>5
  <2> DEFINE x == f[i]
             k == g[i]
             m == Len(k)
             y == f[i + 1]
             h == g[i + 1]
  <2>2. i + 1 \in 1..n /\ i + 1 \in 0..n /\ (i + 1) - 1 = i /\ 1 \in 1..(n - i) /\ n - (i + 1) = (n - i) - 1
    BY <1>1
  <2>3. /\ y = IF v[s[i + 1]] \in keep THEN x ELSE Drop(x, s[i + 1])
        /\ h = IF q[i + 1] \in keep THEN Append(k, q[i + 1]) ELSE k
        /\ q[i + 1] = v[s[i + 1]] /\ q[i + 1] \in Nat
    <3>1. q[i + 1] = v[s[i + 1]] /\ q[i + 1] \in Nat
      BY <1>1, <2>2
    <3> QED
      BY <1>2, <1>3, <2>2, <3>1
  <2>4. /\ WorkOK(x, r) /\ x.l.value = v /\ k \in Seq(Nat)
        /\ Len(r) = m + (n - i)
        /\ \A j \in 1..m : k[j] = v[r[j]]
        /\ \A j \in 1..(n - i) : r[m + j] = s[i + j]
    BY <2>1
  <2> HIDE DEF x, k, y, h
  <2>5. m \in Nat /\ r[m + 1] = s[i + 1]
    BY <2>2, <2>4
  <2>6. CASE q[i + 1] \in keep
    <3>1. y = x /\ h = Append(k, q[i + 1])
      BY <2>3, <2>6
    <3>2. h \in Seq(Nat) /\ Len(h) = m + 1 /\ h[m + 1] = q[i + 1] /\ \A j \in 1..m : h[j] = k[j]
      BY <2>3, <2>4, <3>1
    <3> HIDE DEF m
    <3>3. Len(r) = Len(h) + (n - (i + 1))
      BY <1>1, <2>4, <2>5, <3>2
    <3>4. \A j \in 1..Len(h) : h[j] = v[r[j]]
      <4>1. \A j \in 1..(m + 1) : j \in 1..m \/ j = m + 1
        BY <2>5
      <4> QED
        BY <2>3, <2>4, <2>5, <3>2, <4>1
    <3>5. ASSUME NEW j \in 1..(n - (i + 1)) PROVE r[Len(h) + j] = s[(i + 1) + j]
      <4>1. j + 1 \in 1..(n - i) /\ m + (j + 1) = Len(h) + j /\ i + (j + 1) = (i + 1) + j
        BY <1>1, <2>5, <3>2
      <4>2. r[m + (j + 1)] = s[i + (j + 1)]
        BY <2>4, <4>1
      <4> QED
        BY <4>1, <4>2
    <3>6. G(y, h, r, i + 1)
      BY <2>4, <3>1, <3>2, <3>3, <3>4, <3>5
    <3> HIDE DEF G
    <3> QED
      BY <2>2, <3>6 DEF y, h
  <2>7. CASE q[i + 1] \notin keep
    <3>1. y = Drop(x, r[m + 1]) /\ h = k
      BY <2>3, <2>5, <2>7
    <3> HIDE DEF m
    <3> DEFINE c == m + 1
               d == RemovedAt(r, c)
    <3>2. c \in 1..Len(r) /\ Len(r) \in Nat /\ c = m + 1
      BY <1>1, <2>2, <2>4, <2>5
    <3>3. WorkOK(y, d) /\ y.l.value = v
      <4> HIDE DEF c
      <4>1. y = Drop(x, r[c])
        BY <3>1, <3>2
      <4> QED
        BY <2>4, <3>2, <4>1, DropOK
    <3>4. /\ Len(d) = Len(r) - 1
          /\ \A j \in 1..(c - 1) : d[j] = r[j]
          /\ \A j \in c..(Len(r) - 1) : d[j] = r[j + 1]
      BY <3>2, RemovedProperties
    <3> HIDE DEF c, d
    <3>5. Len(d) = Len(h) + (n - (i + 1)) /\ Len(h) = m
      BY <1>1, <2>4, <2>5, <3>1, <3>4 DEF m
    <3>6. \A j \in 1..Len(h) : h[j] = v[d[j]]
      <4>1. c - 1 = m
        BY <2>5, <3>2
      <4> QED
        BY <2>4, <3>1, <3>4, <3>5, <4>1
    <3>7. ASSUME NEW j \in 1..(n - (i + 1)) PROVE d[Len(h) + j] = s[(i + 1) + j]
      <4>1. j + 1 \in 1..(n - i) /\ i + (j + 1) = (i + 1) + j /\ m + j \in c..(Len(r) - 1) /\ (m + j) + 1 = m + (j + 1)
        BY <1>1, <2>4, <2>5, <3>2
      <4>2. r[m + (j + 1)] = s[i + (j + 1)]
        BY <2>4, <4>1
      <4>3. d[m + j] = r[(m + j) + 1]
        BY <3>4, <4>1
      <4> QED
        BY <3>5, <4>1, <4>2, <4>3
    <3>8. h \in Seq(Nat)
      BY <2>4, <3>1
    <3>9. G(y, h, d, i + 1)
      BY <3>3, <3>5, <3>6, <3>7, <3>8
    <3> HIDE DEF G
    <3> QED
      BY <2>2, <3>9 DEF y, h
  <2> QED
    BY <2>6, <2>7
<1>6. \A i \in 0..n : i \in S
  <2> HIDE DEF S
  <2> QED
    BY <1>1, <1>4, <1>5, UpTo, Zenon
<1>7. PICK r : G(f[n], g[n], r, n)
  <2> HIDE DEF G
  <2>1. n \in 0..n
    BY <1>1
  <2> QED
    BY <1>6, <2>1
<1> DEFINE x == f[n]
           k == g[n]
<1>8. /\ WorkOK(x, r) /\ x.l.value = v /\ k \in Seq(Nat)
      /\ Len(r) = Len(k) + (n - n)
      /\ \A j \in 1..Len(k) : k[j] = v[r[j]]
  BY <1>7
<1> HIDE DEF x, k
<1>9. Tasks(x.l, r) = k
  <2> DEFINE b == Tasks(x.l, r)
  <2>1. b \in Seq(Nat) /\ Len(b) = Len(r) /\ \A j \in 1..Len(r) : b[j] = x.l.value[r[j]]
    BY <1>8, StandsFor
  <2> HIDE DEF b
  <2>2. Len(r) = Len(k)
    BY <1>1, <1>8
  <2>3. k \in Seq(Nat) /\ \A j \in 1..Len(b) : b[j] = k[j]
    BY <1>8, <2>1, <2>2
  <2>4. b = k
    BY <2>1, <2>2, <2>3, SameSequence
  <2> QED
    BY <2>4 DEF b
<1>10. Stands(x, k)
  BY <1>8, <1>9 DEF Stands
<1> QED
  BY <1>2, <1>3, <1>8, <1>10 DEF x, k, q, v

-----------------------------------------------------------------------------
(* The invariant, and the sequence that every call leaves.                 *)

\* What a call finds.
LEMMA Found ==
    ASSUME Inv
    PROVE  /\ Work.l = items /\ Work.ix = idIndex
           /\ Stands(Work, QueuedTasks)
           /\ QueuedTasks \in Seq(Nat)
           /\ \E s : WorkOK(Work, s) /\ QueuedTasks = Tasks(items, s)
           /\ \A e \in Elements : Work.l.value[e] <= minted
           /\ minted \in Nat /\ MaxTasks \in Nat /\ minted <= MaxTasks
<1>1. Work.l = items /\ Work.ix = idIndex
  BY DEF Work
<1>2. PICK s : WorkOK(Work, s)
  BY DEF Inv
<1>3. Tasks(items, s) \in Seq(Nat) /\ TasksOf(items) = Tasks(items, s)
  BY <1>1, <1>2, StandsFor
<1>4. QueuedTasks = Tasks(items, s) /\ Stands(Work, QueuedTasks)
  BY <1>1, <1>2, <1>3 DEF QueuedTasks, Stands
<1>5. MaxTasks \in Nat
  BY StorageAssumption
<1> QED
  BY <1>1, <1>2, <1>3, <1>4, <1>5 DEF Inv

\* Nothing but the list and the index matters.
LEMMA Repacked ==
    ASSUME NEW w, NEW q, Stands(w, q), NEW w2, w2.l = w.l, w2.ix = w.ix
    PROVE  Stands(w2, q)
<1>1. PICK s : WorkOK(w, s) /\ q = Tasks(w.l, s)
  BY DEF Stands
<1>2. WorkOK(w2, s)
  BY <1>1 DEF WorkOK, Agrees
<1> QED
  BY <1>1, <1>2 DEF Stands

\* A call that leaves a list and an index for q, new tasks only in elements without one, and
\* holds on to no other elements than those with a task.
LEMMA Left ==
    ASSUME Inv, NEW w, NEW q, Becomes(w), Stands(w, q),
           minted' \in minted..MaxTasks, Grown(items, w.l, minted + 1, minted'),
           held' \in [Callers -> SUBSET Elements],
           \A c \in Callers : \A e \in held'[c] : items.value[e] # Nil
    PROVE  Inv' /\ QueuedTasks' = q
<1>1. items' = w.l /\ idIndex' = w.ix /\ Work'.l = w.l /\ Work'.ix = w.ix
  BY DEF Becomes, Work
<1>2. Stands(Work', q)
  BY <1>1, Repacked
<1>3. PICK s : WorkOK(Work', s) /\ q = Tasks(w.l, s)
  BY <1>1, <1>2 DEF Stands
<1>4. s \in Seq(Elements) /\ TasksOf(items') = q
  BY <1>1, <1>3, StandsFor
<1>5. QueuedTasks' = q
  BY <1>4 DEF QueuedTasks
<1>6. minted \in Nat /\ MaxTasks \in Nat /\ minted' \in 0..MaxTasks
  BY Found
<1>7. \A e \in Elements : items'.value[e] <= minted'
  <2>1. \A e \in Elements : items.value[e] \in Int /\ items.value[e] <= minted
    <3>1. ListType(items)
      BY DEF Inv, WorkOK, Work
    <3> QED
      BY <3>1 DEF Inv, ListType
  <2> QED
    BY <1>1, <1>6, <2>1 DEF Grown
<1>8. \A c \in Callers : \A e \in held'[c] : items'.value[e] # Nil
  <2>1. ASSUME NEW c \in Callers, NEW e \in held'[c] PROVE items'.value[e] # Nil
    <3>1. e \in Elements /\ items.value[e] # Nil
      OBVIOUS
    <3> QED
      BY <1>1, <3>1 DEF Grown
  <2> QED
    BY <2>1
<1>9. Inv'
  BY <1>3, <1>4, <1>6, <1>7, <1>8 DEF Inv
<1> QED
  BY <1>5, <1>9

\* The same for a call that leaves the collected elements alone.
LEMMA LeftAlone ==
    ASSUME Inv, NEW w, NEW q, Becomes(w), Stands(w, q), UNCHANGED held,
           minted' \in minted..MaxTasks, Grown(items, w.l, minted + 1, minted')
    PROVE  Inv' /\ QueuedTasks' = q
  BY Left DEF Inv

\* A call that makes no task.
LEMMA SameValues ==
    ASSUME NEW l, NEW l2, l2.value = l.value, NEW lo, NEW hi
    PROVE  Grown(l, l2, lo, hi)
  BY DEF Grown

LEMMA InitInv == Init => Inv /\ Abstract!Init
<1> SUFFICES ASSUME Init PROVE Inv /\ Abstract!Init
  OBVIOUS
<1>1. items = EmptyList /\ idIndex = [t \in {} |-> NoNode] /\ held = [c \in Callers |-> {}] /\ minted = 0 /\ answer = <<>>
  BY DEF Init
<1> DEFINE s == <<>>
<1>2. s \in Seq(Elements) /\ Len(s) = 0 /\ DOMAIN s = {}
  OBVIOUS
<1>3. MaxTasks \in Nat /\ Root \notin Elements
  BY StorageAssumption
<1>4. ListType(items)
  <2>1. Root \in Nodes /\ NoNode \in Nodes \cup {NoNode} /\ Nil \in 0..MaxTasks
    BY <1>3 DEF Nodes, Nil
  <2> QED
    BY <1>1, <2>1 DEF ListType, EmptyList
<1>5. Ring(items, s)
  <2>1. items.len = Len(s) /\ \A e \in Elements : ~items.inList[e]
    BY <1>1, <1>2 DEF EmptyList
  <2>2. items.next[Root] = Root /\ items.prev[Root] = Root
    BY <1>1 DEF EmptyList, Nodes
  <2>3. \A i \in 0..Len(s) : items.next[Node(s, i)] = Node(s, i + 1) /\ items.prev[Node(s, i + 1)] = Node(s, i)
    BY <1>2, <2>2 DEF Node
  <2> HIDE DEF s
  <2> QED
    BY <1>2, <2>1, <2>3 DEF Ring
<1>6. Values(items)
  BY <1>1 DEF Values, EmptyList
<1>7. Agrees(Work)
  BY <1>1 DEF Agrees, Work, EmptyList
<1>8. WorkOK(Work, s)
  BY <1>4, <1>5, <1>6, <1>7 DEF WorkOK, Work
<1>9. \A e \in Elements : items.value[e] <= minted
  BY <1>1 DEF EmptyList, Nil
<1>10. Inv
  <2>1. \E r \in Seq(Elements) : WorkOK(Work, r)
    <3> HIDE DEF s
    <3> QED
      BY <1>2, <1>8
  <2>2. minted \in 0..MaxTasks
    BY <1>1, <1>3
  <2>3. held \in [Callers -> SUBSET Elements] /\ \A c \in Callers : \A e \in held[c] : items.value[e] # Nil
    BY <1>1
  <2> QED
    BY <1>9, <2>1, <2>2, <2>3 DEF Inv
<1>11. QueuedTasks = <<>>
  <2>1. TasksOf(items) = Tasks(items, s)
    BY <1>5, TasksOfRing
  <2> QED
    BY <1>2, <2>1 DEF QueuedTasks, Tasks
<1> QED
  BY <1>1, <1>10, <1>11 DEF Abstract!Init

LEMMA AddFirstStep == Inv /\ AddFirst => Inv' /\ Abstract!AddFirst
<1> SUFFICES ASSUME Inv, AddFirst PROVE Inv' /\ Abstract!AddFirst
  OBVIOUS
<1>1. PICK n \in 1..MaxBatch : /\ Mint(n) /\ Becomes(PutFirst(Work, NewTasks(minted, n)))
                               /\ answer' = <<>> /\ UNCHANGED held
  BY DEF AddFirst
<1> DEFINE w == PutFirst(Work, NewTasks(minted, n))
           q == Abstract!Fresh(minted, n) \o QueuedTasks
<1>2. n \in Nat /\ minted \in Nat /\ minted + n <= MaxTasks /\ minted' = minted + n /\ minted' \in minted..MaxTasks
  <2>1. MaxBatch \in Nat /\ MaxTasks \in Nat
    BY StorageAssumption
  <2> QED
    BY <1>1, <2>1, Found DEF Mint
<1>3. Stands(w, q) /\ Grown(items, w.l, minted + 1, minted')
  BY <1>2, Found, PutFirstStands
<1> HIDE DEF w, q
<1>4. Becomes(w)
  BY <1>1 DEF w
<1>5. Inv' /\ QueuedTasks' = q
  BY <1>1, <1>2, <1>3, <1>4, LeftAlone
<1> QED
  BY <1>1, <1>2, <1>5 DEF Abstract!AddFirst, Abstract!Mint, q

LEMMA AddLastStep == Inv /\ AddLast => Inv' /\ Abstract!AddLast
<1> SUFFICES ASSUME Inv, AddLast PROVE Inv' /\ Abstract!AddLast
  OBVIOUS
<1>1. PICK n \in 1..MaxBatch : /\ Mint(n) /\ Becomes(PutLast(Work, NewTasks(minted, n)))
                               /\ answer' = <<>> /\ UNCHANGED held
  BY DEF AddLast
<1> DEFINE w == PutLast(Work, NewTasks(minted, n))
           q == QueuedTasks \o Abstract!Fresh(minted, n)
<1>2. n \in Nat /\ minted \in Nat /\ minted + n <= MaxTasks /\ minted' = minted + n /\ minted' \in minted..MaxTasks
  <2>1. MaxBatch \in Nat /\ MaxTasks \in Nat
    BY StorageAssumption
  <2> QED
    BY <1>1, <2>1, Found DEF Mint
<1>3. Stands(w, q) /\ Grown(items, w.l, minted + 1, minted')
  BY <1>2, Found, PutLastStands
<1> HIDE DEF w, q
<1>4. Becomes(w)
  BY <1>1 DEF w
<1>5. Inv' /\ QueuedTasks' = q
  BY <1>1, <1>2, <1>3, <1>4, LeftAlone
<1> QED
  BY <1>1, <1>2, <1>5 DEF Abstract!AddLast, Abstract!Mint, q

LEMMA AddAfterStep == Inv /\ AddAfter => Inv' /\ Abstract!AddAfter
<1> SUFFICES ASSUME Inv, AddAfter PROVE Inv' /\ Abstract!AddAfter
  OBVIOUS
<1>1. PICK n \in 1..MaxBatch, t \in 1..minted :
          /\ Mint(n) /\ Becomes(PutAfter(Work, t, NewTasks(minted, n)))
          /\ answer' = <<>> /\ UNCHANGED held
  BY DEF AddAfter
<1> DEFINE w == PutAfter(Work, t, NewTasks(minted, n))
           q == Abstract!After(QueuedTasks, t, Abstract!Fresh(minted, n))
<1>2. n \in Nat /\ minted \in Nat /\ minted + n <= MaxTasks /\ minted' = minted + n /\ minted' \in minted..MaxTasks
  <2>1. MaxBatch \in Nat /\ MaxTasks \in Nat
    BY StorageAssumption
  <2> QED
    BY <1>1, <2>1, Found DEF Mint
<1>3. Stands(w, q) /\ Grown(items, w.l, minted + 1, minted')
  BY <1>2, Found, PutAfterStands
<1> HIDE DEF w, q
<1>4. Becomes(w)
  BY <1>1 DEF w
<1>5. Inv' /\ QueuedTasks' = q
  BY <1>1, <1>2, <1>3, <1>4, LeftAlone
<1> QED
  BY <1>1, <1>2, <1>5 DEF Abstract!AddAfter, Abstract!Mint, q

LEMMA AddBeforeStep == Inv /\ AddBefore => Inv' /\ Abstract!AddBefore
<1> SUFFICES ASSUME Inv, AddBefore PROVE Inv' /\ Abstract!AddBefore
  OBVIOUS
<1>1. PICK t \in 1..minted :
          /\ Mint(1) /\ Becomes(PutBefore(Work, t, minted + 1))
          /\ answer' = <<>> /\ UNCHANGED held
  BY DEF AddBefore
<1> DEFINE w == PutBefore(Work, t, minted + 1)
           q == Abstract!Before(QueuedTasks, t, Abstract!Fresh(minted, 1))
<1>2. minted \in Nat /\ minted + 1 <= MaxTasks /\ minted' = minted + 1 /\ minted' \in minted..MaxTasks
  BY <1>1, Found DEF Mint
<1>3. Stands(w, q) /\ Grown(items, w.l, minted + 1, minted')
  BY <1>2, Found, PutBeforeStands
<1> HIDE DEF w, q
<1>4. Becomes(w)
  BY <1>1 DEF w
<1>5. Inv' /\ QueuedTasks' = q
  BY <1>1, <1>2, <1>3, <1>4, LeftAlone
<1> QED
  BY <1>1, <1>2, <1>5 DEF Abstract!AddBefore, Abstract!Mint, q

\* The calls that make no task.
LEMMA NoTaskMade ==
    ASSUME Inv, NEW w, NEW q, Becomes(w), Stands(w, q), UNCHANGED <<held, minted>>, w.l.value = items.value
    PROVE  Inv' /\ QueuedTasks' = q
<1>1. minted' \in minted..MaxTasks
  BY Found
<1>2. Grown(items, w.l, minted + 1, minted')
  BY SameValues
<1> QED
  BY <1>1, <1>2, LeftAlone

\* The first and the last task, and an empty list.
LEMMA Ends ==
    ASSUME Inv, NEW s, WorkOK(Work, s), QueuedTasks = Tasks(items, s)
    PROVE  /\ Len(s) \in Nat /\ items.len = Len(s) /\ items.len = Len(QueuedTasks)
           /\ Len(s) = 0 => /\ QueuedTasks = <<>>
                            /\ Value(ListFront(items)) = Nil /\ Value(ListBack(items)) = Nil
           /\ Len(s) > 0 => /\ QueuedTasks # <<>>
                            /\ ListFront(items) = s[1] /\ ListBack(items) = s[Len(s)]
                            /\ Value(ListFront(items)) = QueuedTasks[1]
                            /\ Value(ListBack(items)) = QueuedTasks[Len(s)]
           /\ Abstract!First(QueuedTasks) = Value(ListFront(items))
           /\ Abstract!Final(QueuedTasks) = Value(ListBack(items))
<1> DEFINE q == QueuedTasks
<1>1. Work.l = items
  BY Found
<1>2. /\ q \in Seq(Nat) /\ Len(q) = Len(s) /\ Len(s) \in Nat
      /\ \A i \in 1..Len(s) : q[i] = items.value[s[i]]
  BY <1>1, StandsFor
<1>3. /\ items.len = Len(s)
      /\ Len(s) = 0 => ListFront(items) = NoNode /\ ListBack(items) = NoNode
      /\ Len(s) > 0 => /\ ListFront(items) = s[1] /\ ListBack(items) = s[Len(s)]
                       /\ s[1] # NoNode /\ s[Len(s)] # NoNode
  BY <1>1, FrontBack
<1> HIDE DEF q
<1>4. ASSUME Len(s) = 0 PROVE q = <<>> /\ Value(ListFront(items)) = Nil /\ Value(ListBack(items)) = Nil
  BY <1>2, <1>3, <1>4 DEF Value
<1>5. ASSUME Len(s) > 0
      PROVE  q # <<>> /\ Value(ListFront(items)) = q[1] /\ Value(ListBack(items)) = q[Len(s)]
  <2>1. 1 \in 1..Len(s) /\ Len(s) \in 1..Len(s)
    BY <1>2, <1>5
  <2> QED
    BY <1>2, <1>3, <1>5, <2>1 DEF Value
<1>6. Abstract!First(q) = Value(ListFront(items)) /\ Abstract!Final(q) = Value(ListBack(items))
  <2>1. CASE Len(s) = 0
    BY <1>4, <2>1 DEF Abstract!First, Abstract!Final, Abstract!Nil, Nil
  <2>2. CASE Len(s) > 0
    <3>1. Head(q) = q[1]
      BY <1>2, <1>5, <2>2
    <3> QED
      BY <1>2, <1>5, <2>2, <3>1 DEF Abstract!First, Abstract!Final
  <2> QED
    BY <1>2, <2>1, <2>2
<1> QED
  BY <1>2, <1>3, <1>4, <1>5, <1>6 DEF q

\* Removal of the task at a position.
LEMMA DropAt ==
    ASSUME Inv, NEW s, WorkOK(Work, s), QueuedTasks = Tasks(items, s), NEW i \in 1..Len(s)
    PROVE  /\ Stands(Drop(Work, s[i]), RemovedAt(QueuedTasks, i))
           /\ Drop(Work, s[i]).l.value = items.value
  BY Found, DropOK DEF Stands

LEMMA RemoveFirstStep == Inv /\ RemoveFirst => Inv' /\ Abstract!RemoveFirst
<1> SUFFICES ASSUME Inv, RemoveFirst PROVE Inv' /\ Abstract!RemoveFirst
  OBVIOUS
<1> DEFINE q == QueuedTasks
<1>1. /\ IF items.len > 0 THEN Becomes(Drop(Work, ListFront(items))) ELSE Becomes(Work)
      /\ answer' = <<Value(ListFront(items))>>
      /\ UNCHANGED <<held, minted>>
  BY DEF RemoveFirst
<1>2. PICK s : WorkOK(Work, s) /\ q = Tasks(items, s)
  BY Found
<1>3. /\ Len(s) \in Nat /\ items.len = Len(s) /\ Len(q) = Len(s)
      /\ Len(s) = 0 => q = <<>>
      /\ Len(s) > 0 => q # <<>> /\ ListFront(items) = s[1]
      /\ Abstract!First(q) = Value(ListFront(items))
  BY <1>2, Ends
<1>4. q \in Seq(Nat) /\ Stands(Work, q) /\ Work.l = items
  BY Found
<1> HIDE DEF q
<1>5. Inv' /\ QueuedTasks' = (IF q = <<>> THEN q ELSE Tail(q))
  <2>1. CASE Len(s) = 0
    <3>1. Becomes(Work) /\ q = <<>>
      BY <1>1, <1>3, <2>1
    <3>2. Inv' /\ QueuedTasks' = q
      BY <1>1, <1>4, <3>1, NoTaskMade
    <3> QED
      BY <3>1, <3>2
  <2>2. CASE Len(s) > 0
    <3> DEFINE w == Drop(Work, s[1])
    <3>1. 1 \in 1..Len(s) /\ Becomes(w) /\ q # <<>>
      BY <1>1, <1>3, <2>2
    <3>2. Stands(w, RemovedAt(q, 1)) /\ w.l.value = items.value
      BY <1>2, <3>1, DropAt DEF q
    <3>3. RemovedAt(q, 1) = Tail(q)
      <4>1. 1 \in 1..Len(q)
        BY <1>3, <3>1
      <4> QED
        BY <1>4, <4>1, RemovedIs
    <3> HIDE DEF w
    <3>4. Inv' /\ QueuedTasks' = Tail(q)
      BY <1>1, <3>1, <3>2, <3>3, NoTaskMade
    <3> QED
      BY <3>1, <3>4
  <2> QED
    BY <1>3, <2>1, <2>2
<1> QED
  BY <1>1, <1>3, <1>5 DEF Abstract!RemoveFirst, q

LEMMA RemoveLastStep == Inv /\ RemoveLast => Inv' /\ Abstract!RemoveLast
<1> SUFFICES ASSUME Inv, RemoveLast PROVE Inv' /\ Abstract!RemoveLast
  OBVIOUS
<1> DEFINE q == QueuedTasks
<1>1. /\ IF items.len > 0 THEN Becomes(Drop(Work, ListBack(items))) ELSE Becomes(Work)
      /\ answer' = <<Value(ListBack(items))>>
      /\ UNCHANGED <<held, minted>>
  BY DEF RemoveLast
<1>2. PICK s : WorkOK(Work, s) /\ q = Tasks(items, s)
  BY Found
<1>3. /\ Len(s) \in Nat /\ items.len = Len(s) /\ Len(q) = Len(s)
      /\ Len(s) = 0 => q = <<>>
      /\ Len(s) > 0 => q # <<>> /\ ListBack(items) = s[Len(s)]
      /\ Abstract!Final(q) = Value(ListBack(items))
  BY <1>2, Ends
<1>4. q \in Seq(Nat) /\ Stands(Work, q) /\ Work.l = items
  BY Found
<1> HIDE DEF q
<1>5. Inv' /\ QueuedTasks' = (IF q = <<>> THEN q ELSE SubSeq(q, 1, Len(q) - 1))
  <2>1. CASE Len(s) = 0
    <3>1. Becomes(Work) /\ q = <<>>
      BY <1>1, <1>3, <2>1
    <3>2. Inv' /\ QueuedTasks' = q
      BY <1>1, <1>4, <3>1, NoTaskMade
    <3> QED
      BY <3>1, <3>2
  <2>2. CASE Len(s) > 0
    <3> DEFINE n == Len(s)
               w == Drop(Work, s[n])
    <3>1. n \in 1..Len(s) /\ Becomes(w) /\ q # <<>> /\ n \in 1..Len(q) /\ n = Len(q)
      BY <1>1, <1>3, <2>2
    <3> HIDE DEF n
    <3>2. Stands(w, RemovedAt(q, n)) /\ w.l.value = items.value
      BY <1>2, <3>1, DropAt DEF q
    <3>3. RemovedAt(q, n) = SubSeq(q, 1, Len(q) - 1)
      BY <1>4, <3>1, RemovedIs
    <3> HIDE DEF w
    <3>4. Inv' /\ QueuedTasks' = SubSeq(q, 1, Len(q) - 1)
      BY <1>1, <3>1, <3>2, <3>3, NoTaskMade
    <3> QED
      BY <3>1, <3>4
  <2> QED
    BY <1>3, <2>1, <2>2
<1> QED
  BY <1>1, <1>3, <1>5 DEF Abstract!RemoveLast, q

\* What Remove and Get answer.
LEMMA Looked ==
    ASSUME Inv, NEW t
    PROVE  (IF t \in DOMAIN idIndex THEN items.value[idIndex[t]] ELSE Nil)
               = (IF Abstract!Has(QueuedTasks, t) THEN t ELSE Abstract!Nil)
<1>1. PICK s : WorkOK(Work, s) /\ QueuedTasks = Tasks(items, s)
  BY Found
<1>2. Work.l = items /\ Work.ix = idIndex
  BY Found
<1>3. IF t \in DOMAIN idIndex THEN items.value[idIndex[t]] = t /\ Abstract!Has(QueuedTasks, t) ELSE ~Abstract!Has(QueuedTasks, t)
  BY <1>1, <1>2, IndexPosition
<1> QED
  BY <1>3 DEF Nil, Abstract!Nil

LEMMA RemoveStep == Inv /\ Remove => Inv' /\ Abstract!Remove
<1> SUFFICES ASSUME Inv, Remove PROVE Inv' /\ Abstract!Remove
  OBVIOUS
<1>1. PICK t \in 1..minted : /\ Becomes(DropId(Work, t))
                             /\ answer' = <<IF t \in DOMAIN idIndex THEN items.value[idIndex[t]] ELSE Nil>>
                             /\ UNCHANGED <<held, minted>>
  BY DEF Remove
<1>2. Stands(DropId(Work, t), Abstract!Without(QueuedTasks, t)) /\ DropId(Work, t).l.value = items.value
  BY Found, DropIdStands
<1>3. Inv' /\ QueuedTasks' = Abstract!Without(QueuedTasks, t)
  BY <1>1, <1>2, NoTaskMade
<1>4. answer' = <<IF Abstract!Has(QueuedTasks, t) THEN t ELSE Abstract!Nil>>
  BY <1>1, Looked
<1> QED
  BY <1>1, <1>3, <1>4 DEF Abstract!Remove

LEMMA DeleteFuncStep == Inv /\ DeleteFunc => Inv' /\ Abstract!DeleteFunc
<1> SUFFICES ASSUME Inv, DeleteFunc PROVE Inv' /\ Abstract!DeleteFunc
  OBVIOUS
<1>1. PICK keep \in SUBSET (1..minted) : /\ Becomes(DropOthers(Work, Walk(items), keep))
                                         /\ answer' = <<>>
                                         /\ UNCHANGED <<held, minted>>
  BY DEF DeleteFunc
<1>2. PICK s : WorkOK(Work, s) /\ QueuedTasks = Tasks(items, s)
  BY Found
<1>3. Work.l = items
  BY Found
<1>4. Walk(items) = s
  BY <1>2, <1>3, WalkRing
<1> DEFINE w == DropOthers(Work, s, keep)
<1>5. Becomes(w) /\ Stands(w, Abstract!Kept(QueuedTasks, keep)) /\ w.l.value = items.value
  BY <1>1, <1>2, <1>3, <1>4, DropOthersStands
<1> HIDE DEF w
<1>6. Inv' /\ QueuedTasks' = Abstract!Kept(QueuedTasks, keep)
  BY <1>1, <1>5, NoTaskMade
<1> QED
  BY <1>1, <1>6 DEF Abstract!DeleteFunc

\* New tasks in two calls, one after the other.
LEMMA GrownTwice ==
    ASSUME NEW l, NEW l2, NEW l3, NEW m \in Nat, NEW b \in Nat, NEW c \in Nat, m <= b, b <= c,
           Grown(l, l2, m + 1, b), Grown(l2, l3, b + 1, c),
           \A e \in Elements : l.value[e] \in Int /\ l.value[e] <= m
    PROVE  Grown(l, l3, m + 1, c) /\ \A e \in Elements : l3.value[e] \in Int /\ l3.value[e] <= c
<1> SUFFICES ASSUME NEW e \in Elements
             PROVE  /\ l3.value[e] = l.value[e] \/ (l.value[e] = Nil /\ l3.value[e] \in (m + 1)..c)
                    /\ l3.value[e] \in Int /\ l3.value[e] <= c
  BY DEF Grown
<1>1. l2.value[e] = l.value[e] \/ (l.value[e] = Nil /\ l2.value[e] \in (m + 1)..b)
  BY DEF Grown
<1>2. l3.value[e] = l2.value[e] \/ (l2.value[e] = Nil /\ l3.value[e] \in (b + 1)..c)
  BY DEF Grown
<1>3. l.value[e] \in Int /\ l.value[e] <= m
  OBVIOUS
<1> QED
  BY <1>1, <1>2, <1>3 DEF Nil

LEMMA ProcessResultStep == Inv /\ ProcessResult => Inv' /\ Abstract!ProcessResult
<1> SUFFICES ASSUME Inv, ProcessResult PROVE Inv' /\ Abstract!ProcessResult
  OBVIOUS
<1> DEFINE W1(t, a) == PutAfter(Work, t, NewTasks(minted, a))
           W2(t, done, a) == IF done THEN DropId(W1(t, a), t) ELSE W1(t, a)
           W3(t, done, a, h) == PutFirst(W2(t, done, a), NewTasks(minted + a, h))
           W4(t, done, a, h, l) == PutLast(W3(t, done, a, h), NewTasks(minted + a + h, l))
<1>1. PICK t \in 1..minted, done \in BOOLEAN, a \in 0..1, h \in 0..1, l \in 0..1 :
          Mint(a + h + l) /\ Becomes(W4(t, done, a, h, l)) /\ answer' = <<>> /\ UNCHANGED held
  BY DEF ProcessResult
<1> DEFINE w1 == W1(t, a)
           w2 == W2(t, done, a)
           w3 == W3(t, done, a, h)
           w4 == W4(t, done, a, h, l)
           f == Abstract!After(QueuedTasks, t, Abstract!Fresh(minted, a))
           g == IF done THEN Abstract!Without(f, t) ELSE f
           q3 == Abstract!Fresh(minted + a, h) \o g
           q4 == q3 \o Abstract!Fresh(minted + a + h, l)
           m1 == minted + a
           m3 == m1 + h
           m4 == m3 + l
<1>2. /\ minted \in Nat /\ m1 \in Nat /\ m3 \in Nat /\ m4 \in Nat /\ a \in Nat /\ h \in Nat /\ l \in Nat
      /\ minted <= m1 /\ m1 <= m3 /\ m3 <= m4 /\ m1 <= MaxTasks /\ m3 <= MaxTasks /\ m4 <= MaxTasks
      /\ minted' = m4 /\ minted' \in minted..MaxTasks
  <2>1. minted + (a + h + l) <= MaxTasks /\ minted' = minted + (a + h + l)
    BY <1>1 DEF Mint
  <2>2. minted \in Nat /\ MaxTasks \in Nat
    BY Found
  <2> QED
    BY <2>1, <2>2
<1>3. \A e \in Elements : items.value[e] \in Int /\ items.value[e] <= minted
  <2>1. ListType(items)
    BY DEF Inv, WorkOK, Work
  <2> QED
    BY <2>1 DEF Inv, ListType
<1>4. Stands(w1, f) /\ Grown(items, w1.l, minted + 1, m1)
  BY <1>2, Found, PutAfterStands
<1> HIDE DEF f, w1, W1
<1>5. Stands(w2, g) /\ w2.l.value = w1.l.value
  <2>1. CASE done
    <3>1. w2 = DropId(w1, t) /\ g = Abstract!Without(f, t)
      BY <2>1 DEF w1
    <3> QED
      BY <1>4, <3>1, DropIdStands
  <2>2. CASE ~done
    <3>1. w2 = w1 /\ g = f
      BY <2>2 DEF w1
    <3> QED
      BY <1>4, <3>1
  <2> QED
    BY <2>1, <2>2
<1> HIDE DEF g, w2, W2
<1>6. \A e \in Elements : w2.l.value[e] \in Int /\ w2.l.value[e] <= m1
  <2>1. \A e \in Elements : w1.l.value[e] = items.value[e] \/ w1.l.value[e] \in (minted + 1)..m1
    BY <1>4 DEF Grown
  <2> HIDE DEF m1
  <2> QED
    BY <1>2, <1>3, <1>5, <2>1
<1>7. Grown(items, w2.l, minted + 1, m1)
  BY <1>4, <1>5 DEF Grown
<1>8. Stands(w3, q3) /\ Grown(w2.l, w3.l, m1 + 1, m3)
  <2>1. w3 = PutFirst(w2, NewTasks(m1, h)) /\ q3 = Abstract!Fresh(m1, h) \o g
    BY DEF w2
  <2> HIDE DEF m1, w3, q3
  <2> QED
    BY <1>2, <1>5, <1>6, <2>1, PutFirstStands
<1> HIDE DEF w3, W3, q3
<1>9. Grown(items, w3.l, minted + 1, m3) /\ \A e \in Elements : w3.l.value[e] \in Int /\ w3.l.value[e] <= m3
  <2> HIDE DEF m1, m3
  <2> QED
    BY <1>2, <1>3, <1>7, <1>8, GrownTwice
<1>10. Stands(w4, q4) /\ Grown(w3.l, w4.l, m3 + 1, m4)
  <2>1. w4 = PutLast(w3, NewTasks(m3, l)) /\ q4 = q3 \o Abstract!Fresh(m3, l)
    BY DEF w3
  <2> HIDE DEF m1, m3, w4, q4
  <2> QED
    BY <1>2, <1>8, <1>9, <2>1, PutLastStands DEF m4
<1>11. Becomes(w4)
  BY <1>1
<1> HIDE DEF w4, W4, q4
<1>12. Grown(items, w4.l, minted + 1, minted')
  <2> HIDE DEF m1, m3, m4
  <2>1. minted \in Nat /\ m3 \in Nat /\ m4 \in Nat /\ minted <= m3 /\ m3 <= m4
    BY <1>2
  <2>2. Grown(items, w3.l, minted + 1, m3) /\ Grown(w3.l, w4.l, m3 + 1, m4)
    BY <1>9, <1>10
  <2> DEFINE l3 == w3.l
             l4 == w4.l
  <2> HIDE DEF l3, l4
  <2>3. Grown(items, l4, minted + 1, m4)
    BY <1>3, <2>1, <2>2, GrownTwice DEF l3, l4
  <2> QED
    BY <1>2, <2>3 DEF l4
<1>13. Inv' /\ QueuedTasks' = q4
  BY <1>1, <1>2, <1>10, <1>11, <1>12, LeftAlone
<1>14. minted + (a + h + l) <= MaxTasks /\ minted' = minted + (a + h + l)
  BY <1>1 DEF Mint
<1>15. QueuedTasks' = Abstract!Fresh(minted + a, h) \o g \o Abstract!Fresh(minted + a + h, l)
  BY <1>13 DEF q4, q3
<1>16. \E t_1 \in 1..minted, done_1 \in BOOLEAN, a_1 \in 0..1, h_1 \in 0..1, l_1 \in 0..1 :
          LET followed == Abstract!After(QueuedTasks, t_1, Abstract!Fresh(minted, a_1))
              left == IF done_1 THEN Abstract!Without(followed, t_1) ELSE followed
          IN /\ minted + (a_1 + h_1 + l_1) <= MaxTasks /\ minted' = minted + (a_1 + h_1 + l_1)
             /\ QueuedTasks' = Abstract!Fresh(minted + a_1, h_1) \o left \o Abstract!Fresh(minted + a_1 + h_1, l_1)
             /\ answer' = <<>>
  BY <1>1, <1>14, <1>15 DEF g, f
<1> QED
  BY <1>13, <1>16 DEF Abstract!ProcessResult, Abstract!Mint

\* Collecting elements, and letting go of them, is no step of the sequence.
LEMMA IterateStep ==
    ASSUME NEW c \in Callers
    PROVE  Inv /\ (Iterate(c) \/ Forget(c)) => Inv' /\ UNCHANGED Abstract!vars
<1> SUFFICES ASSUME Inv, Iterate(c) \/ Forget(c) PROVE Inv' /\ UNCHANGED Abstract!vars
  OBVIOUS
<1>1. UNCHANGED <<items, idIndex, minted, answer>>
  BY DEF Iterate, Forget
<1>2. PICK s : WorkOK(Work, s) /\ QueuedTasks = Tasks(items, s)
  BY Found
<1>3. Work.l = items
  BY Found
<1>4. Walk(items) = s
  BY <1>2, <1>3, WalkRing
<1>5. DOMAIN s = 1..Len(s) /\ \A i \in 1..Len(s) : s[i] \in Elements /\ items.value[s[i]] # Nil
  <2>1. s \in Seq(Elements) /\ \A i \in 1..Len(s) : s[i] \in Elements /\ items.inList[s[i]]
    BY <1>2, <1>3, StandsFor
  <2>2. Values(items)
    BY <1>2, <1>3 DEF WorkOK
  <2> QED
    BY <2>1, <2>2 DEF Values
<1>6. \E S : /\ held' = [held EXCEPT ![c] = S] /\ S \subseteq Elements
             /\ \A e \in S : items.value[e] # Nil
  <2>1. CASE Iterate(c)
    <3> DEFINE K == {s[i] : i \in DOMAIN s}
    <3>1. \E S \in (SUBSET {Walk(items)[i] : i \in DOMAIN Walk(items)}) \ {{}} : held' = [held EXCEPT ![c] = S]
      BY <2>1 DEF Iterate
    <3>2. {Walk(items)[i] : i \in DOMAIN Walk(items)} = K
      BY <1>4
    <3>3. PICK S \in (SUBSET K) \ {{}} : held' = [held EXCEPT ![c] = S]
      <4> HIDE DEF K
      <4> QED
        BY <3>1, <3>2
    <3>4. \A e \in K : e \in Elements /\ items.value[e] # Nil
      BY <1>5
    <3> HIDE DEF K
    <3>5. S \subseteq Elements /\ \A e \in S : items.value[e] # Nil
      BY <3>3, <3>4
    <3> QED
      BY <3>3, <3>5, Zenon
  <2>2. CASE Forget(c)
    <3> DEFINE S == {}
    <3>1. held' = [held EXCEPT ![c] = S]
      BY <2>2 DEF Forget
    <3>2. S \subseteq Elements /\ \A e \in S : items.value[e] # Nil
      OBVIOUS
    <3> HIDE DEF S
    <3> QED
      BY <3>1, <3>2, Zenon
  <2> QED
    BY <2>1, <2>2
<1>7. held' \in [Callers -> SUBSET Elements] /\ \A d \in Callers : \A e \in held'[d] : items.value[e] # Nil
  BY <1>6 DEF Inv
<1>8. Work' = Work /\ QueuedTasks' = QueuedTasks
  BY <1>1 DEF Work, QueuedTasks
<1>9. Inv'
  BY <1>1, <1>7, <1>8 DEF Inv
<1> QED
  BY <1>1, <1>8, <1>9 DEF Abstract!vars

\* A collected element, which may have left the list since.
LEMMA RemoveElementStep ==
    ASSUME NEW c \in Callers
    PROVE  Inv /\ RemoveElement(c) => Inv' /\ Abstract!RemoveElement
<1> SUFFICES ASSUME Inv, RemoveElement(c) PROVE Inv' /\ Abstract!RemoveElement
  OBVIOUS
<1>1. PICK e \in held[c] : /\ Becomes(Drop(Work, e)) /\ answer' = <<items.value[e]>>
                           /\ held' = [held EXCEPT ![c] = @ \ {e}] /\ UNCHANGED minted
  BY DEF RemoveElement
<1> DEFINE t == items.value[e]
           w == Drop(Work, e)
           q == Abstract!Without(QueuedTasks, t)
<1>2. e \in Elements /\ t # Nil /\ t <= minted
  BY DEF Inv
<1>3. t \in 1..minted
  <2>1. t \in 0..MaxTasks
    BY <1>2 DEF Inv, WorkOK, Work, ListType
  <2> QED
    BY <1>2, <2>1, Found DEF Nil
<1>4. Stands(w, q) /\ w.l.value = items.value
  BY <1>2, Found, DropStands
<1>5. held' \in [Callers -> SUBSET Elements] /\ \A d \in Callers : \A f \in held'[d] : items.value[f] # Nil
  BY <1>1 DEF Inv
<1>6. minted' \in minted..MaxTasks
  BY <1>1, Found
<1> HIDE DEF w, q
<1>7. Becomes(w) /\ Grown(items, w.l, minted + 1, minted')
  BY <1>1, <1>4, SameValues DEF w
<1>8. Inv' /\ QueuedTasks' = q
  BY <1>4, <1>5, <1>6, <1>7, Left
<1> QED
  BY <1>1, <1>3, <1>8 DEF Abstract!RemoveElement, q

LEMMA ReadStep == Inv /\ Read => Inv' /\ Abstract!Read
<1> SUFFICES ASSUME Inv, Read PROVE Inv' /\ Abstract!Read
  OBVIOUS
<1>1. UNCHANGED <<items, idIndex, held, minted>>
  BY DEF Read
<1>2. Work' = Work /\ QueuedTasks' = QueuedTasks
  BY <1>1 DEF Work, QueuedTasks
<1>3. Inv'
  BY <1>1, <1>2 DEF Inv
<1>4. PICK s : WorkOK(Work, s) /\ QueuedTasks = Tasks(items, s)
  BY Found
<1>5. /\ items.len = Len(QueuedTasks)
      /\ Abstract!First(QueuedTasks) = Value(ListFront(items))
      /\ Abstract!Final(QueuedTasks) = Value(ListBack(items))
  BY <1>4, Ends
<1>6. CASE Length
  BY <1>1, <1>2, <1>3, <1>5, <1>6 DEF Length, Abstract!Read
<1>7. CASE GetFirst
  BY <1>1, <1>2, <1>3, <1>5, <1>7 DEF GetFirst, Abstract!Read
<1>8. CASE GetLast
  BY <1>1, <1>2, <1>3, <1>5, <1>8 DEF GetLast, Abstract!Read
<1>9. CASE Get
  <2>1. PICK t \in 1..minted : answer' = <<IF t \in DOMAIN idIndex THEN items.value[idIndex[t]] ELSE Nil>>
    BY <1>9 DEF Get
  <2>2. answer' = <<IF Abstract!Has(QueuedTasks, t) THEN t ELSE Abstract!Nil>>
    BY <2>1, Looked
  <2> QED
    BY <1>1, <1>2, <1>3, <2>2 DEF Abstract!Read
<1>10. CASE GetSnapshot
  <2>1. Work.l = items
    BY Found
  <2>2. Walk(items) = s /\ DOMAIN s = 1..Len(s)
    <3>1. s \in Seq(Elements)
      BY <1>4, StandsFor
    <3> QED
      BY <1>4, <2>1, <3>1, WalkRing
  <2>3. answer' = [i \in DOMAIN s |-> items.value[s[i]]]
    BY <1>10, <2>2 DEF GetSnapshot
  <2>4. answer' = QueuedTasks
    BY <1>4, <2>2, <2>3 DEF Tasks
  <2> QED
    BY <1>1, <1>2, <1>3, <2>4 DEF Abstract!Read
<1> QED
  BY <1>6, <1>7, <1>8, <1>9, <1>10 DEF Read

\* Every step keeps the invariant and is a step of the sequence, or none.
LEMMA NextStep == Inv /\ [Next]_vars => Inv' /\ [Abstract!Next]_(Abstract!vars)
<1> SUFFICES ASSUME Inv, [Next]_vars PROVE Inv' /\ [Abstract!Next]_(Abstract!vars)
  OBVIOUS
<1>1. CASE AddFirst
  BY <1>1, AddFirstStep DEF Abstract!Next
<1>2. CASE AddLast
  BY <1>2, AddLastStep DEF Abstract!Next
<1>3. CASE AddAfter
  BY <1>3, AddAfterStep DEF Abstract!Next
<1>4. CASE AddBefore
  BY <1>4, AddBeforeStep DEF Abstract!Next
<1>5. CASE RemoveFirst
  BY <1>5, RemoveFirstStep DEF Abstract!Next
<1>6. CASE RemoveLast
  BY <1>6, RemoveLastStep DEF Abstract!Next
<1>7. CASE Remove
  BY <1>7, RemoveStep DEF Abstract!Next
<1>8. CASE DeleteFunc
  BY <1>8, DeleteFuncStep DEF Abstract!Next
<1>9. CASE ProcessResult
  BY <1>9, ProcessResultStep DEF Abstract!Next
<1>10. ASSUME NEW c \in Callers, Iterate(c) \/ Forget(c) PROVE Inv' /\ [Abstract!Next]_(Abstract!vars)
  BY <1>10, IterateStep
<1>11. ASSUME NEW c \in Callers, RemoveElement(c) PROVE Inv' /\ [Abstract!Next]_(Abstract!vars)
  BY <1>11, RemoveElementStep DEF Abstract!Next
<1>12. CASE Read
  BY <1>12, ReadStep DEF Abstract!Next
<1>13. CASE UNCHANGED vars
  <2>1. UNCHANGED <<items, idIndex, held, minted, answer>>
    BY <1>13 DEF vars
  <2>2. Work' = Work /\ QueuedTasks' = QueuedTasks
    BY <2>1 DEF Work, QueuedTasks
  <2>3. Inv'
    BY <2>1, <2>2 DEF Inv
  <2> QED
    BY <2>1, <2>2, <2>3 DEF Abstract!vars
<1> QED
  BY <1>1, <1>2, <1>3, <1>4, <1>5, <1>6, <1>7, <1>8, <1>9, <1>10, <1>11, <1>12, <1>13 DEF Next

LEMMA InvHolds == Spec => []Inv
<1>1. Init => Inv
  BY InitInv
<1>2. Inv /\ [Next]_vars => Inv'
  BY NextStep
<1> QED
  BY <1>1, <1>2, PTL DEF Spec

\* Task ids, addresses and counts have their types, in every state of the storage.
THEOREM StorageTypes == Spec => []TypeOK
<1>1. Inv => TypeOK
  <2> SUFFICES ASSUME Inv PROVE TypeOK
    OBVIOUS
  <2>1. PICK s : WorkOK(Work, s)
    BY DEF Inv
  <2>2. ListType(items) /\ Ring(items, s) /\ Values(items) /\ Agrees(Work)
    BY <2>1 DEF WorkOK, Work
  <2>3. items.len \in 0..Cardinality(Elements)
    <3>1. Len(s) \in Nat /\ Cardinality(Elements) \in Nat /\ Len(s) <= Cardinality(Elements) /\ items.len = Len(s)
      BY <2>2, RingLength DEF Ring
    <3> QED
      BY <3>1
  <2>4. DOMAIN idIndex \subseteq 1..minted /\ \A t \in DOMAIN idIndex : idIndex[t] \in Elements
    <3>1. \A t \in DOMAIN idIndex : idIndex[t] \in Elements /\ items.inList[idIndex[t]] /\ items.value[idIndex[t]] = t
      BY <2>2 DEF Agrees, Work
    <3>2. \A e \in Elements : items.inList[e] => items.value[e] \in 1..minted
      <4>1. ASSUME NEW e \in Elements, items.inList[e] PROVE items.value[e] \in 1..minted
        <5>1. items.value[e] \in 0..MaxTasks /\ items.value[e] # 0 /\ items.value[e] <= minted /\ minted \in 0..MaxTasks
          BY <2>2, <4>1 DEF ListType, Values, Nil, Inv
        <5> QED
          BY <5>1, StorageAssumption
      <4> QED
        BY <4>1
    <3> QED
      BY <3>1, <3>2
  <2> QED
    BY <2>2, <2>3, <2>4 DEF TypeOK, ListType, Inv
<1> QED
  BY <1>1, InvHolds, PTL

\* The index and the list hold the same tasks after every call, also after a removal of
\* elements that a compaction had collected and others had removed before.
THEOREM IndexAgreesWithList == Spec => []IndexAgrees
<1>1. Inv => IndexAgrees
  <2> SUFFICES ASSUME Inv PROVE IndexAgrees
    OBVIOUS
  <2>1. Agrees(Work)
    BY DEF Inv, WorkOK
  <2> QED
    BY <2>1 DEF Agrees, Work, IndexAgrees
<1> QED
  BY <1>1, InvHolds, PTL

\* The ring of elements with its index implements a sequence of tasks: every call of
\* TaskStorage changes it and answers as the sequence does.
THEOREM StorageImplementsSequence == Spec => ImplementsSequence
<1>1. Init => Abstract!Init
  BY InitInv
<1>2. Inv /\ [Next]_vars => [Abstract!Next]_(Abstract!vars)
  BY NextStep
<1> QED
  BY <1>1, <1>2, InvHolds, PTL DEF Spec, ImplementsSequence, Abstract!Spec
=============================================================================
