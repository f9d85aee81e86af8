---------------------------- MODULE TaskStorage ----------------------------
(***************************************************************************)
(* The storage of a task queue as it is built: a ring of list elements     *)
(* (pkg/utils/list/list.go) and an index from task ids to elements         *)
(* (pkg/task/queue/task_storage.go), guarded by one mutex, so a call is    *)
(* one step.  The compactions of the worker and of AddLast collect         *)
(* elements in one call (Iterate) and remove them in later ones            *)
(* (RemoveElement), when other calls may have removed them already.        *)
(*                                                                         *)
(* An element is an address; no address is used twice, as the garbage      *)
(* collector frees only what nobody refers to.  Ids are fresh, as          *)
(* task.NewTask draws them.                                                *)
(***************************************************************************)
EXTENDS Integers, Sequences, FiniteSets

CONSTANTS
    MaxTasks,    \* tasks that are ever created
    MaxBatch,    \* tasks in one call
    Elements,    \* addresses of list elements
    Root,        \* the sentinel of the ring
    Callers      \* goroutines that compact the queue

Nil == 0
NoNode == 0

\* There is an address for every task.
ASSUME StorageAssumption ==
    /\ MaxTasks \in Nat /\ MaxBatch \in Nat
    /\ Root \notin Elements /\ NoNode \notin Elements \cup {Root}
    /\ Callers # {}
    /\ IsFiniteSet(Elements) /\ MaxTasks <= Cardinality(Elements)

VARIABLES
    items,       \* the list: next, prev, inList, value by element, and len
    idIndex,     \* from ids of queued tasks to elements
    held,        \* elements a compaction has collected, by caller
    minted,
    answer

vars == <<items, idIndex, held, minted, answer>>

Nodes == Elements \cup {Root}

-----------------------------------------------------------------------------
(* pkg/utils/list: the ring.                                               *)

EmptyList ==
    [next   |-> [e \in Nodes |-> IF e = Root THEN Root ELSE NoNode],
     prev   |-> [e \in Nodes |-> IF e = Root THEN Root ELSE NoNode],
     inList |-> [e \in Elements |-> FALSE],
     value  |-> [e \in Elements |-> Nil],
     len    |-> 0]

\* insert: link e behind at.
InsertElement(l, e, v, at) ==
    [next   |-> [l.next EXCEPT ![e] = l.next[at], ![at] = e],
     prev   |-> [l.prev EXCEPT ![e] = at, ![l.next[at]] = e],
     inList |-> [l.inList EXCEPT ![e] = TRUE],
     value  |-> [l.value EXCEPT ![e] = v],
     len    |-> l.len + 1]

\* remove: unlink e; its own links are cleared.
Unlink(l, e) ==
    [next   |-> [[l.next EXCEPT ![l.prev[e]] = l.next[e]] EXCEPT ![e] = NoNode],
     prev   |-> [[l.prev EXCEPT ![l.next[e]] = l.prev[e]] EXCEPT ![e] = NoNode],
     inList |-> [l.inList EXCEPT ![e] = FALSE],
     value  |-> l.value,
     len    |-> l.len - 1]

\* Remove: nothing happens to an element that has left the list.
RemoveFromList(l, e) == IF l.inList[e] THEN Unlink(l, e) ELSE l

ListFront(l) == IF l.len = 0 THEN NoNode ELSE l.next[Root]
ListBack(l) == IF l.len = 0 THEN NoNode ELSE l.prev[Root]

\* Element.Next, and the elements a walk from Front visits.
NextOf(l, e) == IF l.inList[e] /\ l.next[e] # Root THEN l.next[e] ELSE NoNode

Walk(l) ==
    LET at[i \in 1..Cardinality(Elements)] ==
            IF i = 1 THEN ListFront(l)
            ELSE IF at[i - 1] = NoNode THEN NoNode ELSE NextOf(l, at[i - 1])
        n == Cardinality({i \in DOMAIN at : at[i] # NoNode})
    IN [i \in 1..n |-> at[i]]

-----------------------------------------------------------------------------
(* TaskStorage: a record of the list and the index while a call works.     *)

Work == [l |-> items, ix |-> idIndex]

Without(ix, t) == [u \in DOMAIN ix \ {t} |-> ix[u]]

\* An address that was never used.
FreshElement(w) == CHOOSE e \in Elements : w.l.value[e] = Nil

\* A new element with value t, and its entry in the index.
InsertValue(w, t, at) ==
    LET e == FreshElement(w)
    IN [l |-> InsertElement(w.l, e, t, at),
        ix |-> [u \in DOMAIN w.ix \cup {t} |-> IF u = t THEN e ELSE w.ix[u]]]

NewTasks(from, n) == [i \in 1..n |-> from + i]

\* Tasks put behind a node, the last one first.
PutBehind(w, ts, at) ==
    LET put[i \in 0..Len(ts)] ==
            IF i = 0 THEN w ELSE InsertValue(put[i - 1], ts[Len(ts) - i + 1], at)
    IN put[Len(ts)]

\* addFirst: in reverse order, each to the front.
PutFirst(w, ts) == PutBehind(w, ts, Root)

\* addLast.
PutLast(w, ts) ==
    LET put[i \in 0..Len(ts)] ==
            IF i = 0 THEN w ELSE InsertValue(put[i - 1], ts[i], put[i - 1].l.prev[Root])
    IN put[Len(ts)]

\* InsertAfter and InsertBefore next to an element that has left the list: nothing is
\* inserted, and the index gets nil for the task.
InsertNothing(w, S) ==
    [l |-> w.l, ix |-> [u \in DOMAIN w.ix \cup S |-> IF u \in S THEN NoNode ELSE w.ix[u]]]

\* Mutant: the order of the batch is turned round.
PutAfterForward(w, t, ts) ==
    IF t \notin DOMAIN w.ix THEN w
    ELSE IF w.l.inList[w.ix[t]] THEN PutBehind(w, [i \in DOMAIN ts |-> ts[Len(ts) - i + 1]], w.ix[t])
    ELSE InsertNothing(w, {ts[i] : i \in DOMAIN ts})

\* addAfter: in reverse order behind the task, if it is in the index.
PutAfter(w, t, ts) ==
    IF t \notin DOMAIN w.ix THEN w
    ELSE IF w.l.inList[w.ix[t]] THEN PutBehind(w, ts, w.ix[t])
    ELSE InsertNothing(w, {ts[i] : i \in DOMAIN ts})

\* addBefore.
PutBefore(w, t, u) ==
    IF t \notin DOMAIN w.ix THEN w
    ELSE IF w.l.inList[w.ix[t]] THEN InsertValue(w, u, w.l.prev[w.ix[t]])
    ELSE InsertNothing(w, {u})

\* Mutant: the index keeps the task.
DropKeepsIndex(w, e) == [l |-> RemoveFromList(w.l, e), ix |-> w.ix]

\* removeElement, and the body of the loop of DeleteFunc.
Drop(w, e) == [l |-> RemoveFromList(w.l, e), ix |-> Without(w.ix, w.l.value[e])]

\* remove by id.
DropId(w, t) == IF t \in DOMAIN w.ix THEN Drop(w, w.ix[t]) ELSE w

\* The loop of DeleteFunc: elements whose tasks are not to be kept.
DropOthers(w, elements, keep) ==
    LET left[i \in 0..Len(elements)] ==
            IF i = 0 THEN w
            ELSE IF w.l.value[elements[i]] \in keep THEN left[i - 1]
            ELSE Drop(left[i - 1], elements[i])
    IN left[Len(elements)]

-----------------------------------------------------------------------------
(* The calls.                                                              *)

Becomes(w) == items' = w.l /\ idIndex' = w.ix

Mint(n) == minted + n <= MaxTasks /\ minted' = minted + n

Value(e) == IF e = NoNode THEN Nil ELSE items.value[e]

AddFirst ==
    \E n \in 1..MaxBatch :
        /\ Mint(n)
        /\ Becomes(PutFirst(Work, NewTasks(minted, n)))
        /\ answer' = <<>>
        /\ UNCHANGED held

AddLast ==
    \E n \in 1..MaxBatch :
        /\ Mint(n)
        /\ Becomes(PutLast(Work, NewTasks(minted, n)))
        /\ answer' = <<>>
        /\ UNCHANGED held

AddAfter ==
    \E n \in 1..MaxBatch, t \in 1..minted :
        /\ Mint(n)
        /\ Becomes(PutAfter(Work, t, NewTasks(minted, n)))
        /\ answer' = <<>>
        /\ UNCHANGED held

AddBefore ==
    \E t \in 1..minted :
        /\ Mint(1)
        /\ Becomes(PutBefore(Work, t, minted + 1))
        /\ answer' = <<>>
        /\ UNCHANGED held

RemoveFirst ==
    /\ IF items.len > 0 THEN Becomes(Drop(Work, ListFront(items))) ELSE Becomes(Work)
    /\ answer' = <<Value(ListFront(items))>>
    /\ UNCHANGED <<held, minted>>

RemoveLast ==
    /\ IF items.len > 0 THEN Becomes(Drop(Work, ListBack(items))) ELSE Becomes(Work)
    /\ answer' = <<Value(ListBack(items))>>
    /\ UNCHANGED <<held, minted>>

Remove ==
    \E t \in 1..minted :
        /\ Becomes(DropId(Work, t))
        /\ answer' = <<IF t \in DOMAIN idIndex THEN items.value[idIndex[t]] ELSE Nil>>
        /\ UNCHANGED <<held, minted>>

DeleteFunc ==
    \E keep \in SUBSET (1..minted) :
        /\ Becomes(DropOthers(Work, Walk(items), keep))
        /\ answer' = <<>>
        /\ UNCHANGED <<held, minted>>

\* The worker's result of task t, which may have left the queue meanwhile.
ProcessResult ==
    \E t \in 1..minted, done \in BOOLEAN, a, h, l \in 0..1 :
        LET w1 == PutAfter(Work, t, NewTasks(minted, a))
            w2 == IF done THEN DropId(w1, t) ELSE w1
            w3 == PutFirst(w2, NewTasks(minted + a, h))
        IN /\ Mint(a + h + l)
           /\ Becomes(PutLast(w3, NewTasks(minted + a + h, l)))
           /\ answer' = <<>>
           /\ UNCHANGED held

\* Iterate of the first pass of compaction: some of the elements are collected.
Iterate(c) ==
    /\ held[c] = {}
    /\ \E S \in (SUBSET {Walk(items)[i] : i \in DOMAIN Walk(items)}) \ {{}} :
           held' = [held EXCEPT ![c] = S]
    /\ UNCHANGED <<items, idIndex, minted, answer>>

\* RemoveElement of the second pass: one of the collected elements.
RemoveElement(c) ==
    \E e \in held[c] :
        /\ Becomes(Drop(Work, e))
        /\ answer' = <<items.value[e]>>
        /\ held' = [held EXCEPT ![c] = @ \ {e}]
        /\ UNCHANGED minted

\* The first element of a group is the target and stays; a group of one is left alone.
Forget(c) ==
    /\ held[c] # {}
    /\ held' = [held EXCEPT ![c] = {}]
    /\ UNCHANGED <<items, idIndex, minted, answer>>

\* Length, GetFirst, GetLast, Get and GetSnapshot.
Length == answer' = <<items.len>>
GetFirst == answer' = <<Value(ListFront(items))>>
GetLast == answer' = <<Value(ListBack(items))>>
Get == \E t \in 1..minted :
           answer' = <<IF t \in DOMAIN idIndex THEN items.value[idIndex[t]] ELSE Nil>>
GetSnapshot == answer' = [i \in DOMAIN Walk(items) |-> items.value[Walk(items)[i]]]

Read ==
    /\ Length \/ GetFirst \/ GetLast \/ Get \/ GetSnapshot
    /\ UNCHANGED <<items, idIndex, held, minted>>

Init ==
    /\ items = EmptyList
    /\ idIndex = [t \in {} |-> NoNode]
    /\ held = [c \in Callers |-> {}]
    /\ minted = 0
    /\ answer = <<>>

Next ==
    \/ AddFirst \/ AddLast \/ AddAfter \/ AddBefore
    \/ RemoveFirst \/ RemoveLast \/ Remove \/ DeleteFunc
    \/ ProcessResult
    \/ \E c \in Callers : Iterate(c) \/ RemoveElement(c) \/ Forget(c)
    \/ Read

Spec == Init /\ [][Next]_vars

-----------------------------------------------------------------------------
(* Properties.                                                             *)

\* Task ids, addresses and answers have their types, and the index points into the list.
TypeOK ==
    /\ items.next \in [Nodes -> Nodes \cup {NoNode}]
    /\ items.prev \in [Nodes -> Nodes \cup {NoNode}]
    /\ items.inList \in [Elements -> BOOLEAN]
    /\ items.value \in [Elements -> 0..MaxTasks]
    /\ items.len \in 0..Cardinality(Elements)
    /\ DOMAIN idIndex \subseteq 1..minted
    /\ \A t \in DOMAIN idIndex : idIndex[t] \in Elements
    /\ held \in [Callers -> SUBSET Elements]
    /\ minted \in 0..MaxTasks

\* The index and the list are two views of the same tasks: an id leads to the element with
\* its task, and every queued task is found by its id, whatever stale elements were removed.
IndexAgrees ==
    /\ \A t \in DOMAIN idIndex : items.inList[idIndex[t]] /\ items.value[idIndex[t]] = t
    /\ \A e \in Elements : items.inList[e] => items.value[e] \in DOMAIN idIndex

\* The sequence of the first len elements of the ring.
TasksOf(l) ==
    LET at[i \in 0..l.len] == IF i = 0 THEN Root ELSE l.next[at[i - 1]]
    IN [i \in 1..l.len |-> l.value[at[i]]]
QueuedTasks == TasksOf(items)

Abstract == INSTANCE TaskSequence WITH seq <- QueuedTasks

\* The ring with its index implements a sequence of tasks: every call, also with stale
\* elements or ids, changes it and answers as the sequence would.
ImplementsSequence == Abstract!Spec
=============================================================================
