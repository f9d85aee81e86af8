--------------------------- MODULE TaskSequence ----------------------------
(***************************************************************************)
(* What TaskStorage (pkg/task/queue/task_storage.go) promises to the task  *)
(* queue: a sequence of tasks without repetition, operations that are      *)
(* atomic whoever calls them, and answers that are read from that          *)
(* sequence.  A caller that holds a list element holds no more than a task *)
(* here: removing it twice is harmless.                                    *)
(***************************************************************************)
EXTENDS Integers, Sequences

CONSTANTS
    MaxTasks,    \* tasks that are ever created
    MaxBatch     \* tasks in one call

VARIABLES
    seq,         \* the queued tasks
    minted,      \* tasks created so far; NewTask gives each its own id
    answer       \* what the last call returned

vars == <<seq, minted, answer>>

Nil == 0

Fresh(from, n) == [i \in 1..n |-> from + i]

First(s) == IF s = <<>> THEN Nil ELSE Head(s)
Final(s) == IF s = <<>> THEN Nil ELSE s[Len(s)]

Has(s, t) == \E i \in DOMAIN s : s[i] = t
Position(s, t) == CHOOSE i \in DOMAIN s : s[i] = t

\* Tasks put behind position i, and after or before a task.
Insert(s, i, ts) == SubSeq(s, 1, i) \o ts \o SubSeq(s, i + 1, Len(s))
After(s, t, ts) == IF Has(s, t) THEN Insert(s, Position(s, t), ts) ELSE s
Before(s, t, ts) == IF Has(s, t) THEN Insert(s, Position(s, t) - 1, ts) ELSE s

\* The sequence without a task.
Without(s, t) ==
    IF Has(s, t) THEN SubSeq(s, 1, Position(s, t) - 1) \o SubSeq(s, Position(s, t) + 1, Len(s)) ELSE s

\* The tasks to keep, in their order.
Kept(s, keep) ==
    LET kept[i \in 0..Len(s)] ==
            IF i = 0 THEN <<>> ELSE IF s[i] \in keep THEN Append(kept[i - 1], s[i]) ELSE kept[i - 1]
    IN kept[Len(s)]

Mint(n) == minted + n <= MaxTasks /\ minted' = minted + n

AddFirst ==
    \E n \in 1..MaxBatch :
        Mint(n) /\ seq' = Fresh(minted, n) \o seq /\ answer' = <<>>

AddLast ==
    \E n \in 1..MaxBatch :
        Mint(n) /\ seq' = seq \o Fresh(minted, n) /\ answer' = <<>>

AddAfter ==
    \E n \in 1..MaxBatch, t \in 1..minted :
        Mint(n) /\ seq' = After(seq, t, Fresh(minted, n)) /\ answer' = <<>>

AddBefore ==
    \E t \in 1..minted :
        Mint(1) /\ seq' = Before(seq, t, Fresh(minted, 1)) /\ answer' = <<>>

RemoveFirst ==
    /\ seq' = (IF seq = <<>> THEN seq ELSE Tail(seq))
    /\ answer' = <<First(seq)>>
    /\ UNCHANGED minted

RemoveLast ==
    /\ seq' = (IF seq = <<>> THEN seq ELSE SubSeq(seq, 1, Len(seq) - 1))
    /\ answer' = <<Final(seq)>>
    /\ UNCHANGED minted

Remove ==
    \E t \in 1..minted :
        /\ seq' = Without(seq, t)
        /\ answer' = <<IF Has(seq, t) THEN t ELSE Nil>>
        /\ UNCHANGED minted

RemoveElement ==
    \E t \in 1..minted :
        /\ seq' = Without(seq, t)
        /\ answer' = <<t>>
        /\ UNCHANGED minted

DeleteFunc ==
    \E keep \in SUBSET (1..minted) :
        /\ seq' = Kept(seq, keep)
        /\ answer' = <<>>
        /\ UNCHANGED minted

\* A task's result: its followers take its place if it is done, then new heads and tails.
ProcessResult ==
    \E t \in 1..minted, done \in BOOLEAN, a, h, l \in 0..1 :
        LET followed == After(seq, t, Fresh(minted, a))
            left == IF done THEN Without(followed, t) ELSE followed
        IN /\ Mint(a + h + l)
           /\ seq' = Fresh(minted + a, h) \o left \o Fresh(minted + a + h, l)
           /\ answer' = <<>>

Read ==
    /\ \/ answer' = <<Len(seq)>>
       \/ answer' = <<First(seq)>>
       \/ answer' = <<Final(seq)>>
       \/ \E t \in 1..minted : answer' = <<IF Has(seq, t) THEN t ELSE Nil>>
       \/ answer' = seq
    /\ UNCHANGED <<seq, minted>>

Init == seq = <<>> /\ minted = 0 /\ answer = <<>>

Next ==
    \/ AddFirst \/ AddLast \/ AddAfter \/ AddBefore
    \/ RemoveFirst \/ RemoveLast \/ Remove \/ RemoveElement \/ DeleteFunc
    \/ ProcessResult \/ Read

Spec == Init /\ [][Next]_vars
=============================================================================
