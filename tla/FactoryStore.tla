---------------------------- MODULE FactoryStore ----------------------------
(***************************************************************************)
(* FactoryStore of pkg/kube_events_manager: shared informers, one per      *)
(* factory index, used by any number of resource informers (consumers).    *)
(*                                                                         *)
(* A consumer lives once: resourceInformer.start launches the goroutine    *)
(* that calls Stop when the consumer's context is cancelled, and calls     *)
(* FactoryStore.Start, which registers the handler under the store lock    *)
(* and waits for the sync without it.  Stop of the last handler cancels    *)
(* the shared informer, releases the lock to wait for its goroutine, takes *)
(* the lock again and deletes the factory of the index.                    *)
(*                                                                         *)
(* The goroutine of the shared informer (informer.Run) is external: it     *)
(* ends after its context is cancelled, first refusing new handlers and    *)
(* then closing Factory.done.                                              *)
(***************************************************************************)
EXTENDS Integers, FiniteSets

CONSTANTS
    Consumers,  \* resource informers, by id
    Indexes,    \* factory indexes
    IndexOf,    \* the index of each consumer
    Factories,  \* bound: the factories that can be created
    NoFactory,  \* no entry in FactoryStore.data
    Pinned      \* consumers that run since startup and are not stopped before shutdown

ASSUME IndexOfAssumption == IndexOf \in [Consumers -> Indexes]
ASSUME PinnedAssumption == Pinned \subseteq Consumers
ASSUME NoFactoryAssumption == NoFactory \notin Factories

VARIABLES
    data,      \* FactoryStore.data
    factory,   \* every factory: its index, handlers and goroutine
    ended,     \* factories whose context is cancelled
    st,        \* control point of resourceInformer.start, by consumer
    at,        \* the factory a consumer registered its handler with
    cancelled, \* consumers whose context is cancelled
    stop,      \* control point of the goroutine that calls Stop, by consumer
    drain,     \* the factory whose done channel Stop waits for
    shutdown   \* the base context is cancelled

consumerVars == <<st, at, stop, drain>>
vars == <<data, factory, ended, consumerVars, cancelled, shutdown>>

Unused == [index |-> "none", handlers |-> {}, run |-> "unused", synced |-> FALSE]

-----------------------------------------------------------------------------
(* The goroutine of a shared informer.                                     *)

\* The initial list is complete: HasSynced.
InformerSyncs(f) ==
    /\ factory[f].run = "running"
    /\ ~factory[f].synced
    /\ factory' = [factory EXCEPT ![f].synced = TRUE]
    /\ UNCHANGED <<data, ended, consumerVars, cancelled, shutdown>>

\* Run returns: from here on AddEventHandler fails.
InformerStops(f) ==
    /\ factory[f].run = "running"
    /\ f \in ended
    /\ factory' = [factory EXCEPT ![f].run = "stopped"]
    /\ UNCHANGED <<data, ended, consumerVars, cancelled, shutdown>>

\* close(factory.done)
InformerExits(f) ==
    /\ factory[f].run = "stopped"
    /\ factory' = [factory EXCEPT ![f].run = "exited"]
    /\ UNCHANGED <<data, ended, consumerVars, cancelled, shutdown>>

-----------------------------------------------------------------------------
(* resourceInformer.start and FactoryStore.Start.                          *)

\* start: the goroutine that waits for the end of the context is launched.
Launch(c) ==
    /\ st[c] = "new"
    /\ st' = [st EXCEPT ![c] = "starting"]
    /\ stop' = [stop EXCEPT ![c] = "waiting"]
    /\ UNCHANGED <<data, factory, ended, at, drain, cancelled, shutdown>>

\* The factory in the store can be used: its goroutine has not exited.
Usable(f) == f # NoFactory /\ factory[f].run # "exited"

\* A registered handler; the first one starts the goroutine.
WithHandler(fac, c) ==
    [index |-> IndexOf[c], handlers |-> fac.handlers \cup {c}, run |-> "running",
     synced |-> fac.synced]

\* Start with the factory that is in the store, still running.
StartShared(c) ==
    LET f == data[IndexOf[c]] IN
    /\ st[c] = "starting"
    /\ Usable(f)
    /\ factory[f].run # "stopped"
    /\ factory' = [factory EXCEPT ![f] = WithHandler(@, c)]
    /\ st' = [st EXCEPT ![c] = "syncing"]
    /\ at' = [at EXCEPT ![c] = f]
    /\ UNCHANGED <<data, ended, stop, drain, cancelled, shutdown>>

\* AddEventHandler fails on a stopped informer and so does Start.
StartRefused(c) ==
    LET f == data[IndexOf[c]] IN
    /\ st[c] = "starting"
    /\ Usable(f)
    /\ factory[f].run = "stopped"
    /\ st' = [st EXCEPT ![c] = "failed"]
    /\ UNCHANGED <<data, factory, ended, at, stop, drain, cancelled, shutdown>>

\* Mutant: the factory's context does not derive from the base context.
EndedAfterAddDetached(old, f) == ended \cup ({old} \cap Factories)

\* Cancelled contexts when factory f replaces old: the dead one is cancelled
\* again, the new context derives from the base context.
EndedAfterAdd(old, f) == ended \cup ({old} \cap Factories) \cup (IF shutdown THEN {f} ELSE {})

\* Start with a new factory: there is none, or the one in the store is dead
\* (it is cancelled and dropped).
StartFresh(c) ==
    LET old == data[IndexOf[c]] IN
    /\ st[c] = "starting"
    /\ ~Usable(old)
    /\ \E f \in Factories :
        /\ factory[f].run = "unused"
        /\ factory' = [factory EXCEPT ![f] = WithHandler(Unused, c)]
        /\ ended' = EndedAfterAdd(old, f)
        /\ data' = [data EXCEPT ![IndexOf[c]] = f]
        /\ at' = [at EXCEPT ![c] = f]
    /\ st' = [st EXCEPT ![c] = "syncing"]
    /\ UNCHANGED <<stop, drain, cancelled, shutdown>>

\* Start returns: the informer has synced, or the consumer is cancelled first.
StartReturns(c) ==
    /\ st[c] = "syncing"
    /\ \/ factory[at[c]].synced /\ st' = [st EXCEPT ![c] = "started"]
       \/ ~factory[at[c]].synced /\ c \in cancelled /\ st' = [st EXCEPT ![c] = "failed"]
    /\ UNCHANGED <<data, factory, ended, at, stop, drain, cancelled, shutdown>>

-----------------------------------------------------------------------------
(* Stopping.                                                               *)

\* Monitor.Stop, or the namespace of the informer is deleted.
Cancel(c) ==
    /\ c \notin Pinned \cup cancelled
    /\ st[c] # "new"
    /\ cancelled' = cancelled \cup {c}
    /\ UNCHANGED <<data, factory, ended, consumerVars, shutdown>>

\* kubeEventsManager.Stop: every context derives from its context.
Shutdown ==
    /\ ~shutdown
    /\ shutdown' = TRUE
    /\ cancelled' = Consumers
    /\ ended' = ended \cup {f \in Factories : factory[f].run # "unused"}
    /\ UNCHANGED <<data, factory, consumerVars>>

Registered(c) ==
    data[IndexOf[c]] # NoFactory /\ c \in factory[data[IndexOf[c]]].handlers

\* Stop of a consumer that has no handler in the store's factory.
StopUnregistered(c) ==
    /\ stop[c] = "waiting"
    /\ c \in cancelled
    /\ ~Registered(c)
    /\ stop' = [stop EXCEPT ![c] = "finished"]
    /\ UNCHANGED <<data, factory, ended, st, at, drain, cancelled, shutdown>>

\* Mutant: the shared informer is cancelled with the first consumer that leaves.
StopCancelsAlways(c) ==
    LET f == data[IndexOf[c]] IN
    /\ stop[c] = "waiting"
    /\ c \in cancelled
    /\ Registered(c)
    /\ factory' = [factory EXCEPT ![f].handlers = @ \ {c}]
    /\ ended' = ended \cup {f}
    /\ stop' = [stop EXCEPT ![c] = "draining"]
    /\ drain' = [drain EXCEPT ![c] = f]
    /\ UNCHANGED <<data, st, at, cancelled, shutdown>>

\* Mutant: the last handler does not cancel the informer.
StopWithoutCancel(c) ==
    LET f == data[IndexOf[c]] IN
    /\ stop[c] = "waiting"
    /\ c \in cancelled
    /\ Registered(c)
    /\ factory' = [factory EXCEPT ![f].handlers = @ \ {c}]
    /\ UNCHANGED ended
    /\ stop' = [stop EXCEPT ![c] = IF factory[f].handlers = {c} THEN "draining" ELSE "finished"]
    /\ drain' = [drain EXCEPT ![c] = f]
    /\ UNCHANGED <<data, st, at, cancelled, shutdown>>

\* Stop: remove the handler; the last one cancels the shared informer and the
\* lock is released to wait for its goroutine.
StopHandler(c) ==
    LET f == data[IndexOf[c]]
        last == factory[f].handlers = {c}
    IN
    /\ stop[c] = "waiting"
    /\ c \in cancelled
    /\ Registered(c)
    /\ factory' = [factory EXCEPT ![f].handlers = @ \ {c}]
    /\ ended' = IF last THEN ended \cup {f} ELSE ended
    /\ stop' = [stop EXCEPT ![c] = IF last THEN "draining" ELSE "finished"]
    /\ drain' = [drain EXCEPT ![c] = f]
    /\ UNCHANGED <<data, st, at, cancelled, shutdown>>

\* Stop, with the lock again: the entry of the index is deleted, whatever it is now.
StopDelete(c) ==
    /\ stop[c] = "draining"
    /\ factory[drain[c]].run = "exited"
    /\ data' = [data EXCEPT ![IndexOf[c]] = NoFactory]
    /\ stop' = [stop EXCEPT ![c] = "finished"]
    /\ UNCHANGED <<factory, ended, st, at, drain, cancelled, shutdown>>

-----------------------------------------------------------------------------
PinnedIndexes == {IndexOf[p] : p \in Pinned}

\* The pinned consumers have started.
Init ==
    /\ \E home \in [PinnedIndexes -> Factories] :
        /\ \A i, j \in PinnedIndexes : i # j => home[i] # home[j]
        /\ data = [i \in Indexes |-> IF i \in PinnedIndexes THEN home[i] ELSE NoFactory]
        /\ factory = [f \in Factories |->
              IF \E i \in PinnedIndexes : home[i] = f
              THEN [index |-> CHOOSE i \in PinnedIndexes : home[i] = f,
                    handlers |-> {p \in Pinned : home[IndexOf[p]] = f},
                    run |-> "running", synced |-> TRUE]
              ELSE Unused]
        /\ at = [c \in Consumers |-> IF c \in Pinned THEN home[IndexOf[c]] ELSE NoFactory]
    /\ ended = {}
    /\ st = [c \in Consumers |-> IF c \in Pinned THEN "started" ELSE "new"]
    /\ stop = [c \in Consumers |-> IF c \in Pinned THEN "waiting" ELSE "none"]
    /\ drain = [c \in Consumers |-> NoFactory]
    /\ cancelled = {}
    /\ shutdown = FALSE

InformerEnds == \E f \in Factories : InformerStops(f) \/ InformerExits(f)

StartStep(c) == Launch(c) \/ StartShared(c) \/ StartRefused(c) \/ StartFresh(c) \/ StartReturns(c)

StopStep(c) == StopUnregistered(c) \/ StopHandler(c) \/ StopDelete(c)

Next ==
    \/ InformerEnds
    \/ \E f \in Factories : InformerSyncs(f)
    \/ \E c \in Consumers : StartStep(c) \/ Cancel(c) \/ StopStep(c)
    \/ Shutdown

Spec == Init /\ [][Next]_vars

(* Fairness: the goroutines that call Stop run, and an informer whose      *)
(* context is cancelled ends.  Nothing makes a list complete.              *)
Fairness ==
    /\ WF_vars(InformerEnds)
    /\ \A c \in Consumers : WF_vars(StopStep(c))

FairSpec == Spec /\ Fairness

-----------------------------------------------------------------------------
(* Properties.                                                             *)

FactoryRecord ==
    [index : Indexes \cup {"none"}, handlers : SUBSET Consumers,
     run : {"unused", "running", "stopped", "exited"}, synced : BOOLEAN]

\* Type invariant of the store, the factories and the consumers.  A factory
\* with handlers has a goroutine.
TypeOK ==
    /\ data \in [Indexes -> Factories \cup {NoFactory}]
    /\ factory \in [Factories -> FactoryRecord]
    /\ ended \subseteq Factories
    /\ \A f \in Factories : factory[f].run = "unused" => factory[f].handlers = {}
    /\ st \in [Consumers -> {"new", "starting", "syncing", "started", "failed"}]
    /\ at \in [Consumers -> Factories \cup {NoFactory}]
    /\ cancelled \subseteq Consumers
    /\ stop \in [Consumers -> {"none", "waiting", "draining", "finished"}]
    /\ drain \in [Consumers -> Factories \cup {NoFactory}]
    /\ shutdown \in BOOLEAN

\* The factory delivers events to the consumer: the consumer's handler is in
\* it, its goroutine runs and is not told to end, and the store knows it.
Served(c) ==
    /\ data[IndexOf[c]] = at[c]
    /\ at[c] \in Factories
    /\ factory[at[c]].run = "running"
    /\ at[c] \notin ended
    /\ c \in factory[at[c]].handlers

\* A consumer that passed the registration and was not stopped.
Wants(c) == st[c] \in {"syncing", "started", "failed"} /\ c \notin cancelled

\* No consumer is left with a frozen snapshot: whatever other consumers of the
\* index start and stop, one that is not stopped itself is served.  The code
\* does not keep it: a Start may meet a Stop that has released the lock.
ConsumersServed == \A c \in Consumers : Wants(c) => Served(c)

\* The same for the indexes at which some consumer stays for the whole life
\* of the program.
SharedConsumersServed ==
    \A c \in Consumers : (IndexOf[c] \in PinnedIndexes /\ Wants(c)) => Served(c)

\* Stop does not hang: a cancelled consumer that was launched is removed, the
\* wait for the shared informer included.
StopCompletes == \A c \in Consumers : (c \in cancelled /\ st[c] # "new") ~> stop[c] = "finished"

\* After the shutdown every informer goroutine ends, late registrations included.
ShutdownEndsInformers ==
    shutdown ~> \A f \in Factories : factory[f].run \in {"unused", "exited"}
=============================================================================
