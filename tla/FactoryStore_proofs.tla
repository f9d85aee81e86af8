------------------------ MODULE FactoryStore_proofs ------------------------
(***************************************************************************)
(* Proofs about FactoryStore, for any sets of consumers, indexes and       *)
(* factories: the type invariant, and that the consumers of an index with  *)
(* a pinned consumer are always served.                                    *)
(*                                                                         *)
(* SharedConsumersServed is not inductive.  A consumer stays served        *)
(* because the shared informer of its index is never cancelled before the  *)
(* shutdown; that is so because the handler of the pinned consumer never   *)
(* leaves the factory, so no Stop finds that it removed the last handler,  *)
(* and because the factories of two indexes are different ones, so no step *)
(* at another index reaches this one.                                      *)
(***************************************************************************)
EXTENDS FactoryStore, TLAPS

\* A factory in the store was created for the index it is stored at.
StoredUnderIndex ==
    \A i \in Indexes : data[i] # NoFactory =>
        factory[data[i]].run # "unused" /\ factory[data[i]].index = i

\* Contexts: the shutdown cancels all, and nothing else cancels a pinned consumer.
ContextsDerived ==
    /\ shutdown => cancelled = Consumers
    /\ ~shutdown => cancelled \cap Pinned = {}

\* The shared informer of index i is alive, holds the handlers of the pinned
\* consumers and of everyone who wants events, and no Stop is about to delete it.
Alive(i) ==
    /\ data[i] # NoFactory
    /\ factory[data[i]].run = "running"
    /\ data[i] \notin ended
    /\ \A c \in Consumers : IndexOf[c] = i =>
        /\ c \in Pinned => c \in factory[data[i]].handlers
        /\ stop[c] # "draining"
        /\ Wants(c) => at[c] = data[i] /\ c \in factory[data[i]].handlers

IInv ==
    /\ TypeOK
    /\ StoredUnderIndex
    /\ ContextsDerived
    /\ \A i \in PinnedIndexes : ~shutdown => Alive(i)

USE IndexOfAssumption, PinnedAssumption, NoFactoryAssumption

\* The type invariant holds initially.
LEMMA InitTypeOK == Init => TypeOK
<1> SUFFICES ASSUME Init PROVE TypeOK
  OBVIOUS
<1>1. PICK home \in [PinnedIndexes -> Factories] :
        /\ data = [i \in Indexes |-> IF i \in PinnedIndexes THEN home[i] ELSE NoFactory]
        /\ factory = [f \in Factories |->
              IF \E i \in PinnedIndexes : home[i] = f
              THEN [index |-> CHOOSE i \in PinnedIndexes : home[i] = f,
                    handlers |-> {p \in Pinned : home[IndexOf[p]] = f},
                    run |-> "running", synced |-> TRUE]
              ELSE Unused]
        /\ at = [c \in Consumers |-> IF c \in Pinned THEN home[IndexOf[c]] ELSE NoFactory]
  BY DEF Init
<1>2. PinnedIndexes \subseteq Indexes /\ \A p \in Pinned : IndexOf[p] \in PinnedIndexes
  BY DEF PinnedIndexes
<1>3. data \in [Indexes -> Factories \cup {NoFactory}]
  BY <1>1, <1>2
<1>4. at \in [Consumers -> Factories \cup {NoFactory}]
  BY <1>1, <1>2
<1>5. ASSUME NEW f \in Factories
      PROVE  factory[f] \in FactoryRecord /\ (factory[f].run = "unused" => factory[f].handlers = {})
  <2>1. CASE \E i \in PinnedIndexes : home[i] = f
    <3>1. (CHOOSE i \in PinnedIndexes : home[i] = f) \in Indexes
      BY <2>1, <1>2
    <3>2. QED
      BY <1>1, <2>1, <3>1 DEF FactoryRecord
  <2>2. CASE ~ \E i \in PinnedIndexes : home[i] = f
    BY <1>1, <2>2 DEF FactoryRecord, Unused
  <2> QED
    BY <2>1, <2>2
<1>6. factory \in [Factories -> FactoryRecord]
  BY <1>1, <1>5
<1> QED
  BY <1>3, <1>4, <1>5, <1>6 DEF Init, TypeOK

\* A factory that gets a handler is a factory that runs.
LEMMA WithHandlerType ==
    ASSUME NEW fac \in FactoryRecord, NEW c \in Consumers
    PROVE  /\ WithHandler(fac, c) \in FactoryRecord
           /\ WithHandler(fac, c).run = "running"
           /\ WithHandler(fac, c).index = IndexOf[c]
           /\ WithHandler(fac, c).handlers = fac.handlers \cup {c}
  BY DEF FactoryRecord, WithHandler

\* A new factory with its first handler.
LEMMA FreshFactory ==
    ASSUME NEW c \in Consumers
    PROVE  /\ WithHandler(Unused, c) \in FactoryRecord
           /\ WithHandler(Unused, c).run = "running"
           /\ WithHandler(Unused, c).index = IndexOf[c]
  BY DEF FactoryRecord, WithHandler, Unused

\* Every step preserves the type invariant.
LEMMA NextTypeOK == TypeOK /\ [Next]_vars => TypeOK'
<1> SUFFICES ASSUME TypeOK, [Next]_vars PROVE TypeOK'
  OBVIOUS
<1> USE DEF TypeOK, FactoryRecord, Unused
<1>1. ASSUME NEW f \in Factories, InformerSyncs(f) PROVE TypeOK'
  BY <1>1 DEF InformerSyncs, consumerVars
<1>2. ASSUME NEW f \in Factories, InformerStops(f) PROVE TypeOK'
  BY <1>2 DEF InformerStops, consumerVars
<1>3. ASSUME NEW f \in Factories, InformerExits(f) PROVE TypeOK'
  BY <1>3 DEF InformerExits, consumerVars
<1>4. ASSUME NEW c \in Consumers, Launch(c) PROVE TypeOK'
  BY <1>4 DEF Launch
<1>5. ASSUME NEW c \in Consumers, StartShared(c) PROVE TypeOK'
  <2>1. PICK f \in Factories : f = data[IndexOf[c]]
    BY <1>5 DEF StartShared, Usable
  <2>2. WithHandler(factory[f], c) \in FactoryRecord /\ WithHandler(factory[f], c).run = "running"
    BY WithHandlerType
  <2>3. factory' = [factory EXCEPT ![f] = WithHandler(factory[f], c)]
    BY <1>5, <2>1 DEF StartShared
  <2> QED
    BY <1>5, <2>1, <2>2, <2>3 DEF StartShared
<1>6. ASSUME NEW c \in Consumers, StartRefused(c) PROVE TypeOK'
  BY <1>6 DEF StartRefused
<1>7. ASSUME NEW c \in Consumers, StartFresh(c) PROVE TypeOK'
  <2>1. PICK f \in Factories :
          /\ factory' = [factory EXCEPT ![f] = WithHandler(Unused, c)]
          /\ ended' = EndedAfterAdd(data[IndexOf[c]], f)
          /\ data' = [data EXCEPT ![IndexOf[c]] = f]
          /\ at' = [at EXCEPT ![c] = f]
    BY <1>7 DEF StartFresh
  <2>2. WithHandler(Unused, c) \in FactoryRecord /\ WithHandler(Unused, c).run = "running"
    BY FreshFactory
  <2>3. ended' \subseteq Factories
    BY <2>1 DEF EndedAfterAdd
  <2> QED
    BY <1>7, <2>1, <2>2, <2>3 DEF StartFresh
<1>8. ASSUME NEW c \in Consumers, StartReturns(c) PROVE TypeOK'
  BY <1>8 DEF StartReturns
<1>9. ASSUME NEW c \in Consumers, Cancel(c) PROVE TypeOK'
  BY <1>9 DEF Cancel, consumerVars
<1>10. ASSUME NEW c \in Consumers, StopUnregistered(c) PROVE TypeOK'
  BY <1>10 DEF StopUnregistered
<1>11. ASSUME NEW c \in Consumers, StopHandler(c) PROVE TypeOK'
  <2>1. PICK f \in Factories : f = data[IndexOf[c]]
    BY <1>11 DEF StopHandler, Registered
  <2>2. factory' = [factory EXCEPT ![f].handlers = @ \ {c}]
    BY <1>11, <2>1 DEF StopHandler
  <2>3. ended' \subseteq Factories
    BY <1>11, <2>1 DEF StopHandler
  <2>4. stop' \in [Consumers -> {"none", "waiting", "draining", "finished"}]
    BY <1>11 DEF StopHandler
  <2> QED
    BY <1>11, <2>1, <2>2, <2>3, <2>4 DEF StopHandler
<1>12. ASSUME NEW c \in Consumers, StopDelete(c) PROVE TypeOK'
  BY <1>12 DEF StopDelete
<1>13. CASE Shutdown
  BY <1>13 DEF Shutdown, consumerVars
<1>14. CASE UNCHANGED vars
  BY <1>14 DEF vars, consumerVars
<1> QED
  BY <1>1, <1>2, <1>3, <1>4, <1>5, <1>6, <1>7, <1>8, <1>9, <1>10, <1>11, <1>12, <1>13, <1>14
     DEF Next, InformerEnds, StartStep, StopStep

\* The store, the factories and the consumers keep their types in every
\* behaviour of the code, and a factory with handlers has a goroutine.
THEOREM FactoryStoreTypeOK == Spec => []TypeOK
<1>1. Init => TypeOK
  BY InitTypeOK
<1>2. TypeOK /\ [Next]_vars => TypeOK'
  BY NextTypeOK
<1> QED
  BY <1>1, <1>2, PTL DEF Spec

-----------------------------------------------------------------------------
(* The consumers of an index with a pinned consumer are served.            *)

\* The inductive invariant holds initially.
LEMMA InitIInv == Init => IInv
<1> SUFFICES ASSUME Init PROVE IInv
  OBVIOUS
<1>1. PICK home \in [PinnedIndexes -> Factories] :
        /\ \A i, j \in PinnedIndexes : i # j => home[i] # home[j]
        /\ data = [i \in Indexes |-> IF i \in PinnedIndexes THEN home[i] ELSE NoFactory]
        /\ factory = [f \in Factories |->
              IF \E i \in PinnedIndexes : home[i] = f
              THEN [index |-> CHOOSE i \in PinnedIndexes : home[i] = f,
                    handlers |-> {p \in Pinned : home[IndexOf[p]] = f},
                    run |-> "running", synced |-> TRUE]
              ELSE Unused]
        /\ at = [c \in Consumers |-> IF c \in Pinned THEN home[IndexOf[c]] ELSE NoFactory]
  BY DEF Init
<1>2. PinnedIndexes \subseteq Indexes /\ \A p \in Pinned : IndexOf[p] \in PinnedIndexes
  BY DEF PinnedIndexes
<1>3. ASSUME NEW i \in PinnedIndexes
      PROVE  /\ data[i] = home[i]
             /\ factory[home[i]].run = "running"
             /\ factory[home[i]].index = i
             /\ factory[home[i]].handlers = {p \in Pinned : home[IndexOf[p]] = home[i]}
  <2>1. data[i] = home[i] /\ home[i] \in Factories
    BY <1>1, <1>2
  <2>2. (CHOOSE j \in PinnedIndexes : home[j] = home[i]) = i
    BY <1>1
  <2>3. factory[home[i]] = [index |-> CHOOSE j \in PinnedIndexes : home[j] = home[i],
                            handlers |-> {p \in Pinned : home[IndexOf[p]] = home[i]},
                            run |-> "running", synced |-> TRUE]
    BY <1>1, <2>1
  <2> QED
    BY <2>1, <2>2, <2>3
<1>4. StoredUnderIndex
  <2>1. ASSUME NEW i \in Indexes, data[i] # NoFactory PROVE i \in PinnedIndexes
    BY <1>1, <2>1
  <2> QED
    BY <1>3, <2>1 DEF StoredUnderIndex
<1>5. ContextsDerived
  BY DEF Init, ContextsDerived
<1>6. ASSUME NEW i \in PinnedIndexes PROVE Alive(i)
  <2>1. data[i] # NoFactory /\ factory[data[i]].run = "running" /\ data[i] \notin ended
    <3>1. ended = {}
      BY DEF Init
    <3>2. home[i] # NoFactory
      BY <1>1
    <3> QED
      BY <1>3, <3>1, <3>2
  <2>2. ASSUME NEW c \in Consumers, IndexOf[c] = i
        PROVE  /\ c \in Pinned => c \in factory[data[i]].handlers
               /\ stop[c] # "draining"
               /\ Wants(c) => at[c] = data[i] /\ c \in factory[data[i]].handlers
    <3>1. c \in Pinned => c \in factory[data[i]].handlers
      BY <1>3, <2>2
    <3>2. stop[c] # "draining"
      BY DEF Init
    <3>3. Wants(c) => c \in Pinned
      BY DEF Init, Wants
    <3>4. c \in Pinned => at[c] = data[i]
      BY <1>1, <1>3, <2>2
    <3> QED
      BY <3>1, <3>2, <3>3, <3>4
  <2> QED
    BY <2>1, <2>2 DEF Alive
<1> QED
  BY InitTypeOK, <1>4, <1>5, <1>6 DEF IInv

\* Every step preserves the relation of store and factories.
LEMMA NextStoredUnderIndex == IInv /\ [Next]_vars => StoredUnderIndex'
<1> SUFFICES ASSUME IInv, [Next]_vars, NEW i \in Indexes, data'[i] # NoFactory
             PROVE  factory'[data'[i]].run # "unused" /\ factory'[data'[i]].index = i
  BY DEF StoredUnderIndex
<1> DEFINE Goal == factory'[data'[i]].run # "unused" /\ factory'[data'[i]].index = i
<1> USE DEF IInv, TypeOK, FactoryRecord
<1>0. data[i] # NoFactory => /\ data[i] \in Factories
                             /\ factory[data[i]].run # "unused" /\ factory[data[i]].index = i
  BY DEF StoredUnderIndex
<1>1. ASSUME NEW f \in Factories, InformerSyncs(f) \/ InformerStops(f) \/ InformerExits(f) PROVE Goal
  BY <1>0, <1>1 DEF InformerSyncs, InformerStops, InformerExits
<1>2. ASSUME NEW c \in Consumers, StartShared(c) PROVE Goal
  <2>1. PICK f \in Factories : f = data[IndexOf[c]]
    BY <1>2 DEF StartShared, Usable
  <2>2. factory' = [factory EXCEPT ![f] = WithHandler(factory[f], c)] /\ data' = data
    BY <1>2, <2>1 DEF StartShared
  <2>3. WithHandler(factory[f], c).run = "running" /\ WithHandler(factory[f], c).index = IndexOf[c]
    BY WithHandlerType
  <2>4. data[i] = f => i = IndexOf[c]
    BY <1>0, <2>1 DEF StoredUnderIndex
  <2> QED
    BY <1>0, <2>2, <2>3, <2>4
<1>3. ASSUME NEW c \in Consumers, StartFresh(c) PROVE Goal
  <2>1. PICK f \in Factories :
          /\ factory[f].run = "unused"
          /\ factory' = [factory EXCEPT ![f] = WithHandler(Unused, c)]
          /\ data' = [data EXCEPT ![IndexOf[c]] = f]
    BY <1>3 DEF StartFresh
  <2>2. WithHandler(Unused, c).run = "running" /\ WithHandler(Unused, c).index = IndexOf[c]
    BY FreshFactory
  <2>3. CASE i = IndexOf[c]
    BY <2>1, <2>2, <2>3
  <2>4. CASE i # IndexOf[c]
    BY <1>0, <2>1, <2>4
  <2> QED
    BY <2>3, <2>4
<1>4. ASSUME NEW c \in Consumers, StopHandler(c) PROVE Goal
  <2>1. PICK f \in Factories : f = data[IndexOf[c]]
    BY <1>4 DEF StopHandler, Registered
  <2>2. factory' = [factory EXCEPT ![f].handlers = @ \ {c}] /\ data' = data
    BY <1>4, <2>1 DEF StopHandler
  <2> QED
    BY <1>0, <2>2
<1>5. ASSUME NEW c \in Consumers, StopDelete(c) PROVE Goal
  BY <1>0, <1>5 DEF StopDelete
<1>6. CASE UNCHANGED <<data, factory>>
  BY <1>0, <1>6
<1> QED
  BY <1>1, <1>2, <1>3, <1>4, <1>5, <1>6 DEF Next, InformerEnds, StartStep, StopStep, Launch,
     StartRefused, StartReturns, Cancel, Shutdown, StopUnregistered, vars

\* Every step preserves the relation of contexts and shutdown.
LEMMA NextContextsDerived == IInv /\ [Next]_vars => ContextsDerived'
<1> SUFFICES ASSUME IInv, [Next]_vars PROVE ContextsDerived'
  OBVIOUS
<1> USE DEF IInv, TypeOK, ContextsDerived
<1>1. ASSUME NEW c \in Consumers, Cancel(c) PROVE ContextsDerived'
  BY <1>1 DEF Cancel
<1>2. CASE Shutdown
  BY <1>2 DEF Shutdown
<1>3. CASE UNCHANGED <<cancelled, shutdown>>
  BY <1>3
<1> QED
  BY <1>1, <1>2, <1>3 DEF Next, InformerEnds, InformerSyncs, InformerStops, InformerExits, StartStep,
     StopStep, Launch, StartShared, StartFresh, StartRefused, StartReturns, StopUnregistered,
     StopHandler, StopDelete, vars

\* Before the shutdown every step keeps the shared informer of a pinned index alive.
LEMMA NextAlive ==
    ASSUME IInv, [Next]_vars, NEW i \in PinnedIndexes, ~shutdown'
    PROVE  Alive(i)'
<1>1. i \in Indexes /\ \E p \in Pinned : IndexOf[p] = i
  BY DEF PinnedIndexes
<1>2. ~shutdown
  BY DEF Next, InformerEnds, InformerSyncs, InformerStops, InformerExits, StartStep, StopStep, Launch,
     StartShared, StartFresh, StartRefused, StartReturns, Cancel, Shutdown, StopUnregistered,
     StopHandler, StopDelete, vars
<1>3. PICK F \in Factories :
        /\ F = data[i]
        /\ factory[F].run = "running" /\ factory[F].index = i /\ F \notin ended
        /\ \A c \in Consumers : IndexOf[c] = i =>
             /\ c \in Pinned => c \in factory[F].handlers
             /\ stop[c] # "draining"
             /\ Wants(c) => at[c] = F /\ c \in factory[F].handlers
  BY <1>1, <1>2 DEF IInv, TypeOK, Alive, StoredUnderIndex
<1>4. cancelled \cap Pinned = {}
  BY <1>2 DEF IInv, ContextsDerived
<1>5. \A j \in Indexes : j # i => data[j] # F
  BY <1>3 DEF IInv, StoredUnderIndex
\* What a step has to keep: the factory and, for each consumer of the index, its part of Alive.
<1> DEFINE Kept ==
      /\ data'[i] = F
      /\ factory'[F].run = "running" /\ F \notin ended'
      /\ \A c \in Consumers : IndexOf[c] = i =>
           /\ c \in Pinned => c \in factory'[F].handlers
           /\ stop'[c] # "draining"
           /\ Wants(c)' => at'[c] = F /\ c \in factory'[F].handlers
<1> SUFFICES Kept
  BY <1>3 DEF Alive
<1> USE DEF IInv, TypeOK, FactoryRecord
<1>6. ASSUME NEW f \in Factories, InformerSyncs(f) \/ InformerStops(f) \/ InformerExits(f) PROVE Kept
  <2>1. factory'[F].run = "running" /\ factory'[F].handlers = factory[F].handlers
    <3>1. CASE InformerSyncs(f)
      BY <1>3, <3>1 DEF InformerSyncs
    <3>2. CASE InformerStops(f)
      BY <1>3, <3>2 DEF InformerStops
    <3>3. CASE InformerExits(f)
      BY <1>3, <3>3 DEF InformerExits
    <3> QED
      BY <1>6, <3>1, <3>2, <3>3
  <2>2. UNCHANGED <<data, ended, st, at, stop, cancelled>>
    BY <1>6 DEF InformerSyncs, InformerStops, InformerExits, consumerVars
  <2> QED
    BY <1>3, <2>1, <2>2 DEF Wants
<1>7. ASSUME NEW c \in Consumers, Launch(c) PROVE Kept
  BY <1>3, <1>7 DEF Launch, Wants
<1>8. ASSUME NEW c \in Consumers, StartShared(c) PROVE Kept
  <2>1. PICK f \in Factories : f = data[IndexOf[c]]
    BY <1>8 DEF StartShared, Usable
  <2>2. /\ factory' = [factory EXCEPT ![f] = WithHandler(factory[f], c)]
        /\ st' = [st EXCEPT ![c] = "syncing"]
        /\ at' = [at EXCEPT ![c] = f]
        /\ UNCHANGED <<data, ended, stop, cancelled>>
    BY <1>8, <2>1 DEF StartShared
  <2>3. /\ WithHandler(factory[f], c).run = "running"
        /\ WithHandler(factory[f], c).handlers = factory[f].handlers \cup {c}
    BY WithHandlerType
  <2>4. IndexOf[c] = i => f = F
    BY <1>3, <2>1
  <2>5. factory'[F].run = "running" /\ factory[F].handlers \subseteq factory'[F].handlers
    BY <1>3, <2>2, <2>3
  <2>6. IndexOf[c] = i => at'[c] = F /\ c \in factory'[F].handlers
    BY <2>2, <2>3, <2>4
  <2> QED
    BY <1>3, <2>2, <2>5, <2>6 DEF Wants
<1>9. ASSUME NEW c \in Consumers, StartRefused(c) PROVE Kept
  <2>1. IndexOf[c] # i
    BY <1>3, <1>9 DEF StartRefused
  <2> QED
    BY <1>3, <1>9, <2>1 DEF StartRefused, Wants
<1>10. ASSUME NEW c \in Consumers, StartFresh(c) PROVE Kept
  <2>1. IndexOf[c] # i
    BY <1>3, <1>10 DEF StartFresh, Usable
  <2>2. PICK f \in Factories :
          /\ factory[f].run = "unused"
          /\ factory' = [factory EXCEPT ![f] = WithHandler(Unused, c)]
          /\ ended' = EndedAfterAdd(data[IndexOf[c]], f)
          /\ data' = [data EXCEPT ![IndexOf[c]] = f]
          /\ at' = [at EXCEPT ![c] = f]
    BY <1>10 DEF StartFresh
  <2>3. st' = [st EXCEPT ![c] = "syncing"] /\ UNCHANGED <<stop, cancelled>>
    BY <1>10 DEF StartFresh
  <2>4. f # F /\ factory'[F] = factory[F] /\ data'[i] = F
    BY <1>1, <1>3, <2>1, <2>2
  <2>5. F \notin ended'
    BY <1>2, <1>3, <1>5, <2>1, <2>2 DEF EndedAfterAdd
  <2> QED
    BY <1>3, <2>1, <2>2, <2>3, <2>4, <2>5 DEF Wants
<1>11. ASSUME NEW c \in Consumers, StartReturns(c) PROVE Kept
  BY <1>3, <1>11 DEF StartReturns, Wants
<1>12. ASSUME NEW c \in Consumers, Cancel(c) PROVE Kept
  BY <1>3, <1>12 DEF Cancel, consumerVars, Wants
<1>13. ASSUME NEW c \in Consumers, StopUnregistered(c) PROVE Kept
  BY <1>3, <1>13 DEF StopUnregistered, Wants
<1>14. ASSUME NEW c \in Consumers, StopHandler(c) PROVE Kept
  <2>1. PICK f \in Factories : f = data[IndexOf[c]]
    BY <1>14 DEF StopHandler, Registered
  <2>2. /\ c \in cancelled
        /\ factory' = [factory EXCEPT ![f].handlers = @ \ {c}]
        /\ ended' = IF factory[f].handlers = {c} THEN ended \cup {f} ELSE ended
        /\ stop' = [stop EXCEPT ![c] = IF factory[f].handlers = {c} THEN "draining" ELSE "finished"]
        /\ UNCHANGED <<data, st, at, cancelled>>
    BY <1>14, <2>1 DEF StopHandler
  <2>3. f = F <=> IndexOf[c] = i
    BY <1>3, <1>5, <2>1
  \* The handler of the pinned consumer is another one: c does not leave last.
  <2>4. IndexOf[c] = i => factory[F].handlers # {c}
    BY <1>1, <1>3, <1>4, <2>2
  <2>5. F \notin ended' /\ (IndexOf[c] = i => stop'[c] # "draining")
    BY <1>3, <2>2, <2>3, <2>4
  <2>6. /\ factory'[F].run = "running"
        /\ \A d \in Consumers : d # c /\ d \in factory[F].handlers => d \in factory'[F].handlers
    BY <1>3, <2>2
  <2>7. c \notin Pinned /\ ~Wants(c)'
    BY <1>4, <2>2 DEF Wants
  <2> QED
    BY <1>3, <2>2, <2>5, <2>6, <2>7 DEF Wants
<1>15. ASSUME NEW c \in Consumers, StopDelete(c) PROVE Kept
  <2>1. IndexOf[c] # i
    BY <1>3, <1>15 DEF StopDelete
  <2> QED
    BY <1>1, <1>3, <1>15, <2>1 DEF StopDelete, Wants
<1>16. CASE UNCHANGED <<data, factory, ended, st, at, stop, cancelled>>
  BY <1>3, <1>16 DEF Wants
<1>17. ~Shutdown
  BY DEF Shutdown
<1> QED
  BY <1>6, <1>7, <1>8, <1>9, <1>10, <1>11, <1>12, <1>13, <1>14, <1>15, <1>16, <1>17
     DEF Next, InformerEnds, StartStep, StopStep, vars, consumerVars

\* Whatever other consumers of its index start and stop, a consumer that was
\* not stopped itself has its handler in a running shared informer that the
\* store knows, provided some consumer of the index is never stopped.
THEOREM SharedConsumersAreServed == Spec => []SharedConsumersServed
<1>1. Init => IInv
  BY InitIInv
<1>2. IInv /\ [Next]_vars => IInv'
  <2> SUFFICES ASSUME IInv, [Next]_vars PROVE IInv'
    OBVIOUS
  <2>1. TypeOK'
    BY NextTypeOK DEF IInv
  <2>2. StoredUnderIndex'
    BY NextStoredUnderIndex
  <2>3. ContextsDerived'
    BY NextContextsDerived
  <2>4. ASSUME NEW i \in PinnedIndexes, ~shutdown' PROVE Alive(i)'
    BY <2>4, NextAlive
  <2> QED
    BY <2>1, <2>2, <2>3, <2>4 DEF IInv
<1>3. IInv => SharedConsumersServed
  <2> SUFFICES ASSUME IInv, NEW c \in Consumers, IndexOf[c] \in PinnedIndexes, Wants(c)
               PROVE  Served(c)
    BY DEF SharedConsumersServed
  <2>1. ~shutdown
    BY DEF IInv, ContextsDerived, Wants
  <2>2. Alive(IndexOf[c])
    BY <2>1 DEF IInv
  <2> QED
    BY <2>2 DEF IInv, TypeOK, Alive, Served
<1> QED
  BY <1>1, <1>2, <1>3, PTL DEF Spec
=============================================================================
