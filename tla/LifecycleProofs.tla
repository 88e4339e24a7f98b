-------------------------- MODULE LifecycleProofs --------------------------
(***************************************************************************)
(* What TLAPS proves of the life of a controller process, for any keys,    *)
(* workers and number of signals.                                          *)
(***************************************************************************)
EXTENDS Lifecycle, TLAPS

\* Main is past WaitForCacheSync, and went on to start workers.
Past == {"spawn", "running", "returned", "exit0"}

(* The caches are complete from the moment WaitForCacheSync succeeds, and  *)
(* there are no workers before.                                            *)
CachesFirst ==
  /\ main \in Past => AllSynced
  /\ \A w \in Workers : worker[w] # "none" => AllSynced

\* A worker in the middle of a sync has a key to give back.
Holding == \A w \in Workers : worker[w] = "sync" => hand[w] \in Keys

LifecycleInv == LifecycleTypeOK /\ Holding /\ CachesFirst

LEMMA InitLifecycleInv == Init => LifecycleInv
<1> SUFFICES ASSUME Init PROVE LifecycleInv
  OBVIOUS
<1> USE DEF Init
<1>1. LifecycleTypeOK
  <2>1. pending \in 0..2 /\ sent \in Nat
    BY SMT
  <2>2. QueueTypeOK(Keys)
    BY DEF QueueInit, QueueTypeOK
  <2>3. /\ informer \in [Informers -> {"absent", "registered", "running", "stopped"}]
        /\ synced \in [Informers -> BOOLEAN]
    BY DEF Informers
  <2>4. QED BY <2>1, <2>2, <2>3 DEF LifecycleTypeOK
<1>2. Holding /\ CachesFirst
  BY SMT DEF Holding, CachesFirst, Past
<1>3. QED BY <1>1, <1>2 DEF LifecycleInv

\* Every step keeps the types.
LEMMA TypeStep ==
  LifecycleTypeOK /\ Holding /\ [Next]_vars => LifecycleTypeOK' /\ Holding'
<1> SUFFICES ASSUME LifecycleTypeOK, Holding, [Next]_vars
             PROVE  LifecycleTypeOK' /\ Holding'
  OBVIOUS
<1> USE DEF LifecycleTypeOK, Holding, QueueTypeOK, Exits, signalVars,
        factoryVars, crew, queueVars
<1>1. CASE MainStep
  <2>1. CASE SetupSignalHandler BY <2>1 DEF SetupSignalHandler
  <2>2. CASE BuildConfig \/ BuildClients BY <2>2 DEF BuildConfig, BuildClients, NewForConfig
  <2>3. CASE NewController BY <2>3 DEF NewController
  <2>4. CASE StartFactories BY <2>4 DEF StartFactories, Start
  <2>5. CASE WaitForCacheSync BY <2>5 DEF WaitForCacheSync
  <2>6. CASE \E w \in Workers : StartWorker(w) BY <2>6 DEF StartWorker
  <2>7. CASE StartedWorkers BY <2>7 DEF StartedWorkers
  <2>8. CASE ShutDown BY <2>8 DEF ShutDown
  <2>9. CASE Exit BY <2>9 DEF Exit
  <2>10. QED BY <1>1, <2>1, <2>2, <2>3, <2>4, <2>5, <2>6, <2>7, <2>8, <2>9 DEF MainStep
<1>2. CASE Signal BY <1>2 DEF Signal, Exited
<1>3. CASE HandleSignal
  <2>1. pending' \in 0..2
    BY <1>3, SMT DEF HandleSignal
  <2>2. QED BY <1>3, <2>1 DEF HandleSignal, Exited
<1>4. ASSUME NEW i \in Informers, List(i) \/ StopInformer(i) PROVE LifecycleTypeOK' /\ Holding'
  BY <1>4 DEF List, StopInformer, Exited
<1>5. ASSUME NEW k \in Keys, Notify(k) \/ Event(k) \/ Retry(k) PROVE LifecycleTypeOK' /\ Holding'
  BY <1>5 DEF Notify, Event, Retry, Enqueue, Add, BackoffOver, Exited
<1>6. ASSUME NEW w \in Workers, WorkerStep(w) PROVE LifecycleTypeOK' /\ Holding'
  <2>1. CASE UntilWithContext(w) BY <2>1 DEF UntilWithContext, Exited
  <2>2. CASE GetShutDown(w) BY <2>2 DEF GetShutDown, Exited
  <2>3. CASE SyncReturns(w)
    BY <2>3 DEF SyncReturns, Exited, Done, AddRateLimitedAndDone
  <2>4. CASE SyncPanics(w) BY <2>4 DEF SyncPanics, Exited
  <2>5. QED BY <1>6, <2>1, <2>2, <2>3, <2>4 DEF WorkerStep
<1>7. ASSUME NEW w \in Workers, NEW k \in Keys, GetItem(w, k) PROVE LifecycleTypeOK' /\ Holding'
  BY <1>7 DEF GetItem, Get, Queued, Exited
<1>8. CASE UNCHANGED vars BY <1>8 DEF vars
<1>9. QED BY <1>1, <1>2, <1>3, <1>4, <1>5, <1>6, <1>7, <1>8 DEF Next

\* A cache that is complete stays so, and workers come after all of them are.
LEMMA CachesStep == LifecycleInv /\ [Next]_vars => CachesFirst'
<1> SUFFICES ASSUME LifecycleInv, [Next]_vars PROVE CachesFirst'
  OBVIOUS
<1> USE DEF LifecycleInv, LifecycleTypeOK, CachesFirst, Past, Exits, AllSynced,
        signalVars, factoryVars, crew
<1>1. CASE MainStep
  <2>1. CASE SetupSignalHandler BY <2>1 DEF SetupSignalHandler
  <2>2. CASE BuildConfig \/ BuildClients BY <2>2 DEF BuildConfig, BuildClients, NewForConfig
  <2>3. CASE NewController BY <2>3 DEF NewController
  <2>4. CASE StartFactories BY <2>4 DEF StartFactories, Start
  <2>5. CASE WaitForCacheSync BY <2>5 DEF WaitForCacheSync
  <2>6. CASE \E w \in Workers : StartWorker(w) BY <2>6 DEF StartWorker
  <2>7. CASE StartedWorkers BY <2>7 DEF StartedWorkers
  <2>8. CASE ShutDown BY <2>8 DEF ShutDown
  <2>9. CASE Exit BY <2>9 DEF Exit
  <2>10. QED BY <1>1, <2>1, <2>2, <2>3, <2>4, <2>5, <2>6, <2>7, <2>8, <2>9 DEF MainStep
<1>2. CASE Signal BY <1>2 DEF Signal, Exited
<1>3. CASE HandleSignal BY <1>3 DEF HandleSignal, Exited
<1>4. ASSUME NEW i \in Informers, List(i) \/ StopInformer(i) PROVE CachesFirst'
  BY <1>4 DEF List, StopInformer, Exited
<1>5. ASSUME NEW k \in Keys, Notify(k) \/ Event(k) \/ Retry(k) PROVE CachesFirst'
  BY <1>5 DEF Notify, Event, Retry, Exited
<1>6. ASSUME NEW w \in Workers, WorkerStep(w) PROVE CachesFirst'
  BY <1>6 DEF WorkerStep, UntilWithContext, GetShutDown, SyncReturns, SyncPanics, Exited
<1>7. ASSUME NEW w \in Workers, NEW k \in Keys, GetItem(w, k) PROVE CachesFirst'
  BY <1>7 DEF GetItem, Exited
<1>8. CASE UNCHANGED vars BY <1>8 DEF vars
<1>9. QED BY <1>1, <1>2, <1>3, <1>4, <1>5, <1>6, <1>7, <1>8 DEF Next

\* Both parts together are inductive.
THEOREM LifecycleInvHolds == Spec => []LifecycleInv
<1>1. LifecycleInv /\ [Next]_vars => LifecycleInv'
  BY TypeStep, CachesStep DEF LifecycleInv
<1>2. QED BY InitLifecycleInv, <1>1, PTL DEF Spec

(* Whatever the order of signals, starts and stops, each goroutine of the  *)
(* process is where it may be, and its queue, channel and caches are of    *)
(* their types: the channel of signals never holds more than two.          *)
THEOREM LifecycleTypeCorrect == Spec => []LifecycleTypeOK
<1>1. LifecycleInv => LifecycleTypeOK
  BY DEF LifecycleInv
<1>2. QED BY LifecycleInvHolds, <1>1, PTL

(* No sync runs before every cache is complete (controller.go:184-189),    *)
(* whatever signals come while the process starts up.                      *)
THEOREM NoSyncBeforeCachesHolds == Spec => []NoSyncBeforeCaches
<1>1. LifecycleInv => NoSyncBeforeCaches
  BY DEF LifecycleInv, CachesFirst, NoSyncBeforeCaches
<1>2. QED BY LifecycleInvHolds, <1>1, PTL

----------------------------------------------------------------------------
\* What the factory sees of a step: its informer asked for, started, synced or
\* ended, the context cancelled, or nothing.
LEMMA FactoryStep ==
  ASSUME LifecycleTypeOK, [Next]_vars
  PROVE  [Factory!Next]_(Factory!vars)
<1> DEFINE bg == "blueGreenDeployments"
<1> USE DEF Informers, LifecycleTypeOK, signalVars, factoryVars, crew,
        Factory!vars, Factory!calls
<1>0. bg \in Informers
  OBVIOUS
<1>1. CASE UNCHANGED <<informer, synced, cancelled>>
  BY <1>1
<1>2. CASE NewController
  <2>1. CASE informer[bg] = "absent"
    <3>1. Factory!InformerFor(bg)
      BY <1>2, <2>1 DEF NewController, Factory!InformerFor
    <3>2. QED BY <3>1 DEF Factory!Next
  <2>2. CASE informer[bg] # "absent"
    BY <1>2, <2>2 DEF NewController
  <2>3. QED BY <2>1, <2>2
<1>3. ASSUME NEW a, NEW i \in Informers, NEW n, Start(a, i, n)
      PROVE  [Factory!Next]_(Factory!vars)
  <2>1. CASE i # bg \/ informer[bg] # "registered"
    BY <1>3, <2>1 DEF Start
  <2>2. CASE i = bg /\ informer[bg] = "registered"
    <3>1. /\ informer'[bg] = (IF cancelled THEN "stopped" ELSE "running")
          /\ UNCHANGED <<synced, cancelled>>
      BY <1>3, <2>2 DEF Start
    <3> DEFINE live == IF cancelled THEN {} ELSE {bg}
               reg == {j \in {bg} : informer[j] # "absent"}
               run == {j \in {bg} : informer[j] \in {"running", "stopped"}}
               count == [j \in {bg} |-> IF informer[j] = "running" THEN 1 ELSE 0]
    <3>2. reg = {bg} /\ run = {} /\ reg' = {bg} /\ run' = {bg}
      BY <2>2, <3>1
    <3>3. count' = [t \in {bg} |-> IF t \in live THEN count[t] + 1 ELSE count[t]]
      BY <2>2, <3>1
    <3>4. live \in SUBSET (reg \ run) /\ (live = reg \ run \/ cancelled)
      BY <3>2
    <3>5. UNCHANGED {j \in {bg} : synced[j]}
      BY <3>1
    <3> HIDE DEF live
    <3>6. Factory!Start
      BY <3>1, <3>2, <3>3, <3>4, <3>5 DEF Factory!Start
    <3>7. QED BY <3>6 DEF Factory!Next
  <2>3. QED BY <2>1, <2>2
<1>4. ASSUME NEW i \in Informers, List(i) PROVE [Factory!Next]_(Factory!vars)
  <2>1. CASE i # bg
    BY <1>4, <2>1 DEF List
  <2>2. CASE i = bg
    <3>1. Factory!HasSynced(bg)
      BY <1>4, <2>2 DEF List, Factory!HasSynced
    <3>2. QED BY <3>1 DEF Factory!Next
  <2>3. QED BY <2>1, <2>2
<1>5. ASSUME NEW i \in Informers, StopInformer(i) PROVE [Factory!Next]_(Factory!vars)
  <2>1. CASE i # bg
    BY <1>5, <2>1 DEF StopInformer
  <2>2. CASE i = bg
    <3>1. Factory!RunEnds(bg)
      BY <1>5, <2>2 DEF StopInformer, Factory!RunEnds
    <3>2. QED BY <3>1 DEF Factory!Next
  <2>3. QED BY <2>1, <2>2
<1>6. CASE HandleSignal /\ cancelled'
  <2>1. Factory!CloseStop
    BY <1>6 DEF HandleSignal, Factory!CloseStop
  <2>2. QED BY <2>1 DEF Factory!Next
<1>7. CASE StartFactories
  BY <1>3, <1>7 DEF StartFactories
<1>8. CASE \/ MainStep /\ ~ NewController /\ ~ StartFactories
           \/ Signal \/ (HandleSignal /\ ~ cancelled')
           \/ UNCHANGED vars
  BY <1>1, <1>8
     DEF MainStep, SetupSignalHandler, BuildConfig, BuildClients, NewForConfig,
         WaitForCacheSync, StartWorker, StartedWorkers, ShutDown, Exit, Signal,
         HandleSignal, vars
<1>9. CASE \/ \E k \in Keys : Notify(k) \/ Event(k) \/ Retry(k)
           \/ \E w \in Workers : WorkerStep(w)
           \/ \E w \in Workers, k \in Keys : GetItem(w, k)
  BY <1>1, <1>9
     DEF Notify, Event, Retry, WorkerStep, UntilWithContext, GetShutDown, SyncReturns,
         SyncPanics, GetItem
<1>10. QED BY <1>2, <1>4, <1>5, <1>6, <1>7, <1>8, <1>9 DEF Next

(* main uses its informer factory as the factory allows, whatever signals  *)
(* come: the informer is asked for before it is started, is run once, and  *)
(* ends only when the context is done.                                     *)
THEOREM FactoryIsImplemented == Spec => ImplementsFactory
<1>1. Init => Factory!Init
  BY DEF Init, Factory!Init, Informers
<1>2. LifecycleInv /\ [Next]_vars => [Factory!Next]_(Factory!vars)
  BY FactoryStep DEF LifecycleInv
<1>3. QED
  BY LifecycleInvHolds, <1>1, <1>2, PTL DEF Spec, ImplementsFactory, Factory!Spec
============================================================================
