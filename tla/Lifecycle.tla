----------------------------- MODULE Lifecycle -----------------------------
(***************************************************************************)
(* The life of one controller process: main, the signal handler, the       *)
(* informers and the workers, from the start to the exit.  SyncHandler has *)
(* what a sync does and the process that simply dies; here a sync only     *)
(* takes time, and the process starts up and shuts down step by step.      *)
(***************************************************************************)
EXTENDS WorkQueue, Naturals

CONSTANTS Keys,       \* the BlueGreenDeployments there are
          Workers,
          MaxSignals, \* the bound on the signals sent to the process
          Absent

ASSUME LifecycleAssumption == MaxSignals \in Nat /\ Absent \notin Keys

Informers == {"deployments", "blueGreenDeployments"}

VARIABLES main,      \* where main is, or how the process ended
          handler,   \* what the goroutine of SetupSignalHandler waits for
          pending,   \* signals in its channel
          sent,      \* signals sent to the process
          cancelled, \* ctx is done
          informer,  \* informer[i]: what its factory knows of informer i
          synced,    \* synced[i]: informer i has listed its objects
          unnotified,\* listed objects whose AddFunc is yet to be called
          draining,  \* the queue was shut down
          worker,    \* worker[w]: where worker w is
          hand       \* hand[w]: the key it is syncing, or Absent

signalVars == <<handler, pending, sent, cancelled>>
factoryVars == <<informer, synced, unnotified>>
crew == <<worker, hand>>
vars == <<main, signalVars, factoryVars, draining, queueVars, crew>>

Exits == {"exit0", "exit1", "killed", "panicked"}
Exited == main \in Exits

AllSynced == \A i \in Informers : synced[i]

Init ==
  /\ main = "setup"
  /\ handler = "none" /\ pending = 0 /\ sent = 0 /\ cancelled = FALSE
  /\ informer = [i \in Informers |-> "absent"]
  /\ synced = [i \in Informers |-> FALSE]
  /\ unnotified = {}
  /\ QueueInit /\ draining = FALSE
  /\ worker = [w \in Workers |-> "none"]
  /\ hand = [w \in Workers |-> Absent]

----------------------------------------------------------------------------
(* pkg/signals                                                             *)

SetupSignalHandler ==
  /\ main = "setup"
  /\ main' = "build"
  /\ handler' = "first"
  /\ UNCHANGED <<pending, sent, cancelled, factoryVars, draining, queueVars, crew>>

\* Mutant of Signal: the channel is never full.
SignalUnbuffered ==
  /\ ~ Exited
  /\ sent < MaxSignals
  /\ sent' = sent + 1
  /\ \/ handler = "none" /\ main' = "killed" /\ UNCHANGED pending
     \/ handler # "none" /\ pending' = pending + 1 /\ UNCHANGED main
  /\ UNCHANGED <<handler, cancelled, factoryVars, draining, queueVars, crew>>

\* Someone sends a signal.  Before the handler is set up it kills the process;
\* from then on it goes to a channel of two, and is dropped if that is full.
Signal ==
  /\ ~ Exited
  /\ sent < MaxSignals
  /\ sent' = sent + 1
  /\ \/ handler = "none" /\ main' = "killed" /\ UNCHANGED pending
     \/ /\ handler # "none"
        /\ pending' = IF pending < 2 THEN pending + 1 ELSE pending
        /\ UNCHANGED main
  /\ UNCHANGED <<handler, cancelled, factoryVars, draining, queueVars, crew>>

\* The first signal cancels the context, the second one ends the process.
HandleSignal ==
  /\ ~ Exited
  /\ pending > 0
  /\ pending' = pending - 1
  /\ \/ handler = "first" /\ handler' = "second" /\ cancelled' = TRUE /\ UNCHANGED main
     \/ handler = "second" /\ main' = "exit1" /\ UNCHANGED <<handler, cancelled>>
  /\ UNCHANGED <<sent, factoryVars, draining, queueVars, crew>>

----------------------------------------------------------------------------
(* The informer factories and the handlers of NewController.               *)

\* Flags and kubeconfig; an error ends the process.
BuildConfig ==
  /\ main = "build"
  /\ main' \in {"buildKube", "exit1"}
  /\ UNCHANGED <<signalVars, factoryVars, draining, queueVars, crew>>

\* The two clients, one after the other; so does an error here.
NewForConfig(at, next) ==
  /\ main = at
  /\ main' \in {next, "exit1"}
  /\ UNCHANGED <<signalVars, factoryVars, draining, queueVars, crew>>

BuildClients == \/ NewForConfig("buildKube", "buildExample")
                \/ NewForConfig("buildExample", "construct")

\* Mutant of NewController: nobody asks for the informer of the Deployments.
NewControllerHalfWired ==
  /\ main = "construct"
  /\ main' = "startKube"
  /\ informer' = [informer EXCEPT !["blueGreenDeployments"] = "registered"]
  /\ UNCHANGED <<signalVars, synced, unnotified, draining, queueVars, crew>>

\* Mutant of NewController: who asks for an informer runs it.
NewControllerRuns ==
  /\ main = "construct"
  /\ main' = "startKube"
  /\ informer' = [i \in Informers |-> "running"]
  /\ UNCHANGED <<signalVars, synced, unnotified, draining, queueVars, crew>>

\* Asking for an informer (InformerFor) registers it with its factory.
NewController ==
  /\ main = "construct"
  /\ main' = "startKube"
  /\ informer' = [i \in Informers |->
                    IF informer[i] = "absent" THEN "registered" ELSE informer[i]]
  /\ UNCHANGED <<signalVars, synced, unnotified, draining, queueVars, crew>>

\* A factory's Start runs the registered informers it does not run yet; with a
\* context that is done already they end at once.
Start(at, i, next) ==
  /\ main = at
  /\ main' = next
  /\ informer' = [informer EXCEPT ![i] =
                    IF @ # "registered" THEN @
                    ELSE IF cancelled THEN "stopped" ELSE "running"]
  /\ UNCHANGED <<signalVars, synced, unnotified, draining, queueVars, crew>>

StartFactories == \/ Start("startKube", "deployments", "startExample")
                  \/ Start("startExample", "blueGreenDeployments", "waitForSync")

\* An informer's first list is complete; the handlers are told one by one.
List(i) ==
  /\ ~ Exited
  /\ informer[i] = "running"
  /\ ~ synced[i]
  /\ synced' = [synced EXCEPT ![i] = TRUE]
  /\ unnotified' = IF i = "blueGreenDeployments" THEN Keys ELSE unnotified
  /\ UNCHANGED <<main, signalVars, informer, draining, queueVars, crew>>

StopInformer(i) ==
  /\ ~ Exited
  /\ cancelled
  /\ informer[i] = "running"
  /\ informer' = [informer EXCEPT ![i] = "stopped"]
  /\ UNCHANGED <<main, signalVars, synced, unnotified, draining, queueVars, crew>>

\* A queue that was shut down takes nothing in.
Enqueue(k) == IF draining THEN UNCHANGED queueVars ELSE Add(k)

Notify(k) ==
  /\ ~ Exited
  /\ k \in unnotified
  /\ unnotified' = unnotified \ {k}
  /\ Enqueue(k)
  /\ UNCHANGED <<main, signalVars, informer, synced, draining, crew>>

\* A watch event or a resync, of k or of a Deployment that k owns.
Event(k) ==
  /\ ~ Exited
  /\ \E i \in Informers : informer[i] = "running" /\ synced[i]
  /\ Enqueue(k)
  /\ UNCHANGED <<main, signalVars, factoryVars, draining, crew>>

----------------------------------------------------------------------------
(* Run                                                                     *)

\* Mutant of WaitForCacheSync: a cancelled context does not end the wait.
WaitForCacheSyncForever ==
  /\ main = "waitForSync"
  /\ AllSynced
  /\ main' = "spawn"
  /\ UNCHANGED <<signalVars, factoryVars, draining, queueVars, crew>>

\* Mutant of WaitForCacheSync: the Deployments are not waited for.
WaitForOneCacheSync ==
  /\ main = "waitForSync"
  /\ \/ synced["blueGreenDeployments"] /\ main' = "spawn" /\ UNCHANGED draining
     \/ cancelled /\ main' = "failed" /\ draining' = TRUE
  /\ UNCHANGED <<signalVars, factoryVars, queueVars, crew>>

\* Wait until both caches are synced, or give up once the context is done: then
\* Run returns an error, and its deferred ShutDown stops the queue.
WaitForCacheSync ==
  /\ main = "waitForSync"
  /\ \/ AllSynced /\ main' = "spawn" /\ UNCHANGED draining
     \/ cancelled /\ main' = "failed" /\ draining' = TRUE
  /\ UNCHANGED <<signalVars, factoryVars, queueVars, crew>>

StartWorker(w) ==
  /\ main = "spawn"
  /\ worker[w] = "none"
  /\ worker' = [worker EXCEPT ![w] = "loop"]
  /\ UNCHANGED <<main, signalVars, factoryVars, draining, queueVars, hand>>

StartedWorkers ==
  /\ main = "spawn"
  /\ \A w \in Workers : worker[w] # "none"
  /\ main' = "running"
  /\ UNCHANGED <<signalVars, factoryVars, draining, queueVars, crew>>

\* The context is done: the deferred ShutDown, and Run returns nil.
ShutDown ==
  /\ main = "running"
  /\ cancelled
  /\ main' = "returned"
  /\ draining' = TRUE
  /\ UNCHANGED <<signalVars, factoryVars, queueVars, crew>>

\* main returns, or logs the error and exits.
Exit ==
  /\ main \in {"returned", "failed"}
  /\ main' = IF main = "returned" THEN "exit0" ELSE "exit1"
  /\ UNCHANGED <<signalVars, factoryVars, draining, queueVars, crew>>

----------------------------------------------------------------------------
(* The workers.                                                            *)

\* UntilWithContext calls runWorker until the context is done.
UntilWithContext(w) ==
  /\ ~ Exited
  /\ worker[w] = "loop"
  /\ worker' = [worker EXCEPT ![w] = IF cancelled THEN "ended" ELSE "get"]
  /\ UNCHANGED <<main, signalVars, factoryVars, draining, queueVars, hand>>

\* processNextWorkItem takes a key, be the queue shut down or not.
GetItem(w, k) ==
  /\ ~ Exited
  /\ worker[w] = "get"
  /\ Get(k)
  /\ worker' = [worker EXCEPT ![w] = "sync"]
  /\ hand' = [hand EXCEPT ![w] = k]
  /\ UNCHANGED <<main, signalVars, factoryVars, draining>>

\* Get finds the queue shut down and empty: runWorker returns.
GetShutDown(w) ==
  /\ ~ Exited
  /\ worker[w] = "get"
  /\ draining /\ Queued = {}
  /\ worker' = [worker EXCEPT ![w] = "loop"]
  /\ UNCHANGED <<main, signalVars, factoryVars, draining, queueVars, hand>>

\* syncHandler returned nil, or an error: then the key is requeued with a
\* back-off, unless the queue was shut down.
SyncReturns(w) ==
  /\ ~ Exited
  /\ worker[w] = "sync"
  /\ \/ Done(hand[w])
     \/ ~ draining /\ AddRateLimitedAndDone(hand[w])
  /\ worker' = [worker EXCEPT ![w] = "get"]
  /\ hand' = [hand EXCEPT ![w] = Absent]
  /\ UNCHANGED <<main, signalVars, factoryVars, draining>>

\* The error path of updateService: the crash handler logs and panics again.
SyncPanics(w) ==
  /\ ~ Exited
  /\ worker[w] = "sync"
  /\ main' = "panicked"
  /\ UNCHANGED <<signalVars, factoryVars, draining, queueVars, crew>>

Retry(k) ==
  /\ ~ Exited
  /\ ~ draining
  /\ BackoffOver(k)
  /\ UNCHANGED <<main, signalVars, factoryVars, draining, crew>>

----------------------------------------------------------------------------
MainStep ==
  \/ SetupSignalHandler \/ BuildConfig \/ BuildClients \/ NewController \/ StartFactories
  \/ WaitForCacheSync
  \/ \E w \in Workers : StartWorker(w)
  \/ StartedWorkers \/ ShutDown \/ Exit

WorkerStep(w) ==
  \/ UntilWithContext(w) \/ GetShutDown(w) \/ SyncReturns(w) \/ SyncPanics(w)

Next ==
  \/ MainStep \/ Signal \/ HandleSignal
  \/ \E i \in Informers : List(i) \/ StopInformer(i)
  \/ \E k \in Keys : Notify(k) \/ Event(k) \/ Retry(k)
  \/ \E w \in Workers : WorkerStep(w)
  \/ \E w \in Workers, k \in Keys : GetItem(w, k)

Spec == Init /\ [][Next]_vars

(* The goroutines go on; the API server answers the lists; a sync ends, one *)
(* way or another; the queue is first in, first out, as in                  *)
(* BlueGreenController.  Signals and events come or not.                    *)
Fairness ==
  /\ WF_vars(MainStep) /\ WF_vars(HandleSignal)
  /\ \A i \in Informers : WF_vars(List(i))
  /\ \A w \in Workers : WF_vars(WorkerStep(w))
  /\ \A k \in Keys : /\ WF_vars(Notify(k)) /\ WF_vars(Retry(k))
                     /\ SF_vars(\E w \in Workers : GetItem(w, k))

FairSpec == Spec /\ Fairness

----------------------------------------------------------------------------
LifecycleTypeOK ==
  /\ main \in Exits \union
       {"setup", "build", "buildKube", "buildExample", "construct", "startKube", "startExample",
        "waitForSync", "spawn", "running", "returned", "failed"}
  /\ handler \in {"none", "first", "second"}
  /\ pending \in 0..2 /\ sent \in Nat
  /\ cancelled \in BOOLEAN /\ draining \in BOOLEAN
  /\ informer \in [Informers -> {"absent", "registered", "running", "stopped"}]
  /\ synced \in [Informers -> BOOLEAN]
  /\ unnotified \subseteq Keys
  /\ QueueTypeOK(Keys)
  /\ worker \in [Workers -> {"none", "loop", "get", "sync", "ended"}]
  /\ hand \in [Workers -> Keys \union {Absent}]

(* "Wait for the caches to be synced before starting workers"              *)
(* (controller.go:184): no sync runs before every cache is complete, so    *)
(* that an object the lister does not find does not exist.                 *)
NoSyncBeforeCaches ==
  \A w \in Workers : worker[w] \in {"get", "sync"} => AllSynced

(* main uses the factory of the BlueGreenDeployments, the one generated     *)
(* here, as InformerFactory allows: the informer is asked for before it is *)
(* started, run once, and ended by the context only.                       *)
Factory == INSTANCE InformerFactory
             WITH Types <- {"blueGreenDeployments"}, Callers <- {},
                  informers <- {i \in {"blueGreenDeployments"} : informer[i] # "absent"},
                  started <- {i \in {"blueGreenDeployments"} :
                                informer[i] \in {"running", "stopped"}},
                  goroutines <- [i \in {"blueGreenDeployments"} |->
                                   IF informer[i] = "running" THEN 1 ELSE 0],
                  synced <- {i \in {"blueGreenDeployments"} : synced[i]},
                  closed <- cancelled, shuttingDown <- FALSE,
                  at <- << >>, asked <- << >>, left <- << >>, ok <- << >>

ImplementsFactory == Factory!Spec

(* Every BlueGreenDeployment there is when the process starts is synced,   *)
(* unless the process is told to stop or ends by itself: main wires,       *)
(* starts and waits for the informers in an order that lets all of them    *)
(* come up, and no AddFunc call that comes after the workers is lost.      *)
StartsUp == \A k \in Keys : <>(sent > 0 \/ Exited \/ \E w \in Workers : hand[w] = k)

(* "we handle the shutdown signal gracefully" (main.go:45): a process that *)
(* is sent a signal, be it while it starts up, exits.                      *)
StopsWhenTold == sent > 0 ~> Exited
============================================================================
