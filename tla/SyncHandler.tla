---------------------------- MODULE SyncHandler ----------------------------
(***************************************************************************)
(* The controller process: the informer's cache and event handlers, and    *)
(* the workers that take keys from the work queue and run syncHandler.     *)
(* A step of a worker is one call to the API server with the local code    *)
(* up to the next call.                                                    *)
(*                                                                         *)
(* A read-modify-write (Get, change, Update, guarded by resourceVersion)   *)
(* that succeeds is one atomic step.  One that meets a conflict is not     *)
(* tried again, although it runs inside RetryOnConflict: the conflict is   *)
(* re-wrapped with %v and no longer recognised.  It is an error like any   *)
(* other, and ApiError stands for it.                                      *)
(***************************************************************************)
EXTENDS Cluster, WorkQueue

CONSTANTS Workers, MaxLag

ASSUME SyncAssumption == MaxLag \in Nat

VARIABLES cache, \* cache[k]: bgd[k] as the lister returns it
          pc,    \* pc[w]: the call worker w makes next
          key,   \* key[w]: the key w is syncing, or Absent
          b,     \* b[w]: syncHandler's bgd, or Absent
          seen   \* seen[w][c]: the pod spec of the ReplicaSet w got for c

workerVars == <<pc, key, b, seen>>
informerVars == <<cache, watch>>

\* Where a worker can be: at a call it must not fail in, at a poll that
\* outlives errors, or at a step that calls no one.
Calls == {"initStatus", "getBlue", "createBlue", "getGreen", "createGreen",
          "getService", "createService", "flip", "scaleUp", "delete",
          "getNew", "createNew", "scaleDown", "updateService"}
Polls == {"waitBlue", "waitGreen", "waitUp", "waitNew", "waitDown"}
Labels == Calls \union Polls \union {"idle", "lister", "compare"}

NothingSeen == [c \in Colors |-> Absent]

SyncInit ==
  /\ cache = [k \in Keys |-> Absent]
  /\ pc = [w \in Workers |-> "idle"]
  /\ key = [w \in Workers |-> Absent]
  /\ b = [w \in Workers |-> Absent]
  /\ seen = [w \in Workers |-> NothingSeen]

----------------------------------------------------------------------------
(* Informer and event handlers.                                            *)

\* enqueueBlueGreenDeployment
Enqueue(k) == Add(k)

\* Mutant of Deliver: there is no UpdateFunc either.
DeliverAddsOnly(k) ==
  /\ watch[k] # << >>
  /\ cache' = [cache EXCEPT ![k] = Head(watch[k])]
  /\ watch' = [watch EXCEPT ![k] = Tail(@)]
  /\ IF cache[k] # Absent THEN UNCHANGED queueVars ELSE Enqueue(k)
  /\ UNCHANGED <<apiVars, budget, workerVars>>

\* The informer applies one watch event.  AddFunc and UpdateFunc enqueue; there
\* is no DeleteFunc.
Deliver(k) ==
  /\ watch[k] # << >>
  /\ cache' = [cache EXCEPT ![k] = Head(watch[k])]
  /\ watch' = [watch EXCEPT ![k] = Tail(@)]
  /\ IF Head(watch[k]) = Absent THEN UNCHANGED queueVars ELSE Enqueue(k)
  /\ UNCHANGED <<apiVars, budget, workerVars>>

\* Mutant of Resync: UpdateFunc drops a version it has seen, as the one for
\* Deployments does.
ResyncDropped(k) ==
  /\ cache[k] # Absent
  /\ UNCHANGED <<clusterVars, cache, queueVars, workerVars>>

\* The resync every 30 seconds: UpdateFunc for every object in the cache.
Resync(k) ==
  /\ cache[k] # Absent
  /\ Enqueue(k)
  /\ UNCHANGED <<clusterVars, cache, workerVars>>

\* An event of a Deployment whose controller owner is a BlueGreenDeployment
\* named k.  The controller makes no Deployments, so the event is external.
HandleObject(k) ==
  /\ cache[k] # Absent
  /\ Enqueue(k)
  /\ UNCHANGED <<clusterVars, cache, workerVars>>

\* The back-off of a key whose sync failed is over.
Retry(k) == BackoffOver(k) /\ UNCHANGED <<clusterVars, cache, workerVars>>

\* The process dies and a new one starts: it lists the objects and has an
\* AddFunc call for each of them before its workers start.
Restart ==
  /\ cache' = bgd
  /\ watch' = [k \in Keys |-> << >>]
  /\ Reset({k \in Keys : bgd[k] # Absent})
  /\ pc' = [w \in Workers |-> "idle"]
  /\ key' = [w \in Workers |-> Absent]
  /\ b' = [w \in Workers |-> Absent]
  /\ seen' = [w \in Workers |-> NothingSeen]

Crash == Spend("crash") /\ Restart /\ UNCHANGED apiVars

----------------------------------------------------------------------------
(* How a worker's step ends.                                               *)

Idle(w) ==
  /\ pc' = [pc EXCEPT ![w] = "idle"]
  /\ key' = [key EXCEPT ![w] = Absent]
  /\ b' = [b EXCEPT ![w] = Absent]
  /\ seen' = [seen EXCEPT ![w] = NothingSeen]

\* Mutant of ReturnNil: Forget without Done.
ForgetOnly(w) == Idle(w) /\ UNCHANGED <<queueVars, cache>>

\* syncHandler returned nil: Forget and Done.
ReturnNil(w) == Done(key[w]) /\ Idle(w) /\ UNCHANGED cache

\* Mutant of ReturnError: AddRateLimited without Done.
RequeueOnly(w) == /\ delayed' = delayed \union {key[w]}
                  /\ Idle(w)
                  /\ UNCHANGED <<dirty, processing, cache>>

\* syncHandler returned an error: AddRateLimited and Done.
ReturnError(w) == AddRateLimitedAndDone(key[w]) /\ Idle(w) /\ UNCHANGED cache

Goto(w, l) == /\ pc' = [pc EXCEPT ![w] = l]
              /\ UNCHANGED <<key, b, seen, queueVars, cache>>

\* Go on with obj as bgd.
GotoWith(w, l, obj) == /\ pc' = [pc EXCEPT ![w] = l]
                       /\ b' = [b EXCEPT ![w] = obj]
                       /\ UNCHANGED <<key, seen, queueVars, cache>>

\* Go on having got the ReplicaSet of colour c with pod spec s.
GotoSeen(w, l, c, s) == /\ pc' = [pc EXCEPT ![w] = l]
                        /\ seen' = [seen EXCEPT ![w][c] = s]
                        /\ UNCHANGED <<key, b, queueVars, cache>>

\* The write was applied; its reply arrives, or is lost and the call fails.
Reply(w, proceed) == \/ proceed /\ UNCHANGED budget
                     \/ Spend("lostReply") /\ ReturnError(w)

\* The API server refuses the call.
Refused(w) == ReturnError(w) /\ UNCHANGED <<apiVars, watch, budget>>

----------------------------------------------------------------------------
(* helpers.go                                                              *)

\* Mutant of WaitAllReplicaSetPodsAvailable: nobody counts the pods.
WaitObservedOnly(w, at, c, n, next) ==
  /\ pc[w] = at
  /\ \/ rs[c] = Absent /\ UNCHANGED budget
     \/ rs[c] # Absent /\ rs[c].observed /\ UNCHANGED budget
     \/ Spend("timeout")
  /\ Goto(w, next)
  /\ UNCHANGED <<apiVars, watch>>

\* waitAllReplicaSetPodsAvailable: the poll ends when the n pods are there, or
\* gives up after 30 seconds or on an error.  Either way the worker goes on.
WaitAllReplicaSetPodsAvailable(w, at, c, n, next) ==
  /\ pc[w] = at
  /\ \/ rs[c] = Absent /\ UNCHANGED budget
     \/ rs[c] # Absent /\ rs[c].observed /\ rs[c].avail = n /\ UNCHANGED budget
     \/ Spend("timeout")
  /\ Goto(w, next)
  /\ UNCHANGED <<apiVars, watch>>

\* createReplicaSetIfNotFound: Get, and if there is none Create and wait.
CreateReplicaSetIfNotFound(w, get, create, wait, c, next) ==
  \/ /\ pc[w] = get
     /\ rs[c] # Absent
     /\ GotoSeen(w, next, c, rs[c].spec)
     /\ UNCHANGED <<apiVars, watch, budget>>
  \/ /\ pc[w] = get
     /\ rs[c] = Absent
     /\ Goto(w, create)
     /\ UNCHANGED <<apiVars, watch, budget>>
  \/ /\ pc[w] = create
     /\ LET new == NewReplicaSet(key[w], b[w], c)
        IN  \/ /\ rs[c] = Absent
               /\ rs' = [rs EXCEPT ![c] = new]
               /\ Reply(w, GotoSeen(w, wait, c, new.spec))
               /\ UNCHANGED <<bgd, svc, watch>>
            \/ rs[c] # Absent /\ Refused(w)               \* AlreadyExists
  \/ WaitAllReplicaSetPodsAvailable(w, wait, c,
                                    NewReplicaSet(key[w], b[w], c).replicas, next)

\* scaleReplicaSet: set .spec.replicas to n and wait.
ScaleReplicaSet(w, scale, wait, c, n, next) ==
  \/ /\ pc[w] = scale
     /\ rs[c] # Absent
     /\ rs' = [rs EXCEPT ![c] = Scaled(@, n)]
     /\ Reply(w, Goto(w, wait))
     /\ UNCHANGED <<bgd, svc, watch>>
  \/ pc[w] = scale /\ rs[c] = Absent /\ Refused(w)       \* NotFound
  \/ WaitAllReplicaSetPodsAvailable(w, wait, c, n, next)

\* updateBlueGreenDeployment, setting the status colour to c; the caller goes on
\* with the object the API server returned.
UpdateBlueGreenDeployment(w, c, next) ==
  \/ /\ bgd[key[w]] # Absent
     /\ LET new == [bgd[key[w]] EXCEPT !.color = c]
        IN  /\ WriteBgd(key[w], new)
            /\ Reply(w, GotoWith(w, next, new))
     /\ UNCHANGED <<rs, svc>>
  \/ bgd[key[w]] = Absent /\ Refused(w)                  \* NotFound

----------------------------------------------------------------------------
(* controller.go                                                           *)

\* Mutant of ProcessNextWorkItem: Done is not deferred.
ProcessAndForget(w, k) ==
  /\ pc[w] = "idle"
  /\ k \in Queued
  /\ dirty' = dirty \ {k}
  /\ pc' = [pc EXCEPT ![w] = "lister"]
  /\ key' = [key EXCEPT ![w] = k]
  /\ UNCHANGED <<clusterVars, cache, b, seen, processing, delayed>>

\* processNextWorkItem takes a key.
ProcessNextWorkItem(w, k) ==
  /\ pc[w] = "idle"
  /\ Get(k)
  /\ pc' = [pc EXCEPT ![w] = "lister"]
  /\ key' = [key EXCEPT ![w] = k]
  /\ UNCHANGED <<clusterVars, cache, b, seen>>

\* syncHandler reads the object from the cache.  The bound: the cache is then
\* at most MaxLag versions behind.
Lister(w) ==
  /\ pc[w] = "lister"
  /\ Len(watch[key[w]]) =< MaxLag
  /\ LET obj == cache[key[w]]
     IN  \/ obj = Absent /\ ReturnNil(w)
         \/ /\ obj # Absent
            /\ GotoWith(w, IF obj.color = NoColor THEN "initStatus" ELSE "getBlue", obj)
  /\ UNCHANGED clusterVars

\* Mutant of InitStatus: the colours are mixed up.
InitStatusGreen(w) ==
  pc[w] = "initStatus" /\ UpdateBlueGreenDeployment(w, "green", "getBlue")

InitStatus(w) ==
  pc[w] = "initStatus" /\ UpdateBlueGreenDeployment(w, "blue", "getBlue")

\* createReplicaSetsIfNotFound
CreateReplicaSetsIfNotFound(w) ==
  \/ CreateReplicaSetIfNotFound(w, "getBlue", "createBlue", "waitBlue", "blue", "getGreen")
  \/ CreateReplicaSetIfNotFound(w, "getGreen", "createGreen", "waitGreen", "green", "getService")

CreateServiceIfNotFound(w) ==
  \/ /\ pc[w] = "getService"
     /\ Goto(w, IF svc = Absent THEN "createService" ELSE "compare")
     /\ UNCHANGED <<apiVars, watch, budget>>
  \/ /\ pc[w] = "createService"
     /\ \/ /\ svc = Absent
           /\ svc' = NewService(b[w])
           /\ Reply(w, Goto(w, "compare"))
           /\ UNCHANGED <<bgd, rs, watch>>
        \/ svc # Absent /\ Refused(w)                     \* AlreadyExists

\* reconcileActiveReplicaSet: done if the active ReplicaSet has the wanted pod
\* spec.  Otherwise make the other colour the active one, and then raise it.
Wanted(w, c) == SameHash(seen[w][c], b[w].spec)

Compare(w) ==
  /\ pc[w] = "compare"
  /\ IF Wanted(w, b[w].color) THEN ReturnNil(w) ELSE Goto(w, "flip")
  /\ UNCHANGED clusterVars

Flip(w) ==
  LET inactive == Other(b[w].color)
  IN  /\ pc[w] = "flip"
      /\ UpdateBlueGreenDeployment(w, inactive,
            IF Wanted(w, inactive) THEN "scaleUp" ELSE "delete")

\* From here b[w].color is the colour that is becoming active.
ScaleUp(w) ==
  ScaleReplicaSet(w, "scaleUp", "waitUp", b[w].color, b[w].replicas, "scaleDown")

\* Mutant of ReplaceInactiveReplicaSet: the colours are mixed up.
ReplaceActiveReplicaSet(w) ==
  LET c == Other(b[w].color)
  IN  \/ /\ pc[w] = "delete"
         /\ rs[c] # Absent
         /\ rs' = [rs EXCEPT ![c] = Absent]
         /\ Reply(w, Goto(w, "getNew"))
         /\ UNCHANGED <<bgd, svc, watch>>
      \/ CreateReplicaSetIfNotFound(w, "getNew", "createNew", "waitNew", c, "scaleDown")

\* replaceInactiveReplicaSet
ReplaceInactiveReplicaSet(w) ==
  LET c == b[w].color
  IN  \/ /\ pc[w] = "delete"
         /\ rs[c] # Absent
         /\ rs' = [rs EXCEPT ![c] = Absent]
         /\ Reply(w, Goto(w, "getNew"))
         /\ UNCHANGED <<bgd, svc, watch>>
      \/ pc[w] = "delete" /\ rs[c] = Absent /\ Refused(w)    \* NotFound
      \/ CreateReplicaSetIfNotFound(w, "getNew", "createNew", "waitNew", c, "scaleDown")

\* Mutant of ScaleDown: the colours are mixed up.
ScaleDownNew(w) ==
  ScaleReplicaSet(w, "scaleDown", "waitDown", b[w].color, 0, "updateService")

ScaleDown(w) ==
  ScaleReplicaSet(w, "scaleDown", "waitDown", Other(b[w].color), 0, "updateService")

\* updateService returns nil with its error, and the caller reads the name of
\* that nil Service: any error here is a panic that ends the process.
UpdateService(w) ==
  /\ pc[w] = "updateService"
  /\ \/ /\ svc # Absent
        /\ svc' = b[w].color
        /\ \/ ReturnNil(w) /\ UNCHANGED <<watch, budget>>
           \/ Spend("lostReply") /\ Restart
     \/ svc = Absent /\ Restart /\ UNCHANGED <<svc, budget>>
  /\ UNCHANGED <<bgd, rs>>

\* A call fails with nothing done: a conflict, a timeout, an overloaded server.
ApiError(w) ==
  /\ pc[w] \in Calls
  /\ Spend("apiError")
  /\ IF pc[w] = "updateService" THEN Restart ELSE ReturnError(w) /\ UNCHANGED watch
  /\ UNCHANGED apiVars

SyncStep(w) ==
  \/ Lister(w)
  \/ InitStatus(w)
  \/ CreateReplicaSetsIfNotFound(w)
  \/ CreateServiceIfNotFound(w)
  \/ Compare(w)
  \/ Flip(w)
  \/ ScaleUp(w)
  \/ ReplaceInactiveReplicaSet(w)
  \/ ScaleDown(w)
  \/ UpdateService(w)

SyncTypeOK ==
  /\ cache \in [Keys -> BlueGreenDeployment \union {Absent}]
  /\ pc \in [Workers -> Labels]
  /\ key \in [Workers -> Keys \union {Absent}]
  /\ b \in [Workers -> BlueGreenDeployment \union {Absent}]
  /\ seen \in [Workers -> [Colors -> PodSpecs \union {Absent}]]
============================================================================
