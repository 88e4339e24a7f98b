------------------------ MODULE BlueGreenController ------------------------
(***************************************************************************)
(* The whole system: a cluster, and a controller process of some workers   *)
(* that may crash and restart.  What must hold of it is stated here.       *)
(***************************************************************************)
EXTENDS SyncHandler

vars == <<bgd, rs, svc, watch, budget, cache, dirty, processing, delayed,
          pc, key, b, seen>>

Init == ClusterInit /\ QueueInit /\ SyncInit

ControllerStep ==
  \/ \E w \in Workers : SyncStep(w) \/ ApiError(w)
  \/ \E w \in Workers, k \in Keys : ProcessNextWorkItem(w, k)
  \/ \E k \in Keys : Deliver(k) \/ Resync(k) \/ HandleObject(k) \/ Retry(k)
  \/ Crash

Next ==
  \/ ClusterStep /\ UNCHANGED <<cache, queueVars, workerVars>>
  \/ ControllerStep

Spec == Init /\ [][Next]_vars

(***************************************************************************)
(* Fairness.  A worker that has a key goes on with it.  The queue is first *)
(* in, first out: a key that waits is handed out after finitely many       *)
(* others, even if each time a worker is free another key goes first       *)
(* (strong fairness).  Watch events, the resync ticker and back-off timers *)
(* keep coming; Kubernetes runs pods and collects garbage.  People and     *)
(* faults owe nothing.                                                     *)
(***************************************************************************)
Kubernetes(A) == A /\ UNCHANGED <<cache, queueVars, workerVars>>

Fairness ==
  /\ \A w \in Workers : WF_vars(SyncStep(w))
  /\ \A k \in Keys : /\ SF_vars(\E w \in Workers : ProcessNextWorkItem(w, k))
                     /\ WF_vars(Deliver(k))
                     /\ WF_vars(Resync(k))
                     /\ WF_vars(Retry(k))
  /\ \A c \in Colors : /\ WF_vars(Kubernetes(RunReplicaSet(c)))
                       /\ WF_vars(Kubernetes(CollectGarbage(c)))

FairSpec == Spec /\ Fairness

----------------------------------------------------------------------------
(* Every variable holds a value of its type.                               *)
TypeOK == ClusterTypeOK /\ QueueTypeOK(Keys) /\ SyncTypeOK

(* No two workers ever sync the same BlueGreenDeployment at once, and the  *)
(* keys the queue counts as being processed are those the workers hold:    *)
(* "we are never processing the same item simultaneously in two different  *)
(* workers" (controller.go:99-100).                                        *)
ExclusiveSync ==
  /\ \A v, w \in Workers : pc[v] # "idle" /\ key[v] = key[w] => v = w
  /\ processing = {key[w] : w \in {v \in Workers : pc[v] # "idle"}}

----------------------------------------------------------------------------
(* Where the traffic goes and who can take it.                             *)

\* The ReplicaSet of colour c is meant to have pods.
Raised(c) == rs[c] # Absent /\ rs[c].replicas > 0

\* All the pods it is meant to have are available.
Ready(c) == Raised(c) /\ rs[c].avail = rs[c].replicas

\* A worker is between scaling down the old ReplicaSet and moving the Service.
Switching == \E w \in Workers : pc[w] \in {"waitDown", "updateService"}

(* The Service is moved only to a colour that some BlueGreenDeployment     *)
(* names as active and whose ReplicaSet is raised: updateService comes     *)
(* last, after every step before it succeeded in this very sync.           *)
SwitchIsBacked ==
  [][ svc # Absent /\ svc' \notin {Absent, svc} =>
        /\ \E k \in Keys : bgd[k] # Absent /\ bgd[k].color = svc'
        /\ Raised(svc') ]_vars

(* The ReplicaSet that a BlueGreenDeployment names as active is never      *)
(* scaled down to nothing.                                                 *)
ActiveIsNotScaledDown ==
  [][ \A c \in Colors : Raised(c) /\ rs'[c] # Absent /\ rs'[c].replicas = 0 =>
        \A k \in Keys : bgd[k] # Absent => bgd[k].color # c ]_vars

(* A ReplicaSet is scaled down only when all the pods of the other one are *)
(* available.                                                              *)
ScaleDownAfterReady ==
  [][ \A c \in Colors : Raised(c) /\ rs'[c] # Absent /\ rs'[c].replicas = 0 =>
        Ready(Other(c)) ]_vars

----------------------------------------------------------------------------
(* The switchover as those who send traffic see it.                        *)
Traffic == INSTANCE Switchover
             WITH named <- {bgd[k].color : k \in {l \in Keys : bgd[l] # Absent}} \ {NoColor},
                  up <- {c \in Colors : Raised(c)},
                  serving <- svc

(* The controller implements Switchover, whatever fails: no step of any    *)
(* actor changes the status, the ReplicaSets and the Service but as it     *)
(* allows, one at a time and in its order.                                 *)
ImplementsSwitchover == Traffic!Spec

(* However old the version that a sync starts from: the ReplicaSet that    *)
(* the Service selects lacks pods, or is gone, only while a worker makes   *)
(* room for a new one or is about to move the Service, never at rest.      *)
OutageOnlyInRollover ==
  svc # Absent =>
    \/ Raised(svc)
    \/ \E w \in Workers :
         pc[w] \in {"getNew", "createNew", "waitDown", "updateService"}

(* Once the Service exists it selects a ReplicaSet that is meant to have   *)
(* pods, except while a worker is about to move it.                        *)
ServiceBacked == svc # Absent => Raised(svc) \/ Switching

(* "deletes the inactive ReplicaSet to make room for a new ReplicaSet"     *)
(* (controller.go:374): the one the Service selects is never deleted.      *)
ServingIsNotDeleted ==
  [][ \A c \in Colors : rs[c] # Absent /\ rs'[c] = Absent => svc # c ]_vars

----------------------------------------------------------------------------
(* Convergence.                                                            *)

\* There is nothing left to do, and nothing that would start a sync other than
\* the resync ticker.
Quiet == /\ dirty = {} /\ processing = {} /\ delayed = {}
         /\ \A k \in Keys : watch[k] = << >>

\* "Replicas ... If not specified, it defaults to 1" (types.go:26-27).
WantedReplicas(obj) == IF obj.replicas = 0 THEN 1 ELSE obj.replicas

\* The cluster is what k asks for: the Service selects the colour in its status,
\* and that ReplicaSet has the wanted pod spec and number of pods.
Converged(k) ==
  LET c == bgd[k].color
  IN  /\ c # NoColor
      /\ svc = c
      /\ rs[c] # Absent
      /\ rs[c].spec = Defaulted[bgd[k].spec]
      /\ rs[c].replicas = WantedReplicas(bgd[k])

(* When the controller has nothing left to do, the cluster is what the     *)
(* BlueGreenDeployment asks for: no change was missed and none half done.  *)
QuietMeansConverged == Quiet => \A k \in Keys : bgd[k] # Absent => Converged(k)

(* Once people stop editing, the cluster comes to what the                 *)
(* BlueGreenDeployment asks for, with all its pods available, and stays so, *)
(* also after a wait for pods that gave up too early.                      *)
EventuallyConverged ==
  \A k \in Keys :
    <>[](bgd[k] # Absent) =>
      <>[](bgd[k] # Absent /\ Converged(k) /\ Ready(bgd[k].color))

(* A pod spec that stays in a BlueGreenDeployment is, sooner or later, the *)
(* one that a worker syncs, and over and over again: no failed call, crash *)
(* or lost reply strands a key.                                            *)
EveryChangeIsSynced ==
  \A k \in Keys, s \in UserSpecs :
    <>[](bgd[k] # Absent /\ bgd[k].spec = s) =>
      []<>(\E w \in Workers : key[w] = k /\ b[w] # Absent /\ b[w].spec = s)

(* A BlueGreenDeployment that is deleted for good takes its ReplicaSets    *)
(* with it (README.md:98-102), those a sync made after the deletion too.   *)
NothingLeftBehind ==
  (\A k \in Keys : <>[](bgd[k] = Absent)) => <>[](\A c \in Colors : rs[c] = Absent)

(* While a BlueGreenDeployment stays, a ReplicaSet that was dropped comes  *)
(* back, although no event of a ReplicaSet puts a key on the queue and a   *)
(* sync may be past the call that would make it: there is another sync.    *)
ReplicaSetsComeBack ==
  (\E k \in Keys : <>[](bgd[k] # Absent)) => <>[](\A c \in Colors : rs[c] # Absent)
============================================================================
