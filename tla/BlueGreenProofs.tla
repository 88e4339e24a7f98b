--------------------------- MODULE BlueGreenProofs ---------------------------
(***************************************************************************)
(* Theorems about BlueGreenController, for every value of its constants.   *)
(* First come lemmas about the ways a worker's step ends, then one about   *)
(* each handler, then the theorems.                                        *)
(***************************************************************************)
EXTENDS RolloutInvariant, TLAPS

LocalOK == QueueTypeOK(Keys) /\ SyncTypeOK /\ WorkerState /\ ExclusiveSync

TypeInv == ClusterTypeOK /\ LocalOK

(* The colours are two, and neither is the absence of one.                 *)
LEMMA ColorFacts == /\ NoColor \notin Colors
                    /\ \A c \in Colors : Other(c) \in Colors /\ Other(c) # c
  BY DEF Colors, NoColor, Other

(* A worker that goes on with what it holds keeps the local state well.    *)
LEMMA GotoOK ==
  ASSUME LocalOK, NEW w \in Workers, NEW l \in Labels \ {"idle", "lister", "initStatus"},
         pc[w] \notin {"idle", "lister", "initStatus"},
         Goto(w, l)
  PROVE  LocalOK'
  <1> USE DEF LocalOK
  <1>1. QueueTypeOK(Keys)'
    BY DEF Goto, QueueTypeOK, queueVars
  <1>2. SyncTypeOK'
    BY DEF Goto, SyncTypeOK
  <1>3. WorkerState'
    BY DEF Goto, SyncTypeOK, WorkerState
  <1>4. ExclusiveSync'
    <2>1. \A v \in Workers : (pc'[v] # "idle") = (pc[v] # "idle")
      BY DEF Goto, SyncTypeOK
    <2>2. UNCHANGED <<key, processing>>
      BY DEF Goto, queueVars
    <2> QED BY <2>1, <2>2 DEF ExclusiveSync
  <1> QED BY <1>1, <1>2, <1>3, <1>4

(* So does one that goes on with a well-formed object ...                  *)
LEMMA GotoWithOK ==
  ASSUME LocalOK, NEW w \in Workers, NEW l \in Labels \ {"idle", "lister"},
         NEW obj \in BlueGreenDeployment,
         IF l = "initStatus" THEN obj.color = NoColor ELSE obj.color \in Colors,
         pc[w] # "idle",
         GotoWith(w, l, obj)
  PROVE  LocalOK'
  <1> USE DEF LocalOK
  <1>1. QueueTypeOK(Keys)'
    BY DEF GotoWith, QueueTypeOK, queueVars
  <1>2. SyncTypeOK'
    BY DEF GotoWith, SyncTypeOK
  <1>3. WorkerState'
    BY DEF GotoWith, SyncTypeOK, WorkerState
  <1>4. ExclusiveSync'
    <2>1. \A v \in Workers : (pc'[v] # "idle") = (pc[v] # "idle")
      BY DEF GotoWith, SyncTypeOK
    <2>2. UNCHANGED <<key, processing>>
      BY DEF GotoWith, queueVars
    <2> QED BY <2>1, <2>2 DEF ExclusiveSync
  <1> QED BY <1>1, <1>2, <1>3, <1>4

(* ... and one that goes on having seen a pod spec.                        *)
LEMMA GotoSeenOK ==
  ASSUME LocalOK, NEW w \in Workers, NEW l \in Labels \ {"idle", "lister", "initStatus"},
         NEW c \in Colors, NEW s \in PodSpecs,
         pc[w] \notin {"idle", "lister", "initStatus"},
         GotoSeen(w, l, c, s)
  PROVE  LocalOK'
  <1> USE DEF LocalOK
  <1>1. QueueTypeOK(Keys)'
    BY DEF GotoSeen, QueueTypeOK, queueVars
  <1>2. SyncTypeOK'
    BY DEF GotoSeen, SyncTypeOK
  <1>3. WorkerState'
    BY DEF GotoSeen, SyncTypeOK, WorkerState
  <1>4. ExclusiveSync'
    <2>1. \A v \in Workers : (pc'[v] # "idle") = (pc[v] # "idle")
      BY DEF GotoSeen, SyncTypeOK
    <2>2. UNCHANGED <<key, processing>>
      BY DEF GotoSeen, queueVars
    <2> QED BY <2>1, <2>2 DEF ExclusiveSync
  <1> QED BY <1>1, <1>2, <1>3, <1>4

(* A worker that is done with its key gives it up.                         *)
LEMMA IdleOK ==
  ASSUME LocalOK, NEW w \in Workers, pc[w] # "idle",
         Idle(w), UNCHANGED cache,
         processing' = processing \ {key[w]},
         QueueTypeOK(Keys)'
  PROVE  LocalOK'
  <1> USE DEF LocalOK
  <1>1. SyncTypeOK'
    BY DEF Idle, SyncTypeOK, NothingSeen, Labels
  <1>2. WorkerState'
    BY DEF Idle, SyncTypeOK, WorkerState
  <1>3. ExclusiveSync'
    <2>1. \A v \in Workers \ {w} : pc'[v] = pc[v] /\ key'[v] = key[v]
      BY DEF Idle, SyncTypeOK
    <2>2. pc'[w] = "idle" /\ key'[w] = Absent
      BY DEF Idle, SyncTypeOK
    <2>3. \A u, v \in Workers : pc'[u] # "idle" /\ key'[u] = key'[v] => u = v
      BY <2>1, <2>2 DEF ExclusiveSync, WorkerState
    <2>4. processing' = {key'[u] : u \in {v \in Workers : pc'[v] # "idle"}}
      BY <2>1, <2>2 DEF ExclusiveSync
    <2> QED BY <2>3, <2>4 DEF ExclusiveSync
  <1> QED BY <1>1, <1>2, <1>3

LEMMA ReturnNilOK ==
  ASSUME LocalOK, NEW w \in Workers, pc[w] # "idle", ReturnNil(w)
  PROVE  LocalOK'
  <1>1. QueueTypeOK(Keys)'
    BY DEF LocalOK, ReturnNil, Done, QueueTypeOK
  <1> QED BY <1>1, IdleOK DEF ReturnNil, Done

LEMMA ReturnErrorOK ==
  ASSUME LocalOK, NEW w \in Workers, pc[w] # "idle", ReturnError(w)
  PROVE  LocalOK'
  <1>1. key[w] \in Keys
    BY DEF LocalOK, WorkerState, SyncTypeOK
  <1>2. QueueTypeOK(Keys)'
    BY <1>1 DEF LocalOK, ReturnError, AddRateLimitedAndDone, QueueTypeOK
  <1> QED BY <1>2, IdleOK DEF ReturnError, AddRateLimitedAndDone

(* A new process starts well.                                              *)
LEMMA RestartOK ==
  ASSUME bgd \in [Keys -> BlueGreenDeployment \union {Absent}], Restart
  PROVE  LocalOK' /\ watch' \in [Keys -> Seq(BlueGreenDeployment \union {Absent})]
  <1>1. QueueTypeOK(Keys)'
    BY DEF Restart, Reset, QueueTypeOK
  <1>2. SyncTypeOK'
    BY DEF Restart, SyncTypeOK, NothingSeen, Labels
  <1>3. WorkerState'
    BY DEF Restart, WorkerState
  <1>4. ExclusiveSync'
    BY DEF Restart, Reset, ExclusiveSync
  <1>5. watch' \in [Keys -> Seq(BlueGreenDeployment \union {Absent})]
    BY DEF Restart
  <1> QED BY <1>1, <1>2, <1>3, <1>4, <1>5 DEF LocalOK

----------------------------------------------------------------------------
(* What the API server holds stays of its type.                            *)

LEMMA SpendOK ==
  ASSUME budget \in [Events -> Nat], NEW e \in Events, Spend(e)
  PROVE  budget' \in [Events -> Nat]
  BY DEF Spend

LEMMA WriteBgdOK ==
  ASSUME ClusterTypeOK, NEW k \in Keys,
         NEW obj \in BlueGreenDeployment \union {Absent},
         WriteBgd(k, obj)
  PROVE  /\ bgd' \in [Keys -> BlueGreenDeployment \union {Absent}]
         /\ watch' \in [Keys -> Seq(BlueGreenDeployment \union {Absent})]
  BY DEF ClusterTypeOK, WriteBgd

LEMMA NewReplicaSetType ==
  ASSUME NEW k \in Keys, NEW obj \in BlueGreenDeployment, NEW c \in Colors
  PROVE  NewReplicaSet(k, obj, c) \in ReplicaSet
  BY ClusterAssumption
     DEF NewReplicaSet, ReplicaSet, Owner, BlueGreenDeployment

LEMMA ScaledType ==
  ASSUME NEW r \in ReplicaSet, NEW n \in ReplicaCounts \union {0}
  PROVE  Scaled(r, n) \in ReplicaSet
  BY DEF Scaled, ReplicaSet

LEMMA ReplicaSetFields ==
  ASSUME NEW r \in ReplicaSet
  PROVE  /\ r.avail \in Nat /\ r.replicas \in Nat
         /\ \A n \in Nat : [r EXCEPT !.avail = n] \in ReplicaSet
         /\ \A n \in Nat : [r EXCEPT !.avail = n, !.observed = TRUE] \in ReplicaSet
  <1>1. ReplicaCounts \union {0} \subseteq Nat
    BY ClusterAssumption
  <1>2. r.avail \in Nat /\ r.replicas \in Nat
    <2>1. r.avail \in Nat /\ r.replicas \in ReplicaCounts \union {0}
      BY DEF ReplicaSet
    <2> QED BY <1>1, <2>1, Zenon
  <1>3. \A n \in Nat : [r EXCEPT !.avail = n] \in ReplicaSet
    BY DEF ReplicaSet
  <1>4. \A n \in Nat : [r EXCEPT !.avail = n, !.observed = TRUE] \in ReplicaSet
    BY DEF ReplicaSet
  <1> QED BY <1>2, <1>3, <1>4

(* People and Kubernetes leave the cluster well typed.                     *)
LEMMA ClusterStepOK ==
  ASSUME ClusterTypeOK, ClusterStep
  PROVE  ClusterTypeOK'
  <1> USE DEF ClusterTypeOK
  <1>1. ASSUME NEW k \in Keys, CreateBgd(k) PROVE ClusterTypeOK'
    <2>1. PICK s \in UserSpecs, n \in ReplicaCounts :
            WriteBgd(k, [uid |-> budget["create"], spec |-> s, replicas |-> n,
                         color |-> NoColor])
      BY <1>1 DEF CreateBgd
    <2>2. [uid |-> budget["create"], spec |-> s, replicas |-> n,
           color |-> NoColor] \in BlueGreenDeployment
      BY DEF BlueGreenDeployment, Events
    <2>3. budget' \in [Events -> Nat]
      BY <1>1, SpendOK DEF CreateBgd, Events
    <2> QED BY <1>1, <2>1, <2>2, <2>3, WriteBgdOK DEF CreateBgd
  <1>2. ASSUME NEW k \in Keys, EditSpec(k) PROVE ClusterTypeOK'
    <2>1. PICK s \in UserSpecs : WriteBgd(k, [bgd[k] EXCEPT !.spec = s])
      BY <1>2 DEF EditSpec
    <2>2. [bgd[k] EXCEPT !.spec = s] \in BlueGreenDeployment
      BY <1>2 DEF EditSpec, BlueGreenDeployment
    <2>3. budget' \in [Events -> Nat]
      BY <1>2, SpendOK DEF EditSpec, Events
    <2> QED BY <1>2, <2>1, <2>2, <2>3, WriteBgdOK DEF EditSpec
  <1>3. ASSUME NEW k \in Keys, EditReplicas(k) PROVE ClusterTypeOK'
    <2>1. PICK n \in ReplicaCounts : WriteBgd(k, [bgd[k] EXCEPT !.replicas = n])
      BY <1>3 DEF EditReplicas
    <2>2. [bgd[k] EXCEPT !.replicas = n] \in BlueGreenDeployment
      BY <1>3 DEF EditReplicas, BlueGreenDeployment
    <2>3. budget' \in [Events -> Nat]
      BY <1>3, SpendOK DEF EditReplicas, Events
    <2> QED BY <1>3, <2>1, <2>2, <2>3, WriteBgdOK DEF EditReplicas
  <1>4. ASSUME NEW k \in Keys, DeleteBgd(k) PROVE ClusterTypeOK'
    <2>1. budget' \in [Events -> Nat]
      BY <1>4, SpendOK DEF DeleteBgd, Events
    <2> QED BY <1>4, <2>1, WriteBgdOK DEF DeleteBgd
  <1>5. ASSUME DropService PROVE ClusterTypeOK'
    <2>1. budget' \in [Events -> Nat]
      BY <1>5, SpendOK DEF DropService, Events
    <2> QED BY <1>5, <2>1 DEF DropService
  <1>6. ASSUME NEW c \in Colors, DropReplicaSet(c) PROVE ClusterTypeOK'
    <2>1. budget' \in [Events -> Nat]
      BY <1>6, SpendOK DEF DropReplicaSet, Events
    <2> QED BY <1>6, <2>1 DEF DropReplicaSet
  <1>7. ASSUME NEW c \in Colors, RunReplicaSet(c) PROVE ClusterTypeOK'
    <2>1. rs[c] \in ReplicaSet
      BY <1>7 DEF RunReplicaSet
    <2>0. rs[c].avail \in Nat /\ rs[c].replicas \in Nat
      BY <2>1, ReplicaSetFields
    <2>2. PICK n \in (rs[c].avail .. rs[c].replicas) \union (rs[c].replicas .. rs[c].avail) :
            rs' = [rs EXCEPT ![c].avail = n, ![c].observed = TRUE]
      BY <1>7 DEF RunReplicaSet
    <2>3. n \in Nat
      BY <2>0
    <2>4. [rs[c] EXCEPT !.avail = n, !.observed = TRUE] \in ReplicaSet
      BY <2>1, <2>3, ReplicaSetFields
    <2>5. rs' = [rs EXCEPT ![c] = [rs[c] EXCEPT !.avail = n, !.observed = TRUE]]
      BY <2>2
    <2> QED BY <1>7, <2>4, <2>5 DEF RunReplicaSet
  <1>8. ASSUME NEW c \in Colors, PodFailure(c) PROVE ClusterTypeOK'
    <2>0. rs[c] \in ReplicaSet /\ rs[c].avail > 0
      BY <1>8 DEF PodFailure
    <2>1. [rs[c] EXCEPT !.avail = @ - 1] \in ReplicaSet
      <3>1. rs[c].avail \in Nat
        BY <2>0, ReplicaSetFields
      <3>2. rs[c].avail - 1 \in Nat
        BY <2>0, <3>1
      <3> QED BY <2>0, <3>2, ReplicaSetFields
    <2>2. rs' = [rs EXCEPT ![c] = [rs[c] EXCEPT !.avail = @ - 1]]
      BY <1>8 DEF PodFailure
    <2>3. budget' \in [Events -> Nat]
      BY <1>8, SpendOK DEF PodFailure, Events
    <2> QED BY <1>8, <2>1, <2>2, <2>3 DEF PodFailure
  <1>9. ASSUME NEW c \in Colors, CollectGarbage(c) PROVE ClusterTypeOK'
    BY <1>9 DEF CollectGarbage
  <1> QED
    BY <1>1, <1>2, <1>3, <1>4, <1>5, <1>6, <1>7, <1>8, <1>9 DEF ClusterStep

----------------------------------------------------------------------------
(* The handlers keep everything well.                                      *)

\* The calls of a sync whose object has a colour.
Mid == Labels \ {"idle", "lister", "initStatus"}

LEMMA MidFacts == Mid = (Calls \ {"initStatus"}) \union Polls \union {"compare"}
  BY DEF Mid, Labels, Calls, Polls

\* What a worker holds there.
LEMMA HoldsOK ==
  ASSUME LocalOK, NEW w \in Workers, pc[w] \notin {"idle", "lister"}
  PROVE  /\ key[w] \in Keys
         /\ b[w] \in BlueGreenDeployment
         /\ pc[w] \in Mid => b[w].color \in Colors
  BY DEF LocalOK, WorkerState, SyncTypeOK, Mid

LEMMA RefusedOK ==
  ASSUME TypeInv, NEW w \in Workers, pc[w] # "idle", Refused(w)
  PROVE  TypeInv'
  <1>1. LocalOK'
    BY ReturnErrorOK DEF TypeInv, Refused
  <1>2. ClusterTypeOK'
    BY DEF TypeInv, ClusterTypeOK, Refused, apiVars
  <1> QED BY <1>1, <1>2 DEF TypeInv

LEMMA UpdateBlueGreenDeploymentOK ==
  ASSUME TypeInv, NEW w \in Workers, NEW c \in Colors, NEW next \in Mid,
         pc[w] \notin {"idle", "lister"},
         UpdateBlueGreenDeployment(w, c, next)
  PROVE  TypeInv'
  <1>1. key[w] \in Keys
    BY HoldsOK DEF TypeInv
  <1>2. CASE bgd[key[w]] # Absent /\ UNCHANGED <<rs, svc>>
    <2> DEFINE new == [bgd[key[w]] EXCEPT !.color = c]
    <2>1. WriteBgd(key[w], new) /\ Reply(w, GotoWith(w, next, new))
      BY <1>2 DEF UpdateBlueGreenDeployment, Refused, ReturnError
    <2>2. bgd[key[w]] \in BlueGreenDeployment
      BY <1>1, <1>2 DEF TypeInv, ClusterTypeOK
    <2>3. new \in BlueGreenDeployment /\ new.color = c
      BY <2>2 DEF BlueGreenDeployment
    <2> HIDE DEF new
    <2>4. /\ bgd' \in [Keys -> BlueGreenDeployment \union {Absent}]
          /\ watch' \in [Keys -> Seq(BlueGreenDeployment \union {Absent})]
      BY <1>1, <2>1, <2>3, WriteBgdOK DEF TypeInv
    <2>5. LocalOK' /\ budget' \in [Events -> Nat]
      <3>1. CASE GotoWith(w, next, new) /\ UNCHANGED budget
        <4>1. LocalOK'
          BY <2>3, <3>1, GotoWithOK DEF TypeInv, Mid
        <4> QED BY <3>1, <4>1 DEF TypeInv, ClusterTypeOK
      <3>2. CASE Spend("lostReply") /\ ReturnError(w)
        <4>1. LocalOK'
          BY <3>2, ReturnErrorOK DEF TypeInv
        <4>2. budget' \in [Events -> Nat]
          BY <3>2, SpendOK DEF TypeInv, ClusterTypeOK, Events
        <4> QED BY <4>1, <4>2
      <3> QED BY <2>1, <3>1, <3>2 DEF Reply
    <2> QED BY <1>2, <2>4, <2>5 DEF TypeInv, ClusterTypeOK
  <1>3. CASE bgd[key[w]] = Absent /\ Refused(w)
    BY <1>3, RefusedOK
  <1> QED BY <1>2, <1>3 DEF UpdateBlueGreenDeployment

LEMMA WaitOK ==
  ASSUME TypeInv, NEW w \in Workers, NEW at \in Mid, NEW next \in Mid,
         NEW c \in Colors, NEW n,
         WaitAllReplicaSetPodsAvailable(w, at, c, n, next)
  PROVE  TypeInv'
  <1>1. LocalOK'
    BY GotoOK DEF TypeInv, WaitAllReplicaSetPodsAvailable, Mid
  <1>2. budget' \in [Events -> Nat]
    BY SpendOK DEF TypeInv, ClusterTypeOK, WaitAllReplicaSetPodsAvailable, Events
  <1>3. UNCHANGED <<bgd, rs, svc, watch>>
    BY DEF WaitAllReplicaSetPodsAvailable, apiVars
  <1> QED BY <1>1, <1>2, <1>3 DEF TypeInv, ClusterTypeOK

\* A write of a ReplicaSet, and the reply to it.
LEMMA WriteReplicaSetOK ==
  ASSUME TypeInv, NEW w \in Workers, pc[w] # "idle", NEW c \in Colors,
         NEW r \in ReplicaSet \union {Absent}, rs' = [rs EXCEPT ![c] = r],
         UNCHANGED <<bgd, svc, watch>>,
         \/ LocalOK' /\ UNCHANGED budget
         \/ Spend("lostReply") /\ ReturnError(w)
  PROVE  TypeInv'
  <1>1. LocalOK'
    BY ReturnErrorOK DEF TypeInv
  <1>2. budget' \in [Events -> Nat]
    BY SpendOK DEF TypeInv, ClusterTypeOK, Events
  <1> QED BY <1>1, <1>2 DEF TypeInv, ClusterTypeOK

LEMMA CreateReplicaSetIfNotFoundOK ==
  ASSUME TypeInv, NEW w \in Workers, NEW c \in Colors,
         NEW get \in Mid, NEW create \in Mid, NEW wait \in Mid, NEW next \in Mid,
         CreateReplicaSetIfNotFound(w, get, create, wait, c, next)
  PROVE  TypeInv'
  <1>1. CASE /\ pc[w] = get /\ rs[c] # Absent
             /\ GotoSeen(w, next, c, rs[c].spec)
             /\ UNCHANGED <<apiVars, watch, budget>>
    <2>1. rs[c] \in ReplicaSet
      BY <1>1 DEF TypeInv, ClusterTypeOK
    <2>2. rs[c].spec \in PodSpecs
      BY <2>1 DEF ReplicaSet
    <2>3. LocalOK'
      BY <1>1, <2>2, GotoSeenOK DEF TypeInv, Mid
    <2> QED BY <1>1, <2>3 DEF TypeInv, ClusterTypeOK, apiVars
  <1>2. CASE pc[w] = get /\ Goto(w, create) /\ UNCHANGED <<apiVars, watch, budget>>
    <2>1. LocalOK'
      BY <1>2, GotoOK DEF TypeInv, Mid
    <2> QED BY <1>2, <2>1 DEF TypeInv, ClusterTypeOK, apiVars
  <1>3. CASE /\ pc[w] = create
             /\ rs' = [rs EXCEPT ![c] = NewReplicaSet(key[w], b[w], c)]
             /\ Reply(w, GotoSeen(w, wait, c, NewReplicaSet(key[w], b[w], c).spec))
             /\ UNCHANGED <<bgd, svc, watch>>
    <2>1. NewReplicaSet(key[w], b[w], c) \in ReplicaSet
      BY <1>3, HoldsOK, NewReplicaSetType DEF TypeInv, Mid
    <2>2. NewReplicaSet(key[w], b[w], c).spec \in PodSpecs
      BY <2>1 DEF ReplicaSet
    <2>3. GotoSeen(w, wait, c, NewReplicaSet(key[w], b[w], c).spec) => LocalOK'
      BY <1>3, <2>2, GotoSeenOK DEF TypeInv, Mid
    <2>4. \/ LocalOK' /\ UNCHANGED budget
          \/ Spend("lostReply") /\ ReturnError(w)
      BY <1>3, <2>3 DEF Reply
    <2> QED BY <1>3, <2>1, <2>4, WriteReplicaSetOK DEF Mid
  <1>4. CASE pc[w] = create /\ Refused(w)
    BY <1>4, RefusedOK DEF Mid
  <1>5. CASE WaitAllReplicaSetPodsAvailable(w, wait, c,
               NewReplicaSet(key[w], b[w], c).replicas, next)
    BY <1>5, WaitOK
  <1> QED
    BY <1>1, <1>2, <1>3, <1>4, <1>5 DEF CreateReplicaSetIfNotFound

LEMMA ScaleReplicaSetOK ==
  ASSUME TypeInv, NEW w \in Workers, NEW c \in Colors, NEW n \in ReplicaCounts \union {0},
         NEW scale \in Mid, NEW wait \in Mid, NEW next \in Mid,
         ScaleReplicaSet(w, scale, wait, c, n, next)
  PROVE  TypeInv'
  <1>1. CASE /\ pc[w] = scale /\ rs[c] # Absent
             /\ rs' = [rs EXCEPT ![c] = Scaled(rs[c], n)]
             /\ Reply(w, Goto(w, wait))
             /\ UNCHANGED <<bgd, svc, watch>>
    <2>1. rs[c] \in ReplicaSet
      BY <1>1 DEF TypeInv, ClusterTypeOK
    <2>2. Scaled(rs[c], n) \in ReplicaSet
      BY <2>1, ScaledType
    <2>3. Goto(w, wait) => LocalOK'
      BY <1>1, GotoOK DEF TypeInv, Mid
    <2>4. \/ LocalOK' /\ UNCHANGED budget
          \/ Spend("lostReply") /\ ReturnError(w)
      BY <1>1, <2>3 DEF Reply
    <2> QED BY <1>1, <2>2, <2>4, WriteReplicaSetOK DEF Mid
  <1>2. CASE pc[w] = scale /\ Refused(w)
    BY <1>2, RefusedOK DEF Mid
  <1>3. CASE WaitAllReplicaSetPodsAvailable(w, wait, c, n, next)
    BY <1>3, WaitOK
  <1> QED BY <1>1, <1>2, <1>3 DEF ScaleReplicaSet

(* Every step of syncHandler leaves everything well typed.                 *)
LEMMA SyncStepOK ==
  ASSUME TypeInv, NEW w \in Workers, SyncStep(w)
  PROVE  TypeInv'
  <1> USE MidFacts DEF Calls, Polls
  <1> DEFINE k == key[w]
  <1>1. CASE Lister(w)
    <2>1. k \in Keys
      BY <1>1 DEF Lister, TypeInv, LocalOK, WorkerState, SyncTypeOK
    <2>2. ASSUME ReturnNil(w) PROVE LocalOK'
      BY <1>1, <2>2, ReturnNilOK DEF Lister, TypeInv
    <2>3. ASSUME cache[k] # Absent,
                 GotoWith(w, IF cache[k].color = NoColor THEN "initStatus" ELSE "getBlue",
                          cache[k])
          PROVE  LocalOK'
      <3>1. cache[k] \in BlueGreenDeployment
        BY <2>1, <2>3 DEF TypeInv, LocalOK, SyncTypeOK
      <3>2. cache[k].color \in Colors \union {NoColor}
        BY <3>1 DEF BlueGreenDeployment
      <3> QED BY <1>1, <2>3, <3>1, <3>2, GotoWithOK DEF Lister, TypeInv, Labels
    <2>4. LocalOK'
      BY <1>1, <2>2, <2>3 DEF Lister
    <2> QED BY <1>1, <2>4 DEF Lister, TypeInv, ClusterTypeOK, clusterVars
  <1>2. CASE InitStatus(w)
    BY <1>2, UpdateBlueGreenDeploymentOK DEF InitStatus, Colors
  <1>3. CASE CreateReplicaSetsIfNotFound(w)
    BY <1>3, CreateReplicaSetIfNotFoundOK DEF CreateReplicaSetsIfNotFound, Colors
  <1>4. CASE CreateServiceIfNotFound(w)
    <2>1. CASE /\ pc[w] = "getService"
               /\ Goto(w, IF svc = Absent THEN "createService" ELSE "compare")
               /\ UNCHANGED <<apiVars, watch, budget>>
      <3>1. LocalOK'
        BY <2>1, GotoOK DEF TypeInv, Mid
      <3> QED BY <2>1, <3>1 DEF TypeInv, ClusterTypeOK, apiVars
    <2>2. CASE /\ pc[w] = "createService"
               /\ svc' = NewService(b[w])
               /\ Reply(w, Goto(w, "compare"))
               /\ UNCHANGED <<bgd, rs, watch>>
      <3>1. Goto(w, "compare") => LocalOK'
        BY <2>2, GotoOK DEF TypeInv, Mid
      <3>2. LocalOK'
        BY <2>2, <3>1, ReturnErrorOK DEF Reply, TypeInv
      <3>3. budget' \in [Events -> Nat]
        BY <2>2, SpendOK DEF Reply, TypeInv, ClusterTypeOK, Events
      <3> QED BY <2>2, <3>2, <3>3 DEF NewService, Colors, TypeInv, ClusterTypeOK
    <2>3. CASE pc[w] = "createService" /\ Refused(w)
      BY <2>3, RefusedOK
    <2> QED BY <1>4, <2>1, <2>2, <2>3 DEF CreateServiceIfNotFound
  <1>5. CASE Compare(w)
    <2>1. LocalOK'
      BY <1>5, ReturnNilOK, GotoOK DEF Compare, TypeInv, Mid
    <2> QED BY <1>5, <2>1 DEF Compare, TypeInv, ClusterTypeOK, clusterVars
  <1>6. CASE Flip(w)
    <2>1. Other(b[w].color) \in Colors
      BY DEF Other, Colors
    <2> QED BY <1>6, <2>1, UpdateBlueGreenDeploymentOK DEF Flip
  <1>7. CASE ScaleUp(w)
    <2>1. pc[w] \in Mid
      BY <1>7 DEF ScaleUp, ScaleReplicaSet, WaitAllReplicaSetPodsAvailable
    <2>2. b[w] \in BlueGreenDeployment /\ b[w].color \in Colors
      BY <2>1, HoldsOK DEF TypeInv
    <2>3. b[w].replicas \in ReplicaCounts
      BY <2>2 DEF BlueGreenDeployment
    <2> QED BY <1>7, <2>2, <2>3, ScaleReplicaSetOK DEF ScaleUp
  <1>8. CASE ReplaceInactiveReplicaSet(w)
    <2>1. pc[w] \in Mid
      BY <1>8 DEF ReplaceInactiveReplicaSet, CreateReplicaSetIfNotFound,
                  WaitAllReplicaSetPodsAvailable
    <2>2. b[w].color \in Colors
      BY <2>1, HoldsOK DEF TypeInv, Mid
    <2>3. CASE /\ pc[w] = "delete"
               /\ rs' = [rs EXCEPT ![b[w].color] = Absent]
               /\ Reply(w, Goto(w, "getNew"))
               /\ UNCHANGED <<bgd, svc, watch>>
      <3>1. Goto(w, "getNew") => LocalOK'
        BY <2>3, GotoOK DEF TypeInv, Mid
      <3>2. \/ LocalOK' /\ UNCHANGED budget
            \/ Spend("lostReply") /\ ReturnError(w)
        BY <2>3, <3>1 DEF Reply
      <3> QED BY <2>2, <2>3, <3>2, WriteReplicaSetOK
    <2>4. CASE pc[w] = "delete" /\ Refused(w)
      BY <2>4, RefusedOK
    <2>5. CASE CreateReplicaSetIfNotFound(w, "getNew", "createNew", "waitNew",
                                          b[w].color, "scaleDown")
      BY <2>2, <2>5, CreateReplicaSetIfNotFoundOK
    <2> QED BY <1>8, <2>3, <2>4, <2>5 DEF ReplaceInactiveReplicaSet
  <1>9. CASE ScaleDown(w)
    <2>1. Other(b[w].color) \in Colors
      BY DEF Other, Colors
    <2> QED BY <1>9, <2>1, ScaleReplicaSetOK DEF ScaleDown
  <1>10. CASE UpdateService(w)
    <2>1. b[w].color \in Colors
      BY <1>10, HoldsOK DEF UpdateService, TypeInv, Mid
    <2>2. svc' \in Colors \union {Absent}
      BY <1>10, <2>1 DEF UpdateService, TypeInv, ClusterTypeOK
    <2>3. budget' \in [Events -> Nat]
      BY <1>10, SpendOK DEF UpdateService, TypeInv, ClusterTypeOK, Events
    <2>4. LocalOK' /\ watch' \in [Keys -> Seq(BlueGreenDeployment \union {Absent})]
      BY <1>10, RestartOK, ReturnNilOK DEF UpdateService, TypeInv, ClusterTypeOK
    <2> QED BY <1>10, <2>2, <2>3, <2>4 DEF UpdateService, TypeInv, ClusterTypeOK
  <1> QED
    BY <1>1, <1>2, <1>3, <1>4, <1>5, <1>6, <1>7, <1>8, <1>9, <1>10 DEF SyncStep

LEMMA ApiErrorOK ==
  ASSUME TypeInv, NEW w \in Workers, ApiError(w)
  PROVE  TypeInv'
  <1>1. budget' \in [Events -> Nat]
    BY SpendOK DEF ApiError, TypeInv, ClusterTypeOK, Events
  <1>2. pc[w] # "idle"
    BY DEF ApiError, Calls
  <1>3. LocalOK' /\ watch' \in [Keys -> Seq(BlueGreenDeployment \union {Absent})]
    BY <1>2, RestartOK, ReturnErrorOK DEF ApiError, TypeInv, ClusterTypeOK
  <1> QED BY <1>1, <1>3 DEF ApiError, TypeInv, ClusterTypeOK, apiVars

(* So do taking a key from the queue ...                                   *)
LEMMA ProcessNextWorkItemOK ==
  ASSUME TypeInv, NEW w \in Workers, NEW k \in Keys, ProcessNextWorkItem(w, k)
  PROVE  TypeInv'
  <1> USE DEF TypeInv, LocalOK
  <1>1. QueueTypeOK(Keys)'
    BY DEF ProcessNextWorkItem, Get, Queued, QueueTypeOK
  <1>2. SyncTypeOK'
    BY DEF ProcessNextWorkItem, SyncTypeOK, Labels
  <1>3. k # Absent
    BY ClusterAssumption
  <1>4. WorkerState'
    BY <1>3 DEF ProcessNextWorkItem, SyncTypeOK, WorkerState
  <1>5. ExclusiveSync'
    <2>1. \A v \in Workers \ {w} : pc'[v] = pc[v] /\ key'[v] = key[v]
      BY DEF ProcessNextWorkItem, SyncTypeOK
    <2>2. pc[w] = "idle" /\ pc'[w] = "lister" /\ key'[w] = k
      BY DEF ProcessNextWorkItem, SyncTypeOK
    <2>3. k \notin processing /\ processing' = processing \union {k}
      BY DEF ProcessNextWorkItem, Get, Queued
    <2>4. \A v \in Workers : pc[v] # "idle" => key[v] \in processing
      BY DEF ExclusiveSync
    <2>5. \A v \in Workers : pc[v] = "idle" => key[v] = Absent
      BY DEF WorkerState
    <2>6. \A u, v \in Workers : pc'[u] # "idle" /\ key'[u] = key'[v] => u = v
      BY <2>1, <2>2, <2>3, <2>4, <2>5, <1>3 DEF ExclusiveSync
    <2>7. processing' = {key'[u] : u \in {v \in Workers : pc'[v] # "idle"}}
      BY <2>1, <2>2, <2>3 DEF ExclusiveSync
    <2> QED BY <2>6, <2>7 DEF ExclusiveSync
  <1>6. ClusterTypeOK'
    BY DEF ProcessNextWorkItem, ClusterTypeOK, clusterVars
  <1> QED BY <1>1, <1>2, <1>4, <1>5, <1>6

(* ... putting one on it ...                                               *)
LEMMA EnqueueOK ==
  ASSUME LocalOK, NEW k \in Keys, Add(k) \/ BackoffOver(k) \/ UNCHANGED queueVars,
         UNCHANGED workerVars,
         cache' \in [Keys -> BlueGreenDeployment \union {Absent}]
  PROVE  LocalOK'
  <1>1. QueueTypeOK(Keys)'
    BY DEF LocalOK, QueueTypeOK, Add, BackoffOver, queueVars
  <1>2. processing' = processing
    BY DEF Add, BackoffOver, queueVars
  <1>3. SyncTypeOK' /\ WorkerState'
    BY DEF LocalOK, SyncTypeOK, WorkerState, workerVars
  <1>4. ExclusiveSync'
    BY <1>2 DEF LocalOK, ExclusiveSync, workerVars
  <1> QED BY <1>1, <1>3, <1>4 DEF LocalOK

(* ... and delivering a watch event.                                       *)
LEMMA DeliverOK ==
  ASSUME TypeInv, NEW k \in Keys, Deliver(k)
  PROVE  TypeInv'
  <1> DEFINE Obj == BlueGreenDeployment \union {Absent}
  <1>1. watch \in [Keys -> Seq(Obj)] /\ watch[k] \in Seq(Obj) /\ watch[k] # << >>
    BY DEF TypeInv, ClusterTypeOK, Deliver
  <1>2. Head(watch[k]) \in Obj /\ Tail(watch[k]) \in Seq(Obj)
    BY <1>1
  <1>3. watch' \in [Keys -> Seq(Obj)]
    BY <1>1, <1>2 DEF Deliver
  <1>4. cache' \in [Keys -> Obj]
    BY <1>2 DEF Deliver, TypeInv, LocalOK, SyncTypeOK
  <1>5. LocalOK'
    BY <1>4, EnqueueOK DEF Deliver, Enqueue, TypeInv
  <1> QED BY <1>3, <1>5 DEF Deliver, TypeInv, ClusterTypeOK, apiVars

----------------------------------------------------------------------------
(* Type correctness and exclusive syncs.                                   *)

LEMMA TypeInit == Init => TypeInv
  <1> SUFFICES ASSUME Init PROVE TypeInv
    OBVIOUS
  <1>1. ClusterTypeOK
    BY ClusterAssumption DEF Init, ClusterInit, ClusterTypeOK
  <1>2. QueueTypeOK(Keys) /\ SyncTypeOK /\ WorkerState
    BY DEF Init, QueueInit, SyncInit, QueueTypeOK, SyncTypeOK, WorkerState,
           NothingSeen, Labels
  <1>3. ExclusiveSync
    BY DEF Init, QueueInit, SyncInit, ExclusiveSync
  <1> QED BY <1>1, <1>2, <1>3 DEF TypeInv, LocalOK

LEMMA TypeNext == TypeInv /\ [Next]_vars => TypeInv'
  <1> SUFFICES ASSUME TypeInv, [Next]_vars PROVE TypeInv'
    OBVIOUS
  <1>1. CASE ClusterStep /\ UNCHANGED <<cache, queueVars, workerVars>>
    <2>1. ClusterTypeOK'
      BY <1>1, ClusterStepOK DEF TypeInv
    <2>2. LocalOK'
      BY <1>1 DEF TypeInv, LocalOK, QueueTypeOK, SyncTypeOK, WorkerState,
                  ExclusiveSync, queueVars, workerVars
    <2> QED BY <2>1, <2>2 DEF TypeInv
  <1>2. CASE \E w \in Workers : SyncStep(w) \/ ApiError(w)
    BY <1>2, SyncStepOK, ApiErrorOK
  <1>3. CASE \E w \in Workers, k \in Keys : ProcessNextWorkItem(w, k)
    BY <1>3, ProcessNextWorkItemOK
  <1>4. CASE \E k \in Keys : Deliver(k)
    BY <1>4, DeliverOK
  <1>5. CASE \E k \in Keys : Resync(k) \/ HandleObject(k) \/ Retry(k)
    <2>1. UNCHANGED <<clusterVars, cache, workerVars>>
      BY <1>5 DEF Resync, HandleObject, Retry
    <2>2. LocalOK'
      BY <1>5, <2>1, EnqueueOK
         DEF Resync, HandleObject, Retry, Enqueue, TypeInv, LocalOK, SyncTypeOK
    <2> QED BY <2>1, <2>2 DEF TypeInv, ClusterTypeOK, clusterVars
  <1>6. CASE Crash
    <2>1. budget' \in [Events -> Nat]
      BY <1>6, SpendOK DEF Crash, TypeInv, ClusterTypeOK, Events
    <2>2. LocalOK' /\ watch' \in [Keys -> Seq(BlueGreenDeployment \union {Absent})]
      BY <1>6, RestartOK DEF Crash, TypeInv, ClusterTypeOK
    <2> QED BY <1>6, <2>1, <2>2 DEF Crash, TypeInv, ClusterTypeOK, apiVars
  <1>7. CASE UNCHANGED vars
    BY <1>7 DEF vars, TypeInv, ClusterTypeOK, LocalOK, QueueTypeOK, SyncTypeOK,
                WorkerState, ExclusiveSync
  <1> QED
    BY <1>1, <1>2, <1>3, <1>4, <1>5, <1>6, <1>7 DEF Next, ControllerStep

(* The inductive invariant: every variable has its type, a worker holds    *)
(* what its place in syncHandler needs, and the queue's book-keeping       *)
(* agrees with the workers'.                                               *)
THEOREM TypeInvHolds == Spec => []TypeInv
  BY TypeInit, TypeNext, PTL DEF Spec

(* Every variable always holds a value of its type.                        *)
THEOREM TypeCorrect == Spec => []TypeOK
  <1>1. TypeInv => TypeOK
    BY DEF TypeInv, LocalOK, TypeOK
  <1> QED BY <1>1, TypeInvHolds, PTL

(* No two workers ever sync the same BlueGreenDeployment at once.          *)
THEOREM SyncsAreExclusive == Spec => []ExclusiveSync
  <1>1. TypeInv => ExclusiveSync
    BY DEF TypeInv, LocalOK
  <1> QED BY <1>1, TypeInvHolds, PTL
==============================================================================
