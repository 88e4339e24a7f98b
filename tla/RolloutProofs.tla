---------------------------- MODULE RolloutProofs ----------------------------
(***************************************************************************)
(* That a rollover is safe whatever fails: theorems about a namespace with *)
(* one BlueGreenDeployment, for any number of workers, edits, failed       *)
(* calls, lost replies, crashes and delays of the cache.                   *)
(***************************************************************************)
EXTENDS BlueGreenProofs

----------------------------------------------------------------------------
(* How versions of a BlueGreenDeployment come about and travel.            *)

\* The colour a worker is about to write.
NewColor(w) == IF pc[w] = "initStatus" THEN "blue" ELSE Other(b[w].color)

\* A version is written by a creation, an edit, or a worker's status update.
Writes(k, obj) ==
  /\ WriteBgd(k, obj)
  /\ bgd[k] # Absent => obj.uid = bgd[k].uid
  /\ \/ obj.color = IF bgd[k] = Absent THEN NoColor ELSE bgd[k].color
     \/ \E w \in Workers : /\ bgd[k] # Absent /\ key[w] = k
                          /\ pc[w] \in {"initStatus", "flip"}
                          /\ obj.color = NewColor(w)
  /\ UNCHANGED cache

VersionStep ==
  \/ UNCHANGED <<bgd, watch, cache>>
  \/ \E k \in Keys, obj \in BlueGreenDeployment : Writes(k, obj)
  \/ \E k \in Keys : DeleteBgd(k) /\ UNCHANGED cache
  \/ \E k \in Keys : Deliver(k)
  \/ Restart /\ UNCHANGED bgd

\* A worker's step that ends in one of these leaves the informer alone.
LEMMA ReplyKeepsCache ==
  ASSUME NEW w \in Workers, NEW l, NEW obj, Reply(w, GotoWith(w, l, obj))
  PROVE  UNCHANGED cache
  BY DEF Reply, GotoWith, ReturnError

LEMMA UpdateIsVersionStep ==
  ASSUME TypeInv, NEW w \in Workers, NEW c \in Colors, NEW next,
         pc[w] \in {"initStatus", "flip"}, c = NewColor(w),
         UpdateBlueGreenDeployment(w, c, next)
  PROVE  VersionStep
  <1>1. key[w] \in Keys
    BY HoldsOK DEF TypeInv
  <1>2. CASE bgd[key[w]] # Absent
    <2> DEFINE new == [bgd[key[w]] EXCEPT !.color = c]
    <2>1. WriteBgd(key[w], new) /\ Reply(w, GotoWith(w, next, new))
      BY <1>2 DEF UpdateBlueGreenDeployment
    <2>2. bgd[key[w]] \in BlueGreenDeployment
      BY <1>1, <1>2 DEF TypeInv, ClusterTypeOK
    <2>3. new \in BlueGreenDeployment /\ new.uid = bgd[key[w]].uid /\ new.color = c
      BY <2>2 DEF BlueGreenDeployment
    <2> HIDE DEF new
    <2>4. UNCHANGED cache
      BY <2>1, ReplyKeepsCache
    <2> QED BY <1>1, <1>2, <2>1, <2>3, <2>4 DEF VersionStep, Writes
  <1>3. CASE bgd[key[w]] = Absent
    BY <1>3 DEF UpdateBlueGreenDeployment, Refused, ReturnError, apiVars, VersionStep
  <1> QED BY <1>2, <1>3

LEMMA CreateReplicaSetIsVersionStep ==
  ASSUME NEW w, NEW c, NEW get, NEW create, NEW wait, NEW next,
         CreateReplicaSetIfNotFound(w, get, create, wait, c, next)
  PROVE  UNCHANGED <<bgd, watch, cache>>
  BY DEF CreateReplicaSetIfNotFound, WaitAllReplicaSetPodsAvailable, Refused,
         Reply, GotoSeen, Goto, ReturnError, apiVars

LEMMA ScaleReplicaSetIsVersionStep ==
  ASSUME NEW w, NEW c, NEW n, NEW scale, NEW wait, NEW next,
         ScaleReplicaSet(w, scale, wait, c, n, next)
  PROVE  UNCHANGED <<bgd, watch, cache>>
  BY DEF ScaleReplicaSet, WaitAllReplicaSetPodsAvailable, Refused,
         Reply, Goto, ReturnError, apiVars

LEMMA SyncIsVersionStep ==
  ASSUME TypeInv, NEW w \in Workers, SyncStep(w)
  PROVE  VersionStep
  <1>1. CASE Lister(w)
    BY <1>1 DEF Lister, ReturnNil, GotoWith, clusterVars, VersionStep
  <1>2. CASE InitStatus(w)
    BY <1>2, UpdateIsVersionStep DEF InitStatus, Colors, NewColor
  <1>3. CASE CreateReplicaSetsIfNotFound(w)
    BY <1>3, CreateReplicaSetIsVersionStep DEF CreateReplicaSetsIfNotFound, VersionStep
  <1>4. CASE CreateServiceIfNotFound(w)
    BY <1>4 DEF CreateServiceIfNotFound, Goto, Reply, ReturnError, Refused, apiVars,
                VersionStep
  <1>5. CASE Compare(w)
    BY <1>5 DEF Compare, Goto, ReturnNil, clusterVars, VersionStep
  <1>6. CASE Flip(w)
    <2>1. Other(b[w].color) \in Colors
      BY DEF Other, Colors
    <2> QED BY <1>6, <2>1, UpdateIsVersionStep DEF Flip, NewColor
  <1>7. CASE ScaleUp(w)
    BY <1>7, ScaleReplicaSetIsVersionStep DEF ScaleUp, VersionStep
  <1>8. CASE ReplaceInactiveReplicaSet(w)
    BY <1>8, CreateReplicaSetIsVersionStep
       DEF ReplaceInactiveReplicaSet, Goto, Reply, ReturnError, Refused, apiVars,
           VersionStep
  <1>9. CASE ScaleDown(w)
    BY <1>9, ScaleReplicaSetIsVersionStep DEF ScaleDown, VersionStep
  <1>10. CASE UpdateService(w)
    BY <1>10 DEF UpdateService, ReturnNil, VersionStep
  <1> QED
    BY <1>1, <1>2, <1>3, <1>4, <1>5, <1>6, <1>7, <1>8, <1>9, <1>10 DEF SyncStep

LEMMA ClusterIsVersionStep ==
  ASSUME TypeInv, ClusterStep, UNCHANGED cache
  PROVE  VersionStep
  <1>1. ASSUME NEW k \in Keys, CreateBgd(k) PROVE VersionStep
    <2>1. PICK s \in UserSpecs, n \in ReplicaCounts :
            WriteBgd(k, [uid |-> budget["create"], spec |-> s, replicas |-> n,
                         color |-> NoColor])
      BY <1>1 DEF CreateBgd
    <2>2. [uid |-> budget["create"], spec |-> s, replicas |-> n,
           color |-> NoColor] \in BlueGreenDeployment
      BY DEF BlueGreenDeployment, Events, TypeInv, ClusterTypeOK
    <2> QED BY <1>1, <2>1, <2>2 DEF CreateBgd, VersionStep, Writes
  <1>2. ASSUME NEW k \in Keys, EditSpec(k) PROVE VersionStep
    <2>1. PICK s \in UserSpecs : WriteBgd(k, [bgd[k] EXCEPT !.spec = s])
      BY <1>2 DEF EditSpec
    <2>2. bgd[k] \in BlueGreenDeployment
      BY <1>2 DEF EditSpec, TypeInv, ClusterTypeOK
    <2>3. /\ [bgd[k] EXCEPT !.spec = s] \in BlueGreenDeployment
          /\ [bgd[k] EXCEPT !.spec = s].uid = bgd[k].uid
          /\ [bgd[k] EXCEPT !.spec = s].color = bgd[k].color
      BY <2>2 DEF BlueGreenDeployment
    <2> QED BY <1>2, <2>1, <2>3 DEF EditSpec, EditReplicas, VersionStep, Writes
  <1>3. ASSUME NEW k \in Keys, EditReplicas(k) PROVE VersionStep
    <2>1. PICK n \in ReplicaCounts : WriteBgd(k, [bgd[k] EXCEPT !.replicas = n])
      BY <1>3 DEF EditReplicas
    <2>2. bgd[k] \in BlueGreenDeployment
      BY <1>3 DEF EditReplicas, TypeInv, ClusterTypeOK
    <2>3. /\ [bgd[k] EXCEPT !.replicas = n] \in BlueGreenDeployment
          /\ [bgd[k] EXCEPT !.replicas = n].uid = bgd[k].uid
          /\ [bgd[k] EXCEPT !.replicas = n].color = bgd[k].color
      BY <2>2 DEF BlueGreenDeployment
    <2> QED BY <1>3, <2>1, <2>3 DEF EditSpec, EditReplicas, VersionStep, Writes
  <1>4. ASSUME NEW k \in Keys, DeleteBgd(k) PROVE VersionStep
    BY <1>4 DEF VersionStep
  <1>5. ASSUME \/ DropService
               \/ \E c \in Colors : DropReplicaSet(c) \/ RunReplicaSet(c)
                                      \/ PodFailure(c) \/ CollectGarbage(c)
        PROVE  VersionStep
    BY <1>5 DEF DropService, DropReplicaSet, RunReplicaSet, PodFailure,
                CollectGarbage, VersionStep
  <1> QED BY <1>1, <1>2, <1>3, <1>4, <1>5 DEF ClusterStep

LEMMA EveryStepIsVersionStep ==
  ASSUME TypeInv, [Next]_vars
  PROVE  VersionStep
  <1>1. CASE ClusterStep /\ UNCHANGED <<cache, queueVars, workerVars>>
    BY <1>1, ClusterIsVersionStep
  <1>2. CASE \E w \in Workers : SyncStep(w)
    BY <1>2, SyncIsVersionStep
  <1>3. CASE \E w \in Workers : ApiError(w)
    BY <1>3 DEF ApiError, ReturnError, apiVars, VersionStep
  <1>4. CASE \E w \in Workers, k \in Keys : ProcessNextWorkItem(w, k)
    BY <1>4 DEF ProcessNextWorkItem, clusterVars, VersionStep
  <1>5. CASE \E k \in Keys : Deliver(k)
    BY <1>5 DEF VersionStep
  <1>6. CASE \E k \in Keys : Resync(k) \/ HandleObject(k) \/ Retry(k)
    BY <1>6 DEF Resync, HandleObject, Retry, clusterVars, VersionStep
  <1>7. CASE Crash
    BY <1>7 DEF Crash, apiVars, VersionStep
  <1>8. CASE UNCHANGED vars
    BY <1>8 DEF vars, VersionStep
  <1> QED
    BY <1>1, <1>2, <1>3, <1>4, <1>5, <1>6, <1>7, <1>8 DEF Next, ControllerStep

----------------------------------------------------------------------------
(* However far the cache lags behind, it catches up.                       *)

LEMMA VersionStepCatchesUp ==
  ASSUME TypeInv, CacheCatchesUp, VersionStep
  PROVE  CacheCatchesUp'
  <1> DEFINE Obj == BlueGreenDeployment \union {Absent}
  <1>1. /\ bgd \in [Keys -> Obj] /\ watch \in [Keys -> Seq(Obj)]
        /\ cache \in [Keys -> Obj]
    BY DEF TypeInv, ClusterTypeOK, LocalOK, SyncTypeOK
  <1>2. ASSUME NEW k \in Keys, NEW obj \in Obj, WriteBgd(k, obj), UNCHANGED cache
        PROVE  CacheCatchesUp'
    <2>1. ASSUME obj = bgd[k] PROVE bgd' = bgd /\ watch' = watch
      BY <1>1, <1>2, <2>1 DEF WriteBgd
    <2>2. ASSUME obj # bgd[k], NEW l \in Keys PROVE Latest(l)' = bgd'[l]
      <3>1. CASE l = k
        <4>1. watch'[k] = Append(watch[k], obj) /\ bgd'[k] = obj
          BY <1>1, <1>2, <2>2 DEF WriteBgd
        <4>2. watch[k] \in Seq(Obj)
          BY <1>1
        <4>3. /\ Append(watch[k], obj) # << >>
              /\ Append(watch[k], obj)[Len(Append(watch[k], obj))] = obj
          BY <4>2
        <4> QED BY <3>1, <4>1, <4>3 DEF Latest
      <3>2. CASE l # k
        BY <1>1, <1>2, <2>2, <3>2 DEF WriteBgd, Latest, CacheCatchesUp
      <3> QED BY <3>1, <3>2
    <2> QED BY <1>2, <2>1, <2>2 DEF CacheCatchesUp, Latest
  <1>3. ASSUME NEW k \in Keys, Deliver(k) PROVE CacheCatchesUp'
    <2>1. SUFFICES ASSUME NEW l \in Keys PROVE Latest(l)' = bgd'[l]
      BY DEF CacheCatchesUp
    <2>2. bgd' = bgd
      BY <1>3 DEF Deliver, apiVars
    <2>3. CASE l = k
      <3>1. watch[k] \in Seq(Obj) /\ watch[k] # << >>
        BY <1>1, <1>3 DEF Deliver
      <3>2. cache'[k] = Head(watch[k]) /\ watch'[k] = Tail(watch[k])
        BY <1>1, <1>3 DEF Deliver
      <3>3. watch[k][Len(watch[k])] = bgd[k]
        BY <3>1 DEF CacheCatchesUp, Latest
      <3>4. CASE Tail(watch[k]) = << >>
        <4>1. Head(watch[k]) = watch[k][Len(watch[k])]
          BY <3>1, <3>4
        <4> QED BY <2>2, <2>3, <3>2, <3>3, <3>4, <4>1 DEF Latest
      <3>5. CASE Tail(watch[k]) # << >>
        <4>1. Tail(watch[k])[Len(Tail(watch[k]))] = watch[k][Len(watch[k])]
          BY <3>1, <3>5
        <4> QED BY <2>2, <2>3, <3>2, <3>3, <3>5, <4>1 DEF Latest
      <3> QED BY <3>4, <3>5
    <2>4. CASE l # k
      BY <1>1, <1>3, <2>2, <2>4 DEF Deliver, Latest, CacheCatchesUp
    <2> QED BY <2>3, <2>4
  <1>4. ASSUME Restart, UNCHANGED bgd PROVE CacheCatchesUp'
    BY <1>4 DEF Restart, CacheCatchesUp, Latest
  <1>5. ASSUME UNCHANGED <<bgd, watch, cache>> PROVE CacheCatchesUp'
    BY <1>5 DEF CacheCatchesUp, Latest
  <1> QED BY <1>2, <1>3, <1>4, <1>5 DEF VersionStep, Writes, DeleteBgd

(* A step of someone else, which the informer sees only by the versions it *)
(* adds to those to come, leaves this process well typed.                  *)
LEMMA OthersStep ==
  ASSUME TypeInv,
         bgd' \in [Keys -> BlueGreenDeployment \union {Absent}],
         rs' \in [Colors -> ReplicaSet \union {Absent}],
         svc' \in Colors \union {Absent},
         budget' \in [Events -> Nat],
         watch' = [k \in Keys |-> IF bgd'[k] = bgd[k] THEN watch[k]
                                                     ELSE Append(watch[k], bgd'[k])],
         UNCHANGED <<cache, queueVars, workerVars>>
  PROVE  TypeInv'
  <1> DEFINE Obj == BlueGreenDeployment \union {Absent}
  <1>1. ASSUME NEW k \in Keys PROVE watch'[k] \in Seq(Obj)
    <2>1. watch[k] \in Seq(Obj) /\ bgd'[k] \in Obj
      BY DEF TypeInv, ClusterTypeOK
    <2> QED BY <2>1
  <1>2. watch' \in [Keys -> Seq(Obj)]
    <2>1. watch' = [k \in Keys |-> watch'[k]]
      OBVIOUS
    <2> QED BY <1>1, <2>1
  <1>3. LocalOK'
    BY DEF TypeInv, LocalOK, QueueTypeOK, SyncTypeOK, WorkerState, ExclusiveSync,
           queueVars, workerVars
  <1> QED BY <1>2, <1>3 DEF TypeInv, ClusterTypeOK

(* The last version the informer was or will be shown is the stored one.   *)
LEMMA CacheCatchesUpHolds == Spec => []CacheCatchesUp
  <1>1. Init => CacheCatchesUp
    BY DEF Init, ClusterInit, SyncInit, CacheCatchesUp, Latest
  <1>2. TypeInv /\ CacheCatchesUp /\ [Next]_vars => CacheCatchesUp'
    BY EveryStepIsVersionStep, VersionStepCatchesUp
  <1> QED BY <1>1, <1>2, TypeInvHolds, PTL DEF Spec

----------------------------------------------------------------------------
(* What a step may do to the objects in workers' hands and to the owners   *)
(* of ReplicaSets.                                                         *)

\* The worker is at no call, or holds what it held, or what is cached or stored.
HoldStep(v) ==
  \/ pc'[v] \in {"idle", "lister"}
  \/ /\ key'[v] = key[v]
     /\ \/ pc[v] \notin {"idle", "lister"} /\ b'[v] = b[v]
        \/ /\ Lister(v)
           /\ cache[key[v]] # Absent
           /\ b'[v] = cache[key[v]]
        \/ /\ pc[v] \notin {"idle", "lister"}
           /\ bgd[key[v]] # Absent
           /\ b'[v].uid = bgd[key[v]].uid
           /\ b'[v] = bgd'[key[v]]

\* The ReplicaSet is gone, or keeps its owner, or has been made by a worker.
OwnerStep(c) ==
  \/ rs'[c] = Absent
  \/ rs[c] # Absent /\ rs'[c].owner = rs[c].owner
  \/ \E w \in Workers : /\ pc[w] \notin {"idle", "lister"}
                        /\ rs'[c].owner = [name |-> key[w], uid |-> b[w].uid]

Summary == (\A v \in Workers : HoldStep(v)) /\ (\A c \in Colors : OwnerStep(c))

LEMMA GotoHolds ==
  ASSUME SyncTypeOK, NEW w \in Workers, NEW l, pc[w] \notin {"idle", "lister"},
         Goto(w, l)
  PROVE  \A v \in Workers : HoldStep(v)
  BY DEF SyncTypeOK, Goto, HoldStep

LEMMA GotoSeenHolds ==
  ASSUME SyncTypeOK, NEW w \in Workers, NEW l, NEW c, NEW s,
         pc[w] \notin {"idle", "lister"}, GotoSeen(w, l, c, s)
  PROVE  \A v \in Workers : HoldStep(v)
  BY DEF SyncTypeOK, GotoSeen, HoldStep

LEMMA IdleHolds ==
  ASSUME SyncTypeOK, NEW w \in Workers, Idle(w)
  PROVE  \A v \in Workers : HoldStep(v)
  BY DEF SyncTypeOK, Idle, HoldStep

LEMMA RestartHolds ==
  ASSUME Restart
  PROVE  \A v \in Workers : HoldStep(v)
  BY DEF Restart, HoldStep

LEMMA RestHolds ==
  ASSUME UNCHANGED workerVars
  PROVE  \A v \in Workers : HoldStep(v)
  BY DEF workerVars, HoldStep

LEMMA SameOwners ==
  ASSUME UNCHANGED rs
  PROVE  \A c \in Colors : OwnerStep(c)
  BY DEF OwnerStep

LEMMA UpdateSummary ==
  ASSUME TypeInv, NEW w \in Workers, NEW c \in Colors, NEW next,
         pc[w] \notin {"idle", "lister"},
         UpdateBlueGreenDeployment(w, c, next)
  PROVE  Summary
  <1>1. UNCHANGED rs
    BY DEF UpdateBlueGreenDeployment, Refused, apiVars
  <1>2. SyncTypeOK /\ key[w] \in Keys
    BY HoldsOK DEF TypeInv, LocalOK
  <1>3. CASE ReturnError(w)
    BY <1>1, <1>2, <1>3, IdleHolds, SameOwners DEF ReturnError, Summary
  <1>4. CASE /\ bgd[key[w]] # Absent
             /\ WriteBgd(key[w], [bgd[key[w]] EXCEPT !.color = c])
             /\ GotoWith(w, next, [bgd[key[w]] EXCEPT !.color = c])
    <2>1. bgd[key[w]] \in BlueGreenDeployment
      BY <1>2, <1>4 DEF TypeInv, ClusterTypeOK
    <2>2. [bgd[key[w]] EXCEPT !.color = c].uid = bgd[key[w]].uid
      BY <2>1 DEF BlueGreenDeployment
    <2>3. bgd'[key[w]] = [bgd[key[w]] EXCEPT !.color = c]
      BY <1>2, <1>4 DEF WriteBgd, TypeInv, ClusterTypeOK
    <2>5. b'[w] = [bgd[key[w]] EXCEPT !.color = c] /\ key'[w] = key[w]
      BY <1>2, <1>4 DEF GotoWith, SyncTypeOK
    <2>6. HoldStep(w)
      BY <1>4, <2>2, <2>3, <2>5 DEF HoldStep
    <2>4. \A v \in Workers \ {w} : HoldStep(v)
      BY <1>2, <1>4 DEF GotoWith, SyncTypeOK, HoldStep
    <2> QED BY <1>1, <2>4, <2>6, SameOwners DEF Summary
  <1> QED BY <1>3, <1>4 DEF UpdateBlueGreenDeployment, Reply, Refused

LEMMA WaitSummary ==
  ASSUME TypeInv, NEW w \in Workers, NEW at \in Mid, NEW next, NEW c, NEW n,
         WaitAllReplicaSetPodsAvailable(w, at, c, n, next)
  PROVE  Summary
  BY GotoHolds, SameOwners
     DEF WaitAllReplicaSetPodsAvailable, TypeInv, LocalOK, Mid, apiVars, Summary

LEMMA RefusedSummary ==
  ASSUME TypeInv, NEW w \in Workers, Refused(w)
  PROVE  Summary
  BY IdleHolds, SameOwners
     DEF Refused, ReturnError, TypeInv, LocalOK, apiVars, Summary

LEMMA CreateReplicaSetSummary ==
  ASSUME TypeInv, NEW w \in Workers, NEW c \in Colors,
         NEW get \in Mid, NEW create \in Mid, NEW wait \in Mid, NEW next,
         CreateReplicaSetIfNotFound(w, get, create, wait, c, next)
  PROVE  Summary
  <1>1. SyncTypeOK
    BY DEF TypeInv, LocalOK
  <1>2. CASE pc[w] = get /\ GotoSeen(w, next, c, rs[c].spec) /\ UNCHANGED apiVars
    BY <1>1, <1>2, GotoSeenHolds, SameOwners DEF Mid, apiVars, Summary
  <1>3. CASE pc[w] = get /\ Goto(w, create) /\ UNCHANGED apiVars
    BY <1>1, <1>3, GotoHolds, SameOwners DEF Mid, apiVars, Summary
  <1>4. CASE /\ pc[w] = create
             /\ rs' = [rs EXCEPT ![c] = NewReplicaSet(key[w], b[w], c)]
             /\ Reply(w, GotoSeen(w, wait, c, NewReplicaSet(key[w], b[w], c).spec))
    <2>1. \A v \in Workers : HoldStep(v)
      BY <1>1, <1>4, GotoSeenHolds, IdleHolds DEF Mid, Reply, ReturnError
    <2>2. NewReplicaSet(key[w], b[w], c).owner = [name |-> key[w], uid |-> b[w].uid]
      BY DEF NewReplicaSet
    <2>3. rs'[c] = NewReplicaSet(key[w], b[w], c)
      BY <1>4 DEF TypeInv, ClusterTypeOK
    <2>4. OwnerStep(c)
      BY <1>4, <2>2, <2>3 DEF OwnerStep, Mid
    <2>5. \A d \in Colors \ {c} : OwnerStep(d)
      BY <1>4 DEF TypeInv, ClusterTypeOK, OwnerStep
    <2> QED BY <2>1, <2>4, <2>5 DEF Summary
  <1>5. CASE Refused(w)
    BY <1>5, RefusedSummary
  <1>6. CASE WaitAllReplicaSetPodsAvailable(w, wait, c,
               NewReplicaSet(key[w], b[w], c).replicas, next)
    BY <1>6, WaitSummary
  <1> QED
    BY <1>2, <1>3, <1>4, <1>5, <1>6 DEF CreateReplicaSetIfNotFound, apiVars

LEMMA ScaleReplicaSetSummary ==
  ASSUME TypeInv, NEW w \in Workers, NEW c \in Colors, NEW n,
         NEW scale \in Mid, NEW wait \in Mid, NEW next,
         ScaleReplicaSet(w, scale, wait, c, n, next)
  PROVE  Summary
  <1>1. SyncTypeOK
    BY DEF TypeInv, LocalOK
  <1>2. CASE /\ pc[w] = scale /\ rs[c] # Absent
             /\ rs' = [rs EXCEPT ![c] = Scaled(rs[c], n)]
             /\ Reply(w, Goto(w, wait))
    <2>1. \A v \in Workers : HoldStep(v)
      BY <1>1, <1>2, GotoHolds, IdleHolds DEF Mid, Reply, ReturnError
    <2>2. rs[c] \in ReplicaSet
      BY <1>2 DEF TypeInv, ClusterTypeOK
    <2>3. Scaled(rs[c], n).owner = rs[c].owner
      BY <2>2 DEF Scaled, ReplicaSet
    <2>4. OwnerStep(c)
      BY <1>2, <2>3 DEF OwnerStep, TypeInv, ClusterTypeOK
    <2>5. \A d \in Colors \ {c} : OwnerStep(d)
      BY <1>2 DEF TypeInv, ClusterTypeOK, OwnerStep
    <2> QED BY <2>1, <2>4, <2>5 DEF Summary
  <1>3. CASE Refused(w)
    BY <1>3, RefusedSummary
  <1>4. CASE WaitAllReplicaSetPodsAvailable(w, wait, c, n, next)
    BY <1>4, WaitSummary
  <1> QED BY <1>2, <1>3, <1>4 DEF ScaleReplicaSet

LEMMA SyncSummary ==
  ASSUME TypeInv, NEW w \in Workers, SyncStep(w)
  PROVE  Summary
  <1> USE MidFacts DEF Calls, Polls
  <1>0. SyncTypeOK
    BY DEF TypeInv, LocalOK
  <1>1. CASE Lister(w)
    <2>1. UNCHANGED <<bgd, rs>>
      BY <1>1 DEF Lister, clusterVars
    <2>2. CASE ReturnNil(w)
      BY <1>0, <2>1, <2>2, IdleHolds, SameOwners DEF ReturnNil, Summary
    <2>3. CASE /\ cache[key[w]] # Absent
               /\ \E l : GotoWith(w, l, cache[key[w]])
      <3>1. HoldStep(w)
        BY <1>0, <1>1, <2>3 DEF Lister, GotoWith, SyncTypeOK, HoldStep
      <3>2. \A v \in Workers \ {w} : HoldStep(v)
        BY <1>0, <2>3 DEF GotoWith, SyncTypeOK, HoldStep
      <3> QED BY <2>1, <3>1, <3>2, SameOwners DEF Summary
    <2> QED BY <1>1, <2>2, <2>3 DEF Lister
  <1>2. CASE InitStatus(w)
    BY <1>2, UpdateSummary DEF InitStatus, Colors
  <1>3. CASE CreateReplicaSetsIfNotFound(w)
    BY <1>3, CreateReplicaSetSummary DEF CreateReplicaSetsIfNotFound, Colors
  <1>4. CASE CreateServiceIfNotFound(w)
    <2>1. UNCHANGED rs
      BY <1>4 DEF CreateServiceIfNotFound, Refused, apiVars
    <2>2. \A v \in Workers : HoldStep(v)
      BY <1>0, <1>4, GotoHolds, IdleHolds
         DEF CreateServiceIfNotFound, Refused, Reply, ReturnError
    <2> QED BY <2>1, <2>2, SameOwners DEF Summary
  <1>5. CASE Compare(w)
    <2>1. \A v \in Workers : HoldStep(v)
      BY <1>0, <1>5, GotoHolds, IdleHolds DEF Compare, ReturnNil
    <2> QED BY <1>5, <2>1, SameOwners DEF Compare, clusterVars, Summary
  <1>6. CASE Flip(w)
    <2>1. Other(b[w].color) \in Colors
      BY DEF Other, Colors
    <2> QED BY <1>6, <2>1, UpdateSummary DEF Flip
  <1>7. CASE ScaleUp(w)
    <2>1. pc[w] \in Mid
      BY <1>7 DEF ScaleUp, ScaleReplicaSet, WaitAllReplicaSetPodsAvailable
    <2>2. b[w].color \in Colors
      BY <2>1, HoldsOK DEF TypeInv, Mid
    <2> QED BY <1>7, <2>2, ScaleReplicaSetSummary DEF ScaleUp
  <1>8. CASE ReplaceInactiveReplicaSet(w)
    <2>1. pc[w] \in Mid
      BY <1>8 DEF ReplaceInactiveReplicaSet, CreateReplicaSetIfNotFound,
                  WaitAllReplicaSetPodsAvailable
    <2>2. b[w].color \in Colors
      BY <2>1, HoldsOK DEF TypeInv, Mid
    <2>3. CASE /\ pc[w] = "delete"
               /\ rs' = [rs EXCEPT ![b[w].color] = Absent]
               /\ Reply(w, Goto(w, "getNew"))
      <3>1. \A v \in Workers : HoldStep(v)
        BY <1>0, <2>3, GotoHolds, IdleHolds DEF Reply, ReturnError
      <3>2. \A c \in Colors : OwnerStep(c)
        BY <2>2, <2>3 DEF TypeInv, ClusterTypeOK, OwnerStep
      <3> QED BY <3>1, <3>2 DEF Summary
    <2>4. CASE Refused(w)
      BY <2>4, RefusedSummary
    <2>5. CASE CreateReplicaSetIfNotFound(w, "getNew", "createNew", "waitNew",
                                          b[w].color, "scaleDown")
      BY <2>2, <2>5, CreateReplicaSetSummary
    <2> QED BY <1>8, <2>3, <2>4, <2>5 DEF ReplaceInactiveReplicaSet
  <1>9. CASE ScaleDown(w)
    <2>1. Other(b[w].color) \in Colors
      BY DEF Other, Colors
    <2> QED BY <1>9, <2>1, ScaleReplicaSetSummary DEF ScaleDown
  <1>10. CASE UpdateService(w)
    <2>1. \A v \in Workers : HoldStep(v)
      BY <1>0, <1>10, IdleHolds, RestartHolds DEF UpdateService, ReturnNil
    <2> QED BY <1>10, <2>1, SameOwners DEF UpdateService, Summary
  <1> QED
    BY <1>1, <1>2, <1>3, <1>4, <1>5, <1>6, <1>7, <1>8, <1>9, <1>10 DEF SyncStep

\* Without deletions nor garbage, what people and Kubernetes do to ReplicaSets
\* is to start, stop and lose pods.
PodStep(c) == \/ rs'[c] = rs[c]
              \/ /\ rs[c] # Absent /\ rs'[c] # Absent
                 /\ rs'[c].owner = rs[c].owner
                 /\ rs'[c].replicas = rs[c].replicas
                 /\ Patient /\ rs[c].avail = rs[c].replicas =>
                      rs'[c].avail = rs[c].avail

\* An event that has no budget never happens.
LEMMA SpentUp ==
  ASSUME TypeInv, Spending, NEW e \in Events, Budget[e] = 0
  PROVE  budget[e] = 0
  <1>1. budget[e] \in Nat
    BY DEF TypeInv, ClusterTypeOK
  <1>2. budget[e] =< Budget[e]
    BY DEF Spending
  <1> QED BY <1>1, <1>2

LEMMA ClusterPodStep ==
  ASSUME TypeInv, OneDeployment, Spending, Owned, ClusterStep
  PROVE  \A c \in Colors : PodStep(c)
  <1>1. /\ budget["dropReplicaSet"] = 0
        /\ Patient => budget["podFailure"] = 0
    BY SpentUp DEF OneDeployment, Patient, Events
  <1>2. ASSUME NEW c \in Colors, RunReplicaSet(c) PROVE \A d \in Colors : PodStep(d)
    <2>1. PICK n \in (rs[c].avail .. rs[c].replicas) \union (rs[c].replicas .. rs[c].avail) :
            rs' = [rs EXCEPT ![c].avail = n, ![c].observed = TRUE]
      BY <1>2 DEF RunReplicaSet
    <2>2. rs[c] \in ReplicaSet /\ rs[c] # Absent
      BY <1>2 DEF RunReplicaSet, TypeInv, ClusterTypeOK
    <2>3. rs[c].avail \in Nat /\ rs[c].replicas \in Nat
      BY <2>2, ReplicaSetFields
    <2>4. n \in Nat /\ (rs[c].avail = rs[c].replicas => n = rs[c].avail)
      BY <2>3
    <2>5. rs'[c] = [rs[c] EXCEPT !.avail = n, !.observed = TRUE]
      BY <2>1 DEF TypeInv, ClusterTypeOK
    <2>6. rs'[c] \in ReplicaSet /\ rs'[c] # Absent
      BY <2>2, <2>4, <2>5, ReplicaSetFields, ClusterAssumption
    <2>7. /\ rs'[c].owner = rs[c].owner
          /\ rs'[c].replicas = rs[c].replicas
          /\ rs'[c].avail = n
      BY <2>2, <2>5 DEF ReplicaSet
    <2>8. PodStep(c)
      BY <2>2, <2>4, <2>6, <2>7 DEF PodStep
    <2>9. \A d \in Colors \ {c} : PodStep(d)
      BY <2>1 DEF PodStep, TypeInv, ClusterTypeOK
    <2> QED BY <2>8, <2>9
  <1>3. ASSUME NEW c \in Colors, PodFailure(c) PROVE \A d \in Colors : PodStep(d)
    <2>1. rs[c] \in ReplicaSet /\ rs[c] # Absent /\ rs[c].avail > 0
      BY <1>3 DEF PodFailure, TypeInv, ClusterTypeOK
    <2>2. rs[c].avail \in Nat
      BY <2>1, ReplicaSetFields
    <2>3. rs'[c] = [rs[c] EXCEPT !.avail = rs[c].avail - 1]
      BY <1>3 DEF PodFailure, TypeInv, ClusterTypeOK
    <2>4. rs[c].avail - 1 \in Nat
      BY <2>1, <2>2
    <2>5. rs'[c] \in ReplicaSet /\ rs'[c] # Absent
      BY <2>1, <2>3, <2>4, ReplicaSetFields, ClusterAssumption
    <2>6. rs'[c].owner = rs[c].owner /\ rs'[c].replicas = rs[c].replicas
      BY <2>1, <2>3 DEF ReplicaSet
    <2>7. ~ Patient
      BY <1>1, <1>3 DEF PodFailure, Spend
    <2>8. PodStep(c)
      BY <2>1, <2>5, <2>6, <2>7 DEF PodStep
    <2>9. \A d \in Colors \ {c} : PodStep(d)
      BY <1>3 DEF PodFailure, PodStep, TypeInv, ClusterTypeOK
    <2> QED BY <2>8, <2>9
  <1>4. ASSUME NEW c \in Colors, DropReplicaSet(c) PROVE FALSE
    BY <1>1, <1>4 DEF DropReplicaSet, Spend
  <1>5. ASSUME NEW c \in Colors, CollectGarbage(c) PROVE FALSE
    BY <1>5 DEF CollectGarbage, OwnerGone, Owned
  <1>6. ASSUME UNCHANGED rs PROVE \A d \in Colors : PodStep(d)
    BY <1>6 DEF PodStep
  <1> QED
    BY <1>2, <1>3, <1>4, <1>5, <1>6
       DEF ClusterStep, CreateBgd, EditSpec, EditReplicas, DeleteBgd, DropService

LEMMA NextSummary ==
  ASSUME TypeInv, OneDeployment, Spending, Owned, [Next]_vars
  PROVE  Summary
  <1>0. SyncTypeOK
    BY DEF TypeInv, LocalOK
  <1>1. CASE ClusterStep /\ UNCHANGED <<cache, queueVars, workerVars>>
    <2>1. \A c \in Colors : OwnerStep(c)
      BY <1>1, ClusterPodStep DEF PodStep, OwnerStep
    <2> QED BY <1>1, <2>1, RestHolds DEF Summary
  <1>2. CASE \E w \in Workers : SyncStep(w)
    BY <1>2, SyncSummary
  <1>3. CASE \E w \in Workers : ApiError(w)
    BY <1>0, <1>3, IdleHolds, RestartHolds, SameOwners
       DEF ApiError, ReturnError, apiVars, Summary
  <1>4. CASE \E w \in Workers, k \in Keys : ProcessNextWorkItem(w, k)
    <2>1. \A v \in Workers : HoldStep(v)
      BY <1>0, <1>4 DEF ProcessNextWorkItem, SyncTypeOK, HoldStep
    <2> QED BY <1>4, <2>1, SameOwners DEF ProcessNextWorkItem, clusterVars, Summary
  <1>5. CASE \E k \in Keys : Deliver(k) \/ Resync(k) \/ HandleObject(k) \/ Retry(k)
    BY <1>5, RestHolds, SameOwners
       DEF Deliver, Resync, HandleObject, Retry, clusterVars, apiVars, Summary
  <1>6. CASE Crash
    BY <1>6, RestartHolds, SameOwners DEF Crash, apiVars, Summary
  <1>7. CASE UNCHANGED vars
    BY <1>7, RestHolds, SameOwners DEF vars, workerVars, Summary
  <1> QED
    BY <1>1, <1>2, <1>3, <1>4, <1>5, <1>6, <1>7 DEF Next, ControllerStep

----------------------------------------------------------------------------
(* Each part of the invariant is kept.                                     *)

\* A step spends one event or none.
LEMMA BudgetStep ==
  ASSUME [Next]_vars
  PROVE  \/ UNCHANGED budget
         \/ \E e \in Events : budget[e] > 0 /\ budget' = [budget EXCEPT ![e] = @ - 1]
  <1> USE DEF Spend, Events
  <1>1. CASE ClusterStep
    BY <1>1 DEF ClusterStep, CreateBgd, EditSpec, EditReplicas, DeleteBgd, DropService,
                DropReplicaSet, RunReplicaSet, PodFailure, CollectGarbage
  <1>2. ASSUME NEW w \in Workers, NEW at, NEW c, NEW n, NEW next,
               WaitAllReplicaSetPodsAvailable(w, at, c, n, next)
        PROVE  UNCHANGED budget \/ Spend("timeout")
    BY <1>2 DEF WaitAllReplicaSetPodsAvailable
  <1>3. ASSUME NEW w \in Workers, NEW c, NEW get, NEW create, NEW wait, NEW next,
               CreateReplicaSetIfNotFound(w, get, create, wait, c, next)
        PROVE  UNCHANGED budget \/ Spend("timeout") \/ Spend("lostReply")
    BY <1>2, <1>3 DEF CreateReplicaSetIfNotFound, Reply, Refused
  <1>4. ASSUME NEW w \in Workers, NEW c, NEW n, NEW scale, NEW wait, NEW next,
               ScaleReplicaSet(w, scale, wait, c, n, next)
        PROVE  UNCHANGED budget \/ Spend("timeout") \/ Spend("lostReply")
    BY <1>2, <1>4 DEF ScaleReplicaSet, Reply, Refused
  <1>5. CASE \E w \in Workers : SyncStep(w)
    BY <1>3, <1>4, <1>5
       DEF SyncStep, Lister, InitStatus, UpdateBlueGreenDeployment,
           CreateReplicaSetsIfNotFound, CreateServiceIfNotFound, Compare, Flip, ScaleUp,
           ReplaceInactiveReplicaSet, ScaleDown, UpdateService, Reply, Refused, clusterVars
  <1>6. CASE \/ \E w \in Workers : ApiError(w)
             \/ \E w \in Workers, k \in Keys : ProcessNextWorkItem(w, k)
             \/ \E k \in Keys : Deliver(k) \/ Resync(k) \/ HandleObject(k) \/ Retry(k)
             \/ Crash
             \/ UNCHANGED vars
    BY <1>6 DEF ApiError, ProcessNextWorkItem, Deliver, Resync, HandleObject, Retry,
                Crash, clusterVars, vars
  <1> QED BY <1>1, <1>5, <1>6 DEF Next, ControllerStep

LEMMA SpendingKept ==
  ASSUME TypeInv, Spending, [Next]_vars
  PROVE  Spending'
  <1>1. \/ UNCHANGED budget
        \/ \E e \in Events : budget[e] > 0 /\ budget' = [budget EXCEPT ![e] = @ - 1]
    BY BudgetStep
  <1>2. ASSUME NEW e \in Events, budget[e] > 0, budget' = [budget EXCEPT ![e] = @ - 1],
               NEW d \in Events
        PROVE  budget'[d] =< Budget[d]
    <2>1. budget[d] \in Nat /\ Budget[d] \in Nat /\ budget[d] =< Budget[d]
      BY ClusterAssumption DEF Spending, TypeInv, ClusterTypeOK
    <2>2. budget'[d] = IF d = e THEN budget[d] - 1 ELSE budget[d]
      BY <1>2 DEF TypeInv, ClusterTypeOK
    <2> QED BY <2>1, <2>2
  <1> QED BY <1>1, <1>2 DEF Spending

\* What is stored keeps its uid.
LEMMA UidKept ==
  ASSUME TypeInv, OneDeployment, Spending, VersionStep, NEW k \in Keys, bgd[k] # Absent
  PROVE  bgd'[k] # Absent /\ bgd'[k].uid = bgd[k].uid
  <1>1. ASSUME NEW l \in Keys, NEW obj \in BlueGreenDeployment, Writes(l, obj)
        PROVE  bgd'[k] # Absent /\ bgd'[k].uid = bgd[k].uid
    <2>1. bgd' = [bgd EXCEPT ![l] = obj] /\ obj # Absent
      BY <1>1, ClusterAssumption DEF Writes, WriteBgd
    <2> QED BY <1>1, <2>1 DEF Writes, TypeInv, ClusterTypeOK
  <1>2. ASSUME NEW l \in Keys, DeleteBgd(l) PROVE FALSE
    BY <1>2, SpentUp DEF DeleteBgd, Spend, OneDeployment, Events
  <1>3. ASSUME UNCHANGED bgd
        PROVE  bgd'[k] # Absent /\ bgd'[k].uid = bgd[k].uid
    BY <1>3
  <1> QED BY <1>1, <1>2, <1>3 DEF VersionStep, Deliver, apiVars

LEMMA OneUidKept ==
  ASSUME TypeInv, TypeInv', OneDeployment, Spending, OneUid, VersionStep, Summary
  PROVE  OneUid'
  <1> DEFINE Obj == BlueGreenDeployment \union {Absent}
  <1>0. /\ bgd \in [Keys -> Obj] /\ watch \in [Keys -> Seq(Obj)]
        /\ cache \in [Keys -> Obj] /\ bgd' \in [Keys -> Obj]
    BY DEF TypeInv, ClusterTypeOK, LocalOK, SyncTypeOK
  <1>1. \A k \in Keys : \A obj : SameObject(k, obj) => SameObject(k, obj)'
    <2> SUFFICES ASSUME NEW k \in Keys, NEW obj, SameObject(k, obj)
                 PROVE  bgd'[k] # Absent /\ obj.uid = bgd'[k].uid
      BY DEF SameObject
    <2> QED BY UidKept DEF SameObject
  <1>2. ASSUME NEW k \in Keys
        PROVE  /\ cache'[k] # Absent => SameObject(k, cache[k])'
               /\ \A i \in 1 .. Len(watch'[k]) : SameObject(k, watch[k][i])'
    <2>1. ASSUME NEW l \in Keys, NEW obj \in BlueGreenDeployment, Writes(l, obj)
          PROVE  /\ cache'[k] # Absent => SameObject(k, cache[k])'
                 /\ \A i \in 1 .. Len(watch'[k]) : SameObject(k, watch[k][i])'
      <3>1. cache'[k] # Absent => SameObject(k, cache[k])'
        <4>1. cache'[k] = cache[k]
          BY <2>1 DEF Writes
        <4> QED BY <1>1, <4>1 DEF OneUid, SameObject
      <3>2. ASSUME NEW i \in 1 .. Len(watch'[k]) PROVE SameObject(k, watch[k][i])'
        <4>1. CASE watch'[k] = watch[k]
          BY <1>1, <3>2, <4>1 DEF OneUid, SameObject
        <4>2. CASE k = l /\ watch'[k] = Append(watch[k], obj)
          <5>1. watch[k] \in Seq(Obj)
            BY <1>0
          <5>2. \/ i \in 1 .. Len(watch[k]) /\ watch'[k][i] = watch[k][i]
                \/ watch'[k][i] = obj
            BY <3>2, <4>2, <5>1
          <5>3. bgd'[k] = obj /\ obj # Absent
            BY <1>0, <2>1, <4>2, ClusterAssumption DEF Writes, WriteBgd
          <5> QED BY <1>1, <5>2, <5>3 DEF OneUid, SameObject
        <4> QED BY <1>0, <2>1, <4>1, <4>2 DEF Writes, WriteBgd
      <3> QED BY <3>1, <3>2
    <2>2. ASSUME NEW l \in Keys, DeleteBgd(l) PROVE FALSE
      BY <2>2, SpentUp DEF DeleteBgd, Spend, OneDeployment, Events
    <2>3. ASSUME NEW l \in Keys, Deliver(l)
          PROVE  /\ cache'[k] # Absent => SameObject(k, cache[k])'
                 /\ \A i \in 1 .. Len(watch'[k]) : SameObject(k, watch[k][i])'
      <3>1. watch[l] \in Seq(Obj) /\ watch[l] # << >>
        BY <1>0, <2>3 DEF Deliver
      <3>2. CASE k = l
        <4>1. cache'[k] = Head(watch[k]) /\ watch'[k] = Tail(watch[k])
          BY <1>0, <2>3, <3>2 DEF Deliver
        <4>2. 1 \in 1 .. Len(watch[k]) /\ Head(watch[k]) = watch[k][1]
          BY <3>1, <3>2
        <4>3. \A i \in 1 .. Len(Tail(watch[k])) :
                i + 1 \in 1 .. Len(watch[k]) /\ Tail(watch[k])[i] = watch[k][i + 1]
          BY <3>1, <3>2
        <4> QED BY <1>1, <4>1, <4>2, <4>3 DEF OneUid, SameObject
      <3>3. CASE k # l
        <4>1. cache'[k] = cache[k] /\ watch'[k] = watch[k]
          BY <1>0, <2>3, <3>3 DEF Deliver
        <4> QED BY <1>1, <4>1 DEF OneUid, SameObject
      <3> QED BY <3>2, <3>3
    <2>4. ASSUME Restart, UNCHANGED bgd
          PROVE  /\ cache'[k] # Absent => SameObject(k, cache[k])'
                 /\ \A i \in 1 .. Len(watch'[k]) : SameObject(k, watch[k][i])'
      <3>1. cache'[k] = bgd'[k] /\ watch'[k] = << >>
        BY <2>4 DEF Restart
      <3> QED BY <3>1 DEF SameObject
    <2>5. ASSUME UNCHANGED <<bgd, watch, cache>>
          PROVE  /\ cache'[k] # Absent => SameObject(k, cache[k])'
                 /\ \A i \in 1 .. Len(watch'[k]) : SameObject(k, watch[k][i])'
      BY <2>5 DEF OneUid, SameObject
    <2> QED BY <2>1, <2>2, <2>3, <2>4, <2>5 DEF VersionStep
  <1>3. ASSUME NEW w \in Workers, pc'[w] \notin {"idle", "lister"}
        PROVE  SameObject(key[w], b[w])'
    <2>1. HoldStep(w)
      BY DEF Summary
    <2>2. pc[w] # "idle" /\ key'[w] = key[w]
      BY <1>3, <2>1 DEF HoldStep, Lister
    <2>3. key[w] \in Keys
      BY <2>2 DEF TypeInv, LocalOK, WorkerState, SyncTypeOK
    <2>4. \/ SameObject(key[w], b'[w])
          \/ bgd[key[w]] # Absent /\ b'[w].uid = bgd[key[w]].uid
      BY <1>3, <2>1, <2>3 DEF HoldStep, OneUid
    <2>5. b'[w] # Absent
      BY <1>3, ClusterAssumption DEF TypeInv, LocalOK, WorkerState
    <2> QED BY <1>1, <2>2, <2>3, <2>4, <2>5, UidKept DEF SameObject
  <1> QED BY <1>2, <1>3 DEF OneUid

LEMMA OwnedKept ==
  ASSUME TypeInv, OneDeployment, Spending, OneUid, Owned, VersionStep, Summary
  PROVE  Owned'
  <1> SUFFICES ASSUME NEW c \in Colors, rs'[c] # Absent
               PROVE  rs'[c].owner # Absent /\ OwnerAlive(rs[c])'
    BY DEF Owned
  <1>1. CASE rs[c] # Absent /\ rs'[c].owner = rs[c].owner
    <2>1. rs[c] \in ReplicaSet /\ rs[c].owner # Absent /\ OwnerAlive(rs[c])
      BY <1>1 DEF Owned, TypeInv, ClusterTypeOK
    <2>2. rs[c].owner \in Owner
      BY <2>1 DEF ReplicaSet
    <2>3. rs[c].owner.name \in Keys
      BY <2>2 DEF Owner
    <2> QED BY <1>1, <2>1, <2>3, UidKept DEF OwnerAlive
  <1>2. ASSUME NEW w \in Workers, pc[w] \notin {"idle", "lister"},
               rs'[c].owner = [name |-> key[w], uid |-> b[w].uid]
        PROVE  rs'[c].owner # Absent /\ OwnerAlive(rs[c])'
    <2>1. key[w] \in Keys /\ b[w] \in BlueGreenDeployment
      BY <1>2, HoldsOK DEF TypeInv
    <2>2. b[w].uid \in Nat
      BY <2>1 DEF BlueGreenDeployment
    <2>3. rs'[c].owner # Absent
      BY <1>2, <2>1, <2>2, ClusterAssumption DEF Owner
    <2>4. SameObject(key[w], b[w])
      BY <1>2 DEF OneUid
    <2> QED BY <1>2, <2>1, <2>3, <2>4, UidKept DEF OwnerAlive, SameObject
  <1> QED BY <1>1, <1>2 DEF Summary, OwnerStep

----------------------------------------------------------------------------
(* The rollover.                                                           *)

\* With one BlueGreenDeployment one worker is busy at a time.
LEMMA Alone ==
  ASSUME TypeInv, OneDeployment, NEW w \in Workers, pc[w] # "idle",
         NEW v \in Workers \ {w}
  PROVE  pc[v] = "idle"
  <1> SUFFICES ASSUME pc[v] # "idle" PROVE FALSE
    OBVIOUS
  <1>1. key[v] \in Keys /\ key[w] \in Keys
    BY DEF TypeInv, LocalOK, WorkerState, SyncTypeOK
  <1> QED BY <1>1 DEF OneDeployment, TypeInv, LocalOK, ExclusiveSync

\* A worker that is not rolling over is of no concern.
LEMMA NotRolling ==
  ASSUME NEW w, pc[w] \notin Rolling
  PROVE  RolloverOf(w)
  BY DEF RolloverOf, Rolling, Cleared, Filled

\* So a busy worker's step needs a look at that worker only.
LEMMA OnlyThisOne ==
  ASSUME TypeInv, OneDeployment, NEW w \in Workers, pc[w] # "idle",
         \A v \in Workers \ {w} : pc'[v] \in {pc[v], "idle"},
         pc'[w] \in Rolling => RolloverOf(w)'
  PROVE  Rollover'
  <1> SUFFICES ASSUME NEW v \in Workers PROVE RolloverOf(v)'
    BY DEF Rollover
  <1>1. CASE v = w
    BY <1>1 DEF RolloverOf, Rolling, Cleared, Filled
  <1>2. CASE v # w
    <2>1. pc'[v] = "idle"
      BY <1>2, Alone
    <2> QED BY <2>1 DEF RolloverOf, Rolling, Cleared, Filled
  <1> QED BY <1>1, <1>2

\* How a step that ends in one of the usual ways moves the workers.
Moves(w, l) == /\ pc' = [pc EXCEPT ![w] = l]
               /\ UNCHANGED <<key, b>>

LEMMA WaitMoves ==
  ASSUME NEW w, NEW at, NEW c, NEW n, NEW next,
         WaitAllReplicaSetPodsAvailable(w, at, c, n, next)
  PROVE  pc[w] = at /\ Moves(w, next) /\ UNCHANGED <<bgd, rs>>
  BY DEF WaitAllReplicaSetPodsAvailable, Goto, Moves, apiVars

LEMMA CreateMoves ==
  ASSUME NEW w, NEW c, NEW get, NEW create, NEW wait, NEW next,
         CreateReplicaSetIfNotFound(w, get, create, wait, c, next)
  PROVE  /\ pc[w] \in {get, create, wait}
         /\ UNCHANGED bgd
         /\ \/ \E l \in {next, create, wait} : Moves(w, l)
            \/ Idle(w)
  <1>1. CASE WaitAllReplicaSetPodsAvailable(w, wait, c,
               NewReplicaSet(key[w], b[w], c).replicas, next)
    BY <1>1, WaitMoves
  <1>2. CASE ~ WaitAllReplicaSetPodsAvailable(w, wait, c,
               NewReplicaSet(key[w], b[w], c).replicas, next)
    BY <1>2 DEF CreateReplicaSetIfNotFound, Refused, ReturnError, Reply, Goto, GotoSeen,
                Moves, apiVars
  <1> QED BY <1>1, <1>2

\* Before the flip nothing is rolling.
LEMMA BeforeFlip ==
  ASSUME TypeInv, OneDeployment, Rollover, NEW w \in Workers,
         \/ Lister(w) \/ InitStatus(w) \/ CreateReplicaSetsIfNotFound(w)
         \/ CreateServiceIfNotFound(w) \/ Compare(w)
  PROVE  Rollover'
  <1> USE DEF Rolling, Cleared, Filled
  <1>0. pc \in [Workers -> Labels]
    BY DEF TypeInv, LocalOK, SyncTypeOK
  <1>1. ASSUME NEW l \in Labels \ Rolling, pc[w] # "idle", pc' = [pc EXCEPT ![w] = l]
        PROVE  Rollover'
    <2>1. pc'[w] = l /\ \A v \in Workers \ {w} : pc'[v] = pc[v]
      BY <1>0, <1>1
    <2> QED BY <1>1, <2>1, OnlyThisOne
  <1> USE DEF Labels, Calls, Polls
  <1>2. CASE Lister(w)
    BY <1>1, <1>2 DEF Lister, ReturnNil, Idle, GotoWith
  <1>3. CASE InitStatus(w)
    BY <1>1, <1>3 DEF InitStatus, UpdateBlueGreenDeployment, Reply, Refused, ReturnError,
                      Idle, GotoWith
  <1>4. CASE CreateReplicaSetsIfNotFound(w)
    BY <1>1, <1>4, CreateMoves DEF CreateReplicaSetsIfNotFound, Moves, Idle
  <1>5. CASE CreateServiceIfNotFound(w)
    BY <1>1, <1>5 DEF CreateServiceIfNotFound, Reply, Refused, ReturnError, Idle, Goto
  <1>6. CASE Compare(w)
    BY <1>1, <1>6 DEF Compare, ReturnNil, Idle, Goto
  <1> QED BY <1>2, <1>3, <1>4, <1>5, <1>6

\* A worker that goes back to idle stops rolling.
LEMMA IdleEnds ==
  ASSUME TypeInv, OneDeployment, Rollover, NEW w \in Workers, pc[w] # "idle",
         Idle(w) \/ Restart
  PROVE  Rollover'
  <1>1. pc'[w] = "idle" /\ \A v \in Workers \ {w} : pc'[v] \in {pc[v], "idle"}
    BY DEF Idle, Restart, TypeInv, LocalOK, SyncTypeOK
  <1> QED BY <1>1, OnlyThisOne DEF Rolling, Cleared, Filled

LEMMA FlipRolls ==
  ASSUME TypeInv, OneDeployment, Rollover, NEW w \in Workers, Flip(w)
  PROVE  Rollover'
  <1>1. key[w] \in Keys /\ pc[w] = "flip"
    BY HoldsOK DEF Flip, TypeInv
  <1>2. CASE ReturnError(w)
    BY <1>1, <1>2, IdleEnds DEF ReturnError
  <1>3. CASE /\ bgd[key[w]] # Absent
             /\ \E l \in {"scaleUp", "delete"} : \E obj :
                  bgd' = [bgd EXCEPT ![key[w]] = obj] /\ GotoWith(w, l, obj)
    <2>1. PICK l \in {"scaleUp", "delete"} : \E obj :
                  bgd' = [bgd EXCEPT ![key[w]] = obj] /\ GotoWith(w, l, obj)
      BY <1>3
    <2>0. PICK obj : bgd' = [bgd EXCEPT ![key[w]] = obj] /\ GotoWith(w, l, obj)
      BY <2>1
    <2>2. bgd'[key[w]] = obj
      BY <1>1, <2>0 DEF TypeInv, ClusterTypeOK
    <2>3. /\ pc'[w] = l /\ b'[w] = obj /\ key'[w] = key[w]
          /\ \A v \in Workers \ {w} : pc'[v] = pc[v]
      BY <2>0 DEF GotoWith, TypeInv, LocalOK, SyncTypeOK
    <2>4. RolloverOf(w)'
      BY <2>2, <2>3 DEF RolloverOf, Rolling, Cleared, Filled
    <2> QED BY <1>1, <2>3, <2>4, OnlyThisOne
  <1>4. \A l : l = (IF Wanted(w, Other(b[w].color)) THEN "scaleUp" ELSE "delete")
                 => l \in {"scaleUp", "delete"}
    OBVIOUS
  <1> QED
    BY <1>2, <1>3, <1>4
       DEF Flip, UpdateBlueGreenDeployment, WriteBgd, Reply, Refused

\* A step along the rollover needs a look at where it leads only.
LEMMA MovesOn ==
  ASSUME TypeInv, OneDeployment, NEW w \in Workers, pc[w] # "idle", NEW l,
         Moves(w, l), UNCHANGED bgd, pc[w] \in Rolling, RolloverOf(w),
         l \in Cleared => rs'[b[w].color] = Absent,
         l \in Filled => /\ rs'[b[w].color] # Absent
                         /\ rs'[b[w].color].replicas = b[w].replicas,
         l = "scaleDown" /\ Patient =>
           rs'[b[w].color].avail = rs'[b[w].color].replicas
  PROVE  Rollover'
  <1>1. /\ pc'[w] = l /\ b' = b /\ key' = key
        /\ \A v \in Workers \ {w} : pc'[v] = pc[v]
    BY DEF Moves, TypeInv, LocalOK, SyncTypeOK
  <1>2. RolloverOf(w)'
    BY <1>1 DEF RolloverOf
  <1> QED BY <1>1, <1>2, OnlyThisOne

\* When the wait is over the pods are there, unless it was given up.
LEMMA WaitEnds ==
  ASSUME TypeInv, OneDeployment, Spending, Rollover, NEW w \in Workers,
         NEW at \in {"waitUp", "waitNew"},
         WaitAllReplicaSetPodsAvailable(w, at, b[w].color, b[w].replicas, "scaleDown")
  PROVE  Rollover'
  <1>1. /\ pc[w] = at /\ Moves(w, "scaleDown") /\ UNCHANGED <<bgd, rs>>
    BY WaitMoves
  <1>2. RolloverOf(w)
    BY DEF Rollover
  <1>3. rs[b[w].color] # Absent /\ rs[b[w].color].replicas = b[w].replicas
    BY <1>1, <1>2 DEF RolloverOf, Filled
  <1>4. Patient => rs[b[w].color].avail = b[w].replicas
    <2>1. Patient => budget["timeout"] = 0
      BY SpentUp DEF Patient, Events
    <2> QED BY <1>3, <2>1 DEF WaitAllReplicaSetPodsAvailable, Spend
  <1> QED
    BY <1>1, <1>2, <1>3, <1>4, MovesOn DEF Rolling, Cleared, Filled

LEMMA ScaleUpRolls ==
  ASSUME TypeInv, OneDeployment, Spending, Rollover, NEW w \in Workers, ScaleUp(w)
  PROVE  Rollover'
  <1>1. pc[w] \in {"scaleUp", "waitUp"} /\ RolloverOf(w)
    BY DEF ScaleUp, ScaleReplicaSet, WaitAllReplicaSetPodsAvailable, Rollover
  <1>2. b[w].color \in Colors
    BY <1>1, HoldsOK, MidFacts DEF TypeInv, Calls, Polls
  <1>3. CASE ReturnError(w)
    BY <1>1, <1>3, IdleEnds DEF ReturnError
  <1>4. CASE /\ rs[b[w].color] # Absent
             /\ rs' = [rs EXCEPT ![b[w].color] = Scaled(rs[b[w].color], b[w].replicas)]
             /\ pc[w] = "scaleUp" /\ Goto(w, "waitUp") /\ UNCHANGED bgd
    <2>1. rs[b[w].color] \in ReplicaSet
      BY <1>2, <1>4 DEF TypeInv, ClusterTypeOK
    <2>2. b[w].replicas \in ReplicaCounts
      BY <1>1, HoldsOK DEF TypeInv, BlueGreenDeployment
    <2>3. Scaled(rs[b[w].color], b[w].replicas) \in ReplicaSet
      BY <2>1, <2>2, ScaledType
    <2>4. Scaled(rs[b[w].color], b[w].replicas).replicas = b[w].replicas
      BY <2>1 DEF Scaled, ReplicaSet
    <2>5. rs'[b[w].color] = Scaled(rs[b[w].color], b[w].replicas)
      BY <1>2, <1>4 DEF TypeInv, ClusterTypeOK
    <2>6. rs'[b[w].color] # Absent /\ rs'[b[w].color].replicas = b[w].replicas
      BY <2>3, <2>4, <2>5, ClusterAssumption
    <2>7. Moves(w, "waitUp")
      BY <1>4 DEF Goto, Moves
    <2> QED BY <1>1, <1>4, <2>6, <2>7, MovesOn DEF Rolling, Cleared, Filled
  <1>5. CASE WaitAllReplicaSetPodsAvailable(w, "waitUp", b[w].color, b[w].replicas,
                                            "scaleDown")
    BY <1>5, WaitEnds
  <1> QED BY <1>3, <1>4, <1>5 DEF ScaleUp, ScaleReplicaSet, Reply, Refused

LEMMA ReplaceRolls ==
  ASSUME TypeInv, OneDeployment, Spending, Rollover, NEW w \in Workers,
         ReplaceInactiveReplicaSet(w)
  PROVE  Rollover'
  <1> DEFINE c == b[w].color
  <1>1. pc[w] \in {"delete", "getNew", "createNew", "waitNew"} /\ RolloverOf(w)
    BY DEF ReplaceInactiveReplicaSet, CreateReplicaSetIfNotFound,
           WaitAllReplicaSetPodsAvailable, Rollover
  <1>2. /\ key[w] \in Keys /\ b[w] \in BlueGreenDeployment /\ c \in Colors
    BY <1>1, HoldsOK, MidFacts DEF TypeInv, Calls, Polls
  <1>3. CASE ReturnError(w)
    BY <1>1, <1>3, IdleEnds DEF ReturnError
  <1>4. CASE /\ pc[w] = "delete" /\ rs' = [rs EXCEPT ![c] = Absent]
             /\ Goto(w, "getNew") /\ UNCHANGED bgd
    <2>1. rs'[c] = Absent /\ Moves(w, "getNew")
      BY <1>2, <1>4 DEF TypeInv, ClusterTypeOK, Goto, Moves
    <2> QED BY <1>1, <1>4, <2>1, MovesOn DEF Rolling, Cleared, Filled
  <1>5. CASE pc[w] = "getNew" /\ rs[c] # Absent
    BY <1>1, <1>5 DEF RolloverOf, Cleared
  <1>6. CASE pc[w] = "getNew" /\ rs[c] = Absent /\ Goto(w, "createNew")
             /\ UNCHANGED <<bgd, rs>>
    <2>1. Moves(w, "createNew")
      BY <1>6 DEF Goto, Moves
    <2> QED BY <1>1, <1>6, <2>1, MovesOn DEF Rolling, Cleared, Filled
  <1>7. CASE /\ pc[w] = "createNew"
             /\ rs' = [rs EXCEPT ![c] = NewReplicaSet(key[w], b[w], c)]
             /\ \E s : GotoSeen(w, "waitNew", c, s)
             /\ UNCHANGED bgd
    <2>1. NewReplicaSet(key[w], b[w], c) \in ReplicaSet
      BY <1>2, NewReplicaSetType
    <2>2. NewReplicaSet(key[w], b[w], c).replicas = b[w].replicas
      BY DEF NewReplicaSet
    <2>3. rs'[c] = NewReplicaSet(key[w], b[w], c)
      BY <1>2, <1>7 DEF TypeInv, ClusterTypeOK
    <2>4. rs'[c] # Absent /\ rs'[c].replicas = b[w].replicas
      BY <2>1, <2>2, <2>3, ClusterAssumption
    <2>5. Moves(w, "waitNew")
      BY <1>7 DEF GotoSeen, Moves
    <2> QED BY <1>1, <1>7, <2>4, <2>5, MovesOn DEF Rolling, Cleared, Filled
  <1>8. CASE WaitAllReplicaSetPodsAvailable(w, "waitNew", c,
               NewReplicaSet(key[w], b[w], c).replicas, "scaleDown")
    <2>1. NewReplicaSet(key[w], b[w], c).replicas = b[w].replicas
      BY DEF NewReplicaSet
    <2> QED BY <1>8, <2>1, WaitEnds
  <1> QED
    BY <1>3, <1>4, <1>5, <1>6, <1>7, <1>8
       DEF ReplaceInactiveReplicaSet, CreateReplicaSetIfNotFound, Reply, Refused, apiVars

LEMMA ScaleDownRolls ==
  ASSUME TypeInv, OneDeployment, Rollover, NEW w \in Workers, ScaleDown(w)
  PROVE  Rollover'
  <1>1. pc[w] \in {"scaleDown", "waitDown"} /\ RolloverOf(w)
    BY DEF ScaleDown, ScaleReplicaSet, WaitAllReplicaSetPodsAvailable, Rollover
  <1>2. b[w].color \in Colors
    BY <1>1, HoldsOK, MidFacts DEF TypeInv, Calls, Polls
  <1>3. CASE ReturnError(w)
    BY <1>1, <1>3, IdleEnds DEF ReturnError
  <1>4. CASE /\ \E r : rs' = [rs EXCEPT ![Other(b[w].color)] = r]
             /\ Goto(w, "waitDown") /\ UNCHANGED bgd
    <2>1. rs'[b[w].color] = rs[b[w].color]
      BY <1>2, <1>4, ColorFacts DEF TypeInv, ClusterTypeOK
    <2>2. Moves(w, "waitDown")
      BY <1>4 DEF Goto, Moves
    <2> QED BY <1>1, <1>4, <2>1, <2>2, MovesOn DEF RolloverOf, Rolling, Cleared, Filled
  <1>5. CASE WaitAllReplicaSetPodsAvailable(w, "waitDown", Other(b[w].color), 0,
                                            "updateService")
    <2>1. pc[w] = "waitDown" /\ Moves(w, "updateService") /\ UNCHANGED <<bgd, rs>>
      BY <1>5, WaitMoves
    <2> QED BY <1>1, <2>1, MovesOn DEF RolloverOf, Rolling, Cleared, Filled
  <1> QED BY <1>3, <1>4, <1>5 DEF ScaleDown, ScaleReplicaSet, Reply, Refused

LEMMA ClusterRolls ==
  ASSUME TypeInv, OneDeployment, RolloutInv, ClusterStep, UNCHANGED workerVars
  PROVE  Rollover'
  <1> SUFFICES ASSUME NEW w \in Workers, pc[w] \in Rolling PROVE RolloverOf(w)'
    BY DEF Rollover, RolloverOf, Rolling, Cleared, Filled, workerVars
  <1>1. key[w] \in Keys /\ b[w].color \in Colors
    BY HoldsOK, MidFacts DEF TypeInv, Rolling, Cleared, Filled, Calls, Polls
  <1>2. bgd[key[w]] # Absent
    BY DEF RolloutInv, OneUid, SameObject, Rolling, Cleared, Filled
  <1>3. bgd[key[w]] \in BlueGreenDeployment /\ bgd \in [Keys -> BlueGreenDeployment \union {Absent}]
    BY <1>1, <1>2 DEF TypeInv, ClusterTypeOK
  <1>4. bgd'[key[w]].color = bgd[key[w]].color
    <2>1. ASSUME NEW k \in Keys, CreateBgd(k) PROVE FALSE
      BY <1>1, <1>2, <2>1 DEF CreateBgd, OneDeployment
    <2>2. ASSUME NEW k \in Keys, DeleteBgd(k) PROVE FALSE
      BY <2>2, SpentUp DEF DeleteBgd, Spend, OneDeployment, Events, RolloutInv
    <2>3. ASSUME NEW k \in Keys, EditSpec(k) PROVE bgd'[key[w]].color = bgd[key[w]].color
      <3>1. PICK s \in UserSpecs : bgd' = [bgd EXCEPT ![k] = [bgd[k] EXCEPT !.spec = s]]
        BY <2>3 DEF EditSpec, WriteBgd
      <3> QED BY <1>1, <1>3, <3>1 DEF BlueGreenDeployment
    <2>4. ASSUME NEW k \in Keys, EditReplicas(k) PROVE bgd'[key[w]].color = bgd[key[w]].color
      <3>1. PICK n \in ReplicaCounts :
              bgd' = [bgd EXCEPT ![k] = [bgd[k] EXCEPT !.replicas = n]]
        BY <2>4 DEF EditReplicas, WriteBgd
      <3> QED BY <1>1, <1>3, <3>1 DEF BlueGreenDeployment
    <2> QED
      BY <2>1, <2>2, <2>3, <2>4
         DEF ClusterStep, DropService, DropReplicaSet, RunReplicaSet, PodFailure,
             CollectGarbage
  <1>5. PodStep(b[w].color)
    BY <1>1, ClusterPodStep DEF RolloutInv
  <1>6. RolloverOf(w)
    BY DEF RolloutInv, Rollover
  <1> QED
    BY <1>4, <1>5, <1>6 DEF RolloverOf, PodStep, Filled, Cleared, workerVars

LEMMA RolloverKept ==
  ASSUME TypeInv, OneDeployment, RolloutInv, [Next]_vars
  PROVE  Rollover'
  <1>0. Spending /\ Rollover /\ pc \in [Workers -> Labels]
    BY DEF RolloutInv, TypeInv, LocalOK, SyncTypeOK
  <1>1. CASE ClusterStep /\ UNCHANGED <<cache, queueVars, workerVars>>
    BY <1>1, ClusterRolls
  <1>2. ASSUME NEW w \in Workers, SyncStep(w) PROVE Rollover'
    <2>1. CASE UpdateService(w)
      BY <1>0, <2>1, IdleEnds DEF UpdateService, ReturnNil
    <2> QED
      BY <1>0, <1>2, <2>1, BeforeFlip, FlipRolls, ScaleUpRolls, ReplaceRolls,
         ScaleDownRolls DEF SyncStep
  <1>3. ASSUME NEW w \in Workers, ApiError(w) PROVE Rollover'
    BY <1>0, <1>3, IdleEnds DEF ApiError, ReturnError, Calls
  <1>4. ASSUME NEW w \in Workers, NEW k \in Keys, ProcessNextWorkItem(w, k)
        PROVE  Rollover'
    <2>1. ASSUME NEW v \in Workers PROVE RolloverOf(v)'
      <3>1. /\ pc'[v] = IF v = w THEN "lister" ELSE pc[v]
            /\ v # w => key'[v] = key[v]
            /\ UNCHANGED <<bgd, rs, b>>
        BY <1>0, <1>4 DEF ProcessNextWorkItem, TypeInv, LocalOK, SyncTypeOK, clusterVars
      <3>2. RolloverOf(v)
        BY <1>0 DEF Rollover
      <3> QED BY <3>1, <3>2 DEF RolloverOf, Rolling, Cleared, Filled
    <2> QED BY <2>1 DEF Rollover
  <1>5. CASE \/ \E k \in Keys : Deliver(k) \/ Resync(k) \/ HandleObject(k) \/ Retry(k)
             \/ UNCHANGED vars
    <2>1. UNCHANGED <<bgd, rs, pc, key, b>>
      BY <1>5 DEF Deliver, Resync, HandleObject, Retry, clusterVars, apiVars, workerVars,
                  vars
    <2> QED BY <1>0, <2>1 DEF Rollover, RolloverOf
  <1>6. CASE Crash
    BY <1>6 DEF Crash, Restart, Rollover, RolloverOf, Rolling, Cleared, Filled
  <1> QED
    BY <1>1, <1>2, <1>3, <1>4, <1>5, <1>6 DEF Next, ControllerStep

----------------------------------------------------------------------------
(* The invariant holds.                                                    *)

LEMMA RolloutInit == Init => RolloutInv
  <1> SUFFICES ASSUME Init PROVE RolloutInv
    OBVIOUS
  <1>1. WorkerState
    BY TypeInit DEF TypeInv, LocalOK
  <1>2. Spending
    BY ClusterAssumption DEF Init, ClusterInit, Spending
  <1>3. OneUid
    BY DEF Init, ClusterInit, SyncInit, OneUid
  <1>4. Owned
    BY DEF Init, ClusterInit, Owned
  <1>5. Rollover
    BY DEF Init, SyncInit, Rollover, RolloverOf, Rolling, Cleared, Filled
  <1> QED BY <1>1, <1>2, <1>3, <1>4, <1>5 DEF RolloutInv

LEMMA RolloutNext ==
  ASSUME TypeInv, TypeInv', OneDeployment, RolloutInv, [Next]_vars
  PROVE  RolloutInv'
  <1>1. WorkerState'
    BY DEF TypeInv, LocalOK
  <1>2. Spending'
    BY SpendingKept DEF RolloutInv
  <1>3. VersionStep /\ Summary
    BY EveryStepIsVersionStep, NextSummary DEF RolloutInv
  <1>4. OneUid'
    BY <1>3, OneUidKept DEF RolloutInv
  <1>5. Owned'
    BY <1>3, OwnedKept DEF RolloutInv
  <1>6. Rollover'
    BY RolloverKept
  <1> QED BY <1>1, <1>2, <1>4, <1>5, <1>6 DEF RolloutInv

(* With one BlueGreenDeployment that nobody deletes, whatever else fails: *)
(* from the flip of the status to the update of the Service, the stored    *)
(* status names the colour being rolled out, and its ReplicaSet is there   *)
(* with the wanted number of replicas from its creation or scaling on.     *)
THEOREM RolloutInvHolds ==
  ASSUME OneDeployment
  PROVE  Spec => []RolloutInv
  <1>1. TypeInv /\ TypeInv' /\ RolloutInv /\ [Next]_vars => RolloutInv'
    BY RolloutNext
  <1> QED BY <1>1, RolloutInit, TypeInvHolds, PTL DEF Spec

----------------------------------------------------------------------------
(* What the invariant is for.                                              *)

\* A Service that is there is moved by updateService only.
LEMMA OnlyUpdateServiceMoves ==
  ASSUME [Next]_vars, svc # Absent, svc' \notin {Absent, svc}
  PROVE  \E w \in Workers : /\ pc[w] = "updateService"
                            /\ svc' = b[w].color
                            /\ UNCHANGED <<bgd, rs>>
  <1> USE DEF apiVars, clusterVars
  <1>1. CASE ClusterStep
    BY <1>1 DEF ClusterStep, CreateBgd, EditSpec, EditReplicas, DeleteBgd, DropService,
                DropReplicaSet, RunReplicaSet, PodFailure, CollectGarbage
  <1>2. ASSUME NEW w \in Workers, SyncStep(w)
        PROVE  /\ pc[w] = "updateService"
               /\ svc' = b[w].color
               /\ UNCHANGED <<bgd, rs>>
    <2> USE DEF WaitAllReplicaSetPodsAvailable, Refused
    <2>1. ASSUME NEW c, NEW get, NEW create, NEW wait, NEW next,
                 CreateReplicaSetIfNotFound(w, get, create, wait, c, next)
          PROVE  UNCHANGED svc
      BY <2>1 DEF CreateReplicaSetIfNotFound
    <2>2. ASSUME NEW c, NEW n, NEW scale, NEW wait, NEW next,
                 ScaleReplicaSet(w, scale, wait, c, n, next)
          PROVE  UNCHANGED svc
      BY <2>2 DEF ScaleReplicaSet
    <2>3. ASSUME NEW c, NEW next, UpdateBlueGreenDeployment(w, c, next)
          PROVE  UNCHANGED svc
      BY <2>3 DEF UpdateBlueGreenDeployment
    <2>4. UpdateService(w)
      BY <1>2, <2>1, <2>2, <2>3
         DEF SyncStep, Lister, InitStatus, CreateReplicaSetsIfNotFound,
             CreateServiceIfNotFound, Compare, Flip, ScaleUp, ReplaceInactiveReplicaSet,
             ScaleDown
    <2> QED BY <2>4 DEF UpdateService
  <1>3. CASE \/ \E w \in Workers : ApiError(w)
             \/ \E w \in Workers, k \in Keys : ProcessNextWorkItem(w, k)
             \/ \E k \in Keys : Deliver(k) \/ Resync(k) \/ HandleObject(k) \/ Retry(k)
             \/ Crash
             \/ UNCHANGED vars
    BY <1>3 DEF ApiError, ProcessNextWorkItem, Deliver, Resync, HandleObject, Retry,
                Crash, vars
  <1> QED BY <1>1, <1>2, <1>3 DEF Next, ControllerStep

(* The Service is moved only to the colour that the status names as active *)
(* and whose ReplicaSet is raised: whatever fails before, no call of       *)
(* updateService is made for a rollout that did not get that far.          *)
THEOREM SwitchIsBackedHolds ==
  ASSUME OneDeployment, SomeReplicas
  PROVE  Spec => SwitchIsBacked
  <1> DEFINE Backed ==
        svc # Absent /\ svc' \notin {Absent, svc} =>
          /\ \E k \in Keys : bgd[k] # Absent /\ bgd[k].color = svc'
          /\ Raised(svc')
  <1>1. ASSUME TypeInv, RolloutInv, [Next]_vars PROVE Backed
    <2> SUFFICES ASSUME svc # Absent, svc' \notin {Absent, svc}
                 PROVE  /\ \E k \in Keys : bgd[k] # Absent /\ bgd[k].color = svc'
                        /\ Raised(svc')
      OBVIOUS
    <2>1. PICK w \in Workers : pc[w] = "updateService" /\ svc' = b[w].color
      BY <1>1, OnlyUpdateServiceMoves
    <2>2. /\ key[w] \in Keys /\ b[w] \in BlueGreenDeployment
          /\ bgd[key[w]] # Absent
      BY <1>1, <2>1, HoldsOK DEF TypeInv, RolloutInv, OneUid, SameObject
    <2>3. /\ bgd[key[w]].color = b[w].color
          /\ rs[b[w].color] # Absent
          /\ rs[b[w].color].replicas = b[w].replicas
      BY <1>1, <2>1 DEF RolloutInv, Rollover, RolloverOf, Rolling, Filled
    <2>4. b[w].replicas \in ReplicaCounts
      BY <2>2 DEF BlueGreenDeployment
    <2>5. b[w].replicas > 0
      <3>1. b[w].replicas \in Nat /\ b[w].replicas # 0
        BY <2>4, ClusterAssumption, Zenon DEF SomeReplicas
      <3> QED BY <3>1
    <2> QED BY <2>1, <2>2, <2>3, <2>5 DEF Raised
  <1> HIDE DEF Backed
  <1>2. TypeInv /\ RolloutInv /\ [Next]_vars => [Backed]_vars
    BY <1>1
  <1>3. Spec => [][Backed]_vars
    BY <1>2, TypeInvHolds, RolloutInvHolds, PTL DEF Spec
  <1> QED BY <1>3 DEF SwitchIsBacked, Backed

\* A raised ReplicaSet is lowered by a worker's scaling down only.
Lowers(c) == Raised(c) /\ rs'[c] # Absent /\ rs'[c].replicas = 0

LEMMA WantedIsPositive ==
  ASSUME SomeReplicas, NEW obj \in BlueGreenDeployment
  PROVE  obj.replicas # 0
  BY DEF SomeReplicas, BlueGreenDeployment

LEMMA SameReplicasNotLowered ==
  ASSUME NEW c \in Colors, rs'[c] = rs[c] \/ rs[c] = Absent \/ rs'[c] = Absent
  PROVE  ~ Lowers(c)
  BY DEF Lowers, Raised

LEMMA CreateDoesNotLower ==
  ASSUME TypeInv, NEW w \in Workers, NEW c \in Colors, NEW d \in Colors,
         NEW get, NEW create, NEW wait, NEW next,
         CreateReplicaSetIfNotFound(w, get, create, wait, d, next)
  PROVE  ~ Lowers(c)
  <1>1. rs'[c] = rs[c] \/ rs[c] = Absent
    BY DEF CreateReplicaSetIfNotFound, WaitAllReplicaSetPodsAvailable, Refused, apiVars,
           TypeInv, ClusterTypeOK
  <1> QED BY <1>1, SameReplicasNotLowered

LEMMA OnlyScaleDownLowers ==
  ASSUME TypeInv, OneDeployment, SomeReplicas, RolloutInv, [Next]_vars, NEW c \in Colors, Lowers(c)
  PROVE  \E w \in Workers : pc[w] = "scaleDown" /\ c = Other(b[w].color)
  <1>1. CASE ClusterStep
    <2>1. PodStep(c)
      BY <1>1, ClusterPodStep DEF RolloutInv
    <2> QED BY <2>1 DEF PodStep, Lowers, Raised
  <1>2. ASSUME NEW w \in Workers, SyncStep(w)
        PROVE  pc[w] = "scaleDown" /\ c = Other(b[w].color)
    <2>1. CASE \/ Lister(w) \/ InitStatus(w) \/ CreateServiceIfNotFound(w)
               \/ Compare(w) \/ Flip(w) \/ UpdateService(w)
      <3>1. UNCHANGED rs
        BY <2>1 DEF Lister, InitStatus, CreateServiceIfNotFound, Compare, Flip,
                    UpdateService, UpdateBlueGreenDeployment, Refused, apiVars, clusterVars
      <3> QED BY <3>1, SameReplicasNotLowered
    <2>2. CASE CreateReplicaSetsIfNotFound(w)
      BY <2>2, CreateDoesNotLower DEF CreateReplicaSetsIfNotFound, Colors
    <2>3. CASE ScaleUp(w)
      <3>1. pc[w] \in {"scaleUp", "waitUp"}
        BY <2>3 DEF ScaleUp, ScaleReplicaSet, WaitAllReplicaSetPodsAvailable
      <3>2. b[w] \in BlueGreenDeployment /\ b[w].color \in Colors
        BY <3>1, HoldsOK, MidFacts DEF TypeInv, Calls, Polls
      <3>3. \/ rs'[c] = rs[c]
            \/ rs[c] # Absent /\ rs'[c] = Scaled(rs[c], b[w].replicas)
        BY <2>3, <3>2 DEF ScaleUp, ScaleReplicaSet, WaitAllReplicaSetPodsAvailable, Refused,
                          apiVars, TypeInv, ClusterTypeOK
      <3>4. rs[c] # Absent => Scaled(rs[c], b[w].replicas).replicas = b[w].replicas
        BY DEF Scaled, ReplicaSet, TypeInv, ClusterTypeOK
      <3> QED BY <3>2, <3>3, <3>4, WantedIsPositive, SameReplicasNotLowered
                 DEF Lowers
    <2>4. CASE ReplaceInactiveReplicaSet(w)
      <3>1. pc[w] \in Mid
        BY <2>4, MidFacts DEF ReplaceInactiveReplicaSet, CreateReplicaSetIfNotFound,
                              WaitAllReplicaSetPodsAvailable, Calls, Polls
      <3>2. b[w].color \in Colors
        BY <3>1, HoldsOK DEF TypeInv, Mid
      <3>3. CASE CreateReplicaSetIfNotFound(w, "getNew", "createNew", "waitNew",
                                            b[w].color, "scaleDown")
        BY <3>2, <3>3, CreateDoesNotLower
      <3>4. CASE rs' = [rs EXCEPT ![b[w].color] = Absent] \/ Refused(w)
        <4>1. rs'[c] = rs[c] \/ rs'[c] = Absent
          BY <3>2, <3>4 DEF Refused, apiVars, TypeInv, ClusterTypeOK
        <4> QED BY <4>1, SameReplicasNotLowered
      <3> QED BY <2>4, <3>3, <3>4 DEF ReplaceInactiveReplicaSet
    <2>5. CASE ScaleDown(w)
      <3>1. pc[w] \in {"scaleDown", "waitDown"}
        BY <2>5 DEF ScaleDown, ScaleReplicaSet, WaitAllReplicaSetPodsAvailable
      <3>2. Other(b[w].color) \in Colors
        BY DEF Other, Colors
      <3>3. \/ rs'[c] = rs[c]
            \/ pc[w] = "scaleDown" /\ c = Other(b[w].color)
        BY <2>5, <3>2 DEF ScaleDown, ScaleReplicaSet, WaitAllReplicaSetPodsAvailable,
                          Refused, apiVars, TypeInv, ClusterTypeOK
      <3> QED BY <3>3, SameReplicasNotLowered
    <2> QED BY <1>2, <2>1, <2>2, <2>3, <2>4, <2>5 DEF SyncStep
  <1>3. CASE \/ \E w \in Workers : ApiError(w)
             \/ \E w \in Workers, k \in Keys : ProcessNextWorkItem(w, k)
             \/ \E k \in Keys : Deliver(k) \/ Resync(k) \/ HandleObject(k) \/ Retry(k)
             \/ Crash
             \/ UNCHANGED vars
    <2>1. UNCHANGED rs
      BY <1>3 DEF ApiError, ProcessNextWorkItem, Deliver, Resync, HandleObject, Retry,
                  Crash, vars, apiVars, clusterVars
    <2> QED BY <2>1, SameReplicasNotLowered
  <1> QED BY <1>1, <1>2, <1>3 DEF Next, ControllerStep

(* The ReplicaSet that the status names as active is never scaled down to  *)
(* nothing, whatever fails and whoever edits the spec meanwhile.           *)
THEOREM ActiveIsNotScaledDownHolds ==
  ASSUME OneDeployment, SomeReplicas
  PROVE  Spec => ActiveIsNotScaledDown
  <1> DEFINE Kept ==
        \A c \in Colors : Raised(c) /\ rs'[c] # Absent /\ rs'[c].replicas = 0 =>
          \A k \in Keys : bgd[k] # Absent => bgd[k].color # c
  <1>1. ASSUME TypeInv, RolloutInv, [Next]_vars PROVE Kept
    <2> SUFFICES ASSUME NEW c \in Colors, Lowers(c), NEW k \in Keys
                 PROVE  bgd[k].color # c
      BY DEF Lowers
    <2>1. PICK w \in Workers : pc[w] = "scaleDown" /\ c = Other(b[w].color)
      BY <1>1, OnlyScaleDownLowers
    <2>2. key[w] \in Keys /\ b[w].color \in Colors
      BY <1>1, <2>1, HoldsOK, MidFacts DEF TypeInv, Calls
    <2>3. bgd[key[w]].color = b[w].color
      BY <1>1, <2>1 DEF RolloutInv, Rollover, RolloverOf, Rolling, Filled
    <2>4. key[w] = k
      BY <2>2 DEF OneDeployment
    <2> QED BY <2>1, <2>2, <2>3, <2>4, ColorFacts
  <1> HIDE DEF Kept
  <1>2. TypeInv /\ RolloutInv /\ [Next]_vars => [Kept]_vars
    BY <1>1
  <1>3. Spec => [][Kept]_vars
    BY <1>2, TypeInvHolds, RolloutInvHolds, PTL DEF Spec
  <1> QED BY <1>3 DEF ActiveIsNotScaledDown, Kept

(* If no poll gives up and no pod fails, a ReplicaSet is scaled down only  *)
(* when all the pods of the other one are available.                       *)
THEOREM ScaleDownAfterReadyHolds ==
  ASSUME OneDeployment, SomeReplicas, Patient
  PROVE  Spec => ScaleDownAfterReady
  <1> DEFINE After ==
        \A c \in Colors : Raised(c) /\ rs'[c] # Absent /\ rs'[c].replicas = 0 =>
          Ready(Other(c))
  <1>1. ASSUME TypeInv, RolloutInv, [Next]_vars PROVE After
    <2> SUFFICES ASSUME NEW c \in Colors, Lowers(c)
                 PROVE  Ready(Other(c))
      BY DEF Lowers
    <2>1. PICK w \in Workers : pc[w] = "scaleDown" /\ c = Other(b[w].color)
      BY <1>1, OnlyScaleDownLowers
    <2>2. b[w] \in BlueGreenDeployment /\ b[w].color \in Colors
      BY <1>1, <2>1, HoldsOK, MidFacts DEF TypeInv, Calls
    <2>3. Other(c) = b[w].color
      BY <2>1, <2>2 DEF Other, Colors
    <2>4. /\ rs[b[w].color] # Absent
          /\ rs[b[w].color].replicas = b[w].replicas
          /\ rs[b[w].color].avail = rs[b[w].color].replicas
      BY <1>1, <2>1 DEF RolloutInv, Rollover, RolloverOf, Rolling, Filled
    <2>5. b[w].replicas \in Nat /\ b[w].replicas # 0
      <3>1. b[w].replicas \in ReplicaCounts
        BY <2>2 DEF BlueGreenDeployment
      <3> QED BY <2>2, <3>1, WantedIsPositive, ClusterAssumption, Zenon
    <2>6. b[w].replicas > 0
      BY <2>5
    <2> QED BY <2>3, <2>4, <2>6 DEF Ready, Raised
  <1> HIDE DEF After
  <1>2. TypeInv /\ RolloutInv /\ [Next]_vars => [After]_vars
    BY <1>1
  <1>3. Spec => [][After]_vars
    BY <1>2, TypeInvHolds, RolloutInvHolds, PTL DEF Spec
  <1> QED BY <1>3 DEF ScaleDownAfterReady, After
==============================================================================
