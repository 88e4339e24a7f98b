------------------------ MODULE TwoControllersProofs ------------------------
(***************************************************************************)
(* The types of the state of two processes of the controller: what         *)
(* BlueGreenProofs proves of one process is applied to either, and the     *)
(* steps of the other one are steps of the cluster to it.                  *)
(***************************************************************************)
EXTENDS TwoControllers, RolloutProofs

\* What is proved of a process, of the second one.
P2 == INSTANCE RolloutProofs
        WITH cache <- cache2, watch <- watch2, dirty <- dirty2,
             processing <- processing2, delayed <- delayed2, pc <- pc2,
             key <- key2, b <- b2, seen <- seen2

(* The kinds of objects are the same to both.                              *)
LEMMA SameData ==
  /\ P2!Colors = Colors /\ P2!Events = Events
  /\ P2!BlueGreenDeployment = BlueGreenDeployment
  /\ P2!ReplicaSet = ReplicaSet /\ P2!Owner = Owner
  BY DEF P2!Colors, Colors, P2!Events, Events, P2!NoColor, NoColor, P2!Owner, Owner,
         P2!BlueGreenDeployment, BlueGreenDeployment, P2!ReplicaSet, ReplicaSet

LEMMA SameAssumption == P2!ClusterAssumption
  BY ClusterAssumption, SameData DEF P2!ClusterAssumption

----------------------------------------------------------------------------
(* Second, the instance that the model has of the second process, and P2   *)
(* are instances of the same modules: expanded, a step of the one is a     *)
(* step of the other.                                                      *)

LEMMA SecondSyncStep ==
  ASSUME NEW w \in Workers, Second!SyncStep(w)
  PROVE  P2!SyncStep(w)
  BY Zenon DEF
    Second!Goto, P2!Goto, Second!GotoWith, P2!GotoWith, Second!GotoSeen,
    P2!GotoSeen, Second!Reply, P2!Reply, Second!Refused, P2!Refused,
    Second!WriteBgd, P2!WriteBgd, Second!NewReplicaSet, P2!NewReplicaSet,
    Second!NewService, P2!NewService, Second!SameHash, P2!SameHash,
    Second!Scaled, P2!Scaled, Second!WaitAllReplicaSetPodsAvailable,
    P2!WaitAllReplicaSetPodsAvailable, Second!CreateReplicaSetIfNotFound,
    P2!CreateReplicaSetIfNotFound, Second!ScaleReplicaSet, P2!ScaleReplicaSet,
    Second!UpdateBlueGreenDeployment, P2!UpdateBlueGreenDeployment,
    Second!Lister, P2!Lister, Second!InitStatus, P2!InitStatus,
    Second!CreateReplicaSetsIfNotFound, P2!CreateReplicaSetsIfNotFound,
    Second!CreateServiceIfNotFound, P2!CreateServiceIfNotFound, Second!Wanted,
    P2!Wanted, Second!Compare, P2!Compare, Second!Flip, P2!Flip,
    Second!ScaleUp, P2!ScaleUp, Second!ReplaceInactiveReplicaSet,
    P2!ReplaceInactiveReplicaSet, Second!ScaleDown, P2!ScaleDown,
    Second!UpdateService, P2!UpdateService, Second!SyncStep, P2!SyncStep,
    Second!Other, P2!Other, Second!NoColor, P2!NoColor, Second!ReturnNil,
    P2!ReturnNil, Second!ReturnError, P2!ReturnError, Second!Done, P2!Done,
    Second!AddRateLimitedAndDone, P2!AddRateLimitedAndDone, Second!Idle,
    P2!Idle, Second!NothingSeen, P2!NothingSeen, Second!Colors, P2!Colors,
    Second!Restart, P2!Restart, Second!Reset, P2!Reset, Second!Spend, P2!Spend,
    Second!apiVars, P2!apiVars, Second!clusterVars, P2!clusterVars,
    Second!queueVars, P2!queueVars

LEMMA SecondIsP2 ==
  ASSUME SecondStep
  PROVE  P2!Next
  <1> USE DEF
    Second!ProcessNextWorkItem, P2!ProcessNextWorkItem, Second!Get, P2!Get,
    Second!Queued, P2!Queued, Second!Deliver, P2!Deliver, Second!Resync,
    P2!Resync, Second!HandleObject, P2!HandleObject, Second!Retry, P2!Retry,
    Second!Enqueue, P2!Enqueue, Second!Add, P2!Add, Second!BackoffOver,
    P2!BackoffOver, Second!Crash, P2!Crash, Second!ApiError, P2!ApiError,
    Second!Calls, P2!Calls, Second!workerVars, P2!workerVars, Second!ReturnNil,
    P2!ReturnNil, Second!ReturnError, P2!ReturnError, Second!Done, P2!Done,
    Second!AddRateLimitedAndDone, P2!AddRateLimitedAndDone, Second!Idle,
    P2!Idle, Second!NothingSeen, P2!NothingSeen, Second!Colors, P2!Colors,
    Second!Restart, P2!Restart, Second!Reset, P2!Reset, Second!Spend, P2!Spend,
    Second!apiVars, P2!apiVars, Second!clusterVars, P2!clusterVars,
    Second!queueVars, P2!queueVars
  <1>1. ASSUME NEW w \in Workers, Second!SyncStep(w) \/ Second!ApiError(w)
        PROVE  P2!SyncStep(w) \/ P2!ApiError(w)
    BY <1>1, SecondSyncStep
  <1>2. ASSUME NEW w \in Workers, NEW k \in Keys, Second!ProcessNextWorkItem(w, k)
        PROVE  P2!ProcessNextWorkItem(w, k)
    BY <1>2
  <1>3. ASSUME NEW k \in Keys,
               \/ Second!Deliver(k) \/ Second!Resync(k)
               \/ Second!HandleObject(k) \/ Second!Retry(k)
        PROVE  \/ P2!Deliver(k) \/ P2!Resync(k) \/ P2!HandleObject(k) \/ P2!Retry(k)
    BY <1>3
  <1>4. ASSUME Second!Crash PROVE P2!Crash
    BY <1>4
  <1> QED
    BY ONLY <1>1, <1>2, <1>3, <1>4, SecondStep DEF SecondStep, P2!Next, P2!ControllerStep

----------------------------------------------------------------------------
(* The invariant: that of one process, for each of them.                   *)
TwoInv == TypeInv /\ P2!TypeInv

LEMMA TwoInitOK == TwoInit => TwoInv
  <1> SUFFICES ASSUME TwoInit PROVE TwoInv
    OBVIOUS
  <1>1. TypeInv
    BY TypeInit DEF TwoInit
  <1>2. P2!Init
    BY DEF TwoInit, Init, ClusterInit, P2!Init, P2!ClusterInit, P2!SyncInit,
           P2!QueueInit, Second!SyncInit, Second!QueueInit, P2!NothingSeen,
           Second!NothingSeen, Second!Colors, P2!Colors, Colors
  <1>3. P2!TypeInv
    BY <1>2, SameAssumption, SyncAssumption, P2!TypeInit
  <1> QED BY <1>1, <1>3 DEF TwoInv

\* What the two processes share is of its type.
SharedTypeOK ==
  /\ bgd \in [Keys -> BlueGreenDeployment \union {Absent}]
  /\ rs \in [Colors -> ReplicaSet \union {Absent}]
  /\ svc \in Colors \union {Absent}
  /\ budget \in [Events -> Nat]

(* A step of the first process or of the cluster.                          *)
LEMMA FirstSteps ==
  ASSUME TwoInv, Next, By1(TRUE)
  PROVE  TwoInv'
  <1>1. TypeInv'
    BY TypeNext DEF TwoInv
  <1>2. SharedTypeOK'
    BY <1>1 DEF TypeInv, ClusterTypeOK, SharedTypeOK
  <1>3. P2!TypeInv'
    BY <1>2, SameData, SameAssumption, SyncAssumption, P2!OthersStep
       DEF TwoInv, SharedTypeOK, By1, Shown, local2, P2!queueVars, P2!workerVars
  <1> QED BY <1>1, <1>3 DEF TwoInv

(* A step of the second process.                                           *)
LEMMA SecondSteps ==
  ASSUME TwoInv, P2!Next, By2(TRUE)
  PROVE  TwoInv'
  <1>1. P2!TypeInv'
    BY SameAssumption, SyncAssumption, P2!TypeNext DEF TwoInv
  <1>2. SharedTypeOK'
    BY <1>1, SameData DEF P2!TypeInv, P2!ClusterTypeOK, SharedTypeOK
  <1>3. TypeInv'
    BY <1>2, OthersStep DEF TwoInv, SharedTypeOK, By2, Shown, local1
  <1> QED BY <1>1, <1>3 DEF TwoInv

LEMMA TwoNextOK == TwoInv /\ [TwoNext]_twoVars => TwoInv'
  <1> SUFFICES ASSUME TwoInv, [TwoNext]_twoVars PROVE TwoInv'
    OBVIOUS
  <1>1. CASE ByCluster(ClusterStep)
    BY <1>1, FirstSteps DEF ByCluster, By1, local1, Next
  <1>2. CASE By1(ControllerStep)
    BY <1>2, FirstSteps DEF By1, Next
  <1>3. CASE By2(SecondStep)
    BY <1>3, SecondIsP2, SecondSteps DEF By2
  <1>4. CASE UNCHANGED twoVars
    <2>1. /\ UNCHANGED vars
          /\ UNCHANGED P2!vars
      BY <1>4 DEF twoVars, local2, vars, P2!vars
    <2>2. TypeInv' /\ P2!TypeInv'
      BY <2>1, SameAssumption, SyncAssumption, TypeNext, P2!TypeNext DEF TwoInv
    <2> QED BY <2>2 DEF TwoInv
  <1> QED BY <1>1, <1>2, <1>3, <1>4 DEF TwoNext

THEOREM TwoInvHolds == TwoSpec => []TwoInv
  BY TwoInitOK, TwoNextOK, PTL DEF TwoSpec

(* Every variable of both processes always holds a value of its type.      *)
THEOREM TwoTypesCorrect == TwoSpec => []TwoTypeOK
  <1>1. ASSUME TwoInv PROVE TwoTypeOK
    <2>1. TypeOK
      BY <1>1 DEF TwoInv, TypeInv, LocalOK, TypeOK
    <2>2. /\ P2!SyncTypeOK /\ P2!QueueTypeOK(Keys)
          /\ watch2 \in [Keys -> Seq(P2!BlueGreenDeployment \union {Absent})]
      BY <1>1 DEF TwoInv, P2!TypeInv, P2!LocalOK, P2!ClusterTypeOK
    <2>3. Second!SyncTypeOK /\ Second!QueueTypeOK(Keys)
      BY <2>2 DEF P2!SyncTypeOK, Second!SyncTypeOK, P2!QueueTypeOK, Second!QueueTypeOK,
                  P2!BlueGreenDeployment, Second!BlueGreenDeployment, P2!Colors,
                  Second!Colors, P2!NoColor, Second!NoColor, P2!Labels, Second!Labels,
                  P2!Calls, Second!Calls, P2!Polls, Second!Polls
    <2> QED BY <2>1, <2>2, <2>3, SameData DEF TwoTypeOK
  <1> QED BY <1>1, TwoInvHolds, PTL
============================================================================
