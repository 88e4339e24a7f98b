--------------------------- MODULE RefinementProofs ---------------------------
(***************************************************************************)
(* That the controller implements Switchover, each step of any actor being *)
(* a step of Switchover or leaving its variables alone; and that the Gets  *)
(* and Updates of ReadModifyWrite make whole read-modify-writes, so that   *)
(* what is proved of BlueGreenController holds of it too.                  *)
(***************************************************************************)
EXTENDS RolloutProofs, ReadModifyWrite


\* The variables of Switchover, as BlueGreenController has them.
Named == {bgd[k].color : k \in {l \in Keys : bgd[l] # Absent}} \ {NoColor}
Up == {c \in Colors : Raised(c)}

TrafficStep == Traffic!Next \/ UNCHANGED <<Named, Up, svc>>

----------------------------------------------------------------------------
(* The ReplicaSets.                                                        *)

\* A ReplicaSet that is given a positive count is up from then on ...
LEMMA GivenPodsIsUp ==
  ASSUME TypeInv, NEW c \in Colors, NEW r, r # Absent, r.replicas > 0,
         rs' = [rs EXCEPT ![c] = r]
  PROVE  Up' = Up \union {c}
  <1>1. rs'[c] = r /\ \A d \in Colors \ {c} : rs'[d] = rs[d]
    BY DEF TypeInv, ClusterTypeOK
  <1>2. Raised(c)'
    BY <1>1 DEF Raised
  <1>3. \A d \in Colors \ {c} : Raised(d)' <=> Raised(d)
    BY <1>1 DEF Raised
  <1> QED BY <1>2, <1>3 DEF Up

\* ... and one that is removed or given a count of none is not.
LEMMA GivenNoneIsDown ==
  ASSUME TypeInv, NEW c \in Colors, NEW r, r = Absent \/ r.replicas = 0,
         rs' = [rs EXCEPT ![c] = r]
  PROVE  Up' = Up \ {c}
  <1>1. rs'[c] = r /\ \A d \in Colors \ {c} : rs'[d] = rs[d]
    BY DEF TypeInv, ClusterTypeOK
  <1>2. ~ Raised(c)'
    BY <1>1 DEF Raised
  <1>3. \A d \in Colors \ {c} : Raised(d)' <=> Raised(d)
    BY <1>1 DEF Raised
  <1> QED BY <1>2, <1>3 DEF Up

LEMMA SameReplicaSets ==
  ASSUME UNCHANGED rs
  PROVE  Up' = Up
  BY DEF Up, Raised

LEMMA WantedIsUp ==
  ASSUME SomeReplicas, NEW obj \in BlueGreenDeployment
  PROVE  obj.replicas > 0
  <1>1. obj.replicas \in ReplicaCounts
    BY DEF BlueGreenDeployment
  <1>2. obj.replicas \in Nat /\ obj.replicas # 0
    BY <1>1, ClusterAssumption, Zenon DEF SomeReplicas
  <1> QED BY <1>2

\* createReplicaSetIfNotFound takes nothing down.
LEMMA CreateRaises ==
  ASSUME TypeInv, OneDeployment, SomeReplicas, NEW w \in Workers, NEW c \in Colors,
         NEW get, NEW create, NEW wait, NEW next,
         b[w] \in BlueGreenDeployment, key[w] \in Keys,
         CreateReplicaSetIfNotFound(w, get, create, wait, c, next)
  PROVE  UNCHANGED <<bgd, svc>> /\ (Up' = Up \/ Up' = Up \union {c})
  <1> USE DEF CreateReplicaSetIfNotFound, WaitAllReplicaSetPodsAvailable, Refused, apiVars
  <1>1. UNCHANGED <<bgd, svc>>
    OBVIOUS
  <1>2. CASE UNCHANGED rs
    BY <1>1, <1>2, SameReplicaSets
  <1>3. CASE rs[c] = Absent /\ rs' = [rs EXCEPT ![c] = NewReplicaSet(key[w], b[w], c)]
    <2> DEFINE new == NewReplicaSet(key[w], b[w], c)
    <2>1. new \in ReplicaSet
      BY NewReplicaSetType
    <2>2. new # Absent
      BY <2>1, ClusterAssumption
    <2>3. new.replicas = IF b[w].color = c THEN b[w].replicas ELSE 0
      BY DEF NewReplicaSet
    <2>4. CASE b[w].color = c
      <3>1. new.replicas > 0
        BY <2>3, <2>4, WantedIsUp
      <3> HIDE DEF new
      <3> QED BY <1>1, <1>3, <2>2, <3>1, GivenPodsIsUp DEF new
    <2>5. CASE b[w].color # c
      <3>1. new.replicas = 0
        BY <2>3, <2>5
      <3> HIDE DEF new
      <3>2. Up' = Up \ {c}
        BY <1>3, <3>1, GivenNoneIsDown DEF new
      <3>3. c \notin Up
        BY <1>3 DEF Up, Raised
      <3> QED BY <1>1, <3>2, <3>3
    <2> QED BY <2>4, <2>5
  <1> QED BY <1>2, <1>3

\* The ReplicaSet that a worker rolls over to is up, and is the one named.
LEMMA NamedIsRolledOverTo ==
  ASSUME TypeInv, OneDeployment, SomeReplicas, RolloutInv, NEW w \in Workers, pc[w] \in Rolling
  PROVE  /\ key[w] \in Keys /\ b[w] \in BlueGreenDeployment /\ b[w].color \in Colors
         /\ Named = {b[w].color}
         /\ pc[w] \in Filled => b[w].color \in Up
  <1>1. pc[w] \in Mid /\ pc[w] \notin {"idle", "lister"}
    BY MidFacts DEF Rolling, Cleared, Filled, Calls, Polls
  <1>2. key[w] \in Keys /\ b[w] \in BlueGreenDeployment /\ b[w].color \in Colors
    BY <1>1, HoldsOK DEF TypeInv
  <1>3. RolloverOf(w) /\ bgd[key[w]] # Absent
    BY <1>1 DEF RolloutInv, Rollover, OneUid, SameObject
  <1>4. bgd[key[w]].color = b[w].color
    BY <1>3 DEF RolloverOf
  <1>5. Named = {b[w].color}
    <2>1. \A k \in Keys : k = key[w]
      BY <1>2 DEF OneDeployment
    <2>2. b[w].color # NoColor
      BY <1>2, ColorFacts
    <2> QED BY <1>2, <1>3, <1>4, <2>1, <2>2 DEF Named
  <1>6. pc[w] \in Filled => b[w].color \in Up
    <2>1. b[w].replicas > 0
      BY <1>2, WantedIsUp
    <2> QED BY <1>2, <1>3, <2>1 DEF RolloverOf, Up, Raised
  <1> QED BY <1>2, <1>5, <1>6

----------------------------------------------------------------------------
(* The status.                                                             *)

\* Once set, the status is a colour.
StatusStaysSet ==
  \A k \in Keys : bgd[k] # Absent /\ bgd[k].color \in Colors =>
                    bgd'[k] # Absent /\ bgd'[k].color \in Colors

LEMMA WriteKeepsStatus ==
  ASSUME TypeInv, NEW k \in Keys, NEW obj \in BlueGreenDeployment,
         WriteBgd(k, obj), bgd[k] = Absent \/ obj.color \in Colors \/ obj.color = bgd[k].color
  PROVE  StatusStaysSet
  <1>1. obj # Absent /\ bgd' = [bgd EXCEPT ![k] = obj]
    BY ClusterAssumption DEF WriteBgd
  <1> QED BY <1>1 DEF StatusStaysSet, TypeInv, ClusterTypeOK

LEMMA PeopleKeepStatus ==
  ASSUME TypeInv, OneDeployment, SomeReplicas, RolloutInv, ClusterStep
  PROVE  StatusStaysSet
  <1>1. ASSUME NEW k \in Keys, CreateBgd(k) PROVE StatusStaysSet
    <2>1. PICK s \in UserSpecs, n \in ReplicaCounts :
            WriteBgd(k, [uid |-> budget["create"], spec |-> s, replicas |-> n,
                         color |-> NoColor])
      BY <1>1 DEF CreateBgd
    <2>2. [uid |-> budget["create"], spec |-> s, replicas |-> n,
           color |-> NoColor] \in BlueGreenDeployment
      BY DEF BlueGreenDeployment, Events, TypeInv, ClusterTypeOK
    <2> QED BY <1>1, <2>1, <2>2, WriteKeepsStatus DEF CreateBgd
  <1>2. ASSUME NEW k \in Keys, EditSpec(k) PROVE StatusStaysSet
    <2>1. PICK s \in UserSpecs : WriteBgd(k, [bgd[k] EXCEPT !.spec = s])
      BY <1>2 DEF EditSpec
    <2>2. bgd[k] \in BlueGreenDeployment
      BY <1>2 DEF EditSpec, TypeInv, ClusterTypeOK
    <2>3. /\ [bgd[k] EXCEPT !.spec = s] \in BlueGreenDeployment
          /\ [bgd[k] EXCEPT !.spec = s].color = bgd[k].color
      BY <2>2 DEF BlueGreenDeployment
    <2> QED BY <2>1, <2>3, WriteKeepsStatus
  <1>3. ASSUME NEW k \in Keys, EditReplicas(k) PROVE StatusStaysSet
    <2>1. PICK n \in ReplicaCounts : WriteBgd(k, [bgd[k] EXCEPT !.replicas = n])
      BY <1>3 DEF EditReplicas
    <2>2. bgd[k] \in BlueGreenDeployment
      BY <1>3 DEF EditReplicas, TypeInv, ClusterTypeOK
    <2>3. /\ [bgd[k] EXCEPT !.replicas = n] \in BlueGreenDeployment
          /\ [bgd[k] EXCEPT !.replicas = n].color = bgd[k].color
      BY <2>2 DEF BlueGreenDeployment
    <2> QED BY <2>1, <2>3, WriteKeepsStatus
  <1>4. ASSUME NEW k \in Keys, DeleteBgd(k) PROVE FALSE
    BY <1>4, SpentUp DEF DeleteBgd, Spend, OneDeployment, Events, RolloutInv
  <1>5. CASE UNCHANGED bgd
    BY <1>5 DEF StatusStaysSet
  <1> QED
    BY <1>1, <1>2, <1>3, <1>4, <1>5
       DEF ClusterStep, DropService, DropReplicaSet, RunReplicaSet, PodFailure,
           CollectGarbage

LEMMA UpdateKeepsStatus ==
  ASSUME TypeInv, NEW w \in Workers, NEW c \in Colors, NEW next,
         pc[w] \notin {"idle", "lister"},
         UpdateBlueGreenDeployment(w, c, next)
  PROVE  StatusStaysSet /\ UNCHANGED <<rs, svc>>
  <1>1. key[w] \in Keys
    BY HoldsOK DEF TypeInv
  <1>2. CASE bgd[key[w]] # Absent /\ UNCHANGED <<rs, svc>>
    <2> DEFINE new == [bgd[key[w]] EXCEPT !.color = c]
    <2>1. WriteBgd(key[w], new) \/ UNCHANGED bgd
      BY <1>2 DEF UpdateBlueGreenDeployment, Refused, apiVars
    <2>2. bgd[key[w]] \in BlueGreenDeployment
      BY <1>1, <1>2 DEF TypeInv, ClusterTypeOK
    <2>3. new \in BlueGreenDeployment /\ new.color = c
      BY <2>2 DEF BlueGreenDeployment
    <2> HIDE DEF new
    <2> QED BY <1>1, <1>2, <2>1, <2>3, WriteKeepsStatus DEF StatusStaysSet
  <1>3. CASE Refused(w)
    BY <1>3 DEF Refused, apiVars, StatusStaysSet
  <1> QED BY <1>2, <1>3 DEF UpdateBlueGreenDeployment

\* A step of the status is a step of Switchover.
LEMMA StatusIsTraffic ==
  ASSUME TypeInv, TypeInv', OneDeployment, SomeReplicas, StatusStaysSet, UNCHANGED <<rs, svc>>
  PROVE  TrafficStep
  <1>1. Up' = Up
    BY SameReplicaSets
  <1>2. Named' = Named \/ \E c \in Colors : Named' = {c}
    <2>1. CASE Keys = {}
      BY <2>1 DEF Named
    <2>2. ASSUME NEW k \in Keys
          PROVE  Named' = Named \/ \E c \in Colors : Named' = {c}
      <3>1. \A l \in Keys : l = k
        BY DEF OneDeployment
      <3>2. CASE bgd'[k] # Absent /\ bgd'[k].color \in Colors
        <4>1. Named' = {bgd'[k].color}
          BY <3>1, <3>2, ColorFacts DEF Named
        <4> QED BY <3>2, <4>1
      <3>3. CASE ~ (bgd'[k] # Absent /\ bgd'[k].color \in Colors)
        <4>1. bgd[k] \in BlueGreenDeployment \union {Absent}
              /\ bgd'[k] \in BlueGreenDeployment \union {Absent}
          BY DEF TypeInv, ClusterTypeOK
        <4>2. /\ bgd'[k] = Absent \/ bgd'[k].color = NoColor
              /\ bgd[k] = Absent \/ bgd[k].color = NoColor
          BY <3>3, <4>1 DEF StatusStaysSet, BlueGreenDeployment
        <4>3. Named = {} /\ Named' = {}
          BY <3>1, <4>2 DEF Named
        <4> QED BY <4>3
      <3> QED BY <3>2, <3>3
    <2> QED BY <2>1, <2>2
  <1>3. CASE Named' = Named
    BY <1>1, <1>3 DEF TrafficStep
  <1>4. ASSUME NEW c \in Colors, Named' = {c} PROVE TrafficStep
    <2>1. Traffic!Name(c)
      BY <1>1, <1>4 DEF Traffic!Name, Named, Up
    <2> QED BY <2>1 DEF TrafficStep, Traffic!Next, Traffic!Colors, Colors
  <1> QED BY <1>2, <1>3, <1>4

----------------------------------------------------------------------------
(* Each kind of step.                                                      *)

LEMMA SameStatus ==
  ASSUME UNCHANGED bgd
  PROVE  Named' = Named
  BY DEF Named

LEMMA UpIsTraffic ==
  ASSUME UNCHANGED <<bgd, svc>>, NEW c \in Colors,
         \/ Up' = Up
         \/ Up' = Up \union {c}
         \/ Up' = Up \ {c} /\ (c \in Named \/ Named \intersect Up # {})
  PROVE  TrafficStep
  <1>1. Named' = Named
    BY SameStatus
  <1>2. CASE Up' = Up
    BY <1>1, <1>2 DEF TrafficStep
  <1>3. CASE Up' = Up \union {c}
    <2>1. Traffic!Raise(c)
      BY <1>1, <1>3 DEF Traffic!Raise, Named, Up
    <2> QED BY <2>1 DEF TrafficStep, Traffic!Next, Traffic!Colors, Colors
  <1>4. CASE Up' = Up \ {c} /\ c \in Named
    <2>1. Traffic!Replace(c)
      BY <1>1, <1>4 DEF Traffic!Replace, Named, Up
    <2> QED BY <2>1 DEF TrafficStep, Traffic!Next, Traffic!Colors, Colors
  <1>5. CASE Up' = Up \ {c} /\ c \notin Named /\ Named \intersect Up # {}
    <2>1. Traffic!Lower(c)
      BY <1>1, <1>5 DEF Traffic!Lower, Named, Up
    <2> QED BY <2>1 DEF TrafficStep, Traffic!Next, Traffic!Colors, Colors
  <1> QED BY <1>2, <1>3, <1>4, <1>5

LEMMA ServiceIsTraffic ==
  ASSUME UNCHANGED <<bgd, rs>>,
         \/ svc' = svc
         \/ svc' = Absent
         \/ svc = Absent /\ svc' = "blue"
         \/ svc # Absent /\ svc' \in Named \intersect Up
  PROVE  TrafficStep
  <1>1. Named' = Named /\ Up' = Up
    BY SameStatus, SameReplicaSets
  <1>2. CASE svc' = svc
    BY <1>1, <1>2 DEF TrafficStep
  <1>3. CASE svc' = Absent
    <2>1. Traffic!LoseService
      BY <1>1, <1>3 DEF Traffic!LoseService, Named, Up
    <2> QED BY <2>1 DEF TrafficStep, Traffic!Next
  <1>4. CASE svc = Absent /\ svc' = "blue"
    <2>1. Traffic!MakeService
      BY <1>1, <1>4 DEF Traffic!MakeService, Named, Up
    <2> QED BY <2>1 DEF TrafficStep, Traffic!Next
  <1>5. CASE svc # Absent /\ svc' \in Named \intersect Up
    <2>1. Traffic!Switch(svc') /\ svc' \in Colors
      BY <1>1, <1>5 DEF Traffic!Switch, Named, Up
    <2>2. \E c \in Colors : Traffic!Switch(c)
      BY <2>1
    <2> QED BY <2>2 DEF TrafficStep, Traffic!Next, Traffic!Colors, Colors
  <1> QED BY <1>2, <1>3, <1>4, <1>5

LEMMA ClusterIsTraffic ==
  ASSUME TypeInv, TypeInv', OneDeployment, SomeReplicas, RolloutInv, ClusterStep
  PROVE  TrafficStep
  <1>1. CASE \E k \in Keys : CreateBgd(k) \/ EditSpec(k) \/ EditReplicas(k) \/ DeleteBgd(k)
    <2>1. UNCHANGED <<rs, svc>>
      BY <1>1 DEF CreateBgd, EditSpec, EditReplicas, DeleteBgd
    <2> QED BY <2>1, PeopleKeepStatus, StatusIsTraffic
  <1>2. CASE DropService
    BY <1>2, ServiceIsTraffic DEF DropService
  <1>3. CASE \E c \in Colors : DropReplicaSet(c) \/ RunReplicaSet(c) \/ PodFailure(c)
                                 \/ CollectGarbage(c)
    <2>1. \A c \in Colors : PodStep(c)
      BY ClusterPodStep DEF RolloutInv
    <2>2. Up' = Up
      BY <2>1 DEF PodStep, Up, Raised
    <2>3. UNCHANGED <<bgd, svc>>
      BY <1>3 DEF DropReplicaSet, RunReplicaSet, PodFailure, CollectGarbage
    <2> QED BY <2>2, <2>3, UpIsTraffic DEF Colors
  <1> QED BY <1>1, <1>2, <1>3 DEF ClusterStep

\* What scaleReplicaSet does to the ReplicaSets.
LEMMA ScaleScales ==
  ASSUME TypeInv, NEW w, NEW scale, NEW wait, NEW c \in Colors,
         NEW n \in ReplicaCounts \union {0}, NEW next,
         ScaleReplicaSet(w, scale, wait, c, n, next)
  PROVE  /\ UNCHANGED <<bgd, svc>>
         /\ pc[w] \in {scale, wait}
         /\ \/ UNCHANGED rs
            \/ /\ pc[w] = scale
               /\ \E r : r # Absent /\ r.replicas = n /\ rs' = [rs EXCEPT ![c] = r]
  <1> USE DEF ScaleReplicaSet, WaitAllReplicaSetPodsAvailable, Refused, apiVars
  <1>1. UNCHANGED <<bgd, svc>> /\ pc[w] \in {scale, wait}
    OBVIOUS
  <1>2. CASE /\ pc[w] = scale /\ rs[c] # Absent
             /\ rs' = [rs EXCEPT ![c] = Scaled(rs[c], n)]
    <2>1. rs[c] \in ReplicaSet
      BY <1>2 DEF TypeInv, ClusterTypeOK
    <2>2. Scaled(rs[c], n) \in ReplicaSet
      BY <2>1, ScaledType
    <2>3. Scaled(rs[c], n).replicas = n
      BY <2>1 DEF Scaled, ReplicaSet
    <2>4. Scaled(rs[c], n) # Absent
      BY <2>2, ClusterAssumption
    <2> QED BY <1>1, <1>2, <2>3, <2>4
  <1> QED BY <1>1, <1>2

LEMMA ReplaceIsTraffic ==
  ASSUME TypeInv, OneDeployment, SomeReplicas, RolloutInv, NEW w \in Workers,
         ReplaceInactiveReplicaSet(w)
  PROVE  TrafficStep
  <1>1. pc[w] \in Rolling
    BY DEF ReplaceInactiveReplicaSet, CreateReplicaSetIfNotFound,
           WaitAllReplicaSetPodsAvailable, Rolling, Cleared, Filled
  <1>2. /\ key[w] \in Keys /\ b[w] \in BlueGreenDeployment /\ b[w].color \in Colors
        /\ b[w].color \in Named
    BY <1>1, NamedIsRolledOverTo
  <1>3. CASE CreateReplicaSetIfNotFound(w, "getNew", "createNew", "waitNew",
                                        b[w].color, "scaleDown")
    BY <1>2, <1>3, CreateRaises, UpIsTraffic
  <1>4. CASE rs' = [rs EXCEPT ![b[w].color] = Absent] /\ UNCHANGED <<bgd, svc>>
    <2>1. Up' = Up \ {b[w].color}
      <3>1. \A r : r = Absent /\ rs' = [rs EXCEPT ![b[w].color] = r]
                     => Up' = Up \ {b[w].color}
        BY <1>2, GivenNoneIsDown
      <3> QED BY <1>4, <3>1
    <2> QED BY <1>2, <1>4, <2>1, UpIsTraffic
  <1>5. CASE Refused(w)
    BY <1>5, SameReplicaSets, UpIsTraffic DEF Refused, apiVars, Colors
  <1> QED BY <1>3, <1>4, <1>5 DEF ReplaceInactiveReplicaSet

LEMMA SyncIsTraffic ==
  ASSUME TypeInv, TypeInv', OneDeployment, SomeReplicas, RolloutInv, NEW w \in Workers, SyncStep(w)
  PROVE  TrafficStep
  <1>1. CASE Lister(w) \/ Compare(w)
    BY <1>1, ServiceIsTraffic DEF Lister, Compare, clusterVars
  <1>2. CASE InitStatus(w)
    BY <1>2, UpdateKeepsStatus, StatusIsTraffic DEF InitStatus, Colors
  <1>3. CASE CreateReplicaSetsIfNotFound(w)
    <2>1. pc[w] \in Mid
      BY <1>3, MidFacts DEF CreateReplicaSetsIfNotFound, CreateReplicaSetIfNotFound,
                            WaitAllReplicaSetPodsAvailable, Calls, Polls
    <2>2. key[w] \in Keys /\ b[w] \in BlueGreenDeployment
      BY <2>1, HoldsOK DEF TypeInv, Mid
    <2> QED BY <1>3, <2>2, CreateRaises, UpIsTraffic DEF CreateReplicaSetsIfNotFound, Colors
  <1>4. CASE CreateServiceIfNotFound(w)
    BY <1>4, ServiceIsTraffic DEF CreateServiceIfNotFound, Refused, NewService, apiVars
  <1>5. CASE Flip(w)
    <2>1. b[w] \in BlueGreenDeployment /\ Other(b[w].color) \in Colors
      BY <1>5, HoldsOK DEF Flip, TypeInv, Other, Colors
    <2> QED BY <1>5, <2>1, UpdateKeepsStatus, StatusIsTraffic DEF Flip
  <1>6. CASE ScaleUp(w)
    <2>1. pc[w] \in Rolling
      BY <1>6 DEF ScaleUp, ScaleReplicaSet, WaitAllReplicaSetPodsAvailable,
                  Rolling, Cleared, Filled
    <2>2. b[w] \in BlueGreenDeployment /\ b[w].color \in Colors
      BY <2>1, NamedIsRolledOverTo
    <2>3. b[w].replicas > 0 /\ b[w].replicas \in ReplicaCounts
      BY <2>2, WantedIsUp DEF BlueGreenDeployment
    <2>4. /\ UNCHANGED <<bgd, svc>>
          /\ \/ UNCHANGED rs
             \/ \E r : /\ r # Absent /\ r.replicas = b[w].replicas
                       /\ rs' = [rs EXCEPT ![b[w].color] = r]
      <3> DEFINE c == b[w].color
                 n == b[w].replicas
      <3>1. ScaleReplicaSet(w, "scaleUp", "waitUp", c, n, "scaleDown")
        BY <1>6 DEF ScaleUp
      <3>2. c \in Colors /\ n \in ReplicaCounts \union {0}
        BY <2>2, <2>3
      <3> HIDE DEF c, n
      <3>3. /\ UNCHANGED <<bgd, svc>>
            /\ \/ UNCHANGED rs
               \/ \E r : r # Absent /\ r.replicas = n /\ rs' = [rs EXCEPT ![c] = r]
        BY <3>1, <3>2, ScaleScales
      <3> QED BY <3>3 DEF c, n
    <2>5. Up' = Up \/ Up' = Up \union {b[w].color}
      BY <2>2, <2>3, <2>4, GivenPodsIsUp, SameReplicaSets
    <2> QED BY <2>2, <2>4, <2>5, UpIsTraffic
  <1>7. CASE ReplaceInactiveReplicaSet(w)
    BY <1>7, ReplaceIsTraffic
  <1>8. CASE ScaleDown(w)
    <2>1. pc[w] \in Filled /\ pc[w] \in Rolling
      BY <1>8 DEF ScaleDown, ScaleReplicaSet, WaitAllReplicaSetPodsAvailable,
                  Rolling, Filled
    <2>2. Named \intersect Up # {}
      BY <2>1, NamedIsRolledOverTo
    <2>3. Other(b[w].color) \in Colors
      BY DEF Other, Colors
    <2> QED BY <1>8, <2>2, <2>3, ScaleScales, GivenNoneIsDown, SameReplicaSets, UpIsTraffic
            DEF ScaleDown
  <1>9. CASE UpdateService(w)
    <2>1. pc[w] \in Filled /\ pc[w] \in Rolling
      BY <1>9 DEF UpdateService, Rolling, Filled
    <2>2. b[w].color \in Named \intersect Up
      BY <2>1, NamedIsRolledOverTo
    <2> QED BY <1>9, <2>2, ServiceIsTraffic DEF UpdateService
  <1> QED
    BY <1>1, <1>2, <1>3, <1>4, <1>5, <1>6, <1>7, <1>8, <1>9 DEF SyncStep

LEMMA NextIsTraffic ==
  ASSUME TypeInv, TypeInv', OneDeployment, SomeReplicas, RolloutInv, [Next]_vars
  PROVE  TrafficStep
  <1>1. CASE ClusterStep
    BY <1>1, ClusterIsTraffic
  <1>2. CASE \E w \in Workers : SyncStep(w)
    BY <1>2, SyncIsTraffic
  <1>3. CASE \/ \E w \in Workers : ApiError(w)
             \/ \E w \in Workers, k \in Keys : ProcessNextWorkItem(w, k)
             \/ \E k \in Keys : Deliver(k) \/ Resync(k) \/ HandleObject(k) \/ Retry(k)
             \/ Crash
             \/ UNCHANGED vars
    <2>1. UNCHANGED apiVars
      BY <1>3 DEF ApiError, ProcessNextWorkItem, Deliver, Resync, HandleObject, Retry,
                  Crash, clusterVars, apiVars, vars
    <2> QED BY <2>1, ServiceIsTraffic DEF apiVars
  <1> QED BY <1>1, <1>2, <1>3 DEF Next, ControllerStep

(* Whatever fails, and however far the cache lags behind, the controller   *)
(* changes the status, the ReplicaSets and the Service as Switchover does: *)
(* it names a colour, gets its ReplicaSet up, lowers the other one, and    *)
(* only then moves the Service.                                            *)
THEOREM SwitchoverIsImplemented ==
  ASSUME OneDeployment, SomeReplicas
  PROVE  Spec => ImplementsSwitchover
  <1>1. Init => Traffic!Init
    BY DEF Init, ClusterInit, Traffic!Init, Raised
  <1>2. TypeInv /\ TypeInv' /\ RolloutInv /\ [Next]_vars => [Traffic!Next]_(Traffic!vars)
    BY NextIsTraffic DEF TrafficStep, Traffic!vars, Named, Up
  <1>3. Spec => Traffic!Spec
    BY <1>1, <1>2, TypeInvHolds, RolloutInvHolds, PTL DEF Spec, Traffic!Spec
  <1> QED BY <1>3 DEF ImplementsSwitchover

----------------------------------------------------------------------------
(* Read-modify-writes, call by call.                                       *)


(* A version that is current is what is stored.                            *)
ReadInv ==
  /\ read = [w \in Workers |-> read[w]]
  /\ \A w \in Workers : read[w] # Absent /\ current[w] => read[w] = Stored(w)

LEMMA ReadInit == DetailedInit => ReadInv
  BY DEF DetailedInit, ReadInv

LEMMA ReadNext ==
  ASSUME ReadInv, [DetailedNext]_detailedVars
  PROVE  ReadInv'
  <1>1. CASE DetailedNext
    <2>1. current' = [w \in Workers |->
            read'[w] = Absent \/ (current[w] /\ Stored(w)' = Stored(w))]
      BY <1>1 DEF DetailedNext, Age
    <2>2. ASSUME NEW v \in Workers, GetObject(v) PROVE ReadInv'
      <3>1. /\ read' = [w \in Workers |-> IF w = v THEN Stored(v) ELSE read[w]]
        BY <2>2, Zenon DEF GetObject, ReadInv
      <3>2. ASSUME NEW w \in Workers, read'[w] # Absent, current'[w]
            PROVE  read'[w] = Stored(w)'
        <4>1. current[w] /\ Stored(w)' = Stored(w)
          BY <2>1, <3>2
        <4>2. CASE w = v
          BY <3>1, <4>1, <4>2
        <4>3. CASE w # v
          BY <3>1, <3>2, <4>1, <4>3 DEF ReadInv
        <4> QED BY <4>2, <4>3
      <3>3. read' = [w \in Workers |-> read'[w]]
        BY <3>1
      <3> QED BY <3>2, <3>3 DEF ReadInv
    <2>3. CASE Keep
      <3>1. read' = [w \in Workers |-> IF pc'[w] = pc[w] THEN read[w] ELSE Absent]
        BY <2>3 DEF Keep
      <3>2. ASSUME NEW w \in Workers, read'[w] # Absent, current'[w]
            PROVE  read'[w] = Stored(w)'
        <4>1. current[w] /\ Stored(w)' = Stored(w)
          BY <2>1, <3>2
        <4>2. read'[w] = read[w]
          BY <3>1, <3>2
        <4> QED BY <3>2, <4>1, <4>2 DEF ReadInv
      <3>3. read' = [w \in Workers |-> read'[w]]
        BY <3>1
      <3> QED BY <3>2, <3>3 DEF ReadInv
    <2> QED BY <1>1, <2>2, <2>3 DEF DetailedNext
  <1>2. CASE UNCHANGED detailedVars
    BY <1>2 DEF detailedVars, vars, ReadInv, Stored, Scalee
  <1> QED BY <1>1, <1>2

----------------------------------------------------------------------------
(* What a worker does at a call that updates is a step of it there.        *)

LEMMA NotFoundIsAtomic ==
  ASSUME TypeInv, NEW w \in Workers, NotFound(w)
  PROVE  SyncStep(w)
  <1>1. CASE pc[w] = "updateService"
    <2>1. UpdateService(w)
      BY <1>1 DEF NotFound, Stored, UpdateService, apiVars
    <2> QED BY <2>1 DEF SyncStep
  <1>2. CASE pc[w] # "updateService"
    <2>1. Refused(w)
      BY <1>2 DEF NotFound, Refused
    <2>2. CASE pc[w] = "initStatus"
      <3>1. InitStatus(w)
        BY <2>1, <2>2 DEF NotFound, Stored, InitStatus, UpdateBlueGreenDeployment
      <3> QED BY <3>1 DEF SyncStep
    <2>3. CASE pc[w] = "flip"
      <3>1. Flip(w)
        BY <2>1, <2>3 DEF NotFound, Stored, Flip, UpdateBlueGreenDeployment
      <3> QED BY <3>1 DEF SyncStep
    <2>4. CASE pc[w] = "scaleUp"
      <3>1. ScaleUp(w)
        BY <2>1, <2>4 DEF NotFound, Stored, Scalee, ScaleUp, ScaleReplicaSet
      <3> QED BY <3>1 DEF SyncStep
    <2>5. CASE pc[w] = "scaleDown"
      <3>1. ScaleDown(w)
        BY <2>1, <2>5 DEF NotFound, Stored, Scalee, ScaleDown, ScaleReplicaSet
      <3> QED BY <3>1 DEF SyncStep
    <2> QED BY <1>2, <2>2, <2>3, <2>4, <2>5 DEF NotFound, UpdateCalls
  <1> QED BY <1>1, <1>2

LEMMA PutStatusIsAtomic ==
  ASSUME TypeInv, ReadInv, NEW w \in Workers, pc[w] \in {"initStatus", "flip"},
         NEW c \in Colors, NEW next, PutStatus(w, c, next)
  PROVE  UpdateBlueGreenDeployment(w, c, next)
  <1>1. read[w] = bgd[key[w]] /\ bgd[key[w]] # Absent
    BY DEF PutStatus, Fresh, ReadInv, Stored
  <1>2. bgd[key[w]] \in BlueGreenDeployment
    <2>1. key[w] \in Keys
      BY HoldsOK DEF TypeInv
    <2> QED BY <1>1, <2>1 DEF TypeInv, ClusterTypeOK
  <1>3. [read[w] EXCEPT !.color = c].color = c
    BY <1>1, <1>2 DEF BlueGreenDeployment
  <1> QED BY <1>1, <1>3 DEF PutStatus, UpdateBlueGreenDeployment

LEMMA PutIsAtomic ==
  ASSUME TypeInv, ReadInv, NEW w \in Workers, Put(w)
  PROVE  SyncStep(w)
  <1>1. CASE pc[w] = "initStatus" /\ PutStatus(w, "blue", "getBlue")
    <2>1. InitStatus(w)
      BY <1>1, PutStatusIsAtomic DEF InitStatus, Colors
    <2> QED BY <2>1 DEF SyncStep
  <1>2. CASE /\ pc[w] = "flip"
             /\ PutStatus(w, Other(b[w].color),
                  IF Wanted(w, Other(b[w].color)) THEN "scaleUp" ELSE "delete")
    <2>1. Other(b[w].color) \in Colors
      BY DEF Other, Colors
    <2>2. Flip(w)
      BY <1>2, <2>1, PutStatusIsAtomic DEF Flip
    <2> QED BY <2>2 DEF SyncStep
  <1>3. CASE pc[w] = "scaleUp" /\ PutReplicas(w, b[w].replicas, "waitUp")
    <2>1. read[w] = rs[b[w].color] /\ rs[b[w].color] # Absent /\ Scalee(w) = b[w].color
      BY <1>3 DEF PutReplicas, Fresh, ReadInv, Stored, Scalee
    <2>2. ScaleUp(w)
      BY <1>3, <2>1 DEF PutReplicas, ScaleUp, ScaleReplicaSet
    <2> QED BY <2>2 DEF SyncStep
  <1>4. CASE pc[w] = "scaleDown" /\ PutReplicas(w, 0, "waitDown")
    <2>1. /\ read[w] = rs[Other(b[w].color)] /\ rs[Other(b[w].color)] # Absent
          /\ Scalee(w) = Other(b[w].color)
      BY <1>4 DEF PutReplicas, Fresh, ReadInv, Stored, Scalee
    <2>2. ScaleDown(w)
      BY <1>4, <2>1 DEF PutReplicas, ScaleDown, ScaleReplicaSet
    <2> QED BY <2>2 DEF SyncStep
  <1>5. CASE pc[w] = "updateService" /\ PutSelector(w)
    <2>1. svc # Absent
      BY <1>5 DEF PutSelector, Fresh, ReadInv, Stored
    <2>2. UpdateService(w)
      BY <1>5, <2>1 DEF PutSelector, UpdateService
    <2> QED BY <2>2 DEF SyncStep
  <1> QED BY <1>1, <1>2, <1>3, <1>4, <1>5 DEF Put

LEMMA DetailedIsAtomic ==
  ASSUME TypeInv, ReadInv, [DetailedNext]_detailedVars
  PROVE  [Next]_vars
  <1>1. CASE \E w \in Workers : GetObject(w)
    BY <1>1 DEF GetObject
  <1>2. CASE OtherStep
    BY <1>2 DEF OtherStep, Next, ControllerStep
  <1>3. CASE \E w \in Workers : NotFound(w)
    BY <1>3, NotFoundIsAtomic DEF Next, ControllerStep
  <1>4. ASSUME NEW w \in Workers, Conflict(w) PROVE [Next]_vars
    <2>1. ApiError(w)
      BY <1>4 DEF Conflict, ApiError, UpdateCalls, Calls
    <2> QED BY <2>1 DEF Next, ControllerStep
  <1>5. CASE \E w \in Workers : Put(w)
    BY <1>5, PutIsAtomic DEF Next, ControllerStep
  <1>6. CASE UNCHANGED detailedVars
    BY <1>6 DEF detailedVars
  <1> QED BY <1>1, <1>2, <1>3, <1>4, <1>5, <1>6 DEF DetailedNext

(* However the Gets and Updates interleave, the optimistic lock makes each *)
(* of updateBlueGreenDeployment, scaleReplicaSet and updateService one     *)
(* step that happens, or an error that changes nothing.                    *)
THEOREM AtomicWritesAreImplemented == DetailedSpec => ImplementsAtomicWrites
  <1>1. DetailedInit => Init /\ TypeInv /\ ReadInv
    BY ReadInit, TypeInit DEF DetailedInit
  <1>2. TypeInv /\ ReadInv /\ [DetailedNext]_detailedVars =>
          [Next]_vars /\ TypeInv' /\ ReadInv'
    BY DetailedIsAtomic, ReadNext, TypeNext
  <1>3. DetailedSpec => Spec
    BY <1>1, <1>2, PTL DEF DetailedSpec, Spec
  <1> QED BY <1>3 DEF ImplementsAtomicWrites

(* So the rollover is as safe with every Get and Update on its own.        *)
THEOREM DetailedRolloutIsSafe ==
  ASSUME OneDeployment, SomeReplicas
  PROVE  DetailedSpec => /\ []TypeOK /\ []ExclusiveSync
                         /\ []RolloutInv
                         /\ SwitchIsBacked /\ ActiveIsNotScaledDown
                         /\ ImplementsSwitchover
                         /\ Patient => ScaleDownAfterReady
  <1>1. DetailedSpec => Spec
    BY AtomicWritesAreImplemented DEF ImplementsAtomicWrites
  <1>2. ASSUME Patient PROVE Spec => ScaleDownAfterReady
    BY <1>2, ScaleDownAfterReadyHolds
  <1> QED
    BY <1>1, <1>2, TypeCorrect, SyncsAreExclusive, RolloutInvHolds,
       SwitchIsBackedHolds, ActiveIsNotScaledDownHolds, SwitchoverIsImplemented
==============================================================================
