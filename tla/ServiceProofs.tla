---------------------------- MODULE ServiceProofs ----------------------------
(***************************************************************************)
(* That the Service is never without pods, and that its ReplicaSet is      *)
(* never deleted, in rollouts in which no call fails and no sync starts    *)
(* from a version with an old colour: theorems for any number of workers,  *)
(* edits, scalings, pod failures and polls given up, any lag, any          *)
(* defaulting and any hash.  That the lister has the stored colour is a    *)
(* condition on behaviours, AlwaysStartsCurrent.  The code does not        *)
(* guarantee it, and without it the theorems are false (StaleSpec.cfg).    *)
(***************************************************************************)
EXTENDS RolloutProofs

Inv == TypeInv /\ RolloutInv /\ ServiceInv

USE DEF GotBlue, GotGreen, Got, Undisturbed, Faultless

\* What never happens.
LEMMA NoFaults ==
  ASSUME TypeInv, RolloutInv, Faultless
  PROVE  /\ ~ Spend("apiError") /\ ~ Spend("lostReply") /\ ~ Spend("crash")
         /\ ~ Spend("dropService") /\ ~ Spend("delete")
  BY SpentUp DEF RolloutInv, Undisturbed, OneDeployment, Events, Spend

\* What a worker holds, and that no other is busy.
LEMMA Busy ==
  ASSUME Inv, Undisturbed, NEW w \in Workers, pc[w] \notin {"idle", "lister"}
  PROVE  /\ key[w] \in Keys /\ b[w] \in BlueGreenDeployment
         /\ bgd[key[w]] \in BlueGreenDeployment /\ bgd[key[w]] # Absent
         /\ \A k \in Keys : k = key[w]
         /\ bgd[key[w]].color = b[w].color
         /\ pc[w] # "initStatus" => b[w].color \in Colors
  <1>1. key[w] \in Keys /\ b[w] \in BlueGreenDeployment
    BY HoldsOK DEF Inv, TypeInv
  <1>2. bgd[key[w]] # Absent
    BY DEF Inv, RolloutInv, OneUid, SameObject
  <1>3. bgd[key[w]] \in BlueGreenDeployment
    BY <1>1, <1>2 DEF Inv, TypeInv, ClusterTypeOK
  <1>4. \A k \in Keys : k = key[w]
    BY <1>1 DEF Undisturbed, OneDeployment
  <1>5. /\ bgd[key[w]].color = b[w].color
        /\ pc[w] # "initStatus" => b[w].color \in Colors
    BY DEF Inv, ServiceInv, Found, RolloutInv, WorkerState
  <1> QED BY <1>1, <1>2, <1>3, <1>4, <1>5

\* A busy worker's step needs a look at that worker only.
LEMMA OnlyThisOneServes ==
  ASSUME TypeInv, OneDeployment, NEW w \in Workers, pc[w] # "idle",
         \A v \in Workers \ {w} : pc'[v] \in {pc[v], "idle"},
         Found(w)', StillServing(w)',
         pc'[w] \notin Rolling => AtRest'
  PROVE  ServiceInv'
  <1>1. ASSUME NEW v \in Workers, v # w PROVE Found(v)' /\ StillServing(v)'
    <2>1. pc'[v] = "idle"
      BY <1>1, Alone
    <2> QED BY <2>1 DEF Found, StillServing, Rolling, Cleared, Filled
  <1>2. AtRest'
    BY DEF AtRest
  <1> QED BY <1>1, <1>2 DEF ServiceInv

\* A busy worker that is not rolling is at rest.
LEMMA RestsNow ==
  ASSUME Inv, Undisturbed, NEW w \in Workers, pc[w] # "idle", pc[w] \notin Rolling
  PROVE  \/ /\ svc = Absent
            /\ rs["blue"] # Absent => Raised("blue")
            /\ \A k \in Keys : bgd[k] # Absent => bgd[k].color \in {NoColor, "blue"}
         \/ /\ svc # Absent
            /\ Raised(svc)
            /\ \A k \in Keys : bgd[k] # Absent /\ bgd[k].color = svc
  <1>1. \A v \in Workers : pc[v] \notin Rolling
    BY Alone DEF Inv, Undisturbed, Rolling, Cleared, Filled
  <1> QED BY <1>1 DEF Inv, ServiceInv, AtRest

\* What moves on with the cluster as it is stays at rest.
LEMMA StaysAtRest ==
  ASSUME Inv, Undisturbed, NEW w \in Workers, pc[w] # "idle", pc[w] \notin Rolling,
         UNCHANGED <<bgd, rs, svc>>
  PROVE  AtRest'
  <1>1. UNCHANGED rs => (Raised(svc)' <=> Raised(svc)) /\ (Raised("blue")' <=> Raised("blue"))
    BY DEF Raised
  <1> QED BY <1>1, RestsNow DEF AtRest

----------------------------------------------------------------------------
(* People and Kubernetes.                                                  *)

LEMMA PodStepKeeps ==
  ASSUME NEW c \in Colors, PodStep(c)
  PROVE  /\ rs'[c] # Absent <=> rs[c] # Absent
         /\ Raised(c)' <=> Raised(c)
  BY DEF PodStep, Raised

\* What a BlueGreenDeployment's colour is after they have been at it.
LEMMA PeopleKeepColor ==
  ASSUME TypeInv, RolloutInv, Faultless, ClusterStep, NEW k \in Keys
  PROVE  /\ bgd[k] # Absent => bgd'[k] # Absent /\ bgd'[k].color = bgd[k].color
         /\ bgd[k] = Absent /\ bgd'[k] # Absent => bgd'[k].color = NoColor
  <1>0. bgd \in [Keys -> BlueGreenDeployment \union {Absent}]
    BY DEF TypeInv, ClusterTypeOK
  <1>1. ASSUME NEW l \in Keys, NEW obj \in BlueGreenDeployment, WriteBgd(l, obj),
               IF bgd[l] = Absent THEN obj.color = NoColor ELSE obj.color = bgd[l].color
        PROVE  /\ bgd[k] # Absent => bgd'[k] # Absent /\ bgd'[k].color = bgd[k].color
               /\ bgd[k] = Absent /\ bgd'[k] # Absent => bgd'[k].color = NoColor
    <2>1. obj # Absent /\ bgd' = [bgd EXCEPT ![l] = obj]
      BY <1>1, ClusterAssumption DEF WriteBgd
    <2> QED BY <1>0, <1>1, <2>1
  <1>2. ASSUME NEW l \in Keys, CreateBgd(l)
        PROVE  \E obj \in BlueGreenDeployment :
                 WriteBgd(l, obj) /\ bgd[l] = Absent /\ obj.color = NoColor
    BY <1>2 DEF CreateBgd, BlueGreenDeployment, Events, TypeInv, ClusterTypeOK
  <1>3. ASSUME NEW l \in Keys, EditSpec(l) \/ EditReplicas(l)
        PROVE  \E obj \in BlueGreenDeployment :
                 WriteBgd(l, obj) /\ bgd[l] # Absent /\ obj.color = bgd[l].color
    <2>1. bgd[l] \in BlueGreenDeployment /\ bgd[l] # Absent
      BY <1>0, <1>3 DEF EditSpec, EditReplicas
    <2>2. /\ \A s \in UserSpecs : /\ [bgd[l] EXCEPT !.spec = s] \in BlueGreenDeployment
                                  /\ [bgd[l] EXCEPT !.spec = s].color = bgd[l].color
          /\ \A n \in ReplicaCounts :
               /\ [bgd[l] EXCEPT !.replicas = n] \in BlueGreenDeployment
               /\ [bgd[l] EXCEPT !.replicas = n].color = bgd[l].color
      BY <2>1 DEF BlueGreenDeployment
    <2> QED BY <1>3, <2>1, <2>2 DEF EditSpec, EditReplicas
  <1>4. ASSUME NEW l \in Keys, DeleteBgd(l) PROVE FALSE
    BY <1>4, NoFaults DEF DeleteBgd
  <1>5. ASSUME UNCHANGED bgd
        PROVE  /\ bgd[k] # Absent => bgd'[k] # Absent /\ bgd'[k].color = bgd[k].color
               /\ bgd[k] = Absent /\ bgd'[k] # Absent => bgd'[k].color = NoColor
    BY <1>5
  <1>6. \/ UNCHANGED bgd
        \/ \E l \in Keys : CreateBgd(l) \/ EditSpec(l) \/ EditReplicas(l) \/ DeleteBgd(l)
    BY DEF ClusterStep, DropService, DropReplicaSet, RunReplicaSet, PodFailure,
           CollectGarbage
  <1> QED BY <1>1, <1>2, <1>3, <1>4, <1>5, <1>6

LEMMA ClusterServes ==
  ASSUME Inv, Undisturbed, ClusterStep, UNCHANGED workerVars
  PROVE  ServiceInv'
  <1>1. UNCHANGED svc
    BY NoFaults DEF ClusterStep, CreateBgd, EditSpec, EditReplicas, DeleteBgd, DropService,
                    DropReplicaSet, RunReplicaSet, PodFailure, CollectGarbage, Inv
  <1>2. \A c \in Colors : /\ rs'[c] # Absent <=> rs[c] # Absent
                          /\ Raised(c)' <=> Raised(c)
    BY ClusterPodStep, PodStepKeeps DEF Inv, RolloutInv, Undisturbed
  <1>3. \A k \in Keys :
          /\ bgd[k] # Absent => bgd'[k] # Absent /\ bgd'[k].color = bgd[k].color
          /\ bgd[k] = Absent /\ bgd'[k] # Absent => bgd'[k].color = NoColor
    BY PeopleKeepColor DEF Inv
  <1>4. UNCHANGED <<pc, key, b>>
    BY DEF workerVars
  <1>5. svc # Absent => svc \in Colors
    BY DEF Inv, TypeInv, ClusterTypeOK
  <1>6. ASSUME NEW w \in Workers PROVE Found(w)' /\ StillServing(w)'
    <2>1. CASE pc[w] \in {"idle", "lister"}
      BY <1>4, <2>1 DEF Found, StillServing, Rolling, Cleared, Filled
    <2>2. CASE pc[w] \notin {"idle", "lister"}
      <3>1. bgd'[key[w]].color = b[w].color
        BY <1>3, <2>2, Busy
      <3>2. Found(w) /\ StillServing(w)
        BY DEF Inv, ServiceInv
      <3>3. {"blue", "green"} \subseteq Colors
        BY DEF Colors
      <3>4. pc[w] \in {"scaleUp", "delete"} \union Rolling => b[w].color \in Colors
        BY Busy, <2>2 DEF Rolling, Cleared, Filled
      <3>5. Found(w)'
        BY <1>1, <1>2, <1>4, <3>1, <3>2, <3>3, <3>4 DEF Found
      <3>6. pc[w] \in Rolling => svc \in Colors
        BY <3>2, <3>4, ColorFacts DEF StillServing
      <3>7. StillServing(w)'
        BY <1>1, <1>2, <1>4, <3>2, <3>6 DEF StillServing
      <3> QED BY <3>5, <3>7
    <2> QED BY <2>1, <2>2
  <1>7. AtRest'
    <2>1. SUFFICES ASSUME \A w \in Workers : pc[w] \notin Rolling PROVE AtRest'
      BY <1>4 DEF AtRest
    <2>2. "blue" \in Colors
      BY DEF Colors
    <2>3. AtRest
      BY DEF Inv, ServiceInv
    <2> QED BY <1>1, <1>2, <1>3, <1>5, <2>1, <2>2, <2>3 DEF AtRest
  <1> QED BY <1>6, <1>7 DEF ServiceInv

----------------------------------------------------------------------------
(* The steps of a worker.                                                  *)

\* A worker that gives its key back when it is not rolling changes nothing.
LEMMA IdleServes ==
  ASSUME Inv, Undisturbed, NEW w \in Workers, pc[w] # "idle", pc[w] \notin Rolling,
         Idle(w), UNCHANGED <<bgd, rs, svc>>
  PROVE  ServiceInv'
  <1>1. pc'[w] = "idle" /\ \A v \in Workers \ {w} : pc'[v] = pc[v]
    BY DEF Idle, Inv, TypeInv, LocalOK, SyncTypeOK
  <1>2. Found(w)' /\ StillServing(w)'
    BY <1>1 DEF Found, StillServing, Rolling, Cleared, Filled
  <1> QED BY <1>1, <1>2, StaysAtRest, OnlyThisOneServes DEF Inv, Undisturbed

\* A worker that moves on needs a look at where it leads.
LEMMA MovesServing ==
  ASSUME Inv, Undisturbed, NEW w \in Workers, NEW l, pc[w] \notin {"idle", "lister"},
         pc' = [pc EXCEPT ![w] = l], UNCHANGED <<bgd, key, b>>,
         l \notin {"idle", "lister", "initStatus"},
         l \in GotBlue => rs'["blue"] # Absent,
         l \in GotGreen => rs'["green"] # Absent,
         l \in {"compare", "flip"} => svc' # Absent,
         l \in {"scaleUp", "delete"} => rs'[b[w].color] # Absent,
         l \in Rolling => /\ svc' = Other(b[w].color)
                          /\ rs'[svc'] # Absent
                          /\ l \in {"waitDown", "updateService"} \/ Raised(svc)',
         l \notin Rolling => AtRest'
  PROVE  ServiceInv'
  <1>1. pc'[w] = l /\ \A v \in Workers \ {w} : pc'[v] = pc[v]
    BY DEF Inv, TypeInv, LocalOK, SyncTypeOK
  <1>2. bgd[key[w]].color = b[w].color
    BY Busy
  <1>3. Found(w)'
    BY <1>1, <1>2 DEF Found
  <1>4. StillServing(w)'
    BY <1>1 DEF StillServing
  <1> QED BY <1>1, <1>3, <1>4, OnlyThisOneServes DEF Inv, Undisturbed

LEMMA ListerServes ==
  ASSUME Inv, Undisturbed, NEW w \in Workers, Lister(w), StartsCurrent
  PROVE  ServiceInv'
  <1>1. pc[w] = "lister" /\ UNCHANGED <<bgd, rs, svc>> /\ pc[w] \notin Rolling
    BY DEF Lister, clusterVars, Rolling, Cleared, Filled
  <1>2. CASE ReturnNil(w)
    BY <1>1, <1>2, IdleServes DEF ReturnNil
  <1>3. CASE /\ cache[key[w]] # Absent
             /\ GotoWith(w, IF cache[key[w]].color = NoColor THEN "initStatus" ELSE "getBlue",
                         cache[key[w]])
    <2> DEFINE obj == cache[key[w]]
               l == IF obj.color = NoColor THEN "initStatus" ELSE "getBlue"
    <2>4. /\ pc'[w] = l /\ b'[w] = obj /\ key'[w] = key[w]
          /\ \A v \in Workers \ {w} : pc'[v] = pc[v]
      BY <1>3 DEF GotoWith, Inv, TypeInv, LocalOK, SyncTypeOK
    <2>3. obj.color = bgd[key[w]].color
      BY <1>1, <2>4 DEF StartsCurrent
    <2>5. Found(w)' /\ StillServing(w)'
      BY <1>1, <2>3, <2>4 DEF Found, StillServing, Rolling, Cleared, Filled
    <2> QED BY <1>1, <2>4, <2>5, StaysAtRest, OnlyThisOneServes DEF Inv, Undisturbed
  <1> QED BY <1>2, <1>3 DEF Lister

LEMMA UpdateNeverFails ==
  ASSUME Inv, Undisturbed, NEW w \in Workers, NEW c \in Colors, NEW next,
         pc[w] \notin {"idle", "lister"},
         UpdateBlueGreenDeployment(w, c, next)
  PROVE  /\ UNCHANGED <<rs, svc>>
         /\ bgd'[key[w]] # Absent /\ bgd'[key[w]].color = c
         /\ pc'[w] = next /\ key'[w] = key[w] /\ b'[w] = bgd'[key[w]]
         /\ \A v \in Workers \ {w} : pc'[v] = pc[v]
  <1>1. key[w] \in Keys /\ bgd[key[w]] \in BlueGreenDeployment /\ bgd[key[w]] # Absent
    BY Busy
  <1> DEFINE new == [bgd[key[w]] EXCEPT !.color = c]
  <1>2. /\ WriteBgd(key[w], new) /\ GotoWith(w, next, new)
        /\ UNCHANGED <<rs, svc>>
    BY <1>1, NoFaults DEF UpdateBlueGreenDeployment, Reply, Inv
  <1>3. new.color = c /\ new \in BlueGreenDeployment
    BY <1>1 DEF BlueGreenDeployment
  <1>4. bgd'[key[w]] = new
    BY <1>1, <1>2 DEF WriteBgd, Inv, TypeInv, ClusterTypeOK
  <1>5. new # Absent
    BY <1>3, ClusterAssumption
  <1> HIDE DEF new
  <1> QED BY <1>2, <1>3, <1>4, <1>5 DEF GotoWith, Inv, TypeInv, LocalOK, SyncTypeOK

LEMMA InitStatusServes ==
  ASSUME Inv, Undisturbed, NEW w \in Workers, InitStatus(w)
  PROVE  ServiceInv'
  <1>1. pc[w] = "initStatus" /\ pc[w] \notin Rolling
    BY DEF InitStatus, Rolling, Cleared, Filled
  <1>2. /\ UNCHANGED <<rs, svc>>
        /\ bgd'[key[w]] # Absent /\ bgd'[key[w]].color = "blue"
        /\ pc'[w] = "getBlue" /\ key'[w] = key[w] /\ b'[w] = bgd'[key[w]]
        /\ \A v \in Workers \ {w} : pc'[v] = pc[v]
    BY <1>1, UpdateNeverFails DEF InitStatus, Colors
  <1>3. bgd[key[w]] # Absent /\ bgd[key[w]].color = NoColor /\ key[w] \in Keys
        /\ \A k \in Keys : k = key[w]
    BY <1>1, Busy DEF Inv, RolloutInv, WorkerState
  <1>4. svc = Absent
    <2>1. svc # Absent => svc \in Colors
      BY DEF Inv, TypeInv, ClusterTypeOK
    <2> QED BY <1>1, <1>3, <2>1, RestsNow, ColorFacts
  <1>5. AtRest'
    <2>1. rs["blue"] # Absent => Raised("blue")
      BY <1>1, <1>4, RestsNow
    <2>2. Raised("blue")' <=> Raised("blue")
      BY <1>2 DEF Raised
    <2> QED BY <1>2, <1>3, <1>4, <2>1, <2>2 DEF AtRest
  <1>6. Found(w)' /\ StillServing(w)'
    BY <1>2 DEF Found, StillServing, Rolling, Cleared, Filled
  <1> QED BY <1>1, <1>2, <1>5, <1>6, OnlyThisOneServes DEF Inv, Undisturbed

\* A new ReplicaSet of the active colour has pods.
LEMMA NewIsRaised ==
  ASSUME TypeInv, SomeReplicas, NEW w \in Workers, pc[w] \notin {"idle", "lister"},
         NEW c \in Colors,
         rs' = [rs EXCEPT ![c] = NewReplicaSet(key[w], b[w], c)]
  PROVE  /\ rs'[c] # Absent
         /\ b[w].color = c => Raised(c)'
         /\ \A d \in Colors \ {c} : rs'[d] = rs[d]
  <1>1. key[w] \in Keys /\ b[w] \in BlueGreenDeployment
    BY HoldsOK DEF TypeInv
  <1>2. NewReplicaSet(key[w], b[w], c) \in ReplicaSet
    BY <1>1, NewReplicaSetType
  <1>3. /\ rs'[c] = NewReplicaSet(key[w], b[w], c)
        /\ \A d \in Colors \ {c} : rs'[d] = rs[d]
    BY DEF TypeInv, ClusterTypeOK
  <1>4. rs'[c] # Absent
    BY <1>2, <1>3, ClusterAssumption
  <1>5. b[w].replicas > 0
    <2>1. b[w].replicas \in ReplicaCounts
      BY <1>1 DEF BlueGreenDeployment
    <2>2. b[w].replicas \in Nat /\ b[w].replicas # 0
      BY <2>1, ClusterAssumption, Zenon DEF SomeReplicas
    <2> QED BY <2>2
  <1>6. b[w].color = c => rs'[c].replicas = b[w].replicas
    BY <1>3 DEF NewReplicaSet
  <1> QED BY <1>3, <1>4, <1>5, <1>6 DEF Raised

\* Before the flip, the ways of createReplicaSetIfNotFound.
LEMMA CreateCases ==
  ASSUME TypeInv, RolloutInv, Faultless, NEW w \in Workers,
         NEW c, NEW get, NEW create, NEW wait, NEW next,
         CreateReplicaSetIfNotFound(w, get, create, wait, c, next)
  PROVE  /\ UNCHANGED <<bgd, svc>>
         /\ \/ pc[w] = get /\ rs[c] # Absent /\ Moves(w, next) /\ UNCHANGED rs
            \/ pc[w] = get /\ rs[c] = Absent /\ Moves(w, create) /\ UNCHANGED rs
            \/ /\ pc[w] = create /\ rs[c] = Absent /\ Moves(w, wait)
               /\ rs' = [rs EXCEPT ![c] = NewReplicaSet(key[w], b[w], c)]
            \/ pc[w] = create /\ rs[c] # Absent /\ Idle(w) /\ UNCHANGED rs
            \/ pc[w] = wait /\ Moves(w, next) /\ UNCHANGED rs
  <1>1. ~ Spend("lostReply")
    BY NoFaults
  <1>2. CASE WaitAllReplicaSetPodsAvailable(w, wait, c,
               NewReplicaSet(key[w], b[w], c).replicas, next)
    <2>1. UNCHANGED svc
      BY <1>2 DEF WaitAllReplicaSetPodsAvailable, apiVars
    <2> QED BY <1>2, <2>1, WaitMoves
  <1>3. CASE ~ WaitAllReplicaSetPodsAvailable(w, wait, c,
               NewReplicaSet(key[w], b[w], c).replicas, next)
    BY <1>1, <1>3 DEF CreateReplicaSetIfNotFound, Refused, ReturnError, Reply, Goto, GotoSeen,
                      Moves, apiVars
  <1> QED BY <1>2, <1>3

LEMMA CreateRests ==
  ASSUME Inv, Undisturbed, NEW w \in Workers,
         pc[w] \notin {"idle", "lister", "initStatus"}, pc[w] \notin Rolling,
         NEW c \in Colors, rs[c] = Absent, UNCHANGED <<bgd, svc>>,
         rs' = [rs EXCEPT ![c] = NewReplicaSet(key[w], b[w], c)]
  PROVE  AtRest'
  <1>1. /\ rs'[c] # Absent
        /\ b[w].color = c => Raised(c)'
        /\ \A d \in Colors \ {c} : rs'[d] = rs[d]
    BY NewIsRaised DEF Inv
  <1>2. /\ bgd[key[w]].color = b[w].color /\ bgd[key[w]] # Absent /\ key[w] \in Keys
        /\ b[w].color \in Colors
    BY Busy
  <1>3. "blue" \in Colors /\ (svc # Absent => svc \in Colors)
    BY DEF Colors, Inv, TypeInv, ClusterTypeOK
  <1>4. CASE svc = Absent
    <2>1. /\ rs["blue"] # Absent => Raised("blue")
          /\ \A k \in Keys : bgd[k] # Absent => bgd[k].color \in {NoColor, "blue"}
      BY <1>4, RestsNow
    <2>2. b[w].color = "blue"
      BY <1>2, <2>1, ColorFacts
    <2>3. rs'["blue"] # Absent => Raised("blue")'
      BY <1>1, <1>3, <2>1, <2>2 DEF Raised
    <2> QED BY <1>4, <2>1, <2>3 DEF AtRest
  <1>5. CASE svc # Absent
    <2>1. Raised(svc) /\ \A k \in Keys : bgd[k] # Absent /\ bgd[k].color = svc
      BY <1>5, RestsNow
    <2>2. Raised(svc)'
      BY <1>1, <1>3, <1>5, <2>1 DEF Raised
    <2> QED BY <1>5, <2>1, <2>2 DEF AtRest
  <1> QED BY <1>4, <1>5

LEMMA CreateReplicaSetsServes ==
  ASSUME Inv, Undisturbed, NEW w \in Workers, CreateReplicaSetsIfNotFound(w)
  PROVE  ServiceInv'
  <1>1. /\ pc[w] \in {"getBlue", "createBlue", "waitBlue", "getGreen", "createGreen", "waitGreen"}
        /\ UNCHANGED <<bgd, svc>>
        /\ \/ /\ UNCHANGED rs
              /\ \/ Idle(w)
                 \/ pc[w] = "getBlue" /\ rs["blue"] # Absent /\ Moves(w, "getGreen")
                 \/ pc[w] = "getBlue" /\ Moves(w, "createBlue")
                 \/ pc[w] = "waitBlue" /\ Moves(w, "getGreen")
                 \/ pc[w] = "getGreen" /\ rs["green"] # Absent /\ Moves(w, "getService")
                 \/ pc[w] = "getGreen" /\ Moves(w, "createGreen")
                 \/ pc[w] = "waitGreen" /\ Moves(w, "getService")
           \/ /\ pc[w] = "createBlue" /\ rs["blue"] = Absent /\ Moves(w, "waitBlue")
              /\ rs' = [rs EXCEPT !["blue"] = NewReplicaSet(key[w], b[w], "blue")]
           \/ /\ pc[w] = "createGreen" /\ rs["green"] = Absent /\ Moves(w, "waitGreen")
              /\ rs' = [rs EXCEPT !["green"] = NewReplicaSet(key[w], b[w], "green")]
    <2>1. CASE CreateReplicaSetIfNotFound(w, "getBlue", "createBlue", "waitBlue", "blue", "getGreen")
      BY <2>1, CreateCases DEF Inv
    <2>2. CASE CreateReplicaSetIfNotFound(w, "getGreen", "createGreen", "waitGreen", "green",
                                          "getService")
      BY <2>2, CreateCases DEF Inv
    <2> QED BY <2>1, <2>2 DEF CreateReplicaSetsIfNotFound
  <1>2. /\ pc[w] \notin Rolling /\ pc[w] # "idle"
        /\ pc[w] \notin {"idle", "lister", "initStatus"}
    BY <1>1 DEF Rolling, Cleared, Filled
  <1>3. Found(w)
    BY DEF Inv, ServiceInv
  <1>4. ASSUME NEW l \in {"createBlue", "getGreen", "createGreen", "getService"},
               Moves(w, l), UNCHANGED rs,
               l # "createBlue" => rs["blue"] # Absent,
               l = "getService" => rs["green"] # Absent
        PROVE  ServiceInv'
    <2>1. AtRest'
      BY <1>1, <1>2, <1>4, StaysAtRest
    <2>2. /\ l \notin Rolling
          /\ l \notin {"idle", "lister", "initStatus", "waitGreen", "createService",
                        "compare", "flip", "scaleUp", "delete"}
      BY <1>4 DEF Rolling, Cleared, Filled
    <2> QED BY <1>1, <1>2, <1>4, <2>1, <2>2, MovesServing DEF Moves
  <1>5. CASE Idle(w) /\ UNCHANGED rs
    BY <1>1, <1>2, <1>5, IdleServes
  <1>6. ASSUME NEW c \in Colors, NEW l, rs[c] = Absent, Moves(w, l),
               c = "blue" => pc[w] = "createBlue" /\ l = "waitBlue",
               c = "green" => pc[w] = "createGreen" /\ l = "waitGreen",
               rs' = [rs EXCEPT ![c] = NewReplicaSet(key[w], b[w], c)]
        PROVE  ServiceInv'
    <2>1. AtRest'
      BY <1>1, <1>2, <1>6, CreateRests
    <2>2. rs'[c] # Absent /\ \A d \in Colors \ {c} : rs'[d] = rs[d]
      BY <1>2, <1>6, NewIsRaised DEF Inv
    <2>3. CASE c = "blue"
      BY <1>1, <1>2, <1>6, <2>1, <2>2, <2>3, MovesServing
         DEF Moves, Rolling, Cleared, Filled
    <2>4. CASE c = "green"
      <3>1. rs["blue"] # Absent /\ rs'["blue"] = rs["blue"]
        BY <1>3, <1>6, <2>2, <2>4 DEF Found, Colors
      <3> QED BY <1>1, <1>2, <1>6, <2>1, <2>2, <2>4, <3>1, MovesServing
              DEF Moves, Rolling, Cleared, Filled
    <2> QED BY <2>3, <2>4 DEF Colors
  <1>7. CASE pc[w] = "getBlue" /\ Moves(w, "createBlue") /\ UNCHANGED rs
    BY <1>4, <1>7
  <1>8. CASE /\ \/ pc[w] = "getBlue" /\ rs["blue"] # Absent
                \/ pc[w] = "waitBlue"
             /\ Moves(w, "getGreen") /\ UNCHANGED rs
    BY <1>3, <1>4, <1>8 DEF Found
  <1>9. CASE pc[w] = "getGreen" /\ Moves(w, "createGreen") /\ UNCHANGED rs
    BY <1>3, <1>4, <1>9 DEF Found
  <1>10. CASE /\ \/ pc[w] = "getGreen" /\ rs["green"] # Absent
                 \/ pc[w] = "waitGreen"
              /\ Moves(w, "getService") /\ UNCHANGED rs
    BY <1>3, <1>4, <1>10 DEF Found
  <1> QED BY <1>1, <1>5, <1>6, <1>7, <1>8, <1>9, <1>10 DEF Colors

LEMMA CreateServiceServes ==
  ASSUME Inv, Undisturbed, NEW w \in Workers, CreateServiceIfNotFound(w)
  PROVE  ServiceInv'
  <1>1. /\ pc[w] \in {"getService", "createService"} /\ pc[w] \notin Rolling
        /\ UNCHANGED <<bgd, rs>>
    BY DEF CreateServiceIfNotFound, Refused, apiVars, Rolling, Cleared, Filled
  <1>2. rs["blue"] # Absent /\ rs["green"] # Absent
    BY <1>1 DEF Inv, ServiceInv, Found
  <1>3. CASE /\ UNCHANGED svc
             /\ Goto(w, IF svc = Absent THEN "createService" ELSE "compare")
    <2>1. AtRest'
      BY <1>1, <1>3, StaysAtRest
    <2> QED BY <1>1, <1>2, <1>3, <2>1, MovesServing DEF Goto, Rolling, Cleared, Filled
  <1>4. CASE svc = Absent /\ svc' = "blue" /\ Goto(w, "compare")
    <2>1. /\ Raised("blue")
          /\ \A k \in Keys : bgd[k] # Absent => bgd[k].color \in {NoColor, "blue"}
      BY <1>1, <1>2, <1>4, RestsNow
    <2>2. /\ bgd[key[w]].color = b[w].color /\ bgd[key[w]] # Absent
          /\ key[w] \in Keys /\ b[w].color \in Colors
          /\ \A k \in Keys : k = key[w]
      BY <1>1, Busy
    <2>3. \A k \in Keys : bgd[k] # Absent /\ bgd[k].color = "blue"
      BY <2>1, <2>2, ColorFacts
    <2>4. svc' # Absent
      BY <1>4, ClusterAssumption DEF Colors
    <2>5. AtRest'
      BY <1>1, <1>4, <2>1, <2>3, <2>4 DEF AtRest, Raised
    <2> QED BY <1>1, <1>2, <1>4, <2>4, <2>5, MovesServing DEF Goto, Rolling, Cleared, Filled
  <1>5. CASE Refused(w)
    BY <1>1, <1>5, IdleServes DEF Refused, ReturnError, apiVars
  <1>6. ~ Spend("lostReply")
    BY NoFaults DEF Inv
  <1> QED
    BY <1>1, <1>3, <1>4, <1>5, <1>6 DEF CreateServiceIfNotFound, Reply, NewService, apiVars

LEMMA CompareServes ==
  ASSUME Inv, Undisturbed, NEW w \in Workers, Compare(w)
  PROVE  ServiceInv'
  <1>1. pc[w] = "compare" /\ pc[w] \notin Rolling /\ UNCHANGED <<bgd, rs, svc>>
    BY DEF Compare, clusterVars, Rolling, Cleared, Filled
  <1>2. rs["blue"] # Absent /\ rs["green"] # Absent /\ svc # Absent
    BY <1>1 DEF Inv, ServiceInv, Found
  <1>3. CASE ReturnNil(w)
    BY <1>1, <1>3, IdleServes DEF ReturnNil
  <1>4. CASE Goto(w, "flip")
    <2>1. AtRest'
      BY <1>1, StaysAtRest
    <2> QED BY <1>1, <1>2, <1>4, <2>1, MovesServing DEF Goto, Rolling, Cleared, Filled
  <1> QED BY <1>3, <1>4 DEF Compare

LEMMA FlipServes ==
  ASSUME Inv, Undisturbed, NEW w \in Workers, Flip(w)
  PROVE  ServiceInv'
  <1>1. pc[w] = "flip" /\ pc[w] \notin Rolling
    BY DEF Flip, Rolling, Cleared, Filled
  <1>2. /\ bgd[key[w]].color = b[w].color /\ b[w].color \in Colors /\ key[w] \in Keys
    BY <1>1, Busy
  <1>3. rs["blue"] # Absent /\ rs["green"] # Absent /\ svc # Absent
    BY <1>1 DEF Inv, ServiceInv, Found
  <1>4. svc = b[w].color /\ Raised(svc)
    BY <1>1, <1>2, <1>3, RestsNow
  <1>5. /\ UNCHANGED <<rs, svc>>
        /\ bgd'[key[w]] # Absent /\ bgd'[key[w]].color = Other(b[w].color)
        /\ pc'[w] \in {"scaleUp", "delete"} /\ key'[w] = key[w] /\ b'[w] = bgd'[key[w]]
        /\ \A v \in Workers \ {w} : pc'[v] = pc[v]
    <2>1. Other(b[w].color) \in Colors
      BY DEF Other, Colors
    <2>2. PICK l \in {"scaleUp", "delete"} :
            UpdateBlueGreenDeployment(w, Other(b[w].color), l)
      BY DEF Flip
    <2> QED BY <1>1, <2>1, <2>2, UpdateNeverFails
  <1>6. Found(w)'
    BY <1>3, <1>5 DEF Found, Other
  <1>7. svc = Other(Other(b[w].color))
    BY <1>2, <1>4 DEF Other, Colors
  <1>8. StillServing(w)'
    BY <1>4, <1>5, <1>7 DEF StillServing, Raised
  <1>9. pc'[w] \in Rolling
    BY <1>5 DEF Rolling
  <1> QED BY <1>1, <1>5, <1>6, <1>8, <1>9, OnlyThisOneServes DEF Inv, Undisturbed

\* Along the rollover, a step that leaves the other ReplicaSet alone.
LEMMA RollsOnServing ==
  ASSUME Inv, Undisturbed, NEW w \in Workers, pc[w] \in Rolling,
         pc[w] \notin {"waitDown", "updateService"},
         NEW l \in Rolling \ {"scaleUp", "delete"}, Moves(w, l), UNCHANGED <<bgd, svc>>,
         rs'[Other(b[w].color)] = rs[Other(b[w].color)]
  PROVE  ServiceInv'
  <1>1. svc = Other(b[w].color) /\ rs[svc] # Absent /\ Raised(svc)
    BY DEF Inv, ServiceInv, StillServing
  <1>2. rs'[svc'] # Absent /\ Raised(svc)'
    BY <1>1 DEF Raised
  <1>3. /\ pc[w] \notin {"idle", "lister"}
        /\ l \notin {"idle", "lister", "initStatus", "waitBlue", "getGreen", "createGreen",
                     "waitGreen", "getService", "createService", "compare", "flip"}
    BY DEF Rolling, Cleared, Filled
  <1> QED BY <1>1, <1>2, <1>3, MovesServing DEF Moves

LEMMA ScaleUpServes ==
  ASSUME Inv, Undisturbed, NEW w \in Workers, ScaleUp(w)
  PROVE  ServiceInv'
  <1>1. pc[w] \in {"scaleUp", "waitUp"} /\ pc[w] \in Rolling
    BY DEF ScaleUp, ScaleReplicaSet, WaitAllReplicaSetPodsAvailable, Rolling, Filled
  <1>2. b[w].color \in Colors /\ Other(b[w].color) # b[w].color
        /\ Other(b[w].color) \in Colors
    BY <1>1, Busy, ColorFacts
  <1>3. ~ Spend("lostReply")
    BY NoFaults DEF Inv
  <1>4. CASE WaitAllReplicaSetPodsAvailable(w, "waitUp", b[w].color, b[w].replicas,
                                            "scaleDown")
    <2>1. Moves(w, "scaleDown") /\ UNCHANGED <<bgd, rs>>
      BY <1>4, WaitMoves
    <2>2. UNCHANGED svc
      BY <1>4 DEF WaitAllReplicaSetPodsAvailable, apiVars
    <2> QED BY <1>1, <2>1, <2>2, RollsOnServing DEF Rolling, Filled
  <1>5. CASE /\ rs' = [rs EXCEPT ![b[w].color] = Scaled(@, b[w].replicas)]
             /\ Goto(w, "waitUp") /\ UNCHANGED <<bgd, svc>>
    <2>1. rs'[Other(b[w].color)] = rs[Other(b[w].color)]
      BY <1>2, <1>5 DEF Inv, TypeInv, ClusterTypeOK
    <2> QED BY <1>1, <1>5, <2>1, RollsOnServing DEF Goto, Moves, Rolling, Filled
  <1>6. pc[w] = "scaleUp" => rs[b[w].color] # Absent
    BY DEF Inv, ServiceInv, Found
  <1> QED BY <1>3, <1>4, <1>5, <1>6 DEF ScaleUp, ScaleReplicaSet, Reply

LEMMA ReplaceServes ==
  ASSUME Inv, Undisturbed, NEW w \in Workers, ReplaceInactiveReplicaSet(w)
  PROVE  ServiceInv'
  <1> DEFINE c == b[w].color
  <1>1. /\ pc[w] \in {"delete", "getNew", "createNew", "waitNew"} /\ pc[w] \in Rolling
    BY DEF ReplaceInactiveReplicaSet, CreateReplicaSetIfNotFound,
           WaitAllReplicaSetPodsAvailable, Rolling, Cleared, Filled
  <1>2. c \in Colors /\ Other(c) # c /\ Other(c) \in Colors
    BY <1>1, Busy, ColorFacts
  <1>3. ~ Spend("lostReply")
    BY NoFaults DEF Inv
  <1>4. CASE rs' = [rs EXCEPT ![c] = Absent] /\ Goto(w, "getNew") /\ UNCHANGED <<bgd, svc>>
    <2>1. rs'[Other(c)] = rs[Other(c)]
      BY <1>2, <1>4 DEF Inv, TypeInv, ClusterTypeOK
    <2> QED BY <1>1, <1>4, <2>1, RollsOnServing DEF Goto, Moves, Rolling, Cleared
  <1>5. pc[w] = "delete" => rs[c] # Absent
    BY DEF Inv, ServiceInv, Found
  <1>6. CASE CreateReplicaSetIfNotFound(w, "getNew", "createNew", "waitNew", c, "scaleDown")
    <2>1. pc[w] \in Cleared => rs[c] = Absent
      BY DEF Inv, RolloutInv, Rollover, RolloverOf
    <2>2. /\ UNCHANGED <<bgd, svc>>
          /\ \/ \E l \in {"createNew", "scaleDown"} : Moves(w, l) /\ UNCHANGED rs
             \/ /\ Moves(w, "waitNew")
                /\ rs' = [rs EXCEPT ![c] = NewReplicaSet(key[w], b[w], c)]
      BY <1>6, <2>1, CreateCases DEF Cleared, Inv
    <2>3. rs'[Other(c)] = rs[Other(c)]
      BY <1>2, <2>2 DEF Inv, TypeInv, ClusterTypeOK
    <2> QED BY <1>1, <2>2, <2>3, RollsOnServing DEF Rolling, Cleared, Filled
  <1> QED BY <1>1, <1>3, <1>4, <1>5, <1>6 DEF ReplaceInactiveReplicaSet, Reply

LEMMA ScaleDownServes ==
  ASSUME Inv, Undisturbed, NEW w \in Workers, ScaleDown(w)
  PROVE  ServiceInv'
  <1> DEFINE c == Other(b[w].color)
  <1>1. pc[w] \in {"scaleDown", "waitDown"} /\ pc[w] \in Rolling
    BY DEF ScaleDown, ScaleReplicaSet, WaitAllReplicaSetPodsAvailable, Rolling, Filled
  <1>2. c \in Colors /\ svc = c /\ rs[c] # Absent
    BY <1>1 DEF Inv, ServiceInv, StillServing, Other, Colors
  <1>3. ~ Spend("lostReply")
    BY NoFaults DEF Inv
  <1>4. ASSUME NEW l \in {"waitDown", "updateService"}, Moves(w, l), UNCHANGED <<bgd, svc>>,
               rs'[c] # Absent
        PROVE  ServiceInv'
    <2>1. l \in Rolling
      BY DEF Rolling, Filled
    <2> QED BY <1>1, <1>2, <1>4, <2>1, MovesServing DEF Moves
  <1>5. CASE WaitAllReplicaSetPodsAvailable(w, "waitDown", c, 0, "updateService")
    <2>1. Moves(w, "updateService") /\ UNCHANGED <<bgd, rs>>
      BY <1>5, WaitMoves
    <2>2. UNCHANGED svc
      BY <1>5 DEF WaitAllReplicaSetPodsAvailable, apiVars
    <2> QED BY <1>2, <1>4, <2>1, <2>2
  <1>6. CASE rs' = [rs EXCEPT ![c] = Scaled(@, 0)] /\ Goto(w, "waitDown")
             /\ UNCHANGED <<bgd, svc>>
    <2>1. rs'[c] = Scaled(rs[c], 0) /\ rs[c] \in ReplicaSet
      BY <1>2, <1>6 DEF Inv, TypeInv, ClusterTypeOK
    <2>2. rs'[c] # Absent
      BY <2>1, ScaledType, ClusterAssumption
    <2> QED BY <1>4, <1>6, <2>2 DEF Goto, Moves
  <1> QED BY <1>2, <1>3, <1>5, <1>6 DEF ScaleDown, ScaleReplicaSet, Reply

LEMMA UpdateServiceServes ==
  ASSUME Inv, Undisturbed, NEW w \in Workers, UpdateService(w)
  PROVE  ServiceInv'
  <1>1. pc[w] = "updateService" /\ pc[w] \in Rolling /\ pc[w] \in Filled
    BY DEF UpdateService, Rolling, Filled
  <1>2. /\ bgd[key[w]].color = b[w].color /\ bgd[key[w]] # Absent
        /\ \A k \in Keys : k = key[w]
        /\ b[w].color \in Colors /\ b[w] \in BlueGreenDeployment
    BY <1>1, Busy
  <1>3. svc # Absent
    <2>1. svc = Other(b[w].color)
      BY <1>1 DEF Inv, ServiceInv, StillServing
    <2> QED BY <1>2, <2>1, ColorFacts, ClusterAssumption
  <1>4. svc' = b[w].color /\ ReturnNil(w) /\ UNCHANGED <<bgd, rs>>
    BY <1>3, NoFaults DEF UpdateService, Inv
  <1>5. Raised(b[w].color)
    <2>1. rs[b[w].color] # Absent /\ rs[b[w].color].replicas = b[w].replicas
      BY <1>1 DEF Inv, RolloutInv, Rollover, RolloverOf
    <2>2. b[w].replicas \in ReplicaCounts
      BY <1>2 DEF BlueGreenDeployment
    <2>3. b[w].replicas \in Nat /\ b[w].replicas # 0
      BY <2>2, ClusterAssumption, Zenon DEF SomeReplicas
    <2> QED BY <2>1, <2>3 DEF Raised
  <1>6. AtRest'
    BY <1>2, <1>4, <1>5, ClusterAssumption DEF AtRest, Raised
  <1>7. pc'[w] = "idle" /\ \A v \in Workers \ {w} : pc'[v] = pc[v]
    BY <1>4 DEF ReturnNil, Idle, Inv, TypeInv, LocalOK, SyncTypeOK
  <1>8. Found(w)' /\ StillServing(w)'
    BY <1>7 DEF Found, StillServing, Rolling, Cleared, Filled
  <1> QED BY <1>1, <1>6, <1>7, <1>8, OnlyThisOneServes DEF Inv, Undisturbed, Rolling, Filled

----------------------------------------------------------------------------
(* Every step keeps it.                                                    *)

LEMMA SyncServes ==
  ASSUME Inv, Undisturbed, NEW w \in Workers, SyncStep(w), StartsCurrent
  PROVE  ServiceInv'
  BY ListerServes, InitStatusServes, CreateReplicaSetsServes, CreateServiceServes,
     CompareServes, FlipServes, ScaleUpServes, ReplaceServes, ScaleDownServes,
     UpdateServiceServes
     DEF SyncStep

LEMMA SameServes ==
  ASSUME ServiceInv, UNCHANGED <<bgd, rs, svc, pc, key, b>>
  PROVE  ServiceInv'
  <1>1. \A w : (Found(w)' <=> Found(w)) /\ (StillServing(w)' <=> StillServing(w))
    BY DEF Found, StillServing, Raised
  <1>2. AtRest' <=> AtRest
    BY DEF AtRest, Raised
  <1> QED BY <1>1, <1>2 DEF ServiceInv

\* A worker that takes a key is not rolling yet.
LEMMA TakesServing ==
  ASSUME Inv, Undisturbed, NEW w \in Workers, NEW k \in Keys, ProcessNextWorkItem(w, k)
  PROVE  ServiceInv'
  <1>1. /\ pc[w] = "idle" /\ pc'[w] = "lister"
        /\ \A v \in Workers \ {w} : pc'[v] = pc[v] /\ key'[v] = key[v]
        /\ UNCHANGED <<bgd, rs, svc, b>>
    BY DEF ProcessNextWorkItem, clusterVars, Inv, TypeInv, LocalOK, SyncTypeOK
  <1>2. ASSUME NEW v \in Workers PROVE Found(v)' /\ StillServing(v)'
    <2>1. CASE v = w
      BY <1>1, <2>1 DEF Found, StillServing, Rolling, Cleared, Filled
    <2>2. CASE v # w
      <3>1. Found(v) /\ StillServing(v)
        BY DEF Inv, ServiceInv
      <3> QED BY <1>1, <2>2, <3>1 DEF Found, StillServing, Raised
    <2> QED BY <2>1, <2>2
  <1>3. AtRest'
    <2>1. (\A v \in Workers : pc'[v] \notin Rolling) => \A v \in Workers : pc[v] \notin Rolling
      BY <1>1 DEF Rolling, Cleared, Filled
    <2>2. AtRest
      BY DEF Inv, ServiceInv
    <2> QED BY <1>1, <2>1, <2>2 DEF AtRest, Raised
  <1> QED BY <1>2, <1>3 DEF ServiceInv

LEMMA NextServes ==
  ASSUME Inv, Undisturbed, [Next]_vars, [StartsCurrent]_vars
  PROVE  ServiceInv'
  <1>0. ServiceInv
    BY DEF Inv
  <1>1. CASE ClusterStep /\ UNCHANGED <<cache, queueVars, workerVars>>
    BY <1>1, ClusterServes
  <1>2. CASE \E w \in Workers : SyncStep(w)
    <2>1. CASE UNCHANGED vars
      BY <1>0, <2>1, SameServes DEF vars
    <2> QED BY <1>2, <2>1, SyncServes
  <1>3. CASE (\E w \in Workers : ApiError(w)) \/ Crash
    BY <1>3, NoFaults DEF ApiError, Crash, Inv
  <1>4. CASE \E w \in Workers, k \in Keys : ProcessNextWorkItem(w, k)
    BY <1>4, TakesServing
  <1>5. CASE \E k \in Keys : Deliver(k) \/ Resync(k) \/ HandleObject(k) \/ Retry(k)
    BY <1>0, <1>5, SameServes
       DEF Deliver, Resync, HandleObject, Retry, clusterVars, apiVars, workerVars
  <1>6. CASE UNCHANGED vars
    BY <1>0, <1>6, SameServes DEF vars
  <1> QED
    BY <1>1, <1>2, <1>3, <1>4, <1>5, <1>6 DEF Next, ControllerStep

LEMMA ServiceInit == Init => ServiceInv
  BY DEF Init, ClusterInit, SyncInit, ServiceInv, Found, StillServing, AtRest, Rolling,
         Cleared, Filled, Raised, Colors

(* In rollouts in which no call fails, and no sync starts from a version   *)
(* with another colour than the stored one, workers and cluster stay in    *)
(* step: what a worker has got is there, and the Service is at the active colour  *)
(* at rest and at the other one, with its pods, while a worker rolls over.  *)
THEOREM ServiceInvHolds ==
  ASSUME Undisturbed
  PROVE  Spec /\ AlwaysStartsCurrent => []ServiceInv
  <1>1. /\ TypeInv /\ RolloutInv /\ ServiceInv
        /\ [Next]_vars /\ [StartsCurrent]_vars
        => ServiceInv'
    BY NextServes DEF Inv
  <1>2. Spec => []RolloutInv
    BY RolloutInvHolds DEF Undisturbed
  <1> QED
    BY <1>1, <1>2, ServiceInit, TypeInvHolds, PTL DEF Spec, AlwaysStartsCurrent

----------------------------------------------------------------------------
(* What the invariant is for.                                              *)

\* The ReplicaSet of a worker's colour is meant to have pods.
LEMMA FilledIsRaised ==
  ASSUME Inv, Undisturbed, NEW w \in Workers, pc[w] \in Filled
  PROVE  Raised(b[w].color)
  <1>1. pc[w] \notin {"idle", "lister"}
    BY DEF Filled
  <1>2. b[w].replicas \in ReplicaCounts
    BY <1>1, Busy DEF BlueGreenDeployment
  <1>3. b[w].replicas \in Nat /\ b[w].replicas # 0
    BY <1>2, ClusterAssumption, Zenon DEF SomeReplicas
  <1>4. RolloverOf(w)
    BY DEF Inv, RolloutInv, Rollover
  <1> QED BY <1>3, <1>4 DEF RolloverOf, Raised

(* Whoever sends traffic finds the Service at a ReplicaSet that is meant to *)
(* have pods, but for the moment between scaling the old one down and       *)
(* moving the Service (controller.go:430-446): as long as no call fails and *)
(* no sync starts from a version with another colour than the stored one.   *)
THEOREM ServiceBackedHolds ==
  ASSUME Undisturbed
  PROVE  Spec /\ AlwaysStartsCurrent => []ServiceBacked
  <1>1. ASSUME Inv PROVE ServiceBacked
    <2>1. CASE \A w \in Workers : pc[w] \notin Rolling
      BY <1>1, <2>1 DEF Inv, ServiceInv, AtRest, ServiceBacked
    <2>2. ASSUME NEW w \in Workers, pc[w] \in Rolling PROVE ServiceBacked
      BY <1>1, <2>2 DEF Inv, ServiceInv, StillServing, ServiceBacked, Switching
    <2> QED BY <2>1, <2>2
  <1>2. TypeInv /\ RolloutInv /\ ServiceInv => ServiceBacked
    BY <1>1 DEF Inv
  <1>3. Spec => []RolloutInv
    BY RolloutInvHolds DEF Undisturbed
  <1> QED
    BY <1>2, <1>3, ServiceInvHolds, TypeInvHolds, PTL

\* A creation or a scaling deletes nothing.
LEMMA CreateKeeps ==
  ASSUME Inv, NEW w \in Workers, pc[w] \in Mid, NEW d \in Colors,
         NEW get, NEW create, NEW wait, NEW next,
         CreateReplicaSetIfNotFound(w, get, create, wait, d, next),
         NEW c \in Colors, rs[c] # Absent
  PROVE  rs'[c] # Absent
  <1>1. rs' = rs \/ (rs[d] = Absent /\ rs' = [rs EXCEPT ![d] = NewReplicaSet(key[w], b[w], d)])
    BY DEF CreateReplicaSetIfNotFound, WaitAllReplicaSetPodsAvailable, Refused, apiVars
  <1> QED BY <1>1 DEF Inv, TypeInv, ClusterTypeOK

LEMMA ScaleKeeps ==
  ASSUME Inv, NEW w, NEW d \in Colors, NEW n \in ReplicaCounts \union {0},
         NEW scale, NEW wait, NEW next, ScaleReplicaSet(w, scale, wait, d, n, next),
         NEW c \in Colors, rs[c] # Absent
  PROVE  rs'[c] # Absent
  <1>0. rs \in [Colors -> ReplicaSet \union {Absent}]
    BY DEF Inv, TypeInv, ClusterTypeOK
  <1>1. rs' = rs \/ (rs[d] # Absent /\ rs' = [rs EXCEPT ![d] = Scaled(rs[d], n)])
    BY DEF ScaleReplicaSet, WaitAllReplicaSetPodsAvailable, Refused, apiVars
  <1>2. rs[d] # Absent => Scaled(rs[d], n) \in ReplicaSet
    BY <1>0, ScaledType
  <1>3. rs[d] # Absent => Scaled(rs[d], n) # Absent
    BY <1>2, ClusterAssumption
  <1> HIDE DEF Scaled
  <1> QED BY <1>0, <1>1, <1>3

\* A ReplicaSet is deleted by a rollout that makes room for a new one.
LEMMA OnlyReplaceDeletes ==
  ASSUME Inv, Undisturbed, [Next]_vars, NEW c \in Colors, rs[c] # Absent, rs'[c] = Absent
  PROVE  \E w \in Workers : pc[w] = "delete" /\ c = b[w].color
  <1>1. CASE ClusterStep
    <2>1. PodStep(c)
      BY <1>1, ClusterPodStep DEF Inv, RolloutInv, Undisturbed
    <2> QED BY <2>1, PodStepKeeps
  <1>2. ASSUME NEW w \in Workers, SyncStep(w)
        PROVE  pc[w] = "delete" /\ c = b[w].color
    <2>1. CASE \/ Lister(w) \/ InitStatus(w) \/ CreateServiceIfNotFound(w)
               \/ Compare(w) \/ Flip(w) \/ UpdateService(w)
      BY <2>1 DEF Lister, InitStatus, CreateServiceIfNotFound, Compare, Flip,
                  UpdateService, UpdateBlueGreenDeployment, Refused, apiVars, clusterVars
    <2>2. CASE CreateReplicaSetsIfNotFound(w)
      <3>1. pc[w] \in Mid
        BY <2>2, MidFacts DEF CreateReplicaSetsIfNotFound, CreateReplicaSetIfNotFound,
                              WaitAllReplicaSetPodsAvailable, Calls, Polls
      <3>2. {"blue", "green"} \subseteq Colors
        BY DEF Colors
      <3> QED BY <2>2, <3>1, <3>2, CreateKeeps DEF CreateReplicaSetsIfNotFound
    <2>3. CASE ScaleUp(w)
      <3>1. pc[w] \in {"scaleUp", "waitUp"}
        BY <2>3 DEF ScaleUp, ScaleReplicaSet, WaitAllReplicaSetPodsAvailable
      <3>2. b[w].color \in Colors /\ b[w].replicas \in ReplicaCounts
        BY <3>1, Busy DEF BlueGreenDeployment
      <3> QED BY <2>3, <3>2, ScaleKeeps DEF ScaleUp
    <2>4. CASE ReplaceInactiveReplicaSet(w)
      <3>1. pc[w] \in Mid /\ pc[w] \notin {"idle", "lister", "initStatus"}
        BY <2>4, MidFacts DEF ReplaceInactiveReplicaSet, CreateReplicaSetIfNotFound,
                              WaitAllReplicaSetPodsAvailable, Calls, Polls
      <3>2. b[w].color \in Colors
        BY <3>1, Busy
      <3>3. CASE CreateReplicaSetIfNotFound(w, "getNew", "createNew", "waitNew",
                                            b[w].color, "scaleDown")
        BY <3>1, <3>2, <3>3, CreateKeeps
      <3>4. CASE pc[w] = "delete" /\ (rs' = [rs EXCEPT ![b[w].color] = Absent] \/ Refused(w))
        BY <3>2, <3>4 DEF Refused, apiVars, Inv, TypeInv, ClusterTypeOK
      <3> QED BY <2>4, <3>3, <3>4 DEF ReplaceInactiveReplicaSet
    <2>5. CASE ScaleDown(w)
      <3>1. Other(b[w].color) \in Colors
        BY DEF Other, Colors
      <3> QED BY <2>5, <3>1, ScaleKeeps DEF ScaleDown
    <2> QED BY <1>2, <2>1, <2>2, <2>3, <2>4, <2>5 DEF SyncStep
  <1>3. CASE \/ \E w \in Workers : ApiError(w)
             \/ \E w \in Workers, k \in Keys : ProcessNextWorkItem(w, k)
             \/ \E k \in Keys : Deliver(k) \/ Resync(k) \/ HandleObject(k) \/ Retry(k)
             \/ Crash
             \/ UNCHANGED vars
    BY <1>3 DEF ApiError, ProcessNextWorkItem, Deliver, Resync, HandleObject, Retry,
                Crash, vars, apiVars, clusterVars
  <1> QED BY <1>1, <1>2, <1>3 DEF Next, ControllerStep

(* The ReplicaSet that the Service selects is never deleted: the one that   *)
(* makes room for a new ReplicaSet (controller.go:374) is the other one, as *)
(* long as no call fails and no sync starts from a version with another     *)
(* colour than the stored one.                                              *)
THEOREM ServingIsNotDeletedHolds ==
  ASSUME Undisturbed
  PROVE  Spec /\ AlwaysStartsCurrent => ServingIsNotDeleted
  <1> DEFINE Serves == \A c \in Colors : rs[c] # Absent /\ rs'[c] = Absent => svc # c
  <1>1. ASSUME Inv, [Next]_vars PROVE Serves
    <2> SUFFICES ASSUME NEW c \in Colors, rs[c] # Absent, rs'[c] = Absent PROVE svc # c
      OBVIOUS
    <2>1. PICK w \in Workers : pc[w] = "delete" /\ c = b[w].color
      BY <1>1, OnlyReplaceDeletes
    <2>2. svc = Other(c)
      BY <1>1, <2>1 DEF Inv, ServiceInv, StillServing, Rolling
    <2> QED BY <2>2, ColorFacts
  <1> HIDE DEF Serves
  <1>2. TypeInv /\ RolloutInv /\ ServiceInv /\ [Next]_vars => [Serves]_vars
    BY <1>1 DEF Inv
  <1>3. Spec => []RolloutInv
    BY RolloutInvHolds DEF Undisturbed
  <1>4. Spec /\ AlwaysStartsCurrent => [][Serves]_vars
    BY <1>2, <1>3, ServiceInvHolds, TypeInvHolds, PTL DEF Spec
  <1> QED BY <1>4 DEF ServingIsNotDeleted, Serves
=============================================================================
