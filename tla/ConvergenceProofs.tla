-------------------------- MODULE ConvergenceProofs --------------------------
(***************************************************************************)
(* What becomes of the colours of a status, that the Service has a         *)
(* ReplicaSet whatever old versions syncs start from, and that a           *)
(* controller with nothing left to do has done it all: theorems for any    *)
(* number of workers and edits, any defaulting and, but for a condition    *)
(* stated below, any hash.                                                 *)
(***************************************************************************)
EXTENDS ServiceProofs

----------------------------------------------------------------------------
(* The status, whatever fails and however many keys there are.             *)

LEMMA NextHolds ==
  ASSUME TypeInv, [Next]_vars
  PROVE  \A v \in Workers : HoldStep(v)
  <1>0. SyncTypeOK
    BY DEF TypeInv, LocalOK
  <1>1. CASE ClusterStep /\ UNCHANGED <<cache, queueVars, workerVars>>
    BY <1>1, RestHolds
  <1>2. CASE \E w \in Workers : SyncStep(w)
    BY <1>2, SyncSummary DEF Summary
  <1>3. CASE \E w \in Workers : ApiError(w)
    BY <1>0, <1>3, IdleHolds, RestartHolds DEF ApiError, ReturnError
  <1>4. CASE \E w \in Workers, k \in Keys : ProcessNextWorkItem(w, k)
    BY <1>0, <1>4 DEF ProcessNextWorkItem, SyncTypeOK, HoldStep
  <1>5. CASE \E k \in Keys : Deliver(k) \/ Resync(k) \/ HandleObject(k) \/ Retry(k)
    BY <1>5, RestHolds DEF Deliver, Resync, HandleObject, Retry
  <1>6. CASE Crash
    BY <1>6, RestartHolds DEF Crash
  <1>7. CASE UNCHANGED vars
    BY <1>7, RestHolds DEF vars, workerVars
  <1> QED
    BY <1>1, <1>2, <1>3, <1>4, <1>5, <1>6, <1>7 DEF Next, ControllerStep

(* Without a lag a sync starts from the stored version, so that what holds *)
(* of behaviours in which every sync starts from the stored colour, as that *)
(* ServiceBacked does, holds of all of them (Rollouts.cfg).                *)
LEMMA StartsCurrentWithoutLag ==
  ASSUME MaxLag = 0
  PROVE  Spec => AlwaysStartsCurrent
  <1>1. ASSUME TypeInv, CacheCatchesUp, [Next]_vars PROVE StartsCurrent
    <2> SUFFICES ASSUME NEW w \in Workers, pc[w] = "lister", pc'[w] \notin {"idle", "lister"}
                 PROVE  b'[w].color = bgd[key[w]].color
      BY DEF StartsCurrent
    <2>1. Lister(w) /\ b'[w] = cache[key[w]]
      BY <1>1, NextHolds DEF HoldStep
    <2>2. key[w] \in Keys
      BY <1>1 DEF TypeInv, LocalOK, WorkerState, SyncTypeOK
    <2>3. watch[key[w]] \in Seq(BlueGreenDeployment \union {Absent})
      BY <1>1, <2>2 DEF TypeInv, ClusterTypeOK
    <2>4. watch[key[w]] = << >>
      BY <2>1, <2>3 DEF Lister
    <2>5. cache[key[w]] = bgd[key[w]]
      BY <1>1, <2>2, <2>4 DEF CacheCatchesUp, Latest
    <2> QED BY <2>1, <2>5
  <1>2. TypeInv /\ CacheCatchesUp /\ [Next]_vars => [StartsCurrent]_vars
    BY <1>1
  <1> QED BY <1>2, TypeInvHolds, CacheCatchesUpHolds, PTL DEF Spec, AlwaysStartsCurrent

\* Events stay within their budget.
LEMMA SpendingHolds == Spec => []Spending
  <1>1. Init => Spending
    BY ClusterAssumption DEF Init, ClusterInit, Spending
  <1>2. TypeInv /\ Spending /\ [Next]_vars => Spending'
    BY SpendingKept
  <1> QED BY <1>1, <1>2, TypeInvHolds, PTL DEF Spec

\* A write changes the object of one key.
LEMMA WritesOne ==
  ASSUME TypeInv, NEW l \in Keys, NEW obj \in BlueGreenDeployment, Writes(l, obj),
         NEW k \in Keys
  PROVE  /\ obj # Absent
         /\ bgd'[k] = IF k = l THEN obj ELSE bgd[k]
         /\ watch'[k] = IF k = l /\ obj # bgd[k] THEN Append(watch[k], obj) ELSE watch[k]
         /\ UNCHANGED cache
  BY ClusterAssumption DEF Writes, WriteBgd, TypeInv, ClusterTypeOK

\* A colour that is set is not taken back, and the first one is blue.
LEMMA StoredFollows ==
  ASSUME TypeInv, Spending, Budget["delete"] = 0, ColorsStay, VersionStep, NEW k \in Keys
  PROVE  /\ bgd[k] # Absent => bgd'[k] # Absent
         /\ bgd[k] # Absent /\ bgd'[k].color = NoColor => bgd[k].color = NoColor
         /\ Follows(bgd'[k], bgd[k])
  <1>1. ASSUME NEW l \in Keys, NEW obj \in BlueGreenDeployment, Writes(l, obj)
        PROVE  /\ bgd[k] # Absent => bgd'[k] # Absent
               /\ bgd[k] # Absent /\ bgd'[k].color = NoColor => bgd[k].color = NoColor
               /\ Follows(bgd'[k], bgd[k])
    <2>1. CASE k # l \/ bgd[k] = Absent
      BY <1>1, <2>1, WritesOne DEF Follows
    <2>2. CASE k = l /\ bgd[k] # Absent
      <3>1. bgd'[k] = obj /\ obj # Absent
        BY <1>1, <2>2, WritesOne
      <3>2. CASE obj.color = bgd[k].color
        BY <2>2, <3>1, <3>2 DEF Follows
      <3>3. ASSUME NEW w \in Workers, key[w] = k, pc[w] \in {"initStatus", "flip"},
                   obj.color = NewColor(w)
            PROVE  obj.color \in Colors /\ (bgd[k].color = NoColor => obj.color = "blue")
        <4>1. CASE pc[w] = "initStatus"
          BY <3>3, <4>1 DEF NewColor, Colors
        <4>2. CASE pc[w] = "flip"
          <5>1. b[w] \in BlueGreenDeployment /\ b[w].color \in Colors
            BY <4>2, HoldsOK, MidFacts DEF TypeInv, Calls
          <5>2. NotAhead(k, b[w])
            BY <3>3, <4>2 DEF ColorsStay
          <5>3. bgd[k].color # NoColor
            BY <5>1, <5>2, ColorFacts, ClusterAssumption DEF NotAhead
          <5> QED BY <3>3, <4>2, <5>1, <5>3, ColorFacts DEF NewColor
        <4> QED BY <3>3, <4>1, <4>2
      <3> QED BY <1>1, <2>2, <3>1, <3>2, <3>3, ColorFacts DEF Writes, Follows
    <2> QED BY <2>1, <2>2
  <1>2. ASSUME NEW l \in Keys, DeleteBgd(l) PROVE FALSE
    BY <1>2, SpentUp DEF DeleteBgd, Spend, Events
  <1>3. ASSUME UNCHANGED bgd
        PROVE  /\ bgd[k] # Absent => bgd'[k] # Absent
               /\ bgd[k] # Absent /\ bgd'[k].color = NoColor => bgd[k].color = NoColor
               /\ Follows(bgd'[k], bgd[k])
    BY <1>3 DEF Follows
  <1> QED BY <1>1, <1>2, <1>3 DEF VersionStep, Deliver, apiVars

LEMMA StaysNotAhead ==
  ASSUME TypeInv, Spending, Budget["delete"] = 0, ColorsStay, VersionStep, NEW k \in Keys,
         NEW obj, NotAhead(k, obj)
  PROVE  /\ obj # Absent => bgd'[k] # Absent
         /\ obj # Absent /\ bgd'[k].color = NoColor => obj.color = NoColor
  BY StoredFollows DEF NotAhead

LEMMA ColorsStayKept ==
  ASSUME TypeInv, Spending, CacheCatchesUp, Budget["delete"] = 0, ColorsStay,
         VersionStep, \A v \in Workers : HoldStep(v)
  PROVE  ColorsStay'
  <1> DEFINE Obj == BlueGreenDeployment \union {Absent}
             Before(k, i) == IF i = 1 THEN cache[k] ELSE watch[k][i - 1]
  <1>0. \A k \in Keys : watch[k] \in Seq(Obj)
    BY DEF TypeInv, ClusterTypeOK
  <1> DEFINE NotAheadThen(k, obj) ==
        obj # Absent => bgd'[k] # Absent /\ (bgd'[k].color = NoColor => obj.color = NoColor)
  <1>1. ASSUME NEW k \in Keys, NEW obj, NotAhead(k, obj) \/ obj = bgd'[k]
        PROVE  NotAheadThen(k, obj)
    BY <1>1, StaysNotAhead DEF NotAhead
  <1> DEFINE Good(k) == /\ NotAhead(k, cache[k])
                        /\ \A i \in 1 .. Len(watch[k]) :
                             NotAhead(k, watch[k][i]) /\ Follows(watch[k][i], Before(k, i))
  <1>2. ASSUME NEW k \in Keys PROVE Good(k)'
    <2>0. Good(k)
      BY DEF ColorsStay
    <2>1. CASE cache'[k] = cache[k] /\ watch'[k] = watch[k]
      <3>1. NotAhead(k, cache[k])'
        BY <1>1, <2>0, <2>1 DEF NotAhead
      <3>2. ASSUME NEW i \in 1 .. Len(watch'[k])
            PROVE  NotAhead(k, watch[k][i])' /\ Follows(watch'[k][i], Before(k, i)')
        <4>1. NotAhead(k, watch[k][i]) /\ Follows(watch[k][i], Before(k, i))
          BY <2>0, <2>1
        <4>2. watch'[k][i] = watch[k][i] /\ Before(k, i)' = Before(k, i)
          BY <2>1
        <4> QED BY <1>1, <4>1, <4>2 DEF NotAhead
      <3> QED BY <3>1, <3>2 DEF Follows
    <2>2. CASE cache'[k] = cache[k] /\ watch'[k] = Append(watch[k], bgd'[k])
      <3>1. NotAhead(k, cache[k])'
        BY <1>1, <2>0, <2>2 DEF NotAhead
      <3>2. ASSUME NEW i \in 1 .. Len(watch'[k])
            PROVE  NotAhead(k, watch[k][i])' /\ Follows(watch'[k][i], Before(k, i)')
        <4>1. CASE i \in 1 .. Len(watch[k])
          <5>1. NotAhead(k, watch[k][i]) /\ Follows(watch[k][i], Before(k, i))
            BY <2>0, <4>1
          <5>2. watch'[k][i] = watch[k][i] /\ Before(k, i)' = Before(k, i)
            BY <1>0, <2>2, <4>1
          <5> QED BY <1>1, <5>1, <5>2 DEF NotAhead
        <4>2. CASE i = Len(watch[k]) + 1
          <5>1. watch'[k][i] = bgd'[k]
            BY <1>0, <2>2, <4>2
          <5>2. Before(k, i)' = Latest(k)
            BY <1>0, <2>2, <4>2 DEF Latest
          <5>3. Latest(k) = bgd[k]
            BY DEF CacheCatchesUp
          <5>4. Follows(bgd'[k], bgd[k])
            BY StoredFollows
          <5> QED BY <1>1, <5>1, <5>2, <5>3, <5>4 DEF NotAhead
        <4> QED BY <1>0, <2>2, <3>2, <4>1, <4>2
      <3> QED BY <3>1, <3>2 DEF Follows
    <2>3. CASE Deliver(k)
      <3>1. watch[k] # << >> /\ watch'[k] = Tail(watch[k]) /\ cache'[k] = Head(watch[k])
        BY <2>3 DEF Deliver, TypeInv, ClusterTypeOK, LocalOK, SyncTypeOK
      <3>2. 1 \in 1 .. Len(watch[k]) /\ cache'[k] = watch[k][1]
        BY <1>0, <3>1
      <3>3. NotAhead(k, cache[k])'
        BY <1>1, <2>0, <3>2 DEF NotAhead
      <3>4. ASSUME NEW i \in 1 .. Len(watch'[k])
            PROVE  NotAhead(k, watch[k][i])' /\ Follows(watch'[k][i], Before(k, i)')
        <4>0. /\ i + 1 \in 1 .. Len(watch[k]) /\ watch'[k][i] = watch[k][i + 1]
              /\ i # 1 => watch'[k][i - 1] = watch[k][i]
              /\ i \in Nat /\ i # 0
          BY <1>0, <3>1
        <4>1. Before(k, i)' = Before(k, i + 1)
          BY <3>2, <4>0
        <4>2. NotAhead(k, watch[k][i + 1]) /\ Follows(watch[k][i + 1], Before(k, i + 1))
          BY <2>0, <4>0
        <4> HIDE DEF Before
        <4> QED BY <1>1, <4>0, <4>1, <4>2 DEF NotAhead
      <3> QED BY <3>3, <3>4 DEF Follows
    <2>4. CASE Restart /\ UNCHANGED bgd
      BY <2>4 DEF Restart, NotAhead
    <2>5. ASSUME NEW l \in Keys, NEW obj \in BlueGreenDeployment, Writes(l, obj)
          PROVE  Good(k)'
      BY <2>1, <2>2, <2>5, WritesOne
    <2>6. ASSUME NEW l \in Keys, Deliver(l) PROVE Good(k)'
      <3>1. k # l => cache'[k] = cache[k] /\ watch'[k] = watch[k]
        BY <2>6 DEF Deliver, TypeInv, ClusterTypeOK, LocalOK, SyncTypeOK
      <3> QED BY <2>1, <2>3, <2>6, <3>1
    <2>7. ASSUME NEW l \in Keys, DeleteBgd(l) PROVE FALSE
      BY <2>7, SpentUp DEF DeleteBgd, Spend, Events
    <2> HIDE DEF Good
    <2> QED BY <2>1, <2>4, <2>5, <2>6, <2>7 DEF VersionStep
  <1>3. ASSUME NEW w \in Workers, pc'[w] \notin {"idle", "lister"}
        PROVE  NotAhead(key[w], b[w])'
    <2>1. HoldStep(w)
      OBVIOUS
    <2>2. pc[w] # "idle" /\ key'[w] = key[w]
      BY <1>3, <2>1 DEF HoldStep, Lister
    <2>3. key[w] \in Keys
      BY <2>2 DEF TypeInv, LocalOK, WorkerState, SyncTypeOK
    <2>4. \/ NotAhead(key[w], b[w]) /\ b'[w] = b[w]
          \/ NotAhead(key[w], cache[key[w]]) /\ b'[w] = cache[key[w]]
          \/ b'[w] = bgd'[key[w]]
      BY <1>3, <2>1, <2>3 DEF HoldStep, ColorsStay
    <2>5. NotAheadThen(key[w], b'[w])
      <3>1. \A obj : NotAhead(key[w], obj) \/ obj = bgd'[key[w]] => NotAheadThen(key[w], obj)
        BY <1>1, <2>3
      <3> HIDE DEF NotAheadThen
      <3> QED BY <2>4, <3>1
    <2> QED BY <2>2, <2>5 DEF NotAhead
  <1> QED BY <1>2, <1>3 DEF ColorsStay

\* With NotYetFlipped, what is kept where a sync starts from at most the version
\* before the stored one.
StatusInv == (Budget["delete"] = 0 => ColorsStay) /\ NotYetFlipped

\* The version a sync starts from is at most one behind.
LEMMA StartsFresh ==
  ASSUME TypeInv, CacheCatchesUp, FreshEnough, StatusInv, NEW w \in Workers, Lister(w),
         cache[key[w]] # Absent, cache[key[w]].color = NoColor
  PROVE  bgd[key[w]] # Absent => bgd[key[w]].color \in {NoColor, "blue"}
  <1> DEFINE k == key[w]
  <1>1. k \in Keys
    BY DEF Lister, TypeInv, LocalOK, WorkerState, SyncTypeOK
  <1>2. watch[k] \in Seq(BlueGreenDeployment \union {Absent}) /\ Latest(k) = bgd[k]
    BY <1>1 DEF TypeInv, ClusterTypeOK, CacheCatchesUp
  <1>3. CASE watch[k] = << >>
    BY <1>2, <1>3 DEF Latest
  <1>4. CASE watch[k] # << >>
    <2>0. Len(watch[k]) =< MaxLag
      BY DEF Lister
    <2>1. MaxLag =< 1 /\ Budget["delete"] = 0 /\ Len(watch[k]) = 1
      <3>1. Len(watch[k]) \in Nat /\ Len(watch[k]) # 0
        BY <1>2, <1>4
      <3> DEFINE n == Len(watch[k])
      <3>2. n \in Nat /\ n # 0 /\ n =< MaxLag /\ MaxLag \in Nat
        BY <2>0, <3>1, SyncAssumption
      <3>3. MaxLag = 0 \/ (MaxLag =< 1 /\ Budget["delete"] = 0)
        BY DEF FreshEnough
      <3> HIDE DEF n
      <3>4. MaxLag # 0
        BY <3>2
      <3>5. MaxLag =< 1 /\ Budget["delete"] = 0
        BY <3>3, <3>4
      <3>6. n = 1
        BY <3>2, <3>5
      <3> QED BY <3>5, <3>6 DEF n
    <2>2. bgd[k] = watch[k][1] /\ Follows(watch[k][1], cache[k])
      BY <1>1, <1>2, <1>4, <2>1 DEF Latest, StatusInv, ColorsStay
    <2> QED BY <2>2 DEF Follows
  <1> QED BY <1>3, <1>4

LEMMA NotYetFlippedKept ==
  ASSUME TypeInv, TypeInv', CacheCatchesUp, FreshEnough, StatusInv,
         VersionStep, \A v \in Workers : HoldStep(v)
  PROVE  NotYetFlipped'
  <1> SUFFICES ASSUME NEW w \in Workers, pc'[w] = "initStatus", bgd'[key'[w]] # Absent
               PROVE  bgd'[key'[w]].color \in {NoColor, "blue"}
    BY DEF NotYetFlipped
  <1> DEFINE k == key[w]
  <1>1. HoldStep(w) /\ b'[w].color = NoColor
    BY DEF TypeInv, LocalOK, WorkerState
  <1>2. key'[w] = k /\ pc[w] # "idle"
    BY <1>1 DEF HoldStep, Lister
  <1>3. k \in Keys
    BY <1>2 DEF TypeInv, LocalOK, WorkerState, SyncTypeOK
  <1>4. CASE pc[w] \notin {"idle", "lister"} /\ b'[w] = b[w]
    <2>1. pc[w] = "initStatus"
      BY <1>1, <1>4, ColorFacts DEF TypeInv, LocalOK, WorkerState
    <2>2. bgd[k] # Absent => bgd[k].color \in {NoColor, "blue"}
      BY <2>1 DEF StatusInv, NotYetFlipped
    <2>3. ASSUME NEW l \in Keys, NEW obj \in BlueGreenDeployment, Writes(l, obj)
          PROVE  bgd'[k].color \in {NoColor, "blue"}
      <3>1. CASE l # k
        BY <1>2, <1>3, <2>2, <2>3, <3>1, WritesOne
      <3>2. CASE l = k
        <4>1. bgd'[k] = obj
          BY <2>3, <3>2, WritesOne
        <4>2. ASSUME NEW u \in Workers, key[u] = k, pc[u] \in {"initStatus", "flip"},
                     obj.color = NewColor(u)
              PROVE  obj.color = "blue"
          <5>1. u = w
            BY <4>2 DEF TypeInv, LocalOK, ExclusiveSync
          <5> QED BY <2>1, <4>2, <5>1 DEF NewColor
        <4> QED BY <2>2, <2>3, <3>2, <4>1, <4>2 DEF Writes
      <3> QED BY <3>1, <3>2
    <2>4. ASSUME NEW l \in Keys, DeleteBgd(l) PROVE bgd'[k].color \in {NoColor, "blue"}
      <3>1. bgd'[k] = IF k = l THEN Absent ELSE bgd[k]
        BY <1>3, <2>4 DEF DeleteBgd, WriteBgd, TypeInv, ClusterTypeOK
      <3> QED BY <1>2, <2>2, <3>1
    <2>5. UNCHANGED bgd => bgd'[k].color \in {NoColor, "blue"}
      BY <1>2, <2>2
    <2> QED BY <1>2, <2>3, <2>4, <2>5 DEF VersionStep, Deliver, apiVars
  <1>5. CASE Lister(w) /\ cache[k] # Absent /\ b'[w] = cache[k]
    <2>1. UNCHANGED bgd
      BY <1>5 DEF Lister, clusterVars
    <2> QED BY <1>1, <1>2, <1>5, <2>1, StartsFresh
  <1>6. CASE b'[w] = bgd'[k]
    BY <1>1, <1>2, <1>6
  <1> QED BY <1>1, <1>4, <1>5, <1>6 DEF HoldStep

LEMMA NotYetFlippedHolds ==
  ASSUME FreshEnough
  PROVE  Spec => []NotYetFlipped
  <1>1. Init => StatusInv
    BY DEF Init, ClusterInit, SyncInit, StatusInv, ColorsStay, NotYetFlipped, NotAhead
  <1>2. TypeInv /\ TypeInv' /\ Spending /\ CacheCatchesUp /\ StatusInv /\ [Next]_vars
          => StatusInv'
    BY EveryStepIsVersionStep, NextHolds, ColorsStayKept, NotYetFlippedKept DEF StatusInv
  <1>3. StatusInv => NotYetFlipped
    BY DEF StatusInv
  <1> QED
    BY <1>1, <1>2, <1>3, TypeInvHolds, SpendingHolds, CacheCatchesUpHolds, PTL DEF Spec

(* Colours are initialised before they are flipped, and never taken back,  *)
(* in whatever versions of a BlueGreenDeployment that nobody deletes are   *)
(* cached, on their way or in a worker's hands (controller.go:273-288):    *)
(* whatever fails, and however far the caches lag behind.                  *)
THEOREM ColorsStayHolds ==
  ASSUME Budget["delete"] = 0
  PROVE  Spec => []ColorsStay
  <1>1. Init => ColorsStay
    BY DEF Init, ClusterInit, SyncInit, ColorsStay, NotAhead
  <1>2. TypeInv /\ Spending /\ CacheCatchesUp /\ ColorsStay /\ [Next]_vars => ColorsStay'
    BY EveryStepIsVersionStep, NextHolds, ColorsStayKept
  <1> QED
    BY <1>1, <1>2, TypeInvHolds, SpendingHolds, CacheCatchesUpHolds, PTL DEF Spec

\* No version is made but by a write.
LEMMA VersionsKept ==
  ASSUME TypeInv, [Next]_vars, NEW k \in Keys, NEW obj, obj \in Versions(k)'
  PROVE  obj \in Versions(k) \/ obj = bgd'[k]
  <1> DEFINE Obj == BlueGreenDeployment \union {Absent}
  <1>0. VersionStep /\ watch[k] \in Seq(Obj) /\ obj # Absent
    BY EveryStepIsVersionStep DEF TypeInv, ClusterTypeOK, Versions
  <1>1. ASSUME NEW i \in 1 .. Len(watch[k]), obj = watch[k][i] PROVE obj \in Versions(k)
    BY <1>0, <1>1 DEF Versions
  <1>2. \/ cache'[k] = cache[k] /\ watch'[k] = watch[k]
        \/ cache'[k] = cache[k] /\ watch'[k] = Append(watch[k], bgd'[k])
        \/ /\ watch[k] # << >>
           /\ cache'[k] = Head(watch[k]) /\ watch'[k] = Tail(watch[k])
        \/ cache'[k] = bgd[k] /\ watch'[k] = << >>
    <2>1. ASSUME NEW l \in Keys, NEW new \in Obj, WriteBgd(l, new)
          PROVE  watch'[k] = watch[k] \/ watch'[k] = Append(watch[k], bgd'[k])
      BY <2>1 DEF WriteBgd, TypeInv, ClusterTypeOK
    <2>2. ASSUME NEW l \in Keys, Deliver(l)
          PROVE  \/ cache'[k] = cache[k] /\ watch'[k] = watch[k]
                 \/ /\ watch[k] # << >>
                    /\ cache'[k] = Head(watch[k]) /\ watch'[k] = Tail(watch[k])
      BY <2>2 DEF Deliver, TypeInv, ClusterTypeOK, LocalOK, SyncTypeOK
    <2>3. Restart => cache'[k] = bgd[k] /\ watch'[k] = << >>
      BY DEF Restart
    <2> QED BY <1>0, <2>1, <2>2, <2>3 DEF VersionStep, Writes, DeleteBgd
  <1>3. CASE obj = cache'[k]
    <2>1. watch[k] # << >> => 1 \in 1 .. Len(watch[k]) /\ Head(watch[k]) = watch[k][1]
      BY <1>0
    <2> QED BY <1>0, <1>1, <1>2, <1>3, <2>1 DEF Versions
  <1>4. ASSUME NEW i \in 1 .. Len(watch'[k]), obj = watch'[k][i]
        PROVE  obj \in Versions(k) \/ obj = bgd'[k]
    <2>1. CASE watch'[k] = Append(watch[k], bgd'[k])
      <3>1. (i \in 1 .. Len(watch[k]) /\ obj = watch[k][i]) \/ obj = bgd'[k]
        BY <1>0, <1>4, <2>1
      <3> QED BY <1>1, <3>1
    <2>2. CASE watch[k] # << >> /\ watch'[k] = Tail(watch[k])
      <3>1. i + 1 \in 1 .. Len(watch[k]) /\ obj = watch[k][i + 1]
        BY <1>0, <1>4, <2>2
      <3> QED BY <1>1, <3>1
    <2> QED BY <1>1, <1>2, <1>4, <2>1, <2>2
  <1>5. ASSUME NEW w \in Workers, pc'[w] \notin {"idle", "lister"}, key'[w] = k, obj = b'[w]
        PROVE  obj \in Versions(k) \/ obj = bgd'[k]
    <2>1. HoldStep(w)
      BY NextHolds
    <2> QED BY <1>0, <1>5, <2>1 DEF HoldStep, Versions
  <1> QED BY <1>3, <1>4, <1>5 DEF Versions

----------------------------------------------------------------------------
(* The Service and its ReplicaSet: no call fails, and syncs start from     *)
(* whatever old version the cache has.                                     *)

OutageBase == TypeInv /\ RolloutInv /\ OutageInv

\* No version is green.
NoneGreen == \A k \in Keys : \A obj \in Versions(k) : obj.color \in {NoColor, "blue"}

\* What a worker holds.
LEMMA Bearer ==
  ASSUME OutageBase, Undisturbed, NEW w \in Workers, pc[w] \notin {"idle", "lister"}
  PROVE  /\ key[w] \in Keys /\ b[w] \in BlueGreenDeployment
         /\ bgd[key[w]] \in BlueGreenDeployment /\ bgd[key[w]] # Absent
         /\ \A k \in Keys : k = key[w]
         /\ pc[w] # "initStatus" => b[w].color \in Colors
         /\ b[w] \in Versions(key[w])
         /\ b[w].replicas \in ReplicaCounts /\ b[w].replicas > 0
  <1>1. key[w] \in Keys /\ b[w] \in BlueGreenDeployment
    BY HoldsOK DEF OutageBase, TypeInv
  <1>2. b[w] # Absent
    BY <1>1, ClusterAssumption
  <1>3. bgd[key[w]] # Absent /\ bgd[key[w]] \in BlueGreenDeployment
    BY <1>1 DEF OutageBase, RolloutInv, OneUid, SameObject, TypeInv, ClusterTypeOK
  <1>4. \A k \in Keys : k = key[w]
    BY <1>1 DEF Undisturbed, Faultless, OneDeployment
  <1>5. pc[w] # "initStatus" => b[w].color \in Colors
    BY DEF OutageBase, RolloutInv, WorkerState
  <1>6. b[w] \in Versions(key[w])
    BY <1>2 DEF Versions
  <1>7. b[w].replicas \in ReplicaCounts
    BY <1>1 DEF BlueGreenDeployment
  <1>8. b[w].replicas \in Nat /\ b[w].replicas # 0
    BY <1>7, ClusterAssumption, Zenon DEF SomeReplicas, Undisturbed
  <1> QED BY <1>1, <1>3, <1>4, <1>5, <1>6, <1>7, <1>8

\* A busy worker's step needs a look at that worker only.
LEMMA OnlyThisOneRests ==
  ASSUME TypeInv, OneDeployment, NEW w \in Workers, pc[w] # "idle",
         \A v \in Workers \ {w} : pc'[v] \in {pc[v], "idle"},
         Got(w)', RollsFromAny(w)',
         pc'[w] \notin Rolling => RestsSomewhere'
  PROVE  OutageInv'
  <1>1. ASSUME NEW v \in Workers, v # w PROVE Got(v)' /\ RollsFromAny(v)'
    <2>1. pc'[v] = "idle"
      BY <1>1, Alone
    <2> QED BY <2>1 DEF Got, GotBlue, GotGreen, RollsFromAny, Rolling, Cleared, Filled
  <1>2. RestsSomewhere'
    BY DEF RestsSomewhere
  <1> QED BY <1>1, <1>2 DEF OutageInv

\* Where a busy worker that is not rolling finds the Service.
LEMMA FindsService ==
  ASSUME OutageBase, Undisturbed, NEW w \in Workers, pc[w] # "idle", pc[w] \notin Rolling
  PROVE  \/ svc # Absent /\ Raised(svc)
         \/ svc = Absent /\ (rs["blue"] # Absent => Raised("blue")) /\ NoneGreen
  <1>1. \A v \in Workers : pc[v] \notin Rolling
    BY Alone DEF OutageBase, Undisturbed, Faultless, Rolling, Cleared, Filled
  <1> QED BY <1>1 DEF OutageBase, OutageInv, RestsSomewhere, NoneGreen

\* What is not green makes nothing green.
LEMMA NoneTurnsGreen ==
  ASSUME TypeInv, [Next]_vars, NoneGreen,
         \A k \in Keys : bgd'[k] # Absent => bgd'[k].color \in {NoColor, "blue"}
  PROVE  NoneGreen'
  <1> SUFFICES ASSUME NEW k \in Keys, NEW obj, obj \in Versions(k)'
               PROVE  obj.color \in {NoColor, "blue"}
    BY DEF NoneGreen
  <1>1. obj # Absent
    BY DEF Versions
  <1>2. obj \in Versions(k) \/ obj = bgd'[k]
    BY VersionsKept
  <1> QED BY <1>1, <1>2 DEF NoneGreen

\* The stored version is one of them.
LEMMA StoredIsNotGreen ==
  ASSUME NoneGreen, NEW k \in Keys, bgd[k] # Absent
  PROVE  bgd[k].color \in {NoColor, "blue"}
  BY DEF NoneGreen, Versions

\* What leaves ReplicaSets and Service as they are leaves them in order.
LEMMA RestsOn ==
  ASSUME OutageBase, Undisturbed, [Next]_vars, NEW w \in Workers,
         pc[w] # "idle", pc[w] \notin Rolling, UNCHANGED <<bgd, rs, svc>>
  PROVE  RestsSomewhere'
  <1>1. NoneGreen => NoneGreen'
    BY NoneTurnsGreen, StoredIsNotGreen DEF OutageBase
  <1> QED BY <1>1, FindsService DEF RestsSomewhere, NoneGreen, Raised

LEMMA IdleRests ==
  ASSUME OutageBase, Undisturbed, [Next]_vars, NEW w \in Workers,
         pc[w] # "idle", pc[w] \notin Rolling, Idle(w), UNCHANGED <<bgd, rs, svc>>
  PROVE  OutageInv'
  <1>1. pc'[w] = "idle" /\ \A v \in Workers \ {w} : pc'[v] = pc[v]
    BY DEF Idle, OutageBase, TypeInv, LocalOK, SyncTypeOK
  <1>2. Got(w)' /\ RollsFromAny(w)'
    BY <1>1 DEF Got, GotBlue, GotGreen, RollsFromAny, Rolling, Cleared, Filled
  <1> QED BY <1>1, <1>2, RestsOn, OnlyThisOneRests DEF OutageBase, Undisturbed, Faultless

\* A worker that moves on needs a look at where it leads.
LEMMA MovesResting ==
  ASSUME OutageBase, Undisturbed, NEW w \in Workers, NEW l, pc[w] \notin {"idle", "lister"},
         Moves(w, l),
         l \in GotBlue => rs'["blue"] # Absent,
         l \in GotGreen => rs'["green"] # Absent,
         l \in {"compare", "flip"} => svc' # Absent,
         l \in {"scaleUp", "delete"} => rs'[b[w].color] # Absent,
         l \in Rolling => /\ svc' # Absent
                          /\ rs'[Other(b[w].color)] # Absent
                          /\ \/ Raised(svc)'
                             \/ svc' = b[w].color /\ l \in Cleared
                             \/ svc' = Other(b[w].color) /\ l \in {"waitDown", "updateService"},
         l \notin Rolling => RestsSomewhere'
  PROVE  OutageInv'
  <1>1. /\ pc'[w] = l /\ b' = b
        /\ \A v \in Workers \ {w} : pc'[v] = pc[v]
    BY DEF Moves, OutageBase, TypeInv, LocalOK, SyncTypeOK
  <1>2. Got(w)'
    BY <1>1 DEF Got
  <1>3. RollsFromAny(w)'
    BY <1>1 DEF RollsFromAny
  <1> QED BY <1>1, <1>2, <1>3, OnlyThisOneRests DEF OutageBase, Undisturbed, Faultless

LEMMA ClusterRests ==
  ASSUME OutageBase, Undisturbed, ClusterStep,
         UNCHANGED <<cache, queueVars, workerVars>>
  PROVE  OutageInv'
  <1>0. /\ TypeInv /\ RolloutInv /\ Faultless /\ [Next]_vars
        /\ OneDeployment /\ Spending /\ Owned
    BY DEF OutageBase, Undisturbed, Faultless, Next, RolloutInv
  <1>1. UNCHANGED svc
    BY <1>0, NoFaults DEF ClusterStep, CreateBgd, EditSpec, EditReplicas, DeleteBgd,
                    DropService, DropReplicaSet, RunReplicaSet, PodFailure, CollectGarbage
  <1>2. \A c \in Colors : /\ rs'[c] # Absent <=> rs[c] # Absent
                          /\ Raised(c)' <=> Raised(c)
    BY <1>0, ClusterPodStep, PodStepKeeps
  <1>3. UNCHANGED <<pc, key, b>>
    BY DEF workerVars
  <1>4. /\ svc # Absent => svc \in Colors
        /\ {"blue", "green"} \subseteq Colors
    BY <1>0 DEF TypeInv, ClusterTypeOK, Colors
  <1>5. ASSUME NEW w \in Workers PROVE Got(w)' /\ RollsFromAny(w)'
    <2>1. CASE pc[w] \in {"idle", "lister"}
      BY <1>3, <2>1 DEF Got, GotBlue, GotGreen, RollsFromAny, Rolling, Cleared, Filled
    <2>2. CASE pc[w] \notin {"idle", "lister"}
      <3>1. Got(w) /\ RollsFromAny(w)
        BY DEF OutageBase, OutageInv
      <3>2. /\ pc[w] \in Rolling => b[w].color \in Colors /\ Other(b[w].color) \in Colors
            /\ pc[w] \in {"scaleUp", "delete"} => b[w].color \in Colors
        BY <2>2, Bearer, ColorFacts DEF Rolling, Cleared, Filled
      <3>3. Got(w)'
        BY <1>1, <1>2, <1>3, <1>4, <3>1, <3>2 DEF Got
      <3>4. RollsFromAny(w)'
        BY <1>1, <1>2, <1>3, <1>4, <3>1, <3>2 DEF RollsFromAny
      <3> QED BY <3>3, <3>4
    <2> QED BY <2>1, <2>2
  <1>6. NoneGreen => NoneGreen'
    <2> SUFFICES ASSUME NoneGreen, NEW k \in Keys, bgd'[k] # Absent
                 PROVE  bgd'[k].color \in {NoColor, "blue"}
      BY <1>0, NoneTurnsGreen
    <2> QED BY <1>0, PeopleKeepColor, StoredIsNotGreen
  <1>7. RestsSomewhere'
    BY <1>1, <1>2, <1>3, <1>4, <1>6 DEF OutageBase, OutageInv, RestsSomewhere, NoneGreen
  <1> QED BY <1>5, <1>7 DEF OutageInv

LEMMA ListerRests ==
  ASSUME OutageBase, Undisturbed, [Next]_vars, NEW w \in Workers, Lister(w)
  PROVE  OutageInv'
  <1>1. pc[w] = "lister" /\ UNCHANGED <<bgd, rs, svc>> /\ pc[w] \notin Rolling
    BY DEF Lister, clusterVars, Rolling, Cleared, Filled
  <1>2. CASE ReturnNil(w)
    BY <1>1, <1>2, IdleRests DEF ReturnNil
  <1>3. ASSUME NEW l \in {"initStatus", "getBlue"}, NEW obj, GotoWith(w, l, obj)
        PROVE  OutageInv'
    <2>1. pc'[w] = l /\ \A v \in Workers \ {w} : pc'[v] = pc[v]
      BY <1>3 DEF GotoWith, OutageBase, TypeInv, LocalOK, SyncTypeOK
    <2>2. Got(w)' /\ RollsFromAny(w)'
      BY <2>1 DEF Got, GotBlue, GotGreen, RollsFromAny, Rolling, Cleared, Filled
    <2> QED BY <1>1, <2>1, <2>2, RestsOn, OnlyThisOneRests
            DEF OutageBase, Undisturbed, Faultless
  <1> QED BY <1>2, <1>3 DEF Lister

\* A write of the status is applied and answered.
LEMMA UpdateRests ==
  ASSUME OutageBase, Undisturbed, NEW w \in Workers, NEW c \in Colors, NEW next,
         pc[w] \notin {"idle", "lister"}, UpdateBlueGreenDeployment(w, c, next)
  PROVE  /\ UNCHANGED <<rs, svc>>
         /\ bgd'[key[w]] # Absent /\ bgd'[key[w]].color = c
         /\ pc'[w] = next /\ b'[w] = bgd'[key[w]]
         /\ \A v \in Workers \ {w} : pc'[v] = pc[v]
  <1>1. key[w] \in Keys /\ bgd[key[w]] \in BlueGreenDeployment /\ bgd[key[w]] # Absent
    BY Bearer
  <1> DEFINE new == [bgd[key[w]] EXCEPT !.color = c]
  <1>2. /\ WriteBgd(key[w], new) /\ GotoWith(w, next, new)
        /\ UNCHANGED <<rs, svc>>
    BY <1>1, NoFaults DEF UpdateBlueGreenDeployment, Reply, OutageBase, Undisturbed
  <1>3. new.color = c /\ new \in BlueGreenDeployment
    BY <1>1 DEF BlueGreenDeployment
  <1>4. bgd'[key[w]] = new
    BY <1>1, <1>2 DEF WriteBgd, OutageBase, TypeInv, ClusterTypeOK
  <1>5. new # Absent
    BY <1>3, ClusterAssumption
  <1> HIDE DEF new
  <1> QED BY <1>2, <1>3, <1>4, <1>5 DEF GotoWith, OutageBase, TypeInv, LocalOK, SyncTypeOK

LEMMA InitStatusRests ==
  ASSUME OutageBase, Undisturbed, [Next]_vars, NEW w \in Workers, InitStatus(w)
  PROVE  OutageInv'
  <1>1. pc[w] = "initStatus" /\ pc[w] \notin Rolling
    BY DEF InitStatus, Rolling, Cleared, Filled
  <1>2. /\ UNCHANGED <<rs, svc>>
        /\ bgd'[key[w]].color = "blue" /\ pc'[w] = "getBlue"
        /\ \A v \in Workers \ {w} : pc'[v] = pc[v]
        /\ \A k \in Keys : k = key[w]
    BY <1>1, UpdateRests, Bearer DEF InitStatus, Colors
  <1>3. NoneGreen => NoneGreen'
    BY <1>2, NoneTurnsGreen DEF OutageBase
  <1>4. RestsSomewhere'
    BY <1>1, <1>2, <1>3, FindsService DEF RestsSomewhere, NoneGreen, Raised
  <1>5. Got(w)' /\ RollsFromAny(w)'
    BY <1>2 DEF Got, GotBlue, GotGreen, RollsFromAny, Rolling, Cleared, Filled
  <1> QED BY <1>1, <1>2, <1>4, <1>5, OnlyThisOneRests DEF OutageBase, Undisturbed, Faultless

\* A new ReplicaSet takes no pods from the Service, and the first blue one has
\* pods.
LEMMA NewOneRests ==
  ASSUME OutageBase, Undisturbed, [Next]_vars, NEW w \in Workers,
         pc[w] \notin {"idle", "lister", "initStatus"}, pc[w] \notin Rolling,
         NEW c \in Colors, rs[c] = Absent, UNCHANGED <<bgd, svc>>,
         rs' = [rs EXCEPT ![c] = NewReplicaSet(key[w], b[w], c)]
  PROVE  RestsSomewhere'
  <1>1. /\ rs'[c] # Absent
        /\ b[w].color = c => Raised(c)'
        /\ \A d \in Colors \ {c} : rs'[d] = rs[d]
    BY NewIsRaised, Bearer DEF OutageBase, Undisturbed
  <1>2. /\ key[w] \in Keys /\ b[w].color \in Colors /\ b[w] \in Versions(key[w])
        /\ "blue" \in Colors /\ (svc # Absent => svc \in Colors)
    BY Bearer DEF Colors, OutageBase, TypeInv, ClusterTypeOK
  <1>3. CASE svc # Absent /\ Raised(svc)
    BY <1>1, <1>2, <1>3 DEF Raised, RestsSomewhere
  <1>4. CASE svc = Absent /\ (rs["blue"] # Absent => Raised("blue")) /\ NoneGreen
    <2>1. NoneGreen'
      BY <1>4, NoneTurnsGreen, StoredIsNotGreen DEF OutageBase
    <2>2. b[w].color = "blue"
      BY <1>2, <1>4, ColorFacts DEF NoneGreen
    <2>3. rs'["blue"] # Absent => Raised("blue")'
      BY <1>1, <1>2, <1>4, <2>2 DEF Raised
    <2> QED BY <1>4, <2>1, <2>3 DEF RestsSomewhere, NoneGreen
  <1> QED BY <1>2, <1>3, <1>4, FindsService

LEMMA CreateReplicaSetsRests ==
  ASSUME OutageBase, Undisturbed, [Next]_vars, NEW w \in Workers,
         CreateReplicaSetsIfNotFound(w)
  PROVE  OutageInv'
  <1>1. /\ pc[w] \in {"getBlue", "createBlue", "waitBlue", "getGreen", "createGreen", "waitGreen"}
        /\ UNCHANGED <<bgd, svc>>
        /\ \/ /\ UNCHANGED rs
              /\ \/ Idle(w)
                 \/ pc[w] = "getBlue" /\ rs["blue"] # Absent /\ Moves(w, "getGreen")
                 \/ pc[w] = "getBlue" /\ Moves(w, "createBlue")
                 \/ pc[w] = "waitBlue" /\ Moves(w, "getGreen")
                 \/ pc[w] = "getGreen" /\ rs["green"] # Absent /\ Moves(w, "getService")
                 \/ pc[w] = "getGreen" /\ Moves(w, "createGreen")
                 \/ pc[w] = "waitGreen" /\ Moves(w, "getService")
           \/ /\ pc[w] = "createBlue" /\ rs["blue"] = Absent /\ Moves(w, "waitBlue")
              /\ rs' = [rs EXCEPT !["blue"] = NewReplicaSet(key[w], b[w], "blue")]
           \/ /\ pc[w] = "createGreen" /\ rs["green"] = Absent /\ Moves(w, "waitGreen")
              /\ rs' = [rs EXCEPT !["green"] = NewReplicaSet(key[w], b[w], "green")]
    <2>1. CASE CreateReplicaSetIfNotFound(w, "getBlue", "createBlue", "waitBlue", "blue", "getGreen")
      BY <2>1, CreateCases DEF OutageBase, Undisturbed
    <2>2. CASE CreateReplicaSetIfNotFound(w, "getGreen", "createGreen", "waitGreen", "green",
                                          "getService")
      BY <2>2, CreateCases DEF OutageBase, Undisturbed
    <2> QED BY <2>1, <2>2 DEF CreateReplicaSetsIfNotFound
  <1>2. /\ pc[w] \notin Rolling /\ pc[w] \notin {"idle", "lister", "initStatus"}
    BY <1>1 DEF Rolling, Cleared, Filled
  <1>3. Got(w)
    BY DEF OutageBase, OutageInv
  <1>4. CASE Idle(w) /\ UNCHANGED rs
    BY <1>1, <1>2, <1>4, IdleRests
  <1>5. ASSUME NEW l \in {"createBlue", "getGreen", "createGreen", "getService"},
               Moves(w, l), UNCHANGED rs,
               l # "createBlue" => rs["blue"] # Absent,
               l = "getService" => rs["green"] # Absent
        PROVE  OutageInv'
    <2>1. RestsSomewhere'
      BY <1>1, <1>2, <1>5, RestsOn
    <2>2. /\ l \notin Rolling
          /\ l \notin {"idle", "lister", "compare", "flip", "scaleUp", "delete"}
          /\ l \in GotBlue => l # "createBlue"
          /\ l \in GotGreen => l = "getService"
      BY <1>5 DEF Rolling, Cleared, Filled, GotBlue, GotGreen
    <2> QED BY <1>1, <1>2, <1>5, <2>1, <2>2, MovesResting
  <1>6. ASSUME NEW c \in Colors, NEW l, rs[c] = Absent, Moves(w, l),
               c = "blue" => l = "waitBlue",
               c = "green" => pc[w] = "createGreen" /\ l = "waitGreen",
               rs' = [rs EXCEPT ![c] = NewReplicaSet(key[w], b[w], c)]
        PROVE  OutageInv'
    <2>1. RestsSomewhere'
      BY <1>1, <1>2, <1>6, NewOneRests
    <2>2. rs'[c] # Absent /\ \A d \in Colors \ {c} : rs'[d] = rs[d]
      BY <1>2, <1>6, NewIsRaised, Bearer DEF OutageBase, Undisturbed
    <2>3. rs'["blue"] # Absent
      BY <1>3, <1>6, <2>2 DEF Got, GotBlue, Colors
    <2>4. l \in GotGreen => rs'["green"] # Absent
      BY <1>6, <2>2 DEF GotGreen, Colors
    <2>5. /\ l \notin Rolling
          /\ l \notin {"idle", "lister", "compare", "flip", "scaleUp", "delete"}
      BY <1>6 DEF Rolling, Cleared, Filled, Colors
    <2> QED BY <1>2, <1>6, <2>1, <2>3, <2>4, <2>5, MovesResting
  <1>7. CASE pc[w] = "getBlue" /\ Moves(w, "createBlue") /\ UNCHANGED rs
    BY <1>5, <1>7
  <1>8. CASE /\ \/ pc[w] = "getBlue" /\ rs["blue"] # Absent
                \/ pc[w] = "waitBlue"
             /\ Moves(w, "getGreen") /\ UNCHANGED rs
    BY <1>3, <1>5, <1>8 DEF Got, GotBlue
  <1>9. CASE pc[w] = "getGreen" /\ Moves(w, "createGreen") /\ UNCHANGED rs
    BY <1>3, <1>5, <1>9 DEF Got, GotBlue
  <1>10. CASE /\ \/ pc[w] = "getGreen" /\ rs["green"] # Absent
                 \/ pc[w] = "waitGreen"
              /\ Moves(w, "getService") /\ UNCHANGED rs
    BY <1>3, <1>5, <1>10 DEF Got, GotBlue, GotGreen
  <1> QED BY <1>1, <1>4, <1>6, <1>7, <1>8, <1>9, <1>10 DEF Colors

LEMMA CreateServiceRests ==
  ASSUME OutageBase, Undisturbed, [Next]_vars, NEW w \in Workers, CreateServiceIfNotFound(w)
  PROVE  OutageInv'
  <1>1. /\ pc[w] \in {"getService", "createService"} /\ pc[w] \notin Rolling
        /\ UNCHANGED <<bgd, rs>>
    BY DEF CreateServiceIfNotFound, Refused, apiVars, Rolling, Cleared, Filled
  <1>2. rs["blue"] # Absent /\ rs["green"] # Absent
    BY <1>1 DEF OutageBase, OutageInv, Got, GotBlue, GotGreen
  <1>3. ASSUME NEW l \in {"createService", "compare"}, Moves(w, l),
               l = "compare" => svc' # Absent, RestsSomewhere'
        PROVE  OutageInv'
    <2>1. l \notin Rolling /\ l \notin {"flip", "scaleUp", "delete"}
      BY <1>3 DEF Rolling, Cleared, Filled
    <2> QED BY <1>1, <1>2, <1>3, <2>1, MovesResting
  <1>4. CASE /\ UNCHANGED svc
             /\ Goto(w, IF svc = Absent THEN "createService" ELSE "compare")
    <2>1. RestsSomewhere'
      BY <1>1, <1>4, RestsOn
    <2> QED BY <1>3, <1>4, <2>1 DEF Goto, Moves
  <1>5. CASE svc = Absent /\ svc' = "blue" /\ Goto(w, "compare")
    <2>1. svc' # Absent
      BY <1>5, ClusterAssumption DEF Colors
    <2>2. Raised("blue")
      BY <1>1, <1>2, <1>5, FindsService
    <2>3. RestsSomewhere'
      BY <1>1, <1>5, <2>1, <2>2 DEF RestsSomewhere, Raised
    <2> QED BY <1>3, <1>5, <2>1, <2>3 DEF Goto, Moves
  <1>6. CASE Refused(w)
    BY <1>1, <1>6, IdleRests DEF Refused, ReturnError, apiVars
  <1>7. ~ Spend("lostReply")
    BY NoFaults DEF OutageBase, Undisturbed
  <1> QED
    BY <1>1, <1>4, <1>5, <1>6, <1>7 DEF CreateServiceIfNotFound, Reply, NewService, apiVars

LEMMA CompareRests ==
  ASSUME OutageBase, Undisturbed, [Next]_vars, NEW w \in Workers, Compare(w)
  PROVE  OutageInv'
  <1>1. pc[w] = "compare" /\ pc[w] \notin Rolling /\ UNCHANGED <<bgd, rs, svc>>
    BY DEF Compare, clusterVars, Rolling, Cleared, Filled
  <1>2. rs["blue"] # Absent /\ rs["green"] # Absent /\ svc # Absent
    BY <1>1 DEF OutageBase, OutageInv, Got, GotBlue, GotGreen
  <1>3. CASE ReturnNil(w)
    BY <1>1, <1>3, IdleRests DEF ReturnNil
  <1>4. CASE Goto(w, "flip")
    <2>1. RestsSomewhere'
      BY <1>1, RestsOn
    <2>2. Moves(w, "flip") /\ "flip" \notin Rolling
      BY <1>4 DEF Goto, Moves, Rolling, Cleared, Filled
    <2> QED BY <1>1, <1>2, <2>1, <2>2, MovesResting
  <1> QED BY <1>3, <1>4 DEF Compare

LEMMA FlipRests ==
  ASSUME OutageBase, Undisturbed, [Next]_vars, NEW w \in Workers, Flip(w)
  PROVE  OutageInv'
  <1>1. pc[w] = "flip" /\ pc[w] \notin Rolling
    BY DEF Flip, Rolling, Cleared, Filled
  <1>2. rs["blue"] # Absent /\ rs["green"] # Absent /\ svc # Absent
    BY <1>1 DEF OutageBase, OutageInv, Got, GotBlue, GotGreen
  <1>3. Raised(svc)
    BY <1>1, <1>2, FindsService
  <1>4. /\ UNCHANGED <<rs, svc>>
        /\ pc'[w] \in {"scaleUp", "delete"} /\ b'[w].color = Other(b[w].color)
        /\ \A v \in Workers \ {w} : pc'[v] = pc[v]
    <2>1. Other(b[w].color) \in Colors
      BY DEF Other, Colors
    <2>2. PICK l \in {"scaleUp", "delete"} :
            UpdateBlueGreenDeployment(w, Other(b[w].color), l)
      BY DEF Flip
    <2> QED BY <1>1, <2>1, <2>2, UpdateRests
  <1>5. \A c : Other(c) \in {"blue", "green"}
    BY DEF Other
  <1>6. Got(w)'
    BY <1>2, <1>4, <1>5 DEF Got, GotBlue, GotGreen
  <1>7. RollsFromAny(w)'
    BY <1>2, <1>3, <1>4, <1>5 DEF RollsFromAny, Raised
  <1>8. pc'[w] \in Rolling
    BY <1>4 DEF Rolling
  <1> QED BY <1>1, <1>4, <1>6, <1>7, <1>8, OnlyThisOneRests
          DEF OutageBase, Undisturbed, Faultless

\* Along the rollover.
LEMMA RollsOnResting ==
  ASSUME OutageBase, Undisturbed, NEW w \in Workers, pc[w] \in Rolling,
         NEW l \in Rolling \ {"scaleUp", "delete"}, Moves(w, l), UNCHANGED svc,
         rs'[Other(b[w].color)] # Absent,
         \/ Raised(svc)'
         \/ svc = b[w].color /\ l \in Cleared
         \/ svc = Other(b[w].color) /\ l \in {"waitDown", "updateService"}
  PROVE  OutageInv'
  <1>1. /\ pc[w] \notin {"idle", "lister"}
        /\ l \notin GotBlue /\ l \notin GotGreen /\ l \notin {"compare", "flip"}
    BY DEF Rolling, Cleared, Filled, GotBlue, GotGreen
  <1>2. svc # Absent
    BY DEF OutageBase, OutageInv, RollsFromAny
  <1> QED BY <1>1, <1>2, MovesResting

\* What a rollover found.
LEMMA RollsWith ==
  ASSUME OutageBase, Undisturbed, NEW w \in Workers, pc[w] \in Rolling
  PROVE  /\ b[w].color \in Colors /\ Other(b[w].color) \in Colors
         /\ Other(b[w].color) # b[w].color
         /\ svc \in {b[w].color, Other(b[w].color)} /\ svc # Absent
         /\ rs[Other(b[w].color)] # Absent
         /\ \/ Raised(svc)
            \/ svc = b[w].color /\ pc[w] \in Cleared
            \/ svc = Other(b[w].color) /\ pc[w] \in {"waitDown", "updateService"}
         /\ pc[w] \in {"scaleUp", "delete"} => rs[b[w].color] # Absent
         /\ pc[w] \in Filled => Raised(b[w].color)
         /\ b[w].replicas \in ReplicaCounts /\ b[w].replicas > 0
  <1>1. pc[w] \notin {"idle", "lister", "initStatus"}
    BY DEF Rolling, Cleared, Filled
  <1>2. b[w].color \in Colors /\ b[w].replicas \in ReplicaCounts /\ b[w].replicas > 0
    BY <1>1, Bearer
  <1>3. Got(w) /\ RollsFromAny(w)
    BY DEF OutageBase, OutageInv
  <1>4. svc # Absent => svc \in Colors
    BY DEF OutageBase, TypeInv, ClusterTypeOK
  <1>5. pc[w] \in Filled => Raised(b[w].color)
    BY <1>2 DEF OutageBase, RolloutInv, Rollover, RolloverOf, Raised
  <1>6. \A c, d \in Colors : d \in {c, Other(c)}
    BY DEF Colors, Other
  <1> QED BY <1>2, <1>3, <1>4, <1>5, <1>6, ColorFacts DEF Got, RollsFromAny

LEMMA ScaleUpRests ==
  ASSUME OutageBase, Undisturbed, NEW w \in Workers, ScaleUp(w)
  PROVE  OutageInv'
  <1> DEFINE c == b[w].color
  <1>1. pc[w] \in {"scaleUp", "waitUp"} /\ pc[w] \in Rolling
    BY DEF ScaleUp, ScaleReplicaSet, WaitAllReplicaSetPodsAvailable, Rolling, Filled
  <1>2. /\ c \in Colors /\ Other(c) \in Colors /\ Other(c) # c /\ svc \in {c, Other(c)}
        /\ rs[Other(c)] # Absent /\ Raised(svc)
        /\ pc[w] = "scaleUp" => rs[c] # Absent
        /\ b[w].replicas \in ReplicaCounts /\ b[w].replicas > 0
    BY <1>1, RollsWith DEF Cleared
  <1>3. ~ Spend("lostReply")
    BY NoFaults DEF OutageBase, Undisturbed
  <1>4. {"waitUp", "scaleDown"} \subseteq Rolling \ {"scaleUp", "delete"}
    BY DEF Rolling, Filled
  <1>5. CASE WaitAllReplicaSetPodsAvailable(w, "waitUp", c, b[w].replicas, "scaleDown")
    <2>1. Moves(w, "scaleDown") /\ UNCHANGED rs
      BY <1>5, WaitMoves
    <2>2. UNCHANGED svc
      BY <1>5 DEF WaitAllReplicaSetPodsAvailable, apiVars
    <2>3. Raised(svc)'
      BY <1>2, <2>1, <2>2 DEF Raised
    <2> QED BY <1>1, <1>2, <1>4, <2>1, <2>2, <2>3, RollsOnResting
  <1>6. CASE /\ rs[c] # Absent /\ rs' = [rs EXCEPT ![c] = Scaled(@, b[w].replicas)]
             /\ Goto(w, "waitUp") /\ UNCHANGED <<bgd, svc>>
    <2>1. /\ rs[c] \in ReplicaSet /\ rs'[c] = Scaled(rs[c], b[w].replicas)
          /\ rs'[Other(c)] = rs[Other(c)]
      BY <1>2, <1>6 DEF OutageBase, TypeInv, ClusterTypeOK
    <2>2. rs'[c] # Absent /\ rs'[c].replicas = b[w].replicas
      <3>1. Scaled(rs[c], b[w].replicas) \in ReplicaSet
        BY <1>2, <2>1, ScaledType
      <3>2. Scaled(rs[c], b[w].replicas).replicas = b[w].replicas
        BY <2>1 DEF Scaled, ReplicaSet
      <3> QED BY <2>1, <3>1, <3>2, ClusterAssumption
    <2>3. Raised(svc)'
      BY <1>2, <1>6, <2>1, <2>2 DEF Raised
    <2> QED BY <1>1, <1>2, <1>4, <1>6, <2>1, <2>3, RollsOnResting DEF Goto, Moves
  <1> QED BY <1>2, <1>3, <1>5, <1>6 DEF ScaleUp, ScaleReplicaSet, Reply

LEMMA ReplaceRests ==
  ASSUME OutageBase, Undisturbed, NEW w \in Workers, ReplaceInactiveReplicaSet(w)
  PROVE  OutageInv'
  <1> DEFINE c == b[w].color
  <1>1. pc[w] \in {"delete", "getNew", "createNew", "waitNew"} /\ pc[w] \in Rolling
    BY DEF ReplaceInactiveReplicaSet, CreateReplicaSetIfNotFound,
           WaitAllReplicaSetPodsAvailable, Rolling, Cleared, Filled
  <1>2. /\ c \in Colors /\ Other(c) \in Colors /\ Other(c) # c
        /\ svc \in {c, Other(c)} /\ rs[Other(c)] # Absent
        /\ Raised(svc) \/ (svc = c /\ pc[w] \in Cleared)
        /\ pc[w] = "delete" => rs[c] # Absent
    BY <1>1, RollsWith
  <1>3. ~ Spend("lostReply")
    BY NoFaults DEF OutageBase, Undisturbed
  <1>4. {"getNew", "createNew", "waitNew", "scaleDown"} \subseteq Rolling \ {"scaleUp", "delete"}
    BY DEF Rolling, Cleared, Filled
  <1>5. CASE rs' = [rs EXCEPT ![c] = Absent] /\ Goto(w, "getNew") /\ UNCHANGED <<bgd, svc>>
    <2>1. rs'[Other(c)] = rs[Other(c)]
      BY <1>2, <1>5 DEF OutageBase, TypeInv, ClusterTypeOK
    <2>2. Raised(svc)' \/ svc = c
      BY <1>2, <1>5, <2>1 DEF Raised
    <2> QED BY <1>1, <1>2, <1>4, <1>5, <2>1, <2>2, RollsOnResting DEF Goto, Moves, Cleared
  <1>6. CASE CreateReplicaSetIfNotFound(w, "getNew", "createNew", "waitNew", c, "scaleDown")
    <2>1. pc[w] \in Cleared => rs[c] = Absent
      BY DEF OutageBase, RolloutInv, Rollover, RolloverOf
    <2>2. /\ UNCHANGED svc
          /\ \/ pc[w] = "getNew" /\ Moves(w, "createNew") /\ UNCHANGED rs
             \/ pc[w] = "waitNew" /\ Moves(w, "scaleDown") /\ UNCHANGED rs
             \/ /\ Moves(w, "waitNew")
                /\ rs' = [rs EXCEPT ![c] = NewReplicaSet(key[w], b[w], c)]
      BY <1>6, <2>1, CreateCases DEF Cleared, OutageBase, Undisturbed
    <2>3. CASE pc[w] = "getNew" /\ Moves(w, "createNew") /\ UNCHANGED rs
      BY <1>1, <1>2, <1>4, <2>2, <2>3, RollsOnResting DEF Raised, Cleared
    <2>4. CASE pc[w] = "waitNew" /\ Moves(w, "scaleDown") /\ UNCHANGED rs
      BY <1>1, <1>2, <1>4, <2>2, <2>4, RollsOnResting DEF Raised, Cleared
    <2>5. CASE Moves(w, "waitNew") /\ rs' = [rs EXCEPT ![c] = NewReplicaSet(key[w], b[w], c)]
      <3>1. pc[w] \notin {"idle", "lister"} /\ UNCHANGED b
        BY <1>1, <2>5 DEF Moves
      <3>2. Raised(c)' /\ rs'[Other(c)] = rs[Other(c)]
        <4>1. TypeInv /\ SomeReplicas
          BY DEF OutageBase, Undisturbed
        <4>2. ASSUME NEW d \in Colors, b[w].color = d
              PROVE  Raised(d)' /\ \A e \in Colors \ {d} : rs'[e] = rs[e]
          <5>1. rs' = [rs EXCEPT ![d] = NewReplicaSet(key[w], b[w], d)]
            BY <2>5, <4>2
          <5> QED BY <3>1, <4>1, <4>2, <5>1, NewIsRaised
        <4>3. /\ rs'[c] # Absent /\ rs'[c].replicas > 0
              /\ \A e \in Colors \ {c} : rs'[e] = rs[e]
          BY <1>2, <4>2 DEF Raised
        <4> QED BY <1>2, <3>1, <4>3 DEF Raised
      <3>3. Raised(svc)'
        BY <1>1, <1>2, <2>2, <3>1, <3>2 DEF Raised
      <3> QED BY <1>1, <1>2, <1>4, <2>2, <2>5, <3>2, <3>3, RollsOnResting
    <2> QED BY <2>2, <2>3, <2>4, <2>5
  <1> QED BY <1>1, <1>2, <1>3, <1>5, <1>6 DEF ReplaceInactiveReplicaSet, Reply

LEMMA ScaleDownRests ==
  ASSUME OutageBase, Undisturbed, NEW w \in Workers, ScaleDown(w)
  PROVE  OutageInv'
  <1> DEFINE c == Other(b[w].color)
  <1>1. pc[w] \in {"scaleDown", "waitDown"} /\ pc[w] \in Rolling /\ pc[w] \in Filled
    BY DEF ScaleDown, ScaleReplicaSet, WaitAllReplicaSetPodsAvailable, Rolling, Filled
  <1>2. /\ c \in Colors /\ b[w].color \in Colors /\ c # b[w].color
        /\ svc \in {b[w].color, c} /\ rs[c] # Absent /\ Raised(b[w].color)
    BY <1>1, RollsWith
  <1>3. ~ Spend("lostReply")
    BY NoFaults DEF OutageBase, Undisturbed
  <1>4. ASSUME NEW l \in {"waitDown", "updateService"}, Moves(w, l), UNCHANGED svc,
               rs'[c] # Absent, rs'[b[w].color] = rs[b[w].color]
        PROVE  OutageInv'
    <2>1. l \in Rolling \ {"scaleUp", "delete"}
      BY DEF Rolling, Filled
    <2>2. Raised(svc)' \/ svc = c
      BY <1>2, <1>4 DEF Raised
    <2> QED BY <1>1, <1>4, <2>1, <2>2, RollsOnResting
  <1>5. CASE WaitAllReplicaSetPodsAvailable(w, "waitDown", c, 0, "updateService")
    <2>1. Moves(w, "updateService") /\ UNCHANGED rs
      BY <1>5, WaitMoves
    <2>2. UNCHANGED svc
      BY <1>5 DEF WaitAllReplicaSetPodsAvailable, apiVars
    <2> QED BY <1>2, <1>4, <2>1, <2>2
  <1>6. CASE rs' = [rs EXCEPT ![c] = Scaled(@, 0)] /\ Goto(w, "waitDown")
             /\ UNCHANGED <<bgd, svc>>
    <2>1. /\ rs'[c] = Scaled(rs[c], 0) /\ rs[c] \in ReplicaSet
          /\ rs'[b[w].color] = rs[b[w].color]
      BY <1>2, <1>6 DEF OutageBase, TypeInv, ClusterTypeOK
    <2>2. rs'[c] # Absent
      BY <2>1, ScaledType, ClusterAssumption
    <2> QED BY <1>4, <1>6, <2>1, <2>2 DEF Goto, Moves
  <1> QED BY <1>2, <1>3, <1>5, <1>6 DEF ScaleDown, ScaleReplicaSet, Reply

LEMMA UpdateServiceRests ==
  ASSUME OutageBase, Undisturbed, NEW w \in Workers, UpdateService(w)
  PROVE  OutageInv'
  <1>1. pc[w] = "updateService" /\ pc[w] \in Rolling /\ pc[w] \in Filled
    BY DEF UpdateService, Rolling, Filled
  <1>2. svc # Absent /\ Raised(b[w].color) /\ b[w].color \in Colors
    BY <1>1, RollsWith
  <1>3. svc' = b[w].color /\ ReturnNil(w) /\ UNCHANGED rs
    BY <1>2, NoFaults DEF UpdateService, OutageBase, Undisturbed
  <1>4. RestsSomewhere'
    BY <1>2, <1>3, ClusterAssumption DEF RestsSomewhere, Raised
  <1>5. pc'[w] = "idle" /\ \A v \in Workers \ {w} : pc'[v] = pc[v]
    BY <1>3 DEF ReturnNil, Idle, OutageBase, TypeInv, LocalOK, SyncTypeOK
  <1>6. Got(w)' /\ RollsFromAny(w)'
    BY <1>5 DEF Got, GotBlue, GotGreen, RollsFromAny, Rolling, Cleared, Filled
  <1> QED BY <1>1, <1>4, <1>5, <1>6, OnlyThisOneRests DEF OutageBase, Undisturbed, Faultless

LEMMA SyncRests ==
  ASSUME OutageBase, Undisturbed, [Next]_vars, NEW w \in Workers, SyncStep(w)
  PROVE  OutageInv'
  BY ListerRests, InitStatusRests, CreateReplicaSetsRests, CreateServiceRests,
     CompareRests, FlipRests, ScaleUpRests, ReplaceRests, ScaleDownRests,
     UpdateServiceRests
     DEF SyncStep

\* What nobody busy does.
LEMMA SameRests ==
  ASSUME OutageBase, [Next]_vars, UNCHANGED <<bgd, rs, svc, b>>,
         \A v \in Workers : pc'[v] = pc[v] \/ (pc[v] = "idle" /\ pc'[v] = "lister")
  PROVE  OutageInv'
  <1>1. ASSUME NEW v \in Workers PROVE Got(v)' /\ RollsFromAny(v)'
    <2>1. Got(v) /\ RollsFromAny(v)
      BY DEF OutageBase, OutageInv
    <2>2. CASE pc'[v] = pc[v]
      BY <2>1, <2>2 DEF Got, RollsFromAny, Raised
    <2>3. CASE pc'[v] = "lister"
      BY <2>3 DEF Got, GotBlue, GotGreen, RollsFromAny, Rolling, Cleared, Filled
    <2> QED BY <2>2, <2>3
  <1>2. NoneGreen => NoneGreen'
    BY NoneTurnsGreen, StoredIsNotGreen DEF OutageBase
  <1>3. RestsSomewhere'
    <2>1. (\A v \in Workers : pc'[v] \notin Rolling) => \A v \in Workers : pc[v] \notin Rolling
      BY DEF Rolling, Cleared, Filled
    <2>2. RestsSomewhere
      BY DEF OutageBase, OutageInv
    <2> QED BY <1>2, <2>1, <2>2 DEF RestsSomewhere, NoneGreen, Raised
  <1> QED BY <1>1, <1>3 DEF OutageInv

LEMMA NextRests ==
  ASSUME OutageBase, Undisturbed, [Next]_vars
  PROVE  OutageInv'
  <1>1. CASE ClusterStep /\ UNCHANGED <<cache, queueVars, workerVars>>
    BY <1>1, ClusterRests
  <1>2. CASE \E w \in Workers : SyncStep(w)
    BY <1>2, SyncRests
  <1>3. CASE (\E w \in Workers : ApiError(w)) \/ Crash
    BY <1>3, NoFaults DEF ApiError, Crash, OutageBase, Undisturbed
  <1>4. ASSUME NEW w \in Workers, NEW k \in Keys, ProcessNextWorkItem(w, k)
        PROVE  OutageInv'
    <2>1. /\ UNCHANGED <<bgd, rs, svc, b>>
          /\ \A v \in Workers : pc'[v] = pc[v] \/ (pc[v] = "idle" /\ pc'[v] = "lister")
      BY <1>4 DEF ProcessNextWorkItem, clusterVars, OutageBase, TypeInv, LocalOK, SyncTypeOK
    <2> QED BY <2>1, SameRests
  <1>5. CASE \E k \in Keys : Deliver(k) \/ Resync(k) \/ HandleObject(k) \/ Retry(k)
    BY <1>5, SameRests DEF Deliver, Resync, HandleObject, Retry, clusterVars, apiVars, workerVars
  <1>6. CASE UNCHANGED vars
    BY <1>6, SameRests DEF vars
  <1> QED
    BY <1>1, <1>2, <1>3, <1>4, <1>5, <1>6 DEF Next, ControllerStep

LEMMA RestsInit == Init => OutageInv
  <1> SUFFICES ASSUME Init PROVE OutageInv
    OBVIOUS
  <1>1. /\ \A k \in Keys : bgd[k] = Absent /\ cache[k] = Absent /\ watch[k] = << >>
        /\ rs["blue"] = Absent /\ svc = Absent /\ \A w \in Workers : pc[w] = "idle"
    BY DEF Init, ClusterInit, SyncInit, Colors
  <1>2. NoneGreen
    BY <1>1 DEF NoneGreen, Versions
  <1> QED
    BY <1>1, <1>2 DEF OutageInv, RestsSomewhere, NoneGreen, Got, GotBlue, GotGreen,
       RollsFromAny, Rolling, Cleared, Filled

(* As long as no call fails, and however old the versions are that syncs   *)
(* start from, even where one sets the status back or deletes the          *)
(* ReplicaSet that serves: the Service lacks pods only while a worker      *)
(* deletes one ReplicaSet and makes the next (controller.go:369-423) or is *)
(* about to move the Service (controller.go:430-446).                      *)
THEOREM OutageOnlyInRolloverHolds ==
  ASSUME Undisturbed
  PROVE  Spec => []OutageOnlyInRollover
  <1>1. TypeInv /\ RolloutInv /\ OutageInv /\ [Next]_vars => OutageInv'
    BY NextRests DEF OutageBase
  <1>2. OutageInv => OutageOnlyInRollover
    BY DEF OutageInv, RollsFromAny, RestsSomewhere, OutageOnlyInRollover, Cleared
  <1>3. Spec => []RolloutInv
    BY RolloutInvHolds DEF Undisturbed, Faultless
  <1> QED BY <1>1, <1>2, <1>3, RestsInit, TypeInvHolds, PTL DEF Spec

----------------------------------------------------------------------------
(* Convergence: no call fails; the cache lags behind as it may.            *)

Base == TypeInv /\ RolloutInv /\ CacheCatchesUp /\ ColorsStay /\ NotYetFlipped

\* What a worker holds, and that no other is busy.
LEMMA Holder ==
  ASSUME Base, Faultless, NEW w \in Workers, pc[w] \notin {"idle", "lister"}
  PROVE  /\ key[w] \in Keys /\ b[w] \in BlueGreenDeployment
         /\ bgd[key[w]] \in BlueGreenDeployment /\ bgd[key[w]] # Absent
         /\ \A k \in Keys : k = key[w]
         /\ pc[w] # "initStatus" => b[w].color \in Colors /\ bgd[key[w]].color \in Colors
         /\ pc[w] \in Rolling => bgd[key[w]].color = b[w].color
         /\ b[w] \in Versions(key[w])
  <1>1. key[w] \in Keys /\ b[w] \in BlueGreenDeployment
    BY HoldsOK DEF Base, TypeInv
  <1>2. b[w] # Absent
    BY <1>1, ClusterAssumption
  <1>3. bgd[key[w]] # Absent /\ bgd[key[w]] \in BlueGreenDeployment
    BY <1>1 DEF Base, RolloutInv, OneUid, SameObject, TypeInv, ClusterTypeOK
  <1>4. \A k \in Keys : k = key[w]
    BY <1>1 DEF Faultless, OneDeployment
  <1>5. pc[w] # "initStatus" => b[w].color \in Colors
    BY DEF Base, RolloutInv, WorkerState
  <1>6. pc[w] # "initStatus" => bgd[key[w]].color \in Colors
    <2>1. NotAhead(key[w], b[w])
      BY DEF Base, ColorsStay
    <2> QED BY <1>2, <1>3, <1>5, <2>1, ColorFacts DEF NotAhead, BlueGreenDeployment
  <1>7. pc[w] \in Rolling => bgd[key[w]].color = b[w].color
    BY DEF Base, RolloutInv, Rollover, RolloverOf
  <1>8. b[w] \in Versions(key[w])
    BY <1>2 DEF Versions
  <1> QED BY <1>1, <1>3, <1>4, <1>5, <1>6, <1>7, <1>8

\* Whether the only busy worker rolls over.
LEMMA RestsIff ==
  ASSUME Base, Faultless, NEW w \in Workers, pc[w] # "idle"
  PROVE  AtRestNow <=> pc[w] \notin Rolling
  BY Alone DEF Base, Faultless, AtRestNow, Rolling, Cleared, Filled

----------------------------------------------------------------------------
(* What makes a sync due.                                                  *)

\* A new version is on its way to the informer.
LEMMA ChangeIsPending ==
  ASSUME TypeInv, VersionStep, NEW k \in Keys, bgd'[k] # bgd[k]
  PROVE  Pending(k)'
  <1> DEFINE Obj == BlueGreenDeployment \union {Absent}
  <1>1. ASSUME NEW l \in Keys, NEW obj \in Obj, WriteBgd(l, obj) PROVE watch'[k] # << >>
    <2>1. watch[k] \in Seq(BlueGreenDeployment \union {Absent})
      BY DEF TypeInv, ClusterTypeOK
    <2>2. k = l /\ obj # bgd[k]
      BY <1>1 DEF WriteBgd, TypeInv, ClusterTypeOK
    <2>3. watch'[k] = Append(watch[k], obj)
      BY <1>1, <2>2 DEF WriteBgd, TypeInv, ClusterTypeOK
    <2> QED BY <2>1, <2>3
  <1>2. \E l \in Keys : \E obj \in Obj : WriteBgd(l, obj)
    BY DEF VersionStep, Writes, DeleteBgd, Deliver, apiVars
  <1> QED BY <1>1, <1>2 DEF Pending

\* Nothing is taken from a worker's key: its sync stays due until it takes it.
LEMMA WritesKeepPending ==
  ASSUME TypeInv, NEW k \in Keys, Pending(k),
         NEW l \in Keys, NEW obj, WriteBgd(l, obj), dirty \subseteq dirty', delayed \subseteq delayed'
  PROVE  Pending(k)'
  <1>1. watch[k] \in Seq(BlueGreenDeployment \union {Absent})
    BY DEF TypeInv, ClusterTypeOK
  <1>2. watch'[k] = watch[k] \/ watch'[k] = Append(watch[k], obj)
    BY DEF WriteBgd, TypeInv, ClusterTypeOK
  <1>3. watch[k] # << >> => watch'[k] # << >>
    BY <1>1, <1>2
  <1> QED BY <1>3 DEF Pending

LEMMA EventsKeepPending ==
  ASSUME TypeInv, RolloutInv, NEW k \in Keys, Pending(k),
         NEW l \in Keys, Deliver(l) \/ Resync(l) \/ HandleObject(l) \/ Retry(l)
  PROVE  Pending(k)'
  <1>1. CASE Deliver(l)
    <2>1. watch[l] \in Seq(BlueGreenDeployment \union {Absent}) /\ watch[l] # << >>
      BY <1>1 DEF Deliver, TypeInv, ClusterTypeOK
    <2>2. 1 \in 1 .. Len(watch[l]) /\ Head(watch[l]) = watch[l][1]
      BY <2>1
    <2>3. Head(watch[l]) # Absent
      BY <2>2 DEF RolloutInv, OneUid, SameObject
    <2>4. l \in dirty' /\ dirty \subseteq dirty' /\ delayed' = delayed
      BY <1>1, <2>3 DEF Deliver, Enqueue, Add
    <2>5. k # l => watch'[k] = watch[k]
      BY <1>1 DEF Deliver, TypeInv, ClusterTypeOK
    <2> QED BY <2>4, <2>5 DEF Pending
  <1>2. CASE Resync(l) \/ HandleObject(l)
    BY <1>2 DEF Resync, HandleObject, Enqueue, Add, clusterVars, Pending
  <1>3. CASE Retry(l)
    BY <1>3 DEF Retry, BackoffOver, clusterVars, Pending
  <1> QED BY <1>1, <1>2, <1>3

----------------------------------------------------------------------------
(* People and Kubernetes.                                                  *)

LEMMA SpecsKept ==
  ASSUME TypeInv, ClusterStep, NEW c \in Colors, rs'[c] # Absent
  PROVE  rs[c] # Absent /\ rs'[c].spec = rs[c].spec
  <1>1. ASSUME NEW d \in Colors, RunReplicaSet(d) PROVE rs[c] # Absent /\ rs'[c].spec = rs[c].spec
    <2>1. PICK n : rs' = [rs EXCEPT ![d].avail = n, ![d].observed = TRUE]
      BY <1>1 DEF RunReplicaSet
    <2>2. rs[d] \in ReplicaSet /\ rs[d] # Absent
      BY <1>1 DEF RunReplicaSet, TypeInv, ClusterTypeOK
    <2>3. rs'[c] = IF c = d THEN [rs[d] EXCEPT !.avail = n, !.observed = TRUE] ELSE rs[c]
      BY <2>1 DEF TypeInv, ClusterTypeOK
    <2>4. [rs[d] EXCEPT !.avail = n, !.observed = TRUE].spec = rs[d].spec
      BY <2>2 DEF ReplicaSet
    <2> QED BY <2>2, <2>3, <2>4
  <1>2. ASSUME NEW d \in Colors, PodFailure(d) PROVE rs[c] # Absent /\ rs'[c].spec = rs[c].spec
    <2>1. rs[d] \in ReplicaSet /\ rs[d] # Absent
      BY <1>2 DEF PodFailure, TypeInv, ClusterTypeOK
    <2>2. rs'[c] = IF c = d THEN [rs[d] EXCEPT !.avail = @ - 1] ELSE rs[c]
      BY <1>2 DEF PodFailure, TypeInv, ClusterTypeOK
    <2>3. [rs[d] EXCEPT !.avail = @ - 1].spec = rs[d].spec
      BY <2>1 DEF ReplicaSet
    <2> QED BY <2>1, <2>2, <2>3
  <1>3. ASSUME NEW d \in Colors, DropReplicaSet(d) \/ CollectGarbage(d)
        PROVE  rs[c] # Absent /\ rs'[c].spec = rs[c].spec
    BY <1>3 DEF DropReplicaSet, CollectGarbage, TypeInv, ClusterTypeOK
  <1>4. UNCHANGED rs => rs[c] # Absent /\ rs'[c].spec = rs[c].spec
    OBVIOUS
  <1> QED
    BY <1>1, <1>2, <1>3, <1>4
       DEF ClusterStep, CreateBgd, EditSpec, EditReplicas, DeleteBgd, DropService

\* A budget that is untouched was untouched before.
LEMMA StillUnscaled ==
  ASSUME TypeInv, Spending, [Next]_vars, Unscaled'
  PROVE  Unscaled
  <1>1. \/ UNCHANGED budget
        \/ \E e \in Events : budget[e] > 0 /\ budget' = [budget EXCEPT ![e] = @ - 1]
    BY BudgetStep
  <1>2. "scale" \in Events /\ budget["scale"] \in Nat /\ Budget["scale"] \in Nat
        /\ budget["scale"] =< Budget["scale"]
    BY ClusterAssumption DEF Events, TypeInv, ClusterTypeOK, Spending
  <1>3. budget'["scale"] =< budget["scale"]
    <2>1. ASSUME NEW e \in Events, budget' = [budget EXCEPT ![e] = @ - 1]
          PROVE  budget'["scale"] = IF e = "scale" THEN budget["scale"] - 1 ELSE budget["scale"]
      BY <1>2, <2>1 DEF TypeInv, ClusterTypeOK
    <2> QED BY <1>1, <1>2, <2>1
  <1> QED BY <1>2, <1>3 DEF Unscaled

\* Nor does a number of replicas change then.
LEMMA PeopleKeepReplicas ==
  ASSUME TypeInv, RolloutInv, Faultless, ClusterStep, Unscaled', NEW k \in Keys, bgd[k] # Absent
  PROVE  bgd'[k].replicas = bgd[k].replicas
  <1>0. bgd \in [Keys -> BlueGreenDeployment \union {Absent}]
    BY DEF TypeInv, ClusterTypeOK
  <1>1. ASSUME NEW l \in Keys, EditSpec(l) PROVE bgd'[k].replicas = bgd[k].replicas
    <2>1. PICK s \in UserSpecs : bgd' = [bgd EXCEPT ![l] = [bgd[l] EXCEPT !.spec = s]]
      BY <1>1 DEF EditSpec, WriteBgd
    <2>2. [bgd[k] EXCEPT !.spec = s].replicas = bgd[k].replicas
      BY <1>0 DEF BlueGreenDeployment
    <2> QED BY <1>0, <2>1, <2>2
  <1>2. ASSUME NEW l \in Keys, EditReplicas(l) PROVE FALSE
    <2>1. /\ budget["scale"] \in Nat /\ budget["scale"] =< Budget["scale"]
          /\ budget'["scale"] = budget["scale"] - 1 /\ Budget["scale"] \in Nat
      BY <1>2, ClusterAssumption
         DEF EditReplicas, Spend, Events, RolloutInv, Spending, TypeInv, ClusterTypeOK
    <2> QED BY <2>1 DEF Unscaled
  <1>3. ASSUME NEW l \in Keys, CreateBgd(l) PROVE bgd'[k].replicas = bgd[k].replicas
    BY <1>0, <1>3 DEF CreateBgd, WriteBgd
  <1>4. ASSUME NEW l \in Keys, DeleteBgd(l) PROVE FALSE
    BY <1>4, NoFaults DEF DeleteBgd
  <1>5. UNCHANGED bgd => bgd'[k].replicas = bgd[k].replicas
    OBVIOUS
  <1> QED
    BY <1>1, <1>2, <1>3, <1>4, <1>5
       DEF ClusterStep, DropService, DropReplicaSet, RunReplicaSet, PodFailure, CollectGarbage

\* What stays at rest keeps its versions in agreement.
LEMMA SameVersions ==
  ASSUME Base, SettledInv, [Next]_vars, UNCHANGED bgd,
         AtRestNow' => \A c \in Colors : rs[c] # Absent \/ ~ AtRestNow => rs'[c] # Absent
  PROVE  VersionsAgree'
  <1> SUFFICES ASSUME NEW k \in Keys, NEW obj, obj \in Versions(k)'
               PROVE  /\ obj.color = "green" /\ AtRestNow' => \A c \in Colors : rs'[c] # Absent
                      /\ Unscaled' => obj.replicas = bgd'[k].replicas
    BY DEF VersionsAgree
  <1>1. obj \in Versions(k)
    <2>1. obj # Absent
      BY DEF Versions
    <2> QED BY <2>1, VersionsKept DEF Base, Versions
  <1>2. /\ obj.color = "green" /\ AtRestNow => \A c \in Colors : rs[c] # Absent
        /\ Unscaled => obj.replicas = bgd[k].replicas
    BY <1>1 DEF SettledInv, VersionsAgree
  <1>3. Unscaled' => Unscaled
    BY StillUnscaled DEF Base, RolloutInv
  <1> QED BY <1>2, <1>3

LEMMA ClusterSettles ==
  ASSUME Base, SettledInv, Faultless, ClusterStep, UNCHANGED <<cache, queueVars, workerVars>>
  PROVE  SettledInv'
  <1>0. TypeInv /\ RolloutInv /\ Spending /\ Owned /\ OneDeployment /\ [Next]_vars
    BY DEF Base, RolloutInv, Faultless, Next
  <1>1. UNCHANGED svc
    BY NoFaults DEF ClusterStep, CreateBgd, EditSpec, EditReplicas, DeleteBgd, DropService,
                    DropReplicaSet, RunReplicaSet, PodFailure, CollectGarbage, Base
  <1>2. \A c \in Colors : /\ rs'[c] # Absent <=> rs[c] # Absent
                          /\ rs[c] # Absent => /\ rs'[c].spec = rs[c].spec
                                               /\ rs'[c].replicas = rs[c].replicas
    BY <1>0, ClusterPodStep, PodStepKeeps, SpecsKept DEF PodStep
  <1>3. \A k \in Keys :
          /\ bgd[k] # Absent => bgd'[k] # Absent /\ bgd'[k].color = bgd[k].color
          /\ bgd[k] = Absent /\ bgd'[k] # Absent => bgd'[k].color = NoColor
          /\ bgd[k] # Absent /\ Unscaled' => Unscaled /\ bgd'[k].replicas = bgd[k].replicas
    BY <1>0, PeopleKeepColor, PeopleKeepReplicas, StillUnscaled
  <1>4. UNCHANGED <<pc, key, b, seen, dirty, delayed>>
    BY DEF workerVars, queueVars
  <1>5. \A k \in Keys : bgd'[k] # bgd[k] => Pending(k)'
    BY <1>0, ClusterIsVersionStep, ChangeIsPending
  <1>6. \A k \in Keys : Pending(k) => Pending(k)'
    <2>1. \/ UNCHANGED watch
          \/ \E l \in Keys : \E obj : WriteBgd(l, obj)
      BY DEF ClusterStep, CreateBgd, EditSpec, EditReplicas, DeleteBgd, DropService,
             DropReplicaSet, RunReplicaSet, PodFailure, CollectGarbage
    <2> QED BY <1>0, <1>4, <2>1, WritesKeepPending DEF Pending
  <1>7. \A k \in Keys, c \in Colors : bgd[k] = Absent => rs[c] = Absent
    <2> SUFFICES ASSUME NEW k \in Keys, NEW c \in Colors, rs[c] # Absent
                 PROVE  bgd[k] # Absent
      OBVIOUS
    <2>1. rs[c] \in ReplicaSet
      BY <1>0 DEF TypeInv, ClusterTypeOK
    <2>2. OwnerAlive(rs[c]) /\ rs[c].owner \in Owner
      BY <1>0, <2>1 DEF Owned, ReplicaSet
    <2>3. rs[c].owner.name \in Keys
      BY <2>2 DEF Owner
    <2> QED BY <1>0, <2>2, <2>3 DEF OwnerAlive, OneDeployment
  <1>8. NothingMissed'
    <2> SUFFICES ASSUME NEW k \in Keys, bgd'[k] = bgd[k], bgd[k] # Absent,
                        ~ Pending(k), \A w \in Workers : key[w] # k
                 PROVE  Settled(k)'
      BY <1>4, <1>5, <1>6 DEF NothingMissed
    <2>1. Settled(k)
      BY DEF SettledInv, NothingMissed
    <2> QED BY <1>1, <1>2, <2>1 DEF Settled
  <1>9. MadeFromSpecs'
    <2>1. MadeFromSpecs
      BY DEF SettledInv
    <2> QED BY <1>2, <1>3, <1>7, <2>1 DEF MadeFromSpecs
  <1>10. VersionsAgree'
    <2> SUFFICES ASSUME NEW k \in Keys, NEW obj, obj \in Versions(k)'
                 PROVE  /\ obj.color = "green" /\ AtRestNow' =>
                             \A c \in Colors : rs'[c] # Absent
                        /\ Unscaled' => obj.replicas = bgd'[k].replicas
      BY DEF VersionsAgree
    <2>1. CASE obj \in Versions(k) /\ bgd[k] # Absent
      <3>1. /\ obj.color = "green" /\ AtRestNow => \A c \in Colors : rs[c] # Absent
            /\ Unscaled => obj.replicas = bgd[k].replicas
        BY <2>1 DEF SettledInv, VersionsAgree
      <3> QED BY <1>2, <1>3, <1>4, <2>1, <3>1 DEF AtRestNow
    <2>2. CASE obj = bgd'[k]
      <3>1. obj # Absent
        BY DEF Versions
      <3>2. CASE bgd[k] = Absent
        BY <1>3, <2>2, <3>1, <3>2 DEF NoColor
      <3>3. CASE bgd[k] # Absent
        <4>1. bgd[k] \in Versions(k) /\ bgd'[k].color = bgd[k].color
          BY <1>3, <3>3 DEF Versions
        <4>2. bgd[k].color = "green" /\ AtRestNow => \A c \in Colors : rs[c] # Absent
          BY <4>1 DEF SettledInv, VersionsAgree
        <4> QED BY <1>2, <1>4, <2>2, <4>1, <4>2 DEF AtRestNow
      <3> QED BY <3>2, <3>3
    <2>3. obj \in Versions(k) => bgd[k] # Absent
      <3>1. OneUid
        BY <1>0 DEF RolloutInv
      <3> QED BY <3>1 DEF OneUid, SameObject, Versions
    <2> QED BY <1>0, <2>1, <2>2, <2>3, VersionsKept
  <1>11. Resting'
    <2> SUFFICES ASSUME AtRestNow, NEW k \in Keys
                 PROVE  /\ ServiceFor(k)'
                        /\ \A c \in Colors : bgd'[k] # Absent => ReplicasOf(c, bgd[k])'
      BY <1>4 DEF Resting, AtRestNow
    <2>1. /\ ServiceFor(k)
          /\ \A c \in Colors : bgd[k] # Absent => ReplicasOf(c, bgd[k])
      BY DEF SettledInv, Resting
    <2>2. ServiceFor(k)'
      BY <1>1, <1>3, <2>1 DEF ServiceFor
    <2>3. ASSUME NEW c \in Colors, bgd'[k] # Absent PROVE ReplicasOf(c, bgd[k])'
      BY <1>2, <1>3, <1>7, <2>1, <2>3 DEF ReplicasOf
    <2> QED BY <2>2, <2>3
  <1>12. ASSUME NEW w \in Workers PROVE Got(w)' /\ UpToDate(w)' /\ RollingOver(w)'
    <2>0. Got(w) /\ UpToDate(w) /\ RollingOver(w)
      BY DEF SettledInv
    <2>1. CASE pc[w] \in {"idle", "lister"}
      BY <1>4, <2>1 DEF Got, UpToDate, RollingOver, GotBlue, GotGreen, Rolling, Cleared, Filled
    <2>2. CASE pc[w] \notin {"idle", "lister"}
      <3>1. key[w] \in Keys /\ {"blue", "green"} \subseteq Colors
        BY <2>2, Holder DEF Colors
      <3>2. Other(b[w].color) \in Colors
            /\ (pc[w] \in {"scaleUp", "delete"} => b[w].color \in Colors)
        BY <2>2, Holder DEF Other, Colors
      <3>3. Got(w)'
        BY <1>1, <1>2, <1>4, <2>0, <3>1, <3>2 DEF Got
      <3>4. UpToDate(w)'
        BY <1>2, <1>4, <1>5, <1>6, <2>0, <3>1 DEF UpToDate, Got
      <3>5. RollingOver(w)'
        BY <1>1, <1>2, <1>4, <2>0, <3>2 DEF RollingOver, Rolling, Filled
      <3> QED BY <3>3, <3>4, <3>5
    <2> QED BY <2>1, <2>2
  <1> QED BY <1>8, <1>9, <1>10, <1>11, <1>12 DEF SettledInv

----------------------------------------------------------------------------
(* The steps of a worker.                                                  *)

\* What a busy worker that is not rolling over finds.
LEMMA RestingNow ==
  ASSUME Base, SettledInv, Faultless, NEW w \in Workers, pc[w] # "idle", pc[w] \notin Rolling,
         NEW k \in Keys
  PROVE  /\ ServiceFor(k)
         /\ \A c \in Colors : bgd[k] # Absent => ReplicasOf(c, bgd[k])
  BY RestsIff DEF SettledInv, Resting

\* A busy worker's step needs a look at that worker only.
LEMMA OnlyThisOneSettles ==
  ASSUME Base, Faultless, NEW w \in Workers, pc[w] # "idle",
         \A v \in Workers \ {w} : pc'[v] \in {pc[v], "idle"},
         Got(w)', UpToDate(w)', RollingOver(w)',
         NothingMissed', MadeFromSpecs', VersionsAgree',
         pc'[w] \notin Rolling => Resting'
  PROVE  SettledInv'
  <1>1. ASSUME NEW v \in Workers, v # w PROVE Got(v)' /\ UpToDate(v)' /\ RollingOver(v)'
    <2>1. pc'[v] = "idle"
      BY <1>1, Alone DEF Base, Faultless
    <2> QED
      BY <2>1 DEF Got, UpToDate, RollingOver, GotBlue, GotGreen, Rolling, Cleared, Filled
  <1>2. Resting'
    BY DEF Resting, AtRestNow
  <1> QED BY <1>1, <1>2 DEF SettledInv

\* A worker goes on to its next call with what it holds.
GoesOn(w, l) ==
  /\ pc[w] \notin {"idle", "lister", "initStatus"}
  /\ pc' = [pc EXCEPT ![w] = l]
  /\ UNCHANGED <<bgd, watch, key, b, dirty, delayed>>
  /\ budget'["scale"] = budget["scale"]

LEMMA GoesOnSettles ==
  ASSUME Base, SettledInv, Faultless, [Next]_vars,
         NEW w \in Workers, NEW l \in Mid \ {"scaleUp", "delete"}, GoesOn(w, l),
         (l \in Rolling) = (pc[w] \in Rolling),
         l \in GotBlue => rs'["blue"] # Absent /\ seen'[w]["blue"] = rs'["blue"].spec,
         l \in GotGreen => rs'["green"] # Absent /\ seen'[w]["green"] = rs'["green"].spec,
         l \in {"compare", "flip"} \union Rolling => svc' # Absent,
         l \in Rolling => rs'[Other(b[w].color)] # Absent,
         l \in {"waitDown", "updateService"} => rs'[Other(b[w].color)].replicas = 0,
         l \notin Rolling => /\ \A c \in Colors : rs[c] # Absent => rs'[c] # Absent
                             /\ ServiceFor(key[w])'
                             /\ \A c \in Colors : ReplicasOf(c, bgd[key[w]])',
         MadeFromSpecs'
  PROVE  SettledInv'
  <1>1. /\ pc'[w] = l /\ l \notin {"idle", "lister"}
        /\ \A v \in Workers \ {w} : pc'[v] = pc[v]
    BY DEF GoesOn, Mid, Base, TypeInv, LocalOK, SyncTypeOK
  <1>2. pc[w] \notin {"idle", "lister"} /\ \A k \in Keys : k = key[w]
    BY Holder DEF GoesOn
  <1>3. NothingMissed'
    BY <1>2 DEF NothingMissed, GoesOn
  <1>4. UpToDate(w)
    BY DEF SettledInv
  <1>5. UpToDate(w)'
    BY <1>1, <1>2, <1>4 DEF UpToDate, GoesOn, Pending
  <1>6. Got(w)'
    BY <1>1 DEF Got
  <1>7. RollingOver(w)'
    BY <1>1 DEF RollingOver, GoesOn
  <1>8. l \notin Rolling => Resting'
    BY <1>2 DEF Resting, GoesOn
  <1>9. VersionsAgree'
    <2>1. AtRestNow' => l \notin Rolling
      BY <1>1 DEF AtRestNow
    <2>2. l \notin Rolling => AtRestNow
      BY <1>2, RestsIff
    <2>3. UNCHANGED bgd
      BY DEF GoesOn
    <2> QED BY <2>1, <2>2, <2>3, SameVersions
  <1> QED
    BY <1>1, <1>2, <1>3, <1>5, <1>6, <1>7, <1>8, <1>9, OnlyThisOneSettles

\* As long as it leaves the cluster alone there is little to say.
LEMMA GoesOnAloneSettles ==
  ASSUME Base, SettledInv, Faultless, [Next]_vars,
         NEW w \in Workers, NEW l \in Mid \ {"scaleUp", "delete"}, GoesOn(w, l),
         UNCHANGED <<rs, svc, seen>>,
         (l \in Rolling) = (pc[w] \in Rolling),
         l \in GotBlue => pc[w] \in GotBlue,
         l \in GotGreen => pc[w] \in GotGreen,
         l \in {"compare", "flip"} => svc # Absent,
         l \in {"waitDown", "updateService"} => pc[w] \in {"waitDown", "updateService"}
  PROVE  SettledInv'
  <1>1. Got(w) /\ UpToDate(w) /\ RollingOver(w) /\ MadeFromSpecs
    BY DEF SettledInv
  <1>2. MadeFromSpecs'
    BY <1>1 DEF MadeFromSpecs, GoesOn
  <1>3. ASSUME l \notin Rolling
        PROVE  ServiceFor(key[w])' /\ \A c \in Colors : ReplicasOf(c, bgd[key[w]])'
    <2>1. key[w] \in Keys /\ bgd[key[w]] # Absent
      BY Holder DEF GoesOn
    <2>2. ServiceFor(key[w]) /\ \A c \in Colors : ReplicasOf(c, bgd[key[w]])
      BY <1>3, <2>1, RestingNow DEF GoesOn
    <2> QED BY <2>2 DEF ServiceFor, ReplicasOf, GoesOn, Unscaled
  <1>4. /\ l \in GotBlue => rs'["blue"] # Absent /\ seen'[w]["blue"] = rs'["blue"].spec
        /\ l \in GotGreen => rs'["green"] # Absent /\ seen'[w]["green"] = rs'["green"].spec
    BY <1>1 DEF Got, UpToDate
  <1>5. /\ l \in {"compare", "flip"} \union Rolling => svc' # Absent
        /\ l \in Rolling => rs'[Other(b[w].color)] # Absent
        /\ l \in {"waitDown", "updateService"} => rs'[Other(b[w].color)].replicas = 0
    BY <1>1 DEF RollingOver
  <1> QED BY <1>2, <1>3, <1>4, <1>5, GoesOnSettles

LEMMA WaitGoesOn ==
  ASSUME Base, NEW w \in Workers, NEW at \in Mid, NEW c, NEW n, NEW next,
         WaitAllReplicaSetPodsAvailable(w, at, c, n, next)
  PROVE  pc[w] = at /\ GoesOn(w, next) /\ UNCHANGED <<rs, svc, seen>>
  <1>1. budget'["scale"] = budget["scale"]
    <2>1. Spend("timeout") => budget'["scale"] = budget["scale"]
      BY DEF Spend, Events, Base, TypeInv, ClusterTypeOK
    <2> QED BY <2>1 DEF WaitAllReplicaSetPodsAvailable
  <1> QED BY <1>1 DEF WaitAllReplicaSetPodsAvailable, Goto, GoesOn, Mid, apiVars, queueVars

LEMMA CreateGoesOn ==
  ASSUME Base, Faultless, NEW w \in Workers, NEW c \in Colors,
         NEW get \in Mid, NEW create \in Mid, NEW wait \in Mid, NEW next,
         CreateReplicaSetIfNotFound(w, get, create, wait, c, next)
  PROVE  /\ UNCHANGED svc
         /\ \/ /\ pc[w] = get /\ rs[c] # Absent
               /\ GoesOn(w, next) /\ UNCHANGED rs
               /\ seen' = [seen EXCEPT ![w][c] = rs[c].spec]
            \/ pc[w] = get /\ GoesOn(w, create) /\ UNCHANGED <<rs, seen>>
            \/ /\ pc[w] = create /\ rs[c] = Absent /\ GoesOn(w, wait)
               /\ rs' = [rs EXCEPT ![c] = NewReplicaSet(key[w], b[w], c)]
               /\ seen' = [seen EXCEPT ![w][c] = Defaulted[b[w].spec]]
            \/ pc[w] = create /\ rs[c] # Absent /\ Refused(w)
            \/ pc[w] = wait /\ GoesOn(w, next) /\ UNCHANGED <<rs, seen>>
  <1>1. ~ Spend("lostReply")
    BY NoFaults DEF Base
  <1>2. CASE WaitAllReplicaSetPodsAvailable(w, wait, c,
               NewReplicaSet(key[w], b[w], c).replicas, next)
    BY <1>2, WaitGoesOn
  <1>3. CASE ~ WaitAllReplicaSetPodsAvailable(w, wait, c,
               NewReplicaSet(key[w], b[w], c).replicas, next)
    <2>1. NewReplicaSet(key[w], b[w], c).spec = Defaulted[b[w].spec]
      BY DEF NewReplicaSet
    <2> QED
      BY <1>1, <1>3, <2>1
         DEF CreateReplicaSetIfNotFound, Refused, Reply, Goto, GotoSeen, GoesOn, Mid,
             apiVars, queueVars
  <1> QED BY <1>2, <1>3

LEMMA ScaleGoesOn ==
  ASSUME Base, Faultless, NEW w \in Workers, NEW c \in Colors, NEW n,
         NEW scale \in Mid, NEW wait \in Mid, NEW next,
         pc[w] = scale => rs[c] # Absent,
         ScaleReplicaSet(w, scale, wait, c, n, next)
  PROVE  /\ UNCHANGED <<svc, seen>>
         /\ \/ /\ pc[w] = scale /\ GoesOn(w, wait)
               /\ rs' = [rs EXCEPT ![c] = Scaled(rs[c], n)]
            \/ pc[w] = wait /\ GoesOn(w, next) /\ UNCHANGED rs
  <1>1. ~ Spend("lostReply")
    BY NoFaults DEF Base
  <1>2. CASE WaitAllReplicaSetPodsAvailable(w, wait, c, n, next)
    BY <1>2, WaitGoesOn
  <1>3. CASE ~ WaitAllReplicaSetPodsAvailable(w, wait, c, n, next)
    BY <1>1, <1>3
       DEF ScaleReplicaSet, Reply, Goto, GoesOn, Mid, apiVars, queueVars
  <1> QED BY <1>2, <1>3

\* A worker that gives its key back.
LEMMA IdleSettles ==
  ASSUME Base, SettledInv, Faultless, [Next]_vars, NEW w \in Workers, pc[w] # "idle",
         Idle(w), UNCHANGED <<bgd, rs, budget>>,
         pc[w] \in Rolling => \A c \in Colors : rs[c] # Absent,
         Resting',
         \A k \in Keys : k = key[w] /\ bgd[k] # Absent => Pending(k)' \/ Settled(k)'
  PROVE  SettledInv'
  <1>1. pc'[w] = "idle" /\ \A v \in Workers \ {w} : pc'[v] = pc[v]
    BY DEF Idle, Base, TypeInv, LocalOK, SyncTypeOK
  <1>2. key[w] \in Keys /\ \A k \in Keys : k = key[w]
    BY DEF Base, TypeInv, LocalOK, RolloutInv, WorkerState, SyncTypeOK, Faultless, OneDeployment
  <1>3. NothingMissed'
    BY <1>2 DEF NothingMissed
  <1>4. Got(w)' /\ UpToDate(w)' /\ RollingOver(w)'
    BY <1>1 DEF Got, UpToDate, RollingOver, GotBlue, GotGreen, Rolling, Cleared, Filled
  <1>5. MadeFromSpecs'
    BY DEF SettledInv, MadeFromSpecs
  <1>6. VersionsAgree'
    BY RestsIff, SameVersions
  <1> QED BY <1>1, <1>3, <1>4, <1>5, <1>6, OnlyThisOneSettles

\* At rest it stays at rest as long as the cluster stays as it is.
LEMMA StillResting ==
  ASSUME Base, SettledInv, Faultless, NEW w \in Workers, pc[w] # "idle", pc[w] \notin Rolling,
         UNCHANGED <<bgd, rs, svc, budget>>
  PROVE  Resting'
  BY RestingNow DEF Resting, ServiceFor, ReplicasOf, Unscaled

LEMMA RefusedSettles ==
  ASSUME Base, SettledInv, Faultless, [Next]_vars,
         NEW w \in Workers, pc[w] # "idle", pc[w] \notin Rolling, Refused(w)
  PROVE  SettledInv'
  <1>1. UNCHANGED <<bgd, rs, svc, budget>> /\ Idle(w) /\ delayed' = delayed \union {key[w]}
    BY DEF Refused, ReturnError, AddRateLimitedAndDone, apiVars
  <1>2. \A k \in Keys : k = key[w] => Pending(k)'
    BY <1>1 DEF Pending
  <1> QED BY <1>1, <1>2, IdleSettles, StillResting

----------------------------------------------------------------------------
(* The calls, one by one.                                                  *)

LEMMA ListerSettles ==
  ASSUME Base, SettledInv, Faultless, [Next]_vars, NEW w \in Workers, Lister(w)
  PROVE  SettledInv'
  <1>1. /\ pc[w] = "lister" /\ pc[w] \notin Rolling /\ pc[w] # "idle"
        /\ UNCHANGED <<bgd, rs, svc, watch, budget>>
    BY DEF Lister, clusterVars, Rolling, Cleared, Filled
  <1>2. key[w] \in Keys /\ \A k \in Keys : k = key[w]
    BY <1>1 DEF Base, TypeInv, LocalOK, RolloutInv, WorkerState, SyncTypeOK, Faultless,
                OneDeployment
  <1>3. cache[key[w]] = bgd[key[w]] \/ watch[key[w]] # << >>
    BY <1>2 DEF Base, CacheCatchesUp, Latest
  <1>4. Resting'
    BY <1>1, StillResting
  <1>5. CASE cache[key[w]] = Absent /\ ReturnNil(w)
    BY <1>1, <1>3, <1>4, <1>5, IdleSettles DEF ReturnNil, Pending
  <1>6. ASSUME NEW l \in {"initStatus", "getBlue"}, GotoWith(w, l, cache[key[w]])
        PROVE  SettledInv'
    <2>1. /\ pc'[w] = l /\ b'[w] = cache[key[w]] /\ UNCHANGED key
          /\ \A v \in Workers \ {w} : pc'[v] = pc[v]
      BY <1>6 DEF GotoWith, Base, TypeInv, LocalOK, SyncTypeOK
    <2>2. Got(w)' /\ RollingOver(w)'
      BY <2>1 DEF Got, RollingOver, GotBlue, GotGreen, Rolling, Cleared, Filled
    <2>3. UpToDate(w)'
      BY <1>1, <1>3, <2>1 DEF UpToDate, GotBlue, GotGreen, Rolling, Cleared, Filled, Pending
    <2>4. NothingMissed'
      BY <1>2, <2>1 DEF NothingMissed
    <2>5. MadeFromSpecs'
      BY <1>1 DEF SettledInv, MadeFromSpecs
    <2>6. VersionsAgree'
      BY <1>1, RestsIff, SameVersions
    <2> QED BY <1>1, <1>4, <2>1, <2>2, <2>3, <2>4, <2>5, <2>6, OnlyThisOneSettles
  <1> QED BY <1>5, <1>6 DEF Lister

\* What an update of the status leaves.
LEMMA UpdateSucceeds ==
  ASSUME Base, Faultless, NEW w \in Workers, NEW c \in Colors, NEW next,
         pc[w] \notin {"idle", "lister"},
         UpdateBlueGreenDeployment(w, c, next)
  PROVE  /\ UNCHANGED <<rs, svc, seen, dirty, delayed, budget>>
         /\ bgd'[key[w]] # Absent /\ bgd'[key[w]].color = c
         /\ bgd'[key[w]].replicas = bgd[key[w]].replicas
         /\ pc'[w] = next /\ key'[w] = key[w] /\ b'[w] = bgd'[key[w]]
         /\ \A v \in Workers \ {w} : pc'[v] = pc[v]
         /\ \E obj : WriteBgd(key[w], obj)
  <1>1. key[w] \in Keys /\ bgd[key[w]] \in BlueGreenDeployment /\ bgd[key[w]] # Absent
    BY Holder
  <1> DEFINE new == [bgd[key[w]] EXCEPT !.color = c]
  <1>2. /\ WriteBgd(key[w], new) /\ GotoWith(w, next, new)
        /\ UNCHANGED <<rs, svc, budget>>
    BY <1>1, NoFaults DEF UpdateBlueGreenDeployment, Reply, Base
  <1>3. /\ new.color = c /\ new \in BlueGreenDeployment
        /\ new.replicas = bgd[key[w]].replicas
    BY <1>1 DEF BlueGreenDeployment
  <1>4. bgd'[key[w]] = new
    BY <1>1, <1>2 DEF WriteBgd, Base, TypeInv, ClusterTypeOK
  <1>5. new # Absent
    BY <1>3, ClusterAssumption
  <1> HIDE DEF new
  <1> QED
    BY <1>2, <1>3, <1>4, <1>5 DEF GotoWith, queueVars, Base, TypeInv, LocalOK, SyncTypeOK

\* It makes no version that disagrees.
LEMMA UpdateAgrees ==
  ASSUME Base, SettledInv, [Next]_vars, UNCHANGED rs, AtRestNow' => AtRestNow,
         \A k \in Keys : /\ bgd[k] # Absent /\ bgd'[k].replicas = bgd[k].replicas
                         /\ bgd'[k].color = "green" => ~ AtRestNow'
  PROVE  VersionsAgree'
  <1> SUFFICES ASSUME NEW k \in Keys, NEW obj, obj \in Versions(k)'
               PROVE  /\ obj.color = "green" /\ AtRestNow' => \A c \in Colors : rs'[c] # Absent
                      /\ Unscaled' => obj.replicas = bgd'[k].replicas
    BY DEF VersionsAgree
  <1>1. obj \in Versions(k) \/ obj = bgd'[k]
    BY VersionsKept DEF Base
  <1>2. CASE obj = bgd'[k]
    BY <1>2
  <1>3. CASE obj \in Versions(k)
    <2>1. /\ obj.color = "green" /\ AtRestNow => \A c \in Colors : rs[c] # Absent
          /\ Unscaled => obj.replicas = bgd[k].replicas
      BY <1>3 DEF SettledInv, VersionsAgree
    <2>2. Unscaled' => Unscaled
      BY StillUnscaled DEF Base, RolloutInv
    <2> QED BY <2>1, <2>2
  <1> QED BY <1>1, <1>2, <1>3

LEMMA InitStatusSettles ==
  ASSUME Base, SettledInv, Faultless, [Next]_vars, NEW w \in Workers, InitStatus(w)
  PROVE  SettledInv'
  <1>1. pc[w] = "initStatus" /\ pc[w] \notin Rolling /\ pc[w] # "idle"
    BY DEF InitStatus, Rolling, Cleared, Filled
  <1>2. /\ UNCHANGED <<rs, svc, budget>>
        /\ bgd'[key[w]] # Absent /\ bgd'[key[w]].color = "blue"
        /\ bgd'[key[w]].replicas = bgd[key[w]].replicas
        /\ pc'[w] = "getBlue" /\ key'[w] = key[w] /\ b'[w] = bgd'[key[w]]
        /\ \A v \in Workers \ {w} : pc'[v] = pc[v]
    BY <1>1, UpdateSucceeds DEF InitStatus, Colors
  <1>3. /\ bgd[key[w]] # Absent /\ bgd[key[w]].color \in {NoColor, "blue"}
        /\ key[w] \in Keys /\ \A k \in Keys : k = key[w]
    BY <1>1, Holder DEF Base, NotYetFlipped
  <1>4. NothingMissed'
    BY <1>2, <1>3 DEF NothingMissed
  <1>5. Got(w)' /\ UpToDate(w)' /\ RollingOver(w)'
    BY <1>2 DEF Got, UpToDate, RollingOver, GotBlue, GotGreen, Rolling, Cleared, Filled
  <1>6. MadeFromSpecs'
    BY <1>2, <1>3, ColorFacts DEF SettledInv, MadeFromSpecs, NoColor
  <1>7. VersionsAgree'
    BY <1>1, <1>2, <1>3, RestsIff, UpdateAgrees
  <1>8. Resting'
    <2>1. ServiceFor(key[w]) /\ \A c \in Colors : ReplicasOf(c, bgd[key[w]])
      BY <1>1, <1>3, RestingNow
    <2>2. ServiceFor(key[w])'
      BY <1>2, <1>3, <2>1, ColorFacts DEF ServiceFor, Base, TypeInv, ClusterTypeOK
    <2>3. bgd[key[w]].color = NoColor => \A c \in Colors : rs[c] = Absent
      BY <1>3 DEF SettledInv, MadeFromSpecs
    <2>4. \A c \in Colors : ReplicasOf(c, bgd[key[w]])'
      BY <1>2, <1>3, <2>1, <2>3 DEF ReplicasOf, Unscaled
    <2> QED BY <1>2, <1>3, <2>2, <2>4 DEF Resting
  <1> QED BY <1>1, <1>2, <1>4, <1>5, <1>6, <1>7, <1>8, OnlyThisOneSettles

\* What a creation leaves.
LEMMA NewFromSpecs ==
  ASSUME Base, SettledInv, Faultless, NEW w \in Workers,
         pc[w] \notin {"idle", "lister", "initStatus"}, UNCHANGED bgd,
         NEW c \in Colors, rs' = [rs EXCEPT ![c] = NewReplicaSet(key[w], b[w], c)]
  PROVE  /\ MadeFromSpecs'
         /\ rs'[c] # Absent
         /\ rs'[c].spec = Defaulted[b[w].spec]
         /\ rs'[c].replicas = IF b[w].color = c THEN b[w].replicas ELSE 0
         /\ \A d \in Colors \ {c} : rs'[d] = rs[d]
  <1>1. /\ rs'[c] = NewReplicaSet(key[w], b[w], c)
        /\ \A d \in Colors \ {c} : rs'[d] = rs[d]
    BY DEF Base, TypeInv, ClusterTypeOK
  <1>2. /\ rs'[c].spec = Defaulted[b[w].spec]
        /\ rs'[c].replicas = IF b[w].color = c THEN b[w].replicas ELSE 0
    BY <1>1 DEF NewReplicaSet
  <1>3. b[w].spec \in UserSpecs /\ rs'[c] # Absent
    <2>1. key[w] \in Keys /\ b[w] \in BlueGreenDeployment
      BY Holder
    <2>2. NewReplicaSet(key[w], b[w], c) \in ReplicaSet
      BY <2>1, NewReplicaSetType
    <2> QED BY <1>1, <2>1, <2>2, ClusterAssumption DEF BlueGreenDeployment
  <1>4. \A k \in Keys : bgd[k].color # NoColor
    BY Holder, ColorFacts
  <1>5. MadeFromSpecs'
    BY <1>1, <1>2, <1>3, <1>4 DEF SettledInv, MadeFromSpecs
  <1> QED BY <1>1, <1>2, <1>3, <1>5

\* What a worker that looks for a ReplicaSet has seen of it and of the other.
LEMMA SeenNow ==
  ASSUME Base, NEW w \in Workers, NEW c \in Colors, NEW s,
         seen' = [seen EXCEPT ![w][c] = s]
  PROVE  /\ seen'[w][c] = s
         /\ \A d \in Colors \ {c} : seen'[w][d] = seen[w][d]
  BY DEF Base, TypeInv, LocalOK, SyncTypeOK

\* Whoever finds a ReplicaSet missing when nobody rolls over is at the start.
LEMMA MissingAtFirst ==
  ASSUME Base, SettledInv, Faultless, NEW w \in Workers,
         pc[w] \notin {"idle", "lister", "initStatus"}, pc[w] \notin Rolling,
         NEW c \in Colors, rs[c] = Absent
  PROVE  /\ b[w].color = "blue" /\ bgd[key[w]].color = "blue"
         /\ Unscaled => b[w].replicas = bgd[key[w]].replicas
  <1>1. /\ b[w] \in Versions(key[w]) /\ key[w] \in Keys /\ bgd[key[w]] # Absent
        /\ b[w].color \in Colors /\ bgd[key[w]].color \in Colors
    BY Holder
  <1>2. bgd[key[w]] \in Versions(key[w])
    BY <1>1 DEF Versions
  <1>3. AtRestNow
    BY RestsIff
  <1>4. \A obj \in Versions(key[w]) : /\ obj.color # "green"
                                      /\ Unscaled => obj.replicas = bgd[key[w]].replicas
    BY <1>1, <1>3 DEF SettledInv, VersionsAgree
  <1> QED BY <1>1, <1>2, <1>4 DEF Colors

\* Before the flip, createReplicaSetIfNotFound.
LEMMA CreateSettles ==
  ASSUME Base, SettledInv, Faultless, [Next]_vars, NEW w \in Workers,
         NEW c \in Colors, NEW get \in Mid, NEW create \in Mid, NEW wait \in Mid, NEW next \in Mid,
         pc[w] \notin {"idle", "lister", "initStatus"}, pc[w] \notin Rolling,
         \A l \in {create, wait, next} : l \notin Rolling,
         c = "blue" => /\ get = "getBlue" /\ create = "createBlue"
                       /\ wait = "waitBlue" /\ next = "getGreen",
         c = "green" => /\ get = "getGreen" /\ create = "createGreen"
                        /\ wait = "waitGreen" /\ next = "getService",
         CreateReplicaSetIfNotFound(w, get, create, wait, c, next)
  PROVE  SettledInv'
  <1>1. MadeFromSpecs /\ Got(w) /\ UpToDate(w)
    BY DEF SettledInv
  <1>2. /\ bgd[key[w]] # Absent /\ key[w] \in Keys
        /\ "blue" \in Colors /\ "green" \in Colors /\ c \in {"blue", "green"}
    BY Holder DEF Colors
  <1>3. /\ ServiceFor(key[w])
        /\ \A d \in Colors : ReplicasOf(d, bgd[key[w]])
    BY <1>2, RestingNow
  <1>4. \A l \in {create, wait, next} :
          l \notin {"scaleUp", "delete", "compare", "flip", "waitDown", "updateService"}
    BY <1>2
  <1>5. CASE /\ pc[w] = get /\ rs[c] # Absent /\ GoesOn(w, next) /\ UNCHANGED <<rs, svc>>
             /\ seen' = [seen EXCEPT ![w][c] = rs[c].spec]
    <2>1. /\ seen'[w][c] = rs[c].spec
          /\ \A d \in Colors \ {c} : seen'[w][d] = seen[w][d]
      BY <1>5, SeenNow
    <2>2. next \in GotBlue => rs'["blue"] # Absent /\ seen'[w]["blue"] = rs'["blue"].spec
      BY <1>1, <1>2, <1>5, <2>1 DEF Got, UpToDate, GotBlue, GotGreen
    <2>3. next \in GotGreen => rs'["green"] # Absent /\ seen'[w]["green"] = rs'["green"].spec
      BY <1>1, <1>2, <1>5, <2>1 DEF Got, UpToDate, GotBlue, GotGreen
    <2>4. MadeFromSpecs'
      BY <1>1, <1>5 DEF MadeFromSpecs, GoesOn
    <2>5. ServiceFor(key[w])' /\ \A d \in Colors : ReplicasOf(d, bgd[key[w]])'
      BY <1>3, <1>5 DEF ServiceFor, ReplicasOf, GoesOn, Unscaled
    <2> QED BY <1>4, <1>5, <2>2, <2>3, <2>4, <2>5, GoesOnSettles
  <1>6. CASE pc[w] = get /\ GoesOn(w, create) /\ UNCHANGED <<rs, svc, seen>>
    <2>1. /\ create \in GotBlue => pc[w] \in GotBlue
          /\ create \in GotGreen => pc[w] \in GotGreen
      BY <1>2, <1>6 DEF GotBlue, GotGreen
    <2> QED BY <1>4, <1>6, <2>1, GoesOnAloneSettles
  <1>7. CASE /\ pc[w] = create /\ rs[c] = Absent /\ GoesOn(w, wait) /\ UNCHANGED svc
             /\ rs' = [rs EXCEPT ![c] = NewReplicaSet(key[w], b[w], c)]
             /\ seen' = [seen EXCEPT ![w][c] = Defaulted[b[w].spec]]
    <2>1. /\ seen'[w][c] = Defaulted[b[w].spec]
          /\ \A d \in Colors \ {c} : seen'[w][d] = seen[w][d]
      BY <1>7, SeenNow
    <2>2. /\ MadeFromSpecs'
          /\ rs'[c] # Absent
          /\ rs'[c].spec = Defaulted[b[w].spec]
          /\ rs'[c].replicas = IF b[w].color = c THEN b[w].replicas ELSE 0
          /\ \A d \in Colors \ {c} : rs'[d] = rs[d]
      BY <1>7, NewFromSpecs DEF GoesOn
    <2>3. wait \in GotBlue => rs'["blue"] # Absent /\ seen'[w]["blue"] = rs'["blue"].spec
      BY <1>1, <1>2, <1>7, <2>1, <2>2 DEF Got, UpToDate, GotBlue, GotGreen
    <2>4. wait \in GotGreen => rs'["green"] # Absent /\ seen'[w]["green"] = rs'["green"].spec
      BY <1>1, <1>2, <1>7, <2>1, <2>2 DEF Got, UpToDate, GotBlue, GotGreen
    <2>5. ServiceFor(key[w])'
      BY <1>3, <1>7 DEF ServiceFor, GoesOn
    <2>6. ASSUME NEW d \in Colors PROVE ReplicasOf(d, bgd[key[w]])'
      <3>1. ReplicasOf(d, bgd[key[w]])
        BY <1>3
      <3>2. /\ b[w].color = "blue" /\ bgd[key[w]].color = "blue"
            /\ Unscaled' => Unscaled /\ b[w].replicas = bgd[key[w]].replicas
        BY <1>7, MissingAtFirst DEF GoesOn, Unscaled
      <3> QED BY <1>7, <2>2, <3>1, <3>2 DEF ReplicasOf, GoesOn
    <2>7. \A d \in Colors : rs[d] # Absent => rs'[d] # Absent
      BY <1>7, <2>2
    <2> QED BY <1>4, <1>7, <2>2, <2>3, <2>4, <2>5, <2>6, <2>7, GoesOnSettles
  <1>8. CASE pc[w] = wait /\ GoesOn(w, next) /\ UNCHANGED <<rs, svc, seen>>
    <2>1. /\ next \in GotBlue => pc[w] \in GotBlue
          /\ next \in GotGreen => pc[w] \in GotGreen
      BY <1>2, <1>8 DEF GotBlue, GotGreen
    <2> QED BY <1>4, <1>8, <2>1, GoesOnAloneSettles
  <1>9. pc[w] # "idle"
    OBVIOUS
  <1> QED BY <1>5, <1>6, <1>7, <1>8, <1>9, CreateGoesOn, RefusedSettles

LEMMA CreateReplicaSetsSettles ==
  ASSUME Base, SettledInv, Faultless, [Next]_vars, NEW w \in Workers,
         CreateReplicaSetsIfNotFound(w)
  PROVE  SettledInv'
  <1>1. /\ pc[w] \notin {"idle", "lister", "initStatus"} /\ pc[w] \notin Rolling
    BY DEF CreateReplicaSetsIfNotFound, CreateReplicaSetIfNotFound,
           WaitAllReplicaSetPodsAvailable, Rolling, Cleared, Filled
  <1>2. /\ "blue" \in Colors /\ "green" \in Colors
        /\ {"getBlue", "createBlue", "waitBlue", "getGreen", "createGreen", "waitGreen",
            "getService"} \subseteq Mid \ Rolling
    BY DEF Colors, Mid, Labels, Calls, Polls, Rolling, Cleared, Filled
  <1>3. CASE CreateReplicaSetIfNotFound(w, "getBlue", "createBlue", "waitBlue", "blue", "getGreen")
    BY <1>1, <1>2, <1>3, CreateSettles
  <1>4. CASE CreateReplicaSetIfNotFound(w, "getGreen", "createGreen", "waitGreen", "green",
                                        "getService")
    BY <1>1, <1>2, <1>4, CreateSettles
  <1> QED BY <1>3, <1>4 DEF CreateReplicaSetsIfNotFound

LEMMA CreateServiceSettles ==
  ASSUME Base, SettledInv, Faultless, [Next]_vars, NEW w \in Workers, CreateServiceIfNotFound(w)
  PROVE  SettledInv'
  <1>1. pc[w] \in {"getService", "createService"} /\ pc[w] \notin Rolling
    BY DEF CreateServiceIfNotFound, Rolling, Cleared, Filled
  <1>2. {"createService", "compare"} \subseteq Mid
    BY DEF Mid, Labels, Calls
  <1>3. /\ Got(w) /\ UpToDate(w) /\ MadeFromSpecs
        /\ key[w] \in Keys /\ bgd[key[w]] # Absent /\ bgd[key[w]].color \in Colors
    BY <1>1, Holder DEF SettledInv
  <1>4. ASSUME NEW l \in {"createService", "compare"}, Goto(w, l),
               UNCHANGED <<bgd, rs, watch, budget>>
        PROVE  GoesOn(w, l) /\ UNCHANGED <<rs, seen>>
    BY <1>1, <1>4 DEF GoesOn, Goto, queueVars
  <1>5. ASSUME NEW l \in {"createService", "compare"}, Goto(w, l),
               UNCHANGED <<bgd, rs, svc, watch, budget>>, l = "compare" => svc # Absent
        PROVE  SettledInv'
    BY <1>1, <1>2, <1>4, <1>5, GoesOnAloneSettles DEF GotBlue, GotGreen, Rolling, Cleared, Filled
  <1>6. CASE /\ svc = Absent /\ svc' = "blue" /\ Goto(w, "compare")
             /\ UNCHANGED <<bgd, rs, watch, budget>>
    <2>1. GoesOn(w, "compare") /\ UNCHANGED <<rs, seen>>
      BY <1>4, <1>6
    <2>2. /\ ServiceFor(key[w])
          /\ \A d \in Colors : ReplicasOf(d, bgd[key[w]])
      BY <1>1, <1>3, RestingNow
    <2>3. svc' # Absent
      BY <1>6, ClusterAssumption DEF Colors
    <2>4. ServiceFor(key[w])'
      BY <1>3, <1>6, <2>1, <2>2, <2>3, ColorFacts DEF ServiceFor, GoesOn
    <2>5. \A d \in Colors : ReplicasOf(d, bgd[key[w]])'
      BY <1>6, <2>1, <2>2 DEF ReplicasOf, GoesOn, Unscaled
    <2>6. MadeFromSpecs'
      BY <1>3, <1>6 DEF MadeFromSpecs
    <2>7. /\ rs'["blue"] # Absent /\ seen'[w]["blue"] = rs'["blue"].spec
          /\ rs'["green"] # Absent /\ seen'[w]["green"] = rs'["green"].spec
      BY <1>1, <1>3, <2>1 DEF Got, UpToDate, GotBlue, GotGreen
    <2>8. "compare" \notin Rolling
      BY DEF Rolling, Cleared, Filled
    <2> QED BY <1>1, <1>2, <2>1, <2>3, <2>4, <2>5, <2>6, <2>7, <2>8, GoesOnSettles
  <1>7. ~ Spend("lostReply")
    BY NoFaults DEF Base
  <1> QED
    BY <1>1, <1>5, <1>6, <1>7, RefusedSettles
       DEF CreateServiceIfNotFound, Reply, NewService, apiVars

LEMMA CompareSettles ==
  ASSUME Base, SettledInv, Faultless, FaithfulHash, [Next]_vars, NEW w \in Workers, Compare(w)
  PROVE  SettledInv'
  <1>1. /\ pc[w] = "compare" /\ pc[w] \notin Rolling /\ pc[w] # "idle"
        /\ UNCHANGED <<bgd, rs, svc, watch, budget>>
    BY DEF Compare, clusterVars, Rolling, Cleared, Filled
  <1>2. Got(w) /\ UpToDate(w) /\ MadeFromSpecs
    BY DEF SettledInv
  <1>3. rs["blue"] # Absent /\ rs["green"] # Absent /\ svc # Absent
    BY <1>1, <1>2 DEF Got, GotBlue, GotGreen
  <1>4. CASE Goto(w, "flip")
    <2>1. GoesOn(w, "flip") /\ UNCHANGED <<rs, seen>> /\ "flip" \in Mid
      BY <1>1, <1>4 DEF GoesOn, Goto, queueVars, Mid, Labels, Calls
    <2> QED
      BY <1>1, <1>3, <2>1, GoesOnAloneSettles DEF GotBlue, GotGreen, Rolling, Cleared, Filled
  <1>5. CASE Wanted(w, b[w].color) /\ ReturnNil(w)
    <2> DEFINE c == b[w].color
    <2>1. c \in Colors /\ b[w] \in BlueGreenDeployment
      BY <1>1, Holder
    <2>2. seen[w][c] = rs[c].spec /\ rs[c] # Absent
      BY <1>1, <1>2, <1>3, <2>1 DEF UpToDate, GotBlue, GotGreen, Colors
    <2>3. rs[c].spec = Defaulted[b[w].spec]
      <3>1. PICK s \in UserSpecs : rs[c].spec = Defaulted[s]
        BY <1>2, <2>1, <2>2 DEF MadeFromSpecs
      <3>2. SameHash(Defaulted[s], b[w].spec) /\ b[w].spec \in UserSpecs
        BY <1>5, <2>1, <2>2, <3>1 DEF Wanted, BlueGreenDeployment
      <3> QED BY <3>1, <3>2 DEF FaithfulHash
    <2>4. ASSUME NEW k \in Keys, k = key[w] PROVE Pending(k)' \/ Settled(k)'
      <3>1. CASE Pending(k)
        BY <1>1, <1>5, <3>1 DEF Pending, ReturnNil, Done
      <3>2. CASE b[w] = bgd[k]
        BY <1>1, <1>3, <2>1, <2>2, <2>3, <2>4, <3>2 DEF Settled
      <3> QED BY <1>1, <1>2, <2>4, <3>1, <3>2 DEF UpToDate
    <2>5. Resting'
      BY <1>1, StillResting
    <2> QED BY <1>1, <1>5, <2>4, <2>5, IdleSettles DEF ReturnNil
  <1> QED BY <1>4, <1>5 DEF Compare

LEMMA FlipSettles ==
  ASSUME Base, SettledInv, Faultless, [Next]_vars, NEW w \in Workers, Flip(w)
  PROVE  SettledInv'
  <1> DEFINE c == Other(b[w].color)
  <1>1. pc[w] = "flip"
    BY DEF Flip
  <1>2. /\ key[w] \in Keys /\ bgd[key[w]] # Absent /\ b[w].color \in Colors
        /\ c \in Colors /\ c # b[w].color /\ Other(c) \in Colors
        /\ \A k \in Keys : k = key[w]
    BY <1>1, Holder, ColorFacts
  <1>3. /\ UNCHANGED <<rs, svc, seen, dirty, delayed>>
        /\ bgd'[key[w]] # Absent /\ bgd'[key[w]].color = c
        /\ bgd'[key[w]].replicas = bgd[key[w]].replicas
        /\ pc'[w] \in {"scaleUp", "delete"} /\ key'[w] = key[w] /\ b'[w] = bgd'[key[w]]
        /\ \A v \in Workers \ {w} : pc'[v] = pc[v]
        /\ \E obj : WriteBgd(key[w], obj)
    <2>1. PICK l \in {"scaleUp", "delete"} : UpdateBlueGreenDeployment(w, c, l)
      BY DEF Flip
    <2> HIDE DEF c
    <2> QED BY <1>1, <1>2, <2>1, UpdateSucceeds
  <1>4. Got(w) /\ UpToDate(w) /\ MadeFromSpecs
    BY DEF SettledInv
  <1>5. /\ rs["blue"] # Absent /\ rs["green"] # Absent /\ svc # Absent
    BY <1>1, <1>4 DEF Got, GotBlue, GotGreen
  <1>6. Pending(key[w]) => \A k \in Keys : k = key[w] => Pending(k)'
    BY <1>2, <1>3, WritesKeepPending DEF Base
  <1>7. ~ Pending(key[w]) => \A k \in Keys : k = key[w] => Pending(k)'
    <2>1. ~ Pending(key[w]) => bgd'[key[w]] # bgd[key[w]]
      BY <1>1, <1>2, <1>3, <1>4 DEF UpToDate
    <2>2. VersionStep
      BY SyncIsVersionStep DEF Base, SyncStep
    <2> QED BY <2>1, <2>2, ChangeIsPending DEF Base
  <1>8. NothingMissed'
    BY <1>2, <1>6, <1>7 DEF NothingMissed
  <1>9. UpToDate(w)'
    <2>1. PICK k \in Keys : k = key[w] /\ key'[w] = k /\ Pending(k)'
      BY <1>2, <1>3, <1>6, <1>7
    <2> QED BY <1>3, <2>1 DEF UpToDate, GotBlue, GotGreen, Pending
  <1>10. pc'[w] \in Rolling /\ pc'[w] \notin GotBlue /\ pc'[w] \notin GotGreen
         /\ pc'[w] \notin {"compare", "flip", "waitDown", "updateService"}
    BY <1>3 DEF Rolling, GotBlue, GotGreen
  <1>11. \A d \in Colors : rs[d] # Absent
    BY <1>5 DEF Colors
  <1>12. Got(w)' /\ RollingOver(w)'
    BY <1>2, <1>3, <1>5, <1>10, <1>11 DEF Got, RollingOver
  <1>13. MadeFromSpecs'
    BY <1>2, <1>3, <1>4, ColorFacts DEF MadeFromSpecs
  <1>14. VersionsAgree'
    <2>1. ~ AtRestNow'
      BY <1>10 DEF AtRestNow
    <2>2. \A k \in Keys : bgd[k] # Absent /\ bgd'[k].replicas = bgd[k].replicas
      BY <1>2, <1>3
    <2> QED BY <1>3, <2>1, <2>2, UpdateAgrees
  <1> QED
    BY <1>1, <1>3, <1>8, <1>9, <1>10, <1>12, <1>13, <1>14, OnlyThisOneSettles

\* Along the rollover.
LEMMA RollsOnSettling ==
  ASSUME Base, SettledInv, Faultless, [Next]_vars, NEW w \in Workers, pc[w] \in Rolling,
         NEW l \in Rolling \ {"scaleUp", "delete"}, GoesOn(w, l), UNCHANGED svc, MadeFromSpecs',
         rs'[Other(b[w].color)] # Absent,
         l \in {"waitDown", "updateService"} => rs'[Other(b[w].color)].replicas = 0
  PROVE  SettledInv'
  <1>1. l \in Mid /\ l \notin GotBlue /\ l \notin GotGreen
    BY DEF Rolling, Cleared, Filled, Mid, Labels, Calls, Polls, GotBlue, GotGreen
  <1>2. svc # Absent
    BY DEF SettledInv, RollingOver
  <1> QED BY <1>1, <1>2, GoesOnSettles

\* A ReplicaSet that is scaled is still made from the same pod spec.
LEMMA ScaledFromSpecs ==
  ASSUME Base, SettledInv, UNCHANGED bgd, NEW c \in Colors,
         NEW n \in ReplicaCounts \union {0}, rs[c] # Absent,
         rs' = [rs EXCEPT ![c] = Scaled(rs[c], n)]
  PROVE  /\ MadeFromSpecs' /\ rs'[c].replicas = n
         /\ \A d \in Colors : rs[d] # Absent => rs'[d] # Absent
  <1>1. rs[c] \in ReplicaSet
    BY DEF Base, TypeInv, ClusterTypeOK
  <1>2. Scaled(rs[c], n).spec = rs[c].spec /\ Scaled(rs[c], n).replicas = n
    BY <1>1 DEF Scaled, ReplicaSet
  <1>3. Scaled(rs[c], n) # Absent
    BY <1>1, ScaledType, ClusterAssumption
  <1>4. rs'[c] = Scaled(rs[c], n) /\ \A d \in Colors \ {c} : rs'[d] = rs[d]
    BY DEF Base, TypeInv, ClusterTypeOK
  <1> HIDE DEF Scaled
  <1>5. MadeFromSpecs'
    BY <1>2, <1>4 DEF SettledInv, MadeFromSpecs
  <1> QED BY <1>2, <1>3, <1>4, <1>5

LEMMA ScaleUpSettles ==
  ASSUME Base, SettledInv, Faultless, [Next]_vars, NEW w \in Workers, ScaleUp(w)
  PROVE  SettledInv'
  <1> DEFINE c == b[w].color
  <1>1. pc[w] \in {"scaleUp", "waitUp"} /\ pc[w] \in Rolling
    BY DEF ScaleUp, ScaleReplicaSet, WaitAllReplicaSetPodsAvailable, Rolling, Filled
  <1>2. /\ c \in Colors /\ Other(c) \in Colors /\ rs[Other(c)] # Absent
        /\ pc[w] = "scaleUp" => rs[c] # Absent
        /\ b[w].replicas \in ReplicaCounts
    BY <1>1, Holder, ColorFacts DEF SettledInv, Got, RollingOver, BlueGreenDeployment
  <1>3. /\ {"scaleUp", "waitUp"} \subseteq Mid
        /\ {"waitUp", "scaleDown"}
             \subseteq Rolling \ {"scaleUp", "delete", "waitDown", "updateService"}
    BY DEF Mid, Labels, Calls, Polls, Rolling, Filled
  <1>4. /\ UNCHANGED svc
        /\ \/ /\ pc[w] = "scaleUp" /\ GoesOn(w, "waitUp")
              /\ rs' = [rs EXCEPT ![c] = Scaled(rs[c], b[w].replicas)]
           \/ GoesOn(w, "scaleDown") /\ UNCHANGED rs
    <2>1. ScaleReplicaSet(w, "scaleUp", "waitUp", c, b[w].replicas, "scaleDown")
      BY DEF ScaleUp
    <2>2. c \in Colors /\ "scaleUp" \in Mid /\ "waitUp" \in Mid
      BY <1>2, <1>3
    <2> HIDE DEF c
    <2> QED BY <1>2, <2>1, <2>2, ScaleGoesOn
  <1>5. UNCHANGED bgd
    BY <1>4 DEF GoesOn
  <1>6. MadeFromSpecs' /\ rs'[Other(c)] # Absent
    <2>1. UNCHANGED rs => MadeFromSpecs' /\ rs'[Other(c)] # Absent
      BY <1>2, <1>5 DEF SettledInv, MadeFromSpecs
    <2> HIDE DEF c
    <2> QED BY <1>2, <1>4, <1>5, <2>1, ScaledFromSpecs
  <1> QED BY <1>1, <1>3, <1>4, <1>6, RollsOnSettling

LEMMA ReplaceSettles ==
  ASSUME Base, SettledInv, Faultless, [Next]_vars, NEW w \in Workers,
         ReplaceInactiveReplicaSet(w)
  PROVE  SettledInv'
  <1> DEFINE c == b[w].color
  <1>1. /\ pc[w] \in {"delete", "getNew", "createNew", "waitNew"} /\ pc[w] \in Rolling
    BY DEF ReplaceInactiveReplicaSet, CreateReplicaSetIfNotFound,
           WaitAllReplicaSetPodsAvailable, Rolling, Cleared, Filled
  <1>2. /\ c \in Colors /\ Other(c) \in Colors /\ Other(c) # c /\ rs[Other(c)] # Absent
        /\ pc[w] = "delete" => rs[c] # Absent
    BY <1>1, Holder, ColorFacts DEF SettledInv, Got, RollingOver
  <1>3. /\ {"getNew", "createNew", "waitNew"} \subseteq Mid
        /\ {"getNew", "createNew", "waitNew", "scaleDown"}
             \subseteq Rolling \ {"scaleUp", "delete", "waitDown", "updateService"}
    BY DEF Mid, Labels, Calls, Polls, Rolling, Cleared, Filled
  <1>4. MadeFromSpecs
    BY DEF SettledInv
  <1>5. CASE pc[w] = "delete"
    <2>1. ~ Spend("lostReply")
      BY NoFaults DEF Base
    <2>2. /\ rs' = [rs EXCEPT ![c] = Absent] /\ GoesOn(w, "getNew") /\ UNCHANGED svc
      BY <1>2, <1>5, <2>1
         DEF ReplaceInactiveReplicaSet, CreateReplicaSetIfNotFound,
             WaitAllReplicaSetPodsAvailable, Reply, Goto, GoesOn, queueVars
    <2>3. rs'[c] = Absent /\ \A d \in Colors \ {c} : rs'[d] = rs[d]
      BY <1>2, <2>2 DEF Base, TypeInv, ClusterTypeOK
    <2>4. MadeFromSpecs' /\ rs'[Other(c)] # Absent
      BY <1>2, <1>4, <2>2, <2>3 DEF MadeFromSpecs, GoesOn
    <2> QED BY <1>1, <1>3, <2>2, <2>4, RollsOnSettling
  <1>6. CASE CreateReplicaSetIfNotFound(w, "getNew", "createNew", "waitNew", c, "scaleDown")
    <2>1. pc[w] = "createNew" => rs[c] = Absent
      BY DEF Base, RolloutInv, Rollover, RolloverOf, Cleared
    <2>2. /\ UNCHANGED svc
          /\ \/ \E l \in {"createNew", "scaleDown"} : GoesOn(w, l) /\ UNCHANGED rs
             \/ GoesOn(w, "waitNew") /\ rs' = [rs EXCEPT ![c] = NewReplicaSet(key[w], b[w], c)]
      <3> HIDE DEF c
      <3> QED BY <1>2, <1>3, <1>6, <2>1, CreateGoesOn
    <2>3. UNCHANGED bgd /\ pc[w] \notin {"idle", "lister", "initStatus"}
      BY <1>1, <2>2 DEF GoesOn
    <2>4. UNCHANGED rs => MadeFromSpecs' /\ rs'[Other(c)] # Absent
      BY <1>2, <1>4, <2>3 DEF MadeFromSpecs
    <2>5. MadeFromSpecs' /\ rs'[Other(c)] # Absent
      <3> HIDE DEF c
      <3> QED BY <1>2, <2>2, <2>3, <2>4, NewFromSpecs
    <2> QED BY <1>1, <1>3, <2>2, <2>5, RollsOnSettling
  <1> QED BY <1>5, <1>6 DEF ReplaceInactiveReplicaSet

LEMMA ScaleDownSettles ==
  ASSUME Base, SettledInv, Faultless, [Next]_vars, NEW w \in Workers, ScaleDown(w)
  PROVE  SettledInv'
  <1> DEFINE c == Other(b[w].color)
  <1>1. pc[w] \in {"scaleDown", "waitDown"} /\ pc[w] \in Rolling
    BY DEF ScaleDown, ScaleReplicaSet, WaitAllReplicaSetPodsAvailable, Rolling, Filled
  <1>2. c \in Colors /\ rs[c] # Absent /\ (pc[w] = "waitDown" => rs[c].replicas = 0)
    BY <1>1 DEF SettledInv, RollingOver, Other, Colors
  <1>3. /\ {"scaleDown", "waitDown"} \subseteq Mid
        /\ {"waitDown", "updateService"} \subseteq Rolling \ {"scaleUp", "delete"}
    BY DEF Mid, Labels, Calls, Polls, Rolling, Filled
  <1>4. /\ UNCHANGED svc
        /\ \/ /\ GoesOn(w, "waitDown")
              /\ rs' = [rs EXCEPT ![c] = Scaled(rs[c], 0)]
           \/ /\ pc[w] = "waitDown" /\ GoesOn(w, "updateService") /\ UNCHANGED rs
    <2>1. ScaleReplicaSet(w, "scaleDown", "waitDown", c, 0, "updateService")
      BY DEF ScaleDown
    <2> HIDE DEF c
    <2> QED BY <1>2, <1>3, <2>1, ScaleGoesOn
  <1>5. UNCHANGED bgd
    BY <1>4 DEF GoesOn
  <1>6. MadeFromSpecs' /\ rs'[c] # Absent /\ rs'[c].replicas = 0
    <2>1. CASE pc[w] = "waitDown" /\ UNCHANGED rs
      BY <1>2, <1>5, <2>1 DEF SettledInv, MadeFromSpecs
    <2>2. CASE rs' = [rs EXCEPT ![c] = Scaled(rs[c], 0)]
      <3> HIDE DEF c
      <3> QED BY <1>2, <1>5, <2>2, ScaledFromSpecs
    <2> QED BY <1>4, <2>1, <2>2
  <1> QED BY <1>1, <1>3, <1>4, <1>6, RollsOnSettling

LEMMA UpdateServiceSettles ==
  ASSUME Base, SettledInv, Faultless, [Next]_vars, NEW w \in Workers, UpdateService(w)
  PROVE  SettledInv'
  <1> DEFINE c == b[w].color
  <1>1. pc[w] = "updateService" /\ pc[w] \in Rolling /\ pc[w] \in Filled
    BY DEF UpdateService, Rolling, Filled
  <1>2. /\ bgd[key[w]].color = c /\ bgd[key[w]] # Absent /\ key[w] \in Keys
        /\ \A k \in Keys : k = key[w]
        /\ c \in Colors /\ Other(c) \in Colors /\ Other(c) # c
        /\ \A d \in Colors : d \in {c, Other(c)}
        /\ b[w] \in Versions(key[w])
    BY <1>1, Holder, ColorFacts DEF Colors, Other
  <1>3. UpToDate(w) /\ RollingOver(w)
    BY DEF SettledInv
  <1>4. /\ rs[c] # Absent /\ rs[c].replicas = b[w].replicas
        /\ svc # Absent /\ rs[Other(c)] # Absent /\ rs[Other(c)].replicas = 0
    BY <1>1, <1>3 DEF Base, RolloutInv, Rollover, RolloverOf, RollingOver
  <1>5. ReturnNil(w) /\ svc' = c /\ UNCHANGED <<bgd, rs, watch, budget>>
    BY <1>4, NoFaults DEF UpdateService, Base
  <1>6. \A k \in Keys : k = key[w] => Pending(k)'
    <2>1. Pending(key[w])
      BY <1>1, <1>3 DEF UpToDate
    <2> QED BY <1>5, <2>1 DEF Pending, ReturnNil, Done
  <1>7. Unscaled => b[w].replicas = bgd[key[w]].replicas
    BY <1>2 DEF SettledInv, VersionsAgree
  <1>8. Resting'
    BY <1>2, <1>4, <1>5, <1>7, ClusterAssumption DEF Resting, ServiceFor, ReplicasOf, Unscaled
  <1>9. \A d \in Colors : rs[d] # Absent
    BY <1>2, <1>4
  <1> QED BY <1>1, <1>5, <1>6, <1>8, <1>9, IdleSettles DEF ReturnNil

----------------------------------------------------------------------------
(* Every step keeps it.                                                    *)

LEMMA SyncSettles ==
  ASSUME Base, SettledInv, Faultless, FaithfulHash, [Next]_vars,
         NEW w \in Workers, SyncStep(w)
  PROVE  SettledInv'
  BY ListerSettles, InitStatusSettles, CreateReplicaSetsSettles, CreateServiceSettles,
     CompareSettles, FlipSettles, ScaleUpSettles, ReplaceSettles, ScaleDownSettles,
     UpdateServiceSettles
     DEF SyncStep

\* A worker that takes a key is the only one that is busy.
LEMMA TakesSettling ==
  ASSUME Base, SettledInv, Faultless, [Next]_vars, NEW w \in Workers, NEW k \in Keys,
         ProcessNextWorkItem(w, k)
  PROVE  SettledInv'
  <1>1. /\ pc[w] = "idle" /\ pc'[w] = "lister" /\ key'[w] = k
        /\ \A v \in Workers \ {w} : pc'[v] = pc[v]
        /\ UNCHANGED <<bgd, rs, svc, budget>>
        /\ k \notin processing
    BY DEF ProcessNextWorkItem, clusterVars, Get, Queued, Base, TypeInv, LocalOK,
           SyncTypeOK
  <1>2. ASSUME NEW v \in Workers PROVE pc[v] = "idle"
    <2> SUFFICES ASSUME pc[v] # "idle" PROVE FALSE
      OBVIOUS
    <2>1. key[v] \in processing
      BY DEF Base, TypeInv, LocalOK, ExclusiveSync
    <2>2. key[v] \in Keys
      BY DEF Base, TypeInv, LocalOK, RolloutInv, WorkerState, SyncTypeOK
    <2> QED BY <1>1, <2>1, <2>2 DEF Faultless, OneDeployment
  <1>3. \A v \in Workers : pc'[v] \in {"idle", "lister"}
    BY <1>1, <1>2
  <1>4. \A v \in Workers : Got(v)' /\ UpToDate(v)' /\ RollingOver(v)'
    BY <1>3 DEF Got, UpToDate, RollingOver, GotBlue, GotGreen, Rolling, Cleared, Filled
  <1>5. NothingMissed'
    BY <1>1 DEF NothingMissed, Faultless, OneDeployment
  <1>6. AtRestNow
    BY <1>2 DEF AtRestNow, Rolling, Cleared, Filled
  <1>7. Resting'
    BY <1>1, <1>6 DEF SettledInv, Resting, ServiceFor, ReplicasOf, Unscaled
  <1>8. MadeFromSpecs'
    BY <1>1 DEF SettledInv, MadeFromSpecs
  <1>9. VersionsAgree'
    BY <1>1, <1>6, SameVersions
  <1> QED BY <1>4, <1>5, <1>7, <1>8, <1>9 DEF SettledInv

\* Events bring syncs about and change nothing else.
LEMMA EventsSettle ==
  ASSUME Base, SettledInv, [Next]_vars,
         UNCHANGED <<bgd, rs, svc, budget, pc, key, b, seen>>,
         \A k \in Keys : Pending(k) => Pending(k)'
  PROVE  SettledInv'
  <1>1. NothingMissed'
    BY DEF SettledInv, NothingMissed, Settled
  <1>2. ASSUME NEW w \in Workers PROVE Got(w)' /\ UpToDate(w)' /\ RollingOver(w)'
    <2>1. Got(w) /\ UpToDate(w) /\ RollingOver(w)
      BY DEF SettledInv
    <2>2. pc[w] \notin {"idle", "lister"} => key[w] \in Keys
      BY DEF Base, TypeInv, LocalOK, RolloutInv, WorkerState, SyncTypeOK
    <2>3. pc[w] \notin {"idle", "lister"} /\ Pending(key[w]) =>
            watch'[key'[w]] # << >> \/ key'[w] \in dirty' \/ key'[w] \in delayed'
      BY <2>2 DEF Pending
    <2>4. UpToDate(w)'
      BY <2>1, <2>3 DEF UpToDate, Pending
    <2>5. Got(w)' /\ RollingOver(w)'
      BY <2>1 DEF Got, RollingOver
    <2> QED BY <2>4, <2>5
  <1>3. Resting'
    BY DEF SettledInv, Resting, AtRestNow, ServiceFor, ReplicasOf, Unscaled
  <1>4. MadeFromSpecs'
    BY DEF SettledInv, MadeFromSpecs
  <1>5. VersionsAgree'
    BY SameVersions DEF AtRestNow
  <1> QED BY <1>1, <1>2, <1>3, <1>4, <1>5 DEF SettledInv

LEMMA NextSettles ==
  ASSUME Base, SettledInv, Faultless, FaithfulHash, [Next]_vars
  PROVE  SettledInv'
  <1>1. CASE ClusterStep /\ UNCHANGED <<cache, queueVars, workerVars>>
    BY <1>1, ClusterSettles
  <1>2. CASE \E w \in Workers : SyncStep(w)
    BY <1>2, SyncSettles
  <1>3. CASE (\E w \in Workers : ApiError(w)) \/ Crash
    BY <1>3, NoFaults DEF ApiError, Crash, Base
  <1>4. CASE \E w \in Workers, k \in Keys : ProcessNextWorkItem(w, k)
    BY <1>4, TakesSettling
  <1>5. ASSUME NEW k \in Keys, Deliver(k) \/ Resync(k) \/ HandleObject(k) \/ Retry(k)
        PROVE  SettledInv'
    <2>1. UNCHANGED <<bgd, rs, svc, budget, pc, key, b, seen>>
      BY <1>5 DEF Deliver, Resync, HandleObject, Retry, clusterVars, apiVars, workerVars
    <2>2. \A l \in Keys : Pending(l) => Pending(l)'
      BY <1>5, EventsKeepPending DEF Base
    <2> QED BY <2>1, <2>2, EventsSettle
  <1>6. CASE UNCHANGED vars
    BY <1>6, EventsSettle DEF vars, Pending, queueVars
  <1> QED
    BY <1>1, <1>2, <1>3, <1>4, <1>5, <1>6 DEF Next, ControllerStep

LEMMA SettledInit == Init => SettledInv
  <1> SUFFICES ASSUME Init PROVE SettledInv
    OBVIOUS
  <1>1. /\ \A k \in Keys : bgd[k] = Absent /\ cache[k] = Absent /\ watch[k] = << >>
        /\ \A c \in Colors : rs[c] = Absent
        /\ svc = Absent /\ \A w \in Workers : pc[w] = "idle"
    BY DEF Init, ClusterInit, SyncInit
  <1>2. ASSUME NEW k \in Keys, NEW obj, obj \in Versions(k) PROVE FALSE
    <2>1. 1 .. Len(watch[k]) = {}
      BY <1>1
    <2> QED BY <1>1, <1>2, <2>1 DEF Versions
  <1>3. VersionsAgree
    BY <1>2 DEF VersionsAgree
  <1> QED
    BY <1>1, <1>3 DEF SettledInv, NothingMissed, MadeFromSpecs, Resting, ServiceFor, Got,
       UpToDate, RollingOver, GotBlue, GotGreen, Rolling, Cleared, Filled

(* When no call fails, and unless a sync sets a status back, a change that  *)
(* comes too late for the sync under way makes another one due; at rest the *)
(* Service is at the colour that the status names and only that colour's   *)
(* ReplicaSet is raised.  This is so however far the cache lags behind.    *)
THEOREM SettledInvHolds ==
  ASSUME Faultless, FaithfulHash
  PROVE  Spec /\ []NotYetFlipped => []SettledInv
  <1>1. /\ TypeInv /\ RolloutInv /\ CacheCatchesUp /\ ColorsStay /\ NotYetFlipped
        /\ SettledInv /\ [Next]_vars
        => SettledInv'
    BY NextSettles DEF Base
  <1>2. Spec => []RolloutInv
    BY RolloutInvHolds DEF Faultless
  <1>3. Spec => []ColorsStay
    BY ColorsStayHolds DEF Faultless, OneDeployment
  <1> QED
    BY <1>1, <1>2, <1>3, SettledInit, TypeInvHolds, CacheCatchesUpHolds, PTL DEF Spec

\* What it says of a controller that has nothing left to do.
LEMMA SettledIsConverged ==
  ASSUME TypeInv, RolloutInv, SettledInv, SomeReplicas, Budget["scale"] = 0
  PROVE  QuietMeansConverged
  <1> SUFFICES ASSUME Quiet, NEW k \in Keys, bgd[k] # Absent PROVE Converged(k)
    BY DEF QuietMeansConverged
  <1> DEFINE c == bgd[k].color
  <1>1. ASSUME NEW w \in Workers PROVE pc[w] = "idle" /\ key[w] # k
    <2>1. pc[w] = "idle"
      BY DEF Quiet, TypeInv, LocalOK, ExclusiveSync
    <2> QED BY <2>1, ClusterAssumption DEF RolloutInv, WorkerState
  <1>2. AtRestNow
    BY <1>1 DEF AtRestNow, Rolling, Cleared, Filled
  <1>3. Settled(k)
    BY <1>1 DEF Quiet, Pending, SettledInv, NothingMissed
  <1>4. c \in Colors /\ rs[c] # Absent /\ rs[c].spec = Defaulted[bgd[k].spec] /\ svc # Absent
    BY <1>3 DEF Settled
  <1>5. ServiceFor(k) /\ \A d \in Colors : ReplicasOf(d, bgd[k])
    BY <1>2 DEF SettledInv, Resting
  <1>6. svc = c
    BY <1>4, <1>5 DEF ServiceFor
  <1>7. Unscaled
    BY SpentUp DEF RolloutInv, Events, Unscaled
  <1>8. rs[c].replicas = bgd[k].replicas
    BY <1>4, <1>5, <1>7 DEF ReplicasOf
  <1>9. bgd[k].replicas # 0
    BY DEF SomeReplicas, TypeInv, ClusterTypeOK, BlueGreenDeployment
  <1> QED BY <1>4, <1>6, <1>8, <1>9, ColorFacts DEF Converged, WantedReplicas

(* A controller that has nothing left to do has brought the cluster to what *)
(* the BlueGreenDeployment asks for, whatever versions its syncs started   *)
(* from, unless one of them set a status back, as the code may.  It knows  *)
(* the pod spec by its hash only, never sets the number of replicas        *)
(* without a new pod spec, and takes a number that is left out for 0.      *)
THEOREM QuietMeansConvergedUnlessReset ==
  ASSUME Faultless, SomeReplicas, FaithfulHash, Budget["scale"] = 0
  PROVE  Spec /\ []NotYetFlipped => []QuietMeansConverged
  <1>1. TypeInv /\ RolloutInv /\ SettledInv => QuietMeansConverged
    BY SettledIsConverged
  <1>2. Spec => []RolloutInv
    BY RolloutInvHolds DEF Faultless
  <1> QED BY <1>1, <1>2, SettledInvHolds, TypeInvHolds, PTL

(* That none of them does is for certain as long as the lister is at most  *)
(* one version behind.  Nothing in the code bounds how far behind it is.   *)
THEOREM QuietMeansConvergedHolds ==
  ASSUME Faultless, SomeReplicas, FreshEnough, FaithfulHash, Budget["scale"] = 0
  PROVE  Spec => []QuietMeansConverged
  BY NotYetFlippedHolds, QuietMeansConvergedUnlessReset, PTL
=============================================================================
