--------------------------- MODULE TwoControllers ---------------------------
(***************************************************************************)
(* Two processes of the controller on one namespace.  main elects no       *)
(* leader, so two replicas of it, or an old and a new one during an        *)
(* upgrade, are both at work: each has a cache, a queue and workers of its *)
(* own, and only the API server in common.                                 *)
(***************************************************************************)
EXTENDS BlueGreenController

VARIABLES cache2, watch2, dirty2, processing2, delayed2, pc2, key2, b2, seen2

\* The second process.
Second == INSTANCE SyncHandler
            WITH cache <- cache2, watch <- watch2, dirty <- dirty2,
                 processing <- processing2, delayed <- delayed2, pc <- pc2,
                 key <- key2, b <- b2, seen <- seen2

local1 == <<cache, queueVars, workerVars>>
local2 == <<cache2, dirty2, processing2, delayed2, pc2, key2, b2, seen2>>
twoVars == <<vars, watch2, local2>>

TwoInit == Init /\ Second!SyncInit /\ Second!QueueInit /\ watch2 = [k \in Keys |-> << >>]

\* The informer whose pending versions w are sees the changes too that it has no
\* part in.
Shown(w) == [k \in Keys |-> IF bgd'[k] = bgd[k] THEN w[k] ELSE Append(w[k], bgd'[k])]

By1(A) == A /\ watch2' = Shown(watch2) /\ UNCHANGED local2
By2(A) == A /\ watch' = Shown(watch) /\ UNCHANGED local1
ByCluster(A) == By1(A) /\ UNCHANGED local1

SecondStep ==
  \/ \E w \in Workers : Second!SyncStep(w) \/ Second!ApiError(w)
  \/ \E w \in Workers, k \in Keys : Second!ProcessNextWorkItem(w, k)
  \/ \E k \in Keys : \/ Second!Deliver(k) \/ Second!Resync(k)
                     \/ Second!HandleObject(k) \/ Second!Retry(k)
  \/ Second!Crash

TwoNext == ByCluster(ClusterStep) \/ By1(ControllerStep) \/ By2(SecondStep)

TwoSpec == TwoInit /\ [][TwoNext]_twoVars

----------------------------------------------------------------------------
(* Every variable of both processes holds a value of its type.             *)
TwoTypeOK ==
  /\ TypeOK
  /\ Second!SyncTypeOK /\ Second!QueueTypeOK(Keys)
  /\ watch2 \in [Keys -> Seq(BlueGreenDeployment \union {Absent})]

(* "if it is not set yet" (controller.go:273): a status that is set moves   *)
(* to the other colour only by the rollout of a process, never because a   *)
(* sync starts from a version so old that its status was not set.          *)
StatusIsNotReset ==
  [][ \A k \in Keys :
        /\ bgd[k] # Absent /\ bgd[k].color \in Colors
        /\ bgd'[k] # Absent /\ bgd'[k].color # bgd[k].color
        => \E w \in Workers : \/ (pc[w] = "flip" /\ key[w] = k)
                             \/ (pc2[w] = "flip" /\ key2[w] = k) ]_twoVars
============================================================================
