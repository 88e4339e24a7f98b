------------------------------- MODULE Claims -------------------------------
(***************************************************************************)
(* What comments, types and docs of the repository say of the controller,  *)
(* and the code does not do.  Each is refuted by a run of its own.         *)
(***************************************************************************)
EXTENDS BlueGreenController

(* The Service is moved to the new colour before the old ReplicaSet is     *)
(* scaled down: step 2 comes before step 3 in controller.go:369-372, and   *)
(* step 3 before step 4 in controller.go:373-377.  So the ReplicaSet the   *)
(* Service selects is never the one scaled down.                           *)
SwitchBeforeScaleDown ==
  [][ \A c \in Colors : Raised(c) /\ rs'[c] # Absent /\ rs'[c].replicas = 0 =>
        svc # c ]_vars

(* "If the active ReplicaSet has the matching spec, the controller does    *)
(* nothing" (controller.go:368): it leaves the active colour alone when    *)
(* that ReplicaSet was made from the pod spec in the BlueGreenDeployment.  *)
NoNeedlessFlip ==
  [][ \A k \in Keys :
        /\ bgd[k] # Absent /\ bgd[k].color \in Colors
        /\ bgd'[k] # Absent /\ bgd'[k].color # bgd[k].color
        => ~ (/\ rs[bgd[k].color] # Absent
              /\ rs[bgd[k].color].spec = Defaulted[bgd[k].spec]) ]_vars

(* A resource that "already exists and is not managed by                   *)
(* BlueGreenDeployment" makes the sync fail (controller.go:56-62): a sync  *)
(* scales and deletes no ReplicaSet of another BlueGreenDeployment.        *)
OnlyOwnerWrites ==
  [][ \A w \in Workers, c \in Colors :
        /\ pc[w] \in {"scaleUp", "delete", "scaleDown"} /\ pc'[w] # pc[w]
        /\ rs[c] # Absent /\ rs'[c] # rs[c]
        => rs[c].owner # Absent /\ rs[c].owner.name = key[w] ]_vars

(* "Replicas specifies the desired number of replicas, determining the     *)
(* number of pods for both the Blue and Green ReplicaSets. If not          *)
(* specified, it defaults to 1" (types.go:26-27): when there is nothing    *)
(* left to do both ReplicaSets have that many.                             *)
ReplicasAsDocumented ==
  Quiet => \A k \in Keys : bgd[k] # Absent =>
             \A c \in Colors : rs[c] # Absent /\ rs[c].replicas = WantedReplicas(bgd[k])
============================================================================
