---------------------------- MODULE MCBlueGreen ----------------------------
(***************************************************************************)
(* Small instances of the controller for TLC.  A budget says how many of   *)
(* each event a behaviour has at most; events it does not name never       *)
(* happen.                                                                 *)
(***************************************************************************)
EXTENDS Claims, RolloutInvariant, TLC

\* For pod specs that are stored as they are written: a CRD that keeps every
\* field, and users who write every default.
Identity == [s \in PodSpecs |-> s]

\* For the CRD in artifacts/examples, which keeps a few fields of a pod spec
\* only: admission fills in the rest when a ReplicaSet is made from it.
Pruned == {"v1", "v2"}
PrunedAndFull == Pruned \union {"v1+defaults", "v2+defaults"}
FillIn == [s \in PodSpecs |-> IF s = "v1" THEN "v1+defaults"
                              ELSE IF s = "v2" THEN "v2+defaults" ELSE s]

\* For users who write all the defaults in some of their pod specs.
Mixed == {"v1", "v1+defaults", "v2+defaults"}

With(some) == some @@ [e \in Events |-> 0]

\* Rollouts in which no call fails; all other cluster events are harmless ones.
Rollouts == With("create" :> 1 @@ "edit" :> 2 @@ "scale" :> 1
                   @@ "timeout" :> 1 @@ "podFailure" :> 1)
Edits == With("create" :> 1 @@ "edit" :> 2 @@ "timeout" :> 1 @@ "podFailure" :> 1)
Faults == With("create" :> 1 @@ "edit" :> 2 @@ "crash" :> 1
                 @@ "apiError" :> 1 @@ "lostReply" :> 1 @@ "dropService" :> 1)
Deletion == With("create" :> 2 @@ "delete" :> 2 @@ "dropReplicaSet" :> 1
                   @@ "apiError" :> 1 @@ "crash" :> 1)

\* A few events, for the runs that refute a claim.
OneCreation == With("create" :> 1)
TwoCreations == With("create" :> 2)
OneEdit == With("create" :> 1 @@ "edit" :> 1)
ThreeEdits == With("create" :> 1 @@ "edit" :> 3)
OneApiError == With("create" :> 1 @@ "edit" :> 2 @@ "apiError" :> 1)

\* Nothing tells one worker, or one key, from another; under Identity nothing
\* tells one pod spec from another.
SymmetricWorkers == Permutations(Workers)
SymmetricWorkersAndSpecs == Permutations(Workers) \union Permutations(PodSpecs)
============================================================================
