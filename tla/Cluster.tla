------------------------------ MODULE Cluster ------------------------------
(***************************************************************************)
(* The objects of one Kubernetes namespace that the controller reads and   *)
(* writes through the API server, the people who edit them, and the parts  *)
(* of Kubernetes that act on them.  All names are fixed by the controller  *)
(* ("blue-rs", "green-rs", "bgd-svc"), so a namespace has one ReplicaSet   *)
(* per colour and one Service however many BlueGreenDeployments it holds.  *)
(***************************************************************************)
EXTENDS Naturals, Sequences

CONSTANTS Keys,          \* names of BlueGreenDeployments in the namespace
          PodSpecs,      \* pod specs, as stored by the API server
          UserSpecs,     \* those a BlueGreenDeployment can carry
          ReplicaCounts, \* the values of .spec.replicas users write
          Defaulted,     \* the admission defaulting of a ReplicaSet's pod spec
          Hash,          \* util.ComputeHash
          Budget,        \* how often each kind of event may still happen
          Absent         \* what the API server holds when there is no object

Colors == {"blue", "green"}
NoColor == ""
Other(c) == IF c = "blue" THEN "green" ELSE "blue"

Events == {"create", "edit", "scale", "delete", "dropService",
           "dropReplicaSet", "podFailure", "timeout",
           "apiError", "lostReply", "crash"}

Owner == [name: Keys, uid: Nat]
BlueGreenDeployment == [uid: Nat, spec: UserSpecs, replicas: ReplicaCounts,
                        color: Colors \union {NoColor}]
ReplicaSet == [owner: Owner \union {Absent}, spec: PodSpecs, replicas: ReplicaCounts \union {0},
               avail: Nat, observed: BOOLEAN]

ASSUME ClusterAssumption ==
  /\ UserSpecs \subseteq PodSpecs
  /\ ReplicaCounts \subseteq Nat
  /\ Defaulted \in [PodSpecs -> PodSpecs]
  /\ DOMAIN Hash = PodSpecs
  /\ Budget \in [Events -> Nat]
  /\ Absent \notin BlueGreenDeployment
  /\ Absent \notin ReplicaSet
  /\ Absent \notin Owner
  /\ Absent \notin Colors
  /\ Absent \notin Keys

VARIABLES bgd,    \* bgd[k]: the BlueGreenDeployment named k, or Absent
          rs,     \* rs[c]: the ReplicaSet named c-rs, or Absent
          svc,    \* the color label in the Service's selector, or Absent
          watch,  \* watch[k]: versions of bgd[k] the informer has yet to see
          budget  \* what is left of Budget

apiVars == <<bgd, rs, svc>>
clusterVars == <<bgd, rs, svc, watch, budget>>

ClusterInit ==
  /\ bgd = [k \in Keys |-> Absent]
  /\ rs = [c \in Colors |-> Absent]
  /\ svc = Absent
  /\ watch = [k \in Keys |-> << >>]
  /\ budget = Budget

Spend(e) == budget[e] > 0 /\ budget' = [budget EXCEPT ![e] = @ - 1]

----------------------------------------------------------------------------
(* Objects the controller builds and the comparisons it makes.             *)

\* Mutants of NewReplicaSet: the test of the colour is the wrong way round; one
\* replica too many; no owner reference.
NewReplicaSetSwapped(k, b, c) ==
  [owner |-> [name |-> k, uid |-> b.uid], spec |-> Defaulted[b.spec],
   replicas |-> IF b.color = c THEN 0 ELSE b.replicas,
   avail |-> 0, observed |-> FALSE]
NewReplicaSetSurge(k, b, c) ==
  [owner |-> [name |-> k, uid |-> b.uid], spec |-> Defaulted[b.spec],
   replicas |-> IF b.color = c THEN b.replicas + 1 ELSE 0,
   avail |-> 0, observed |-> FALSE]
NewReplicaSetUnowned(k, b, c) ==
  [owner |-> Absent, spec |-> Defaulted[b.spec],
   replicas |-> IF b.color = c THEN b.replicas ELSE 0,
   avail |-> 0, observed |-> FALSE]

\* newReplicaSet, as the API server stores it: the pod spec comes back with
\* its defaults filled in, and nothing is observed or available yet.
NewReplicaSet(k, b, c) ==
  [owner |-> [name |-> k, uid |-> b.uid],
   spec |-> Defaulted[b.spec],
   replicas |-> IF b.color = c THEN b.replicas ELSE 0,
   avail |-> 0,
   observed |-> FALSE]

\* newService: the selector always starts at blue.
NewService(b) == "blue"

\* Two pod specs are taken for equal when their 32-bit hashes are.
SameHash(s, t) == Hash[s] = Hash[t]

\* The ReplicaSet with .spec.replicas set to n.  The generation, and with it
\* the need to observe it, moves only when the value changes.
Scaled(r, n) == [r EXCEPT !.replicas = n,
                          !.observed = r.observed /\ r.replicas = n]

\* A write of a BlueGreenDeployment; a write that changes nothing makes no
\* new version and no watch event.
WriteBgd(k, obj) ==
  /\ bgd' = [bgd EXCEPT ![k] = obj]
  /\ watch' = IF obj = bgd[k] THEN watch
                              ELSE [watch EXCEPT ![k] = Append(@, obj)]

----------------------------------------------------------------------------
(* People with kubectl.                                                    *)

\* A fresh uid is one that no earlier creation used.
CreateBgd(k) ==
  /\ bgd[k] = Absent
  /\ Spend("create")
  /\ \E s \in UserSpecs, n \in ReplicaCounts :
       WriteBgd(k, [uid |-> budget["create"], spec |-> s, replicas |-> n,
                    color |-> NoColor])
  /\ UNCHANGED <<rs, svc>>

EditSpec(k) ==
  /\ bgd[k] # Absent
  /\ Spend("edit")
  /\ \E s \in UserSpecs \ {bgd[k].spec} :
       WriteBgd(k, [bgd[k] EXCEPT !.spec = s])
  /\ UNCHANGED <<rs, svc>>

EditReplicas(k) ==
  /\ bgd[k] # Absent
  /\ Spend("scale")
  /\ \E n \in ReplicaCounts \ {bgd[k].replicas} :
       WriteBgd(k, [bgd[k] EXCEPT !.replicas = n])
  /\ UNCHANGED <<rs, svc>>

DeleteBgd(k) ==
  /\ bgd[k] # Absent
  /\ Spend("delete")
  /\ WriteBgd(k, Absent)
  /\ UNCHANGED <<rs, svc>>

DropService ==
  /\ svc # Absent
  /\ Spend("dropService")
  /\ svc' = Absent
  /\ UNCHANGED <<bgd, rs, watch>>

DropReplicaSet(c) ==
  /\ rs[c] # Absent
  /\ Spend("dropReplicaSet")
  /\ rs' = [rs EXCEPT ![c] = Absent]
  /\ UNCHANGED <<bgd, svc, watch>>

----------------------------------------------------------------------------
(* Kubernetes.                                                             *)

\* The ReplicaSet controller starts or stops pods and publishes the status of
\* the generation it has observed.
RunReplicaSet(c) ==
  /\ rs[c] # Absent
  /\ \E n \in (rs[c].avail .. rs[c].replicas) \union (rs[c].replicas .. rs[c].avail) :
       /\ n # rs[c].avail \/ ~ rs[c].observed
       /\ rs' = [rs EXCEPT ![c].avail = n, ![c].observed = TRUE]
  /\ UNCHANGED <<bgd, svc, watch, budget>>

PodFailure(c) ==
  /\ rs[c] # Absent
  /\ rs[c].avail > 0
  /\ Spend("podFailure")
  /\ rs' = [rs EXCEPT ![c].avail = @ - 1]
  /\ UNCHANGED <<bgd, svc, watch>>

\* The garbage collector removes a ReplicaSet whose controller owner is gone.
\* One that has no owner it leaves alone.
OwnerAlive(r) == /\ bgd[r.owner.name] # Absent
                 /\ bgd[r.owner.name].uid = r.owner.uid
OwnerGone(r) == r.owner # Absent /\ ~ OwnerAlive(r)

CollectGarbage(c) ==
  /\ rs[c] # Absent
  /\ OwnerGone(rs[c])
  /\ rs' = [rs EXCEPT ![c] = Absent]
  /\ UNCHANGED <<bgd, svc, watch, budget>>

ClusterStep ==
  \/ \E k \in Keys : CreateBgd(k) \/ EditSpec(k) \/ EditReplicas(k) \/ DeleteBgd(k)
  \/ DropService
  \/ \E c \in Colors : DropReplicaSet(c) \/ RunReplicaSet(c) \/ PodFailure(c)
                         \/ CollectGarbage(c)

ClusterTypeOK ==
  /\ bgd \in [Keys -> BlueGreenDeployment \union {Absent}]
  /\ rs \in [Colors -> ReplicaSet \union {Absent}]
  /\ svc \in Colors \union {Absent}
  /\ watch \in [Keys -> Seq(BlueGreenDeployment \union {Absent})]
  /\ budget \in [Events -> Nat]
============================================================================
