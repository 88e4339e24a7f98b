-------------------------- MODULE RolloutInvariant --------------------------
(***************************************************************************)
(* The inductive invariants behind the safety properties of                *)
(* BlueGreenController.                                                    *)
(***************************************************************************)
EXTENDS BlueGreenController

(* The last version the informer was or will be shown is the stored one:   *)
(* however far the cache lags behind, it catches up with bgd.              *)
Latest(k) == IF watch[k] = << >> THEN cache[k] ELSE watch[k][Len(watch[k])]

CacheCatchesUp == \A k \in Keys : Latest(k) = bgd[k]

(* What a worker holds at each call: a key from the moment it takes one    *)
(* until it is done, an object from the lister on, and one whose colour is *)
(* set but for the initialisation of the status.                           *)
WorkerState ==
  \A w \in Workers :
    /\ (pc[w] = "idle") = (key[w] = Absent)
    /\ pc[w] \notin {"idle", "lister"} => b[w] \in BlueGreenDeployment
    /\ pc[w] = "initStatus" => b[w].color = NoColor
    /\ pc[w] \notin {"idle", "lister", "initStatus"} => b[w].color \in Colors

----------------------------------------------------------------------------
(* A single rollout.  Its colour is flipped at the calls in Rolling; at    *)
(* those in Cleared the ReplicaSet to be replaced is gone; from those in   *)
(* Filled on the new one is there.                                         *)
Cleared == {"getNew", "createNew"}
Filled == {"waitUp", "waitNew", "scaleDown", "waitDown", "updateService"}
Rolling == {"scaleUp", "delete"} \union Cleared \union Filled

\* One BlueGreenDeployment; nobody deletes it or one of its ReplicaSets.
\* Specs, scalings, faults, Services are up to anyone.
OneDeployment ==
  /\ \A k, l \in Keys : k = l
  /\ Budget["delete"] = 0
  /\ Budget["dropReplicaSet"] = 0

\* Nobody asks for no replicas at all.
SomeReplicas == 0 \notin ReplicaCounts

\* And no poll gives up, and no pod fails.
Patient == Budget["timeout"] = 0 /\ Budget["podFailure"] = 0

(* All the versions of the object of key k, stored, cached, on their way   *)
(* or in a worker's hands, are of one and the same creation, and none of   *)
(* those on their way is a deletion ...                                    *)
SameObject(k, obj) == bgd[k] # Absent /\ obj # Absent /\ obj.uid = bgd[k].uid

OneUid ==
  /\ \A k \in Keys :
       /\ cache[k] # Absent => SameObject(k, cache[k])
       /\ \A i \in 1 .. Len(watch[k]) : SameObject(k, watch[k][i])
  /\ \A w \in Workers : pc[w] \notin {"idle", "lister"} => SameObject(key[w], b[w])

(* ... and the ReplicaSets belong to it.                                   *)
Owned == \A c \in Colors : rs[c] # Absent => rs[c].owner # Absent /\ OwnerAlive(rs[c])

(* While a worker rolls over, the stored status has the colour it rolls    *)
(* over to; first that colour's ReplicaSet is gone, then it is there with  *)
(* the wanted number of replicas, all available when the wait is over.     *)
RolloverOf(w) ==
  /\ pc[w] \in Rolling => bgd[key[w]].color = b[w].color
  /\ pc[w] \in Cleared => rs[b[w].color] = Absent
  /\ pc[w] \in Filled => /\ rs[b[w].color] # Absent
                         /\ rs[b[w].color].replicas = b[w].replicas
  /\ pc[w] = "scaleDown" /\ Patient =>
       rs[b[w].color].avail = rs[b[w].color].replicas

Rollover == \A w \in Workers : RolloverOf(w)

Spending == \A e \in Events : budget[e] =< Budget[e]

RolloutInv == WorkerState /\ Spending /\ OneUid /\ Owned /\ Rollover

----------------------------------------------------------------------------
(* The Service.                                                            *)

\* No call fails, and nobody deletes the Service either.
Faultless ==
  /\ OneDeployment
  /\ \A e \in {"apiError", "lostReply", "crash", "dropService"} : Budget[e] = 0

Undisturbed == Faultless /\ SomeReplicas

(* No sync starts from a version that has another colour than the stored   *)
(* one.  The code does not see to that: it is said of single behaviours.   *)
StartsCurrent ==
  \A w \in Workers :
    pc[w] = "lister" /\ pc'[w] \notin {"idle", "lister"} => b'[w].color = bgd[key[w]].color

AlwaysStartsCurrent == [][StartsCurrent]_vars

\* From these calls on, up to the flip, a worker has got the ReplicaSet.
GotGreen == {"waitGreen", "getService", "createService", "compare", "flip"}
GotBlue == {"waitBlue", "getGreen", "createGreen"} \union GotGreen

(* Once a worker has got or made a ReplicaSet or the Service it is there    *)
(* until the worker deletes it itself.                                     *)
Got(w) ==
  /\ pc[w] \in GotBlue => rs["blue"] # Absent
  /\ pc[w] \in GotGreen => rs["green"] # Absent
  /\ pc[w] \in {"compare", "flip"} => svc # Absent
  /\ pc[w] \in {"scaleUp", "delete"} => rs[b[w].color] # Absent

\* And it holds the colour that is stored.
Found(w) ==
  /\ pc[w] \notin {"idle", "lister"} => bgd[key[w]].color = b[w].color
  /\ Got(w)

(* While it rolls over, the Service is still at the other colour, whose    *)
(* ReplicaSet has its pods until it is scaled down.                        *)
StillServing(w) ==
  pc[w] \in Rolling =>
    /\ svc = Other(b[w].color)
    /\ rs[svc] # Absent
    /\ pc[w] \in {"waitDown", "updateService"} \/ Raised(svc)

(* All versions of an object, stored, cached, on their way or in a worker's *)
(* hands.                                                                   *)
Versions(k) ==
  ( {bgd[k], cache[k]} \union {watch[k][i] : i \in 1 .. Len(watch[k])}
      \union {b[w] : w \in {v \in Workers : pc[v] \notin {"idle", "lister"} /\ key[v] = k}} )
  \ {Absent}

(* A worker that rolls over found both ReplicaSets and the Service.  The   *)
(* Service is at either colour, since the version the worker started from  *)
(* may have been too old, and lacks pods only from the deletion until the  *)
(* new ReplicaSet is there, or from the scaling down until it is moved.    *)
RollsFromAny(w) ==
  pc[w] \in Rolling =>
    /\ svc # Absent
    /\ rs[Other(b[w].color)] # Absent
    /\ \/ Raised(svc)
       \/ svc = b[w].color /\ pc[w] \in Cleared
       \/ svc = Other(b[w].color) /\ pc[w] \in {"waitDown", "updateService"}

(* At rest the Service is at a ReplicaSet that is raised; as long as there *)
(* is none no version is green, and a blue ReplicaSet is raised.           *)
RestsSomewhere ==
  (\A w \in Workers : pc[w] \notin Rolling) =>
    \/ svc # Absent /\ Raised(svc)
    \/ /\ svc = Absent
       /\ rs["blue"] # Absent => Raised("blue")
       /\ \A k \in Keys : \A obj \in Versions(k) : obj.color \in {NoColor, "blue"}

OutageInv == (\A w \in Workers : Got(w) /\ RollsFromAny(w)) /\ RestsSomewhere

(* At rest the Service is at the colour that the status names, and that    *)
(* ReplicaSet is raised; as long as there is none, that colour is blue.    *)
AtRest ==
  (\A w \in Workers : pc[w] \notin Rolling) =>
    \/ /\ svc = Absent
       /\ rs["blue"] # Absent => Raised("blue")
       /\ \A k \in Keys : bgd[k] # Absent => bgd[k].color \in {NoColor, "blue"}
    \/ /\ svc # Absent
       /\ Raised(svc)
       /\ \A k \in Keys : bgd[k] # Absent /\ bgd[k].color = svc

ServiceInv == (\A w \in Workers : Found(w) /\ StillServing(w)) /\ AtRest

----------------------------------------------------------------------------
(* Convergence, however far the caches lag behind.                         *)

AtRestNow == \A w \in Workers : pc[w] \notin Rolling

\* A sync of k is due: a version is on its way, or the key waits in the queue.
Pending(k) == watch[k] # << >> \/ k \in dirty \/ k \in delayed

\* The active ReplicaSet has the wanted pod spec, and there is a Service.
Settled(k) ==
  LET r == rs[bgd[k].color]
  IN  /\ bgd[k].color \in Colors
      /\ r # Absent /\ r.spec = Defaulted[bgd[k].spec]
      /\ svc # Absent

(* Whatever is not settled is being synced or will be: a change that comes *)
(* too late for a sync under way makes another one due.                    *)
NothingMissed ==
  \A k \in Keys :
    bgd[k] # Absent =>
      Pending(k) \/ (\E w \in Workers : key[w] = k) \/ Settled(k)

(* A worker holds the stored version until it flips the colour, or another *)
(* sync is due, and what it has seen of a ReplicaSet is what there is.     *)
UpToDate(w) ==
  /\ pc[w] \notin {"idle", "lister"} =>
       \/ Pending(key[w])
       \/ pc[w] \notin Rolling /\ b[w] = bgd[key[w]]
  /\ pc[w] \in GotBlue => seen[w]["blue"] = rs["blue"].spec
  /\ pc[w] \in GotGreen => seen[w]["green"] = rs["green"].spec

(* Every ReplicaSet is made from a user's pod spec, and none before the     *)
(* status is initialised.                                                  *)
MadeFromSpecs ==
  \A c \in Colors :
    rs[c] # Absent =>
      /\ \E s \in UserSpecs : rs[c].spec = Defaulted[s]
      /\ \A k \in Keys : bgd[k] # Absent => bgd[k].color # NoColor

\* Nobody has changed a number of replicas yet.
Unscaled == budget["scale"] = Budget["scale"]

(* As long as one version of an object is green there is a ReplicaSet of    *)
(* each colour, but for the time of a rollover, and until somebody changes  *)
(* it the number of replicas is the same in all.                            *)
VersionsAgree ==
  \A k \in Keys : \A obj \in Versions(k) :
    /\ obj.color = "green" /\ AtRestNow => \A c \in Colors : rs[c] # Absent
    /\ Unscaled => obj.replicas = bgd[k].replicas

(* The inactive ReplicaSet is scaled down, but for the time of a rollover, *)
(* and until somebody changes their number the active one has the replicas *)
(* that the BlueGreenDeployment asks for.                                  *)
ReplicasOf(c, obj) ==
  rs[c] # Absent =>
    IF obj.color = c THEN Unscaled => rs[c].replicas = obj.replicas
                     ELSE rs[c].replicas = 0

(* At rest the Service is at the colour that the status names, and as long *)
(* as there is none that colour is blue.                                   *)
ServiceFor(k) ==
  IF svc = Absent THEN bgd[k] # Absent => bgd[k].color \in {NoColor, "blue"}
                  ELSE bgd[k] # Absent /\ bgd[k].color = svc

Resting ==
  AtRestNow => \A k \in Keys :
    /\ ServiceFor(k)
    /\ \A c \in Colors : bgd[k] # Absent => ReplicasOf(c, bgd[k])

(* A worker that rolls over has found both ReplicaSets and the Service, and *)
(* has scaled the old one down before it moves the Service.                *)
RollingOver(w) ==
  /\ pc[w] \in Rolling => svc # Absent /\ rs[Other(b[w].color)] # Absent
  /\ pc[w] \in {"waitDown", "updateService"} => rs[Other(b[w].color)].replicas = 0

SettledInv ==
  /\ NothingMissed /\ MadeFromSpecs /\ VersionsAgree /\ Resting
  /\ \A w \in Workers : Got(w) /\ UpToDate(w) /\ RollingOver(w)

\* A hash that tells a ReplicaSet's pod spec from any that is defaulted to
\* another one.
FaithfulHash ==
  \A s, t \in UserSpecs : SameHash(Defaulted[s], t) => Defaulted[s] = Defaulted[t]

----------------------------------------------------------------------------
(* The status.                                                             *)

\* A version of the object of key k without a colour is followed by none with
\* another colour than blue.
Follows(new, old) ==
  old # Absent /\ old.color = NoColor => new # Absent /\ new.color \in {NoColor, "blue"}

\* While the stored version of the object of key k has no colour, obj has none.
NotAhead(k, obj) ==
  obj # Absent => /\ bgd[k] # Absent
                  /\ bgd[k].color = NoColor => obj.color = NoColor

(* As long as nobody deletes a BlueGreenDeployment: colours are initialised *)
(* before they are flipped, and never taken back, in whatever versions are *)
(* cached, on their way or in a worker's hands.                            *)
ColorsStay ==
  /\ \A k \in Keys :
       /\ NotAhead(k, cache[k])
       /\ \A i \in 1 .. Len(watch[k]) :
            /\ NotAhead(k, watch[k][i])
            /\ Follows(watch[k][i], IF i = 1 THEN cache[k] ELSE watch[k][i - 1])
  /\ \A w \in Workers : pc[w] \notin {"idle", "lister"} => NotAhead(key[w], b[w])

(* The status that a worker is about to initialise is not green already.   *)
NotYetFlipped ==
  \A w \in Workers :
    pc[w] = "initStatus" /\ bgd[key[w]] # Absent => bgd[key[w]].color \in {NoColor, "blue"}

\* A sync starts from what is stored, or from the version before if nobody
\* deletes and creates anew.
FreshEnough == MaxLag = 0 \/ (MaxLag =< 1 /\ Budget["delete"] = 0)
============================================================================
