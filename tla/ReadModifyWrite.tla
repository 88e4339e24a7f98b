-------------------------- MODULE ReadModifyWrite --------------------------
(***************************************************************************)
(* The controller with its read-modify-writes call by call: a Get, and an  *)
(* Update of what was got, which the API server refuses with a conflict if *)
(* the object has another resourceVersion by then.  All the other steps    *)
(* are those of BlueGreenController, where a read-modify-write that        *)
(* succeeds is one step.                                                   *)
(*                                                                         *)
(* RetryOnConflict does not try again: the conflict reaches it wrapped     *)
(* with %v, which it does not recognise.                                   *)
(***************************************************************************)
EXTENDS BlueGreenController

VARIABLES read,    \* read[w]: the object worker w got and will update, or Absent
          current  \* current[w]: that object is stored with the same version

detailedVars == <<vars, read, current>>

UpdateCalls == {"initStatus", "flip", "scaleUp", "scaleDown", "updateService"}

\* Mutant of Scalee: the ReplicaSet scaled down is the new one.
ScaleeNew(w) == b[w].color

\* The ReplicaSet that is scaled.
Scalee(w) == IF pc[w] = "scaleUp" THEN b[w].color ELSE Other(b[w].color)

\* The object that worker w's call is about.
Stored(w) == CASE pc[w] \in {"initStatus", "flip"} -> bgd[key[w]]
               [] pc[w] \in {"scaleUp", "scaleDown"} -> rs[Scalee(w)]
               [] pc[w] = "updateService" -> svc
               [] OTHER -> Absent

DetailedInit ==
  /\ Init
  /\ read = [w \in Workers |-> Absent]
  /\ current = [w \in Workers |-> TRUE]

----------------------------------------------------------------------------
GetObject(w) ==
  /\ pc[w] \in UpdateCalls
  /\ read[w] = Absent
  /\ Stored(w) # Absent
  /\ read' = [read EXCEPT ![w] = Stored(w)]
  /\ UNCHANGED vars

\* There is nothing left to get, or to update.
NotFound(w) ==
  /\ pc[w] \in UpdateCalls
  /\ Stored(w) = Absent
  /\ IF pc[w] = "updateService" THEN Restart ELSE ReturnError(w) /\ UNCHANGED watch
  /\ UNCHANGED <<apiVars, budget>>

\* The bound: conflicts are among the calls that may fail.
Conflict(w) ==
  /\ pc[w] \in UpdateCalls
  /\ Stored(w) # Absent
  /\ read[w] # Absent /\ ~ current[w]
  /\ Spend("apiError")
  /\ IF pc[w] = "updateService" THEN Restart ELSE ReturnError(w) /\ UNCHANGED watch
  /\ UNCHANGED apiVars

\* The version of what worker w is about to update is the stored one.
Fresh(w) == read[w] # Absent /\ current[w]

\* Mutant of PutStatus: an Update of the whole object, whatever its version.
PutWholeObject(w, c, next) ==
  LET new == [read[w] EXCEPT !.color = c]
  IN  /\ read[w] # Absent /\ bgd[key[w]] # Absent
      /\ WriteBgd(key[w], new)
      /\ Reply(w, GotoWith(w, next, new))
      /\ UNCHANGED <<rs, svc>>

\* UpdateStatus takes the status of the object it is sent, and the rest from
\* the stored one.
PutStatus(w, c, next) ==
  LET sent == [read[w] EXCEPT !.color = c]
      new == [bgd[key[w]] EXCEPT !.color = sent.color]
  IN  /\ Fresh(w)
      /\ WriteBgd(key[w], new)
      /\ Reply(w, GotoWith(w, next, new))
      /\ UNCHANGED <<rs, svc>>

PutReplicas(w, n, next) ==
  /\ Fresh(w)
  /\ rs' = [rs EXCEPT ![Scalee(w)] = Scaled(read[w], n)]
  /\ Reply(w, Goto(w, next))
  /\ UNCHANGED <<bgd, svc, watch>>

PutSelector(w) ==
  /\ Fresh(w)
  /\ svc' = b[w].color
  /\ \/ ReturnNil(w) /\ UNCHANGED <<watch, budget>>
     \/ Spend("lostReply") /\ Restart
  /\ UNCHANGED <<bgd, rs>>

Put(w) ==
  \/ pc[w] = "initStatus" /\ PutStatus(w, "blue", "getBlue")
  \/ /\ pc[w] = "flip"
     /\ LET inactive == Other(b[w].color)
        IN  PutStatus(w, inactive, IF Wanted(w, inactive) THEN "scaleUp" ELSE "delete")
  \/ pc[w] = "scaleUp" /\ PutReplicas(w, b[w].replicas, "waitUp")
  \/ pc[w] = "scaleDown" /\ PutReplicas(w, 0, "waitDown")
  \/ pc[w] = "updateService" /\ PutSelector(w)

----------------------------------------------------------------------------
\* The steps that are none of a read-modify-write.
OtherStep ==
  \/ ClusterStep /\ UNCHANGED <<cache, queueVars, workerVars>>
  \/ \E w \in Workers : (pc[w] \notin UpdateCalls /\ SyncStep(w)) \/ ApiError(w)
  \/ \E w \in Workers, k \in Keys : ProcessNextWorkItem(w, k)
  \/ \E k \in Keys : Deliver(k) \/ Resync(k) \/ HandleObject(k) \/ Retry(k)
  \/ Crash

\* A worker has its object until it goes on to another call.
Keep == read' = [w \in Workers |-> IF pc'[w] = pc[w] THEN read[w] ELSE Absent]

\* Every change of an object gives it another version.
Age == current' = [w \in Workers |->
         read'[w] = Absent \/ (current[w] /\ Stored(w)' = Stored(w))]

DetailedNext ==
  /\ \/ \E w \in Workers : GetObject(w)
     \/ (OtherStep \/ \E w \in Workers : NotFound(w) \/ Conflict(w) \/ Put(w)) /\ Keep
  /\ Age

DetailedSpec == DetailedInit /\ [][DetailedNext]_detailedVars

(* However the Gets and Updates of workers, people and Kubernetes          *)
(* interleave, the outcome is one of whole read-modify-writes: no write    *)
(* undoes another one's, and what is got is still so when it is updated.   *)
ImplementsAtomicWrites == Spec
============================================================================
