----------------------------- MODULE WorkQueue -----------------------------
(***************************************************************************)
(* The rate-limited work queue of client-go, as the controller uses it.    *)
(* The queue proper is "dirty minus processing": a key added while a       *)
(* worker has it is kept aside until that worker calls Done.  Back-off     *)
(* delays are abstracted to "some time later", so Forget, which resets     *)
(* them, leaves no trace here.                                             *)
(***************************************************************************)
VARIABLES dirty,      \* keys that must be (re)processed
          processing, \* keys handed to a worker and not yet Done
          delayed     \* keys waiting out their back-off

queueVars == <<dirty, processing, delayed>>

QueueInit == dirty = {} /\ processing = {} /\ delayed = {}

Add(k) == /\ dirty' = dirty \union {k}
          /\ UNCHANGED <<processing, delayed>>

Queued == dirty \ processing

Get(k) == /\ k \in Queued
          /\ dirty' = dirty \ {k}
          /\ processing' = processing \union {k}
          /\ UNCHANGED delayed

Done(k) == /\ processing' = processing \ {k}
           /\ UNCHANGED <<dirty, delayed>>

AddRateLimitedAndDone(k) ==
  /\ processing' = processing \ {k}
  /\ delayed' = delayed \union {k}
  /\ UNCHANGED dirty

BackoffOver(k) == /\ k \in delayed
                  /\ delayed' = delayed \ {k}
                  /\ dirty' = dirty \union {k}
                  /\ UNCHANGED processing

\* A new process starts with a new queue.
Reset(keys) == dirty' = keys /\ processing' = {} /\ delayed' = {}

QueueTypeOK(keys) == /\ dirty \subseteq keys
                     /\ processing \subseteq keys
                     /\ delayed \subseteq keys
============================================================================
