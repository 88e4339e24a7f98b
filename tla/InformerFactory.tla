-------------------------- MODULE InformerFactory --------------------------
(***************************************************************************)
(* The shared informer factory (pkg/generated/informers): what InformerFor,*)
(* Start, Shutdown and WaitForCacheSync do when several goroutines call    *)
(* them at once.  Each holds the factory's lock while it reads or writes   *)
(* its maps; Shutdown and WaitForCacheSync go on to wait without it.       *)
(* Lifecycle has what main makes of the factories.                         *)
(***************************************************************************)
EXTENDS Naturals

CONSTANTS Types,  \* the types there are informers of
          Callers \* calls of Shutdown or WaitForCacheSync

VARIABLES informers,  \* types whose informer was asked for
          started,    \* startedInformers
          goroutines, \* goroutines[t]: how many run informer t; their sum is wg
          synced,     \* types whose informer HasSynced
          closed,     \* the stop channel is closed
          shuttingDown,
          at,         \* at[c]: where call c is
          asked,      \* asked[c]: the informers c has read to be started
          left,       \* left[c]: those c has not waited for yet
          ok          \* ok[c]: those whose result is TRUE

calls == <<at, asked, left, ok>>
vars == <<informers, started, goroutines, synced, closed, shuttingDown, calls>>

Init ==
  /\ informers = {} /\ started = {}
  /\ goroutines = [t \in Types |-> 0]
  /\ synced = {} /\ closed = FALSE /\ shuttingDown = FALSE
  /\ at = [c \in Callers |-> "idle"]
  /\ asked = [c \in Callers |-> {}]
  /\ left = [c \in Callers |-> {}]
  /\ ok = [c \in Callers |-> {}]

InformerFor(t) ==
  /\ informers' = informers \union {t}
  /\ UNCHANGED <<started, goroutines, synced, closed, shuttingDown, calls>>

\* Once the factory is shutting down Start does nothing.  An informer that is
\* run with its stop channel closed ends at once.
Start ==
  /\ ~ shuttingDown
  /\ started' = informers
  /\ \E live \in SUBSET (informers \ started) :
       /\ live = informers \ started \/ closed
       /\ goroutines' = [t \in Types |-> IF t \in live THEN goroutines[t] + 1
                                         ELSE goroutines[t]]
  /\ UNCHANGED <<informers, synced, closed, shuttingDown, calls>>

----------------------------------------------------------------------------
(* The informers.                                                          *)

CloseStop ==
  /\ closed' = TRUE
  /\ UNCHANGED <<informers, started, goroutines, synced, shuttingDown, calls>>

HasSynced(t) ==
  /\ goroutines[t] > 0
  /\ synced' = synced \union {t}
  /\ UNCHANGED <<informers, started, goroutines, closed, shuttingDown, calls>>

RunEnds(t) ==
  /\ closed
  /\ goroutines[t] > 0
  /\ goroutines' = [goroutines EXCEPT ![t] = @ - 1]
  /\ UNCHANGED <<informers, started, synced, closed, shuttingDown, calls>>

----------------------------------------------------------------------------
Shutdown(c) ==
  /\ at[c] = "idle"
  /\ shuttingDown' = TRUE
  /\ at' = [at EXCEPT ![c] = "wgWait"]
  /\ UNCHANGED <<informers, started, goroutines, synced, closed, asked, left, ok>>

ShutdownReturns(c) ==
  /\ at[c] = "wgWait"
  /\ \A t \in Types : goroutines[t] = 0
  /\ at' = [at EXCEPT ![c] = "down"]
  /\ UNCHANGED <<informers, started, goroutines, synced, closed, shuttingDown, asked, left, ok>>

WaitForCacheSync(c) ==
  /\ at[c] = "idle"
  /\ at' = [at EXCEPT ![c] = "syncWait"]
  /\ asked' = [asked EXCEPT ![c] = informers \intersect started]
  /\ left' = [left EXCEPT ![c] = informers \intersect started]
  /\ UNCHANGED <<informers, started, goroutines, synced, closed, shuttingDown, ok>>

\* The informers are waited for one after the other, in any order; a poll that
\* finds the channel closed first gives up on its informer.
WaitForOne(c, t) ==
  /\ at[c] = "syncWait"
  /\ t \in left[c]
  /\ left' = [left EXCEPT ![c] = @ \ {t}]
  /\ \/ t \in synced /\ ok' = [ok EXCEPT ![c] = @ \union {t}]
     \/ closed /\ UNCHANGED ok
  /\ UNCHANGED <<informers, started, goroutines, synced, closed, shuttingDown, at, asked>>

WaitReturns(c) ==
  /\ at[c] = "syncWait"
  /\ left[c] = {}
  /\ at' = [at EXCEPT ![c] = "waited"]
  /\ UNCHANGED <<informers, started, goroutines, synced, closed, shuttingDown, asked, left, ok>>

Next ==
  \/ \E t \in Types : InformerFor(t) \/ HasSynced(t) \/ RunEnds(t)
  \/ Start \/ CloseStop
  \/ \E c \in Callers : \/ Shutdown(c) \/ ShutdownReturns(c)
                        \/ WaitForCacheSync(c) \/ WaitReturns(c)
                        \/ \E t \in Types : WaitForOne(c, t)

Spec == Init /\ [][Next]_vars

----------------------------------------------------------------------------
(* "This allows Start() to be called multiple times safely": no informer   *)
(* is run twice (factory.go:49-50).                                        *)
RunOnce == \A t \in Types : goroutines[t] =< 1

(* "Shutdown blocks until all goroutines have terminated", and from then   *)
(* on "no new informers can be started anymore" (factory.go:234-243): once *)
(* one call of it has returned no goroutine runs, then and ever after.     *)
QuietAfterShutdown ==
  \A c \in Callers : at[c] = "down" => \A t \in Types : goroutines[t] = 0

(* "WaitForCacheSync blocks until all started informers' caches were       *)
(* synced or the stop channel gets closed" (factory.go:246-247), and it    *)
(* reports as synced none that is not.                                     *)
WaitedForAll ==
  \A c \in Callers : at[c] = "waited" =>
    /\ ok[c] \subseteq synced
    /\ ok[c] = asked[c] \/ closed
============================================================================
