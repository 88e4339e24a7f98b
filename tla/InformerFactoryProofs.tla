----------------------- MODULE InformerFactoryProofs -----------------------
(***************************************************************************)
(* What callers of the informer factory are promised, for any types and    *)
(* any number of calls at once.                                            *)
(***************************************************************************)
EXTENDS InformerFactory, TLAPS

Places == {"idle", "wgWait", "down", "syncWait", "waited"}

FactoryTypeOK ==
  /\ informers \subseteq Types /\ started \subseteq informers /\ synced \subseteq Types
  /\ goroutines \in [Types -> Nat]
  /\ at \in [Callers -> Places]
  /\ asked \in [Callers -> SUBSET Types]
  /\ left \in [Callers -> SUBSET Types]
  /\ ok \in [Callers -> SUBSET Types]

(* An informer that was not started is not run, and one that was not more  *)
(* than once.                                                              *)
Running == \A t \in Types : goroutines[t] =< (IF t \in started THEN 1 ELSE 0)

(* A call of Shutdown has set the flag before it waits; when it has        *)
(* waited, nothing runs.                                                   *)
ShutdownOf(c) ==
  /\ at[c] \in {"wgWait", "down"} => shuttingDown
  /\ at[c] = "down" => \A t \in Types : goroutines[t] = 0

(* What a call of WaitForCacheSync has dealt with is synced, or the channel *)
(* was closed.                                                             *)
WaitOf(c) ==
  /\ ok[c] \subseteq synced /\ ok[c] \subseteq asked[c] /\ left[c] \subseteq asked[c]
  /\ asked[c] = ok[c] \union left[c] \/ closed
  /\ at[c] = "idle" => ok[c] = {}
  /\ at[c] = "waited" => left[c] = {}

FactoryInv ==
  FactoryTypeOK /\ Running /\ \A c \in Callers : ShutdownOf(c) /\ WaitOf(c)

LEMMA FactoryInit == Init => FactoryInv
  BY DEF Init, FactoryInv, FactoryTypeOK, Running, ShutdownOf, WaitOf, Places

LEMMA StartKeeps == FactoryInv /\ Start => FactoryInv'
  <1> SUFFICES ASSUME FactoryInv, Start PROVE FactoryInv'
    OBVIOUS
  <1>1. PICK live \in SUBSET (informers \ started) :
          goroutines' = [t \in Types |-> IF t \in live THEN goroutines[t] + 1
                                         ELSE goroutines[t]]
    BY DEF Start
  <1>2. /\ ~ shuttingDown /\ started' = informers
        /\ UNCHANGED <<informers, synced, closed, shuttingDown, at, asked, left, ok>>
    BY DEF Start, calls
  <1>3. goroutines \in [Types -> Nat]
    BY DEF FactoryInv, FactoryTypeOK
  <1>4. FactoryTypeOK'
    BY <1>1, <1>2, <1>3 DEF FactoryInv, FactoryTypeOK
  <1>5. Running'
    BY <1>1, <1>2, <1>3 DEF FactoryInv, FactoryTypeOK, Running
  <1>6. ASSUME NEW c \in Callers PROVE ShutdownOf(c)' /\ WaitOf(c)'
    BY <1>2 DEF FactoryInv, ShutdownOf, WaitOf
  <1> QED BY <1>4, <1>5, <1>6 DEF FactoryInv

\* A step of one call is of no concern to the others.
LEMMA CallKeeps ==
  ASSUME FactoryInv, NEW c \in Callers,
         \/ Shutdown(c) \/ ShutdownReturns(c) \/ WaitForCacheSync(c) \/ WaitReturns(c)
         \/ \E t \in Types : WaitForOne(c, t)
  PROVE  FactoryInv'
  <1>1. FactoryTypeOK' /\ Running'
    BY DEF FactoryInv, FactoryTypeOK, Running, Places, Shutdown, ShutdownReturns,
           WaitForCacheSync, WaitReturns, WaitForOne
  <1>2. ASSUME NEW d \in Callers PROVE ShutdownOf(d)' /\ WaitOf(d)'
    <2>1. ShutdownOf(d) /\ WaitOf(d)
      BY DEF FactoryInv
    <2>2. CASE Shutdown(c) \/ ShutdownReturns(c)
      BY <2>1, <2>2
         DEF FactoryInv, FactoryTypeOK, Shutdown, ShutdownReturns, ShutdownOf, WaitOf
    <2>3. CASE WaitForCacheSync(c)
      BY <2>1, <2>3 DEF FactoryInv, FactoryTypeOK, WaitForCacheSync, ShutdownOf, WaitOf
    <2>4. CASE WaitReturns(c)
      BY <2>1, <2>4 DEF FactoryInv, FactoryTypeOK, WaitReturns, ShutdownOf, WaitOf
    <2>5. CASE \E t \in Types : WaitForOne(c, t)
      BY <2>1, <2>5 DEF FactoryInv, FactoryTypeOK, WaitForOne, ShutdownOf, WaitOf
    <2> QED BY <2>2, <2>3, <2>4, <2>5
  <1> QED BY <1>1, <1>2 DEF FactoryInv

LEMMA FactoryNext == FactoryInv /\ [Next]_vars => FactoryInv'
  <1> SUFFICES ASSUME FactoryInv, [Next]_vars PROVE FactoryInv'
    OBVIOUS
  <1> USE DEF FactoryInv, FactoryTypeOK, Running, ShutdownOf, WaitOf, calls
  <1>1. ASSUME NEW t \in Types, InformerFor(t) PROVE FactoryInv'
    BY <1>1 DEF InformerFor
  <1>2. ASSUME NEW t \in Types, HasSynced(t) PROVE FactoryInv'
    BY <1>2 DEF HasSynced
  <1>3. ASSUME NEW t \in Types, RunEnds(t) PROVE FactoryInv'
    BY <1>3 DEF RunEnds
  <1>4. CASE CloseStop
    BY <1>4 DEF CloseStop
  <1>5. CASE UNCHANGED vars
    BY <1>5 DEF vars
  <1> QED BY <1>1, <1>2, <1>3, <1>4, <1>5, StartKeeps, CallKeeps DEF Next

LEMMA FactoryInvHolds == Spec => []FactoryInv
  BY FactoryInit, FactoryNext, PTL DEF Spec

(* Start may be called any number of times: no informer is run twice.      *)
THEOREM RunOnceHolds == Spec => []RunOnce
  <1>1. ASSUME FactoryInv, NEW t \in Types PROVE goroutines[t] =< 1
    <2>1. goroutines[t] \in Nat /\ goroutines[t] =< (IF t \in started THEN 1 ELSE 0)
      BY <1>1 DEF FactoryInv, FactoryTypeOK, Running
    <2> QED BY <2>1
  <1>2. FactoryInv => RunOnce
    BY <1>1 DEF RunOnce
  <1> QED BY <1>2, FactoryInvHolds, PTL

(* Once a Shutdown has returned no goroutine of the factory runs, whoever  *)
(* calls Start at the same time or later.                                  *)
THEOREM QuietAfterShutdownHolds == Spec => []QuietAfterShutdown
  <1>1. FactoryInv => QuietAfterShutdown
    BY DEF FactoryInv, ShutdownOf, QuietAfterShutdown
  <1> QED BY <1>1, FactoryInvHolds, PTL

(* A WaitForCacheSync that returns has seen all the informers it found     *)
(* started synced, or the stop channel closed.                             *)
THEOREM WaitedForAllHolds == Spec => []WaitedForAll
  <1>1. FactoryInv => WaitedForAll
    BY DEF FactoryInv, WaitOf, WaitedForAll
  <1> QED BY <1>1, FactoryInvHolds, PTL
============================================================================
