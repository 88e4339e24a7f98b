----------------------------- MODULE Switchover -----------------------------
(***************************************************************************)
(* What a BlueGreenDeployment promises to those who send it traffic: how   *)
(* the colour in its status, the ReplicaSets that are meant to have pods   *)
(* and the Service may change.  Who changes them, in how many calls, and   *)
(* what fails on the way is BlueGreenController's.                         *)
(***************************************************************************)
CONSTANT Absent

Colors == {"blue", "green"}

VARIABLES named,   \* the colour the status names as active; empty at first
          up,      \* the colours whose ReplicaSet is meant to have pods
          serving  \* the colour the Service selects, or Absent

vars == <<named, up, serving>>

Init == named = {} /\ up = {} /\ serving = Absent

\* A rollout begins by naming the colour it rolls out to.
Name(c) == named' = {c} /\ UNCHANGED <<up, serving>>

Raise(c) == up' = up \union {c} /\ UNCHANGED <<named, serving>>

\* The ReplicaSet to be replaced has the colour that is to become active.
Replace(c) == c \in named /\ up' = up \ {c} /\ UNCHANGED <<named, serving>>

\* The old ReplicaSet goes down only once the one named active is up.
Lower(c) == /\ c \notin named
            /\ named \intersect up # {}
            /\ up' = up \ {c}
            /\ UNCHANGED <<named, serving>>

\* The Service moves only to the colour named active, and only if it is up.
Switch(c) == /\ serving # Absent
             /\ c \in named \intersect up
             /\ serving' = c
             /\ UNCHANGED <<named, up>>

\* A Service that is not there is made anew, and starts at blue.
LoseService == serving' = Absent /\ UNCHANGED <<named, up>>
MakeService == serving = Absent /\ serving' = "blue" /\ UNCHANGED <<named, up>>

Next == \/ \E c \in Colors : Name(c) \/ Raise(c) \/ Replace(c) \/ Lower(c) \/ Switch(c)
        \/ LoseService \/ MakeService

Spec == Init /\ [][Next]_vars
============================================================================
