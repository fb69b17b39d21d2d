-------------------------- MODULE ComparisonPromise --------------------------
(***************************************************************************)
(* What compare.py promises to the people who read its exit status, with no *)
(* files, reports, exit codes or errors: an invocation tries both drivers   *)
(* whatever happens to the first one, comes to an end, and is green only if *)
(* every test of the inventory really ended, on each driver, in one of the  *)
(* ways that the operator's mode and the registry tolerate.                *)
(***************************************************************************)
CONSTANTS Drivers, Tests, Connection, Ends

VARIABLES
    phase,      \* "idle" or "running"
    tolerance,  \* per driver and test: the ends that need no attention
    reality,    \* per driver and test: how it really ended
    tried,      \* drivers whose turn is over
    verdict

vars == <<phase, tolerance, reality, tried, verdict>>

Realities == [Drivers -> [Tests -> Ends]]

\* The readiness test is never tolerated to do anything but pass.
TolerancesOK ==
    /\ tolerance \in [Drivers -> [Tests -> SUBSET Ends]]
    /\ \A d \in Drivers : tolerance[d][Connection] = {"passed"}

Untouched == [d \in Drivers |-> [t \in Tests |-> "unstarted"]]

Init ==
    /\ phase = "idle"
    /\ TolerancesOK
    /\ reality = Untouched
    /\ tried = {}
    /\ verdict = "none"

Start ==
    /\ phase = "idle" /\ phase' = "running"
    /\ TolerancesOK'
    /\ reality' = Untouched
    /\ tried' = {}
    /\ verdict' = "none"

Refuse ==
    /\ phase = "idle" /\ phase' = "idle"
    /\ reality' = Untouched
    /\ tried' = {}
    /\ verdict' = "refused"

\* The tests of d run, in one or several steps; its turn may then be over.
Try(d) ==
    /\ phase = "running" /\ phase' = "running"
    /\ d \notin tried
    /\ tried' \in {tried, tried \cup {d}}
    /\ reality' \in Realities
    /\ \A other \in Drivers \ {d} : reality'[other] = reality[other]
    /\ UNCHANGED <<tolerance, verdict>>

Tolerable == \A d \in Drivers, t \in Tests : reality[d][t] \in tolerance[d][t]

Conclude ==
    /\ phase = "running" /\ phase' = "idle"
    /\ tried = Drivers
    /\ verdict' \in {"green", "red"}
    /\ verdict' = "green" => Tolerable
    /\ UNCHANGED <<tolerance, reality, tried>>

Die ==
    /\ phase = "running" /\ phase' = "idle"
    /\ verdict' = "died"
    /\ UNCHANGED <<tolerance, reality, tried>>

Next == Start \/ Refuse \/ (\E d \in Drivers : Try(d)) \/ Conclude \/ Die

Safety == Init /\ [][Next]_vars

\* An invocation that has begun ends.
Concludes == (phase = "running") ~> (phase = "idle")

Spec == Safety /\ Concludes
=============================================================================
