---------------------------- MODULE TaskPromise ----------------------------
(***************************************************************************)
(* What a call of the scheduler promises about the commands it runs:       *)
(* a command runs only while the call is open, and the call gives its      *)
(* boxes back and answers only when none runs any more.                    *)
(***************************************************************************)
CONSTANT Party                  \* the sandboxes of the call

VARIABLES running,              \* parties whose command is running
          closed                \* the boxes are returned, the answer is given

promiseVars == <<running, closed>>

Init == running = {} /\ closed = FALSE

\* A command starts.
Start(p) ==
    /\ ~closed
    /\ p \notin running
    /\ running' = running \cup {p}
    /\ UNCHANGED closed

\* A command ends.
Stop(p) ==
    /\ p \in running
    /\ running' = running \ {p}
    /\ UNCHANGED closed

\* The call ends.
Close ==
    /\ ~closed
    /\ running = {}
    /\ closed' = TRUE
    /\ UNCHANGED running

Next == Close \/ \E p \in Party : Start(p) \/ Stop(p)

Spec == Init /\ [][Next]_promiseVars
=============================================================================
