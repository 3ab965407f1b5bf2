------------------------------ MODULE BoxPool ------------------------------
(***************************************************************************)
(* What the sandbox scheduler promises about box numbers, with nothing of  *)
(* how it schedules: isolate(1) keeps one directory and one control group  *)
(* per box number, so a number may be used by one request at a time.       *)
(* A number is taken from the pool, given back to it, or dropped when the  *)
(* sandbox could not be created.  BoxManager implements this module.       *)
(***************************************************************************)
CONSTANTS
    Caller,     \* the goroutines that ask for sandboxes
    Id          \* the box numbers

VARIABLES
    pool,       \* box numbers nobody uses
    use,        \* use[c] is the set of box numbers caller c uses
    dropped     \* box numbers that left the pool for good

poolVars == <<pool, use, dropped>>

Init ==
    /\ pool = Id
    /\ use = [c \in Caller |-> {}]
    /\ dropped = {}

Take(c, i) ==
    /\ i \in pool
    /\ pool' = pool \ {i}
    /\ use' = [use EXCEPT ![c] = @ \cup {i}]
    /\ UNCHANGED dropped

Give(c, i) ==
    /\ i \in use[c]
    /\ pool' = pool \cup {i}
    /\ use' = [use EXCEPT ![c] = @ \ {i}]
    /\ UNCHANGED dropped

\* The number is neither used nor available again.
Drop(c, i) ==
    /\ i \in use[c]
    /\ dropped' = dropped \cup {i}
    /\ use' = [use EXCEPT ![c] = @ \ {i}]
    /\ UNCHANGED pool

Next == \E c \in Caller, i \in Id : Take(c, i) \/ Give(c, i) \/ Drop(c, i)

Spec == Init /\ [][Next]_poolVars
=============================================================================
