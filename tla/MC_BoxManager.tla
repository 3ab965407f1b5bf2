--------------------------- MODULE MC_BoxManager ---------------------------
(* Instances of BoxManager for TLC. *)
EXTENDS BoxManager

Single(q) == [multi |-> FALSE, users |-> 0, mgrMem |-> q, userMem |-> 0]
Multi(n, m, u) == [multi |-> TRUE, users |-> n, mgrMem |-> m, userMem |-> u]

\* A compilation (no quota), a batch test, a request too large for the manager,
\* and a communication test of one user.
MixedShapes == {Single(0), Single(2), Single(4), Multi(1, 1, 1)}
\* Two communication tests fit the weight together; their memory may not, and
\* the larger batch test does not fit beside a manager sandbox.
CommunicationShapes == {Single(1), Single(3), Multi(1, 2, 1)}
MultiShapes == {Multi(1, 2, 1)}
BatchShapes == {Single(0), Single(1), Single(2)}

Ids(n) == 1..n
FourIds == Ids(4)
EightIds == Ids(8)

(***************************************************************************)
(* Box numbers are interchangeable, so it is enough to draw the least one: *)
(* every state is a renaming of one that is reached so.                    *)
(***************************************************************************)
LeastFirst ==
    \A c \in Caller :
        hand'[c] # hand[c] /\ availableIDs' # availableIDs =>
            \A i \in availableIDs : hand'[c] <= i

Symmetry == Permutations(Caller)
=============================================================================
