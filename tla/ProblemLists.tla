---------------------------- MODULE ProblemLists ----------------------------
(***************************************************************************)
(* Problem lists, which hold problems and other lists, in any shape but a  *)
(* list directly within itself. The views problem_list_deep_problems and   *)
(* problem_list_pb_count are materialized and refreshed by triggers.       *)
(* FullProblemList reads a list and all lists under it, then their         *)
(* sublists, then the problems that the viewer may see, and unfolds the    *)
(* list for the page that shows it; edits may come between the queries.    *)
(***************************************************************************)
EXTENDS Integers, FiniteSets, FiniteSetsExt

CONSTANTS Lists, ListedProblems,
          MaxListEdits      \* bound: edits of the lists from one page to the next
ASSUME ListsAssumption == IsFiniteSet(Lists) /\ MaxListEdits \in Nat

VARIABLES
    sublists,           \* problem_list_pblists: children of each list
    listed,             \* problem_list_problems: problems of each list
    deep,               \* problem_list_deep_problems, materialized
    count,              \* problem_list_pb_count, materialized
    page,               \* a page: what its queries returned, or what it shows
    edits               \* history: edits since the page's first query

listVars == <<sublists, listed, deep, count, page, edits>>

NoPage == [step |-> "none"]

\* WITH RECURSIVE: in each round parents get their children's problems, until nothing is
\* new: at the latest when there were as many rounds as there are lists.
PbListTree(own, children) ==
    LET tree[n \in 0..(Cardinality(Lists) + 1)] ==
            IF n = 0 THEN own
            ELSE LET last == tree[n - 1]
                 IN [l \in Lists |-> last[l] \cup UNION {last[c] : c \in children[l]}]
    IN tree[CHOOSE n \in 0..Cardinality(Lists) : tree[n + 1] = tree[n]]

\* problem_list_deep_sublists, which is computed when it is read: a list, and all under it.
DeepSublists(l) == PbListTree([m \in Lists |-> {m}], sublists)[l]

\* refresh_pblist_pb_count, at the end of every statement on the two tables.
Refresh ==
    /\ deep' = PbListTree(listed', sublists')
    /\ count' = [l \in Lists |-> Cardinality(deep'[l])]

ListEdited ==
    /\ page # NoPage => edits < MaxListEdits
    /\ edits' = IF page = NoPage THEN 0 ELSE edits + 1
    /\ UNCHANGED page

-----------------------------------------------------------------------------
UpdateProblemListProblems(l, pbs) ==
    /\ listed' = [listed EXCEPT ![l] = pbs]
    /\ UNCHANGED sublists
    /\ ListEdited /\ Refresh

\* Mutant of UpdateProblemListSublists: the table has no trigger.
UpdateSublistsUnseen(l, children) ==
    /\ l \notin children
    /\ sublists' = [sublists EXCEPT ![l] = children]
    /\ UNCHANGED <<listed, deep, count>>
    /\ ListEdited

\* "List %d cannot nest itself!"
UpdateProblemListSublists(l, children) ==
    /\ l \notin children
    /\ sublists' = [sublists EXCEPT ![l] = children]
    /\ UNCHANGED listed
    /\ ListEdited /\ Refresh

\* DeleteProblemList: both tables cascade, and the triggers fire there too.
DeleteProblemList(l) ==
    /\ sublists' = [m \in Lists |-> IF m = l THEN {} ELSE sublists[m] \ {l}]
    /\ listed' = [listed EXCEPT ![l] = {}]
    /\ ListEdited /\ Refresh

-----------------------------------------------------------------------------
\* The first query: the rows of the lists, with their problems and their counts.
ReadLists(l) ==
    /\ page.step \in {"none", "shown"}
    /\ page' = [step |-> "sublists", root |-> l, lists |-> DeepSublists(l), num |-> count[l],
                listed |-> listed, children |-> [m \in Lists |-> {}], unread |-> DeepSublists(l)]
    /\ edits' = 0
    /\ UNCHANGED <<sublists, listed, deep, count>>

\* shallowProblemLists, a query for each of the lists.
ReadSublists(m) ==
    /\ page.step = "sublists" /\ m \in page.unread
    /\ page' = [page EXCEPT !.children[m] = sublists[m], !.unread = @ \ {m}]
    /\ UNCHANGED <<sublists, listed, deep, count, edits>>

\* hydrateFullList: unfolds lists with the problems own and the sublists children, except
\* lists on the path to them. What it makes of a list at the end of a path: the problems
\* shown, and the depth.
Hydrate(own, children) ==
    LET tree[path \in SUBSET Lists] ==
            [l \in Lists |->
                LET under == {tree[path \cup {c}][c] : c \in children[l] \ path}
                IN [problems |-> own[l] \cup UNION {h.problems : h \in under},
                    depth |-> 1 + Max({0} \cup {h.depth : h \in under})]]
    IN tree

\* The last query, with the problems that the viewer may see (visible_pbs) at this moment.
\* What hydrateFullList does not find among what the queries returned, it leaves out.
ReadProblems(visible) ==
    /\ page.step = "sublists" /\ page.unread = {}
    /\ LET pbs == visible \cap deep[page.root]
           own == [m \in Lists |-> page.listed[m] \cap pbs]
           children == [m \in Lists |-> page.children[m] \cap page.lists]
           full == Hydrate(own, children)[{page.root}][page.root] IN
       page' = [step |-> "shown", root |-> page.root, num |-> page.num, visible |-> visible,
                problems |-> full.problems, depth |-> full.depth]
    /\ UNCHANGED <<sublists, listed, deep, count, edits>>

ListInit ==
    /\ sublists = [l \in Lists |-> {}] /\ listed = [l \in Lists |-> {}]
    /\ deep = [l \in Lists |-> {}] /\ count = [l \in Lists |-> 0]
    /\ page = NoPage /\ edits = 0

ListNext ==
    \/ \E l \in Lists :
        \/ \E pbs \in SUBSET ListedProblems : UpdateProblemListProblems(l, pbs)
        \/ \E children \in SUBSET Lists : UpdateProblemListSublists(l, children)
        \/ DeleteProblemList(l)
        \/ ReadLists(l) \/ ReadSublists(l)
    \/ \E visible \in SUBSET ListedProblems : ReadProblems(visible)

ListSpec == ListInit /\ [][ListNext]_listVars

-----------------------------------------------------------------------------
\* However lists are nested, also in circles, and edited while a page is made: the page
\* shows only problems that its viewer may see, and unfolding ends within as many levels as
\* there are lists. If no edit came since the page's first query, the page shows all that
\* its viewer may see of the list's materialized problems, and as many as its count says if
\* the viewer may see them all.
PageMatchesCount ==
    page.step = "shown" =>
        /\ page.problems \subseteq page.visible
        /\ page.depth <= Cardinality(Lists)
        /\ edits = 0 =>
             /\ page.problems = deep[page.root] \cap page.visible
             /\ deep[page.root] \subseteq page.visible =>
                    page.num = Cardinality(page.problems)
=============================================================================
