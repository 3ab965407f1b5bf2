SPECIFICATION ServicesSpec
CONSTANTS
    Persons = {a, b}
    Testers = {b}
    ContestRequests = {q1, q2}
    Settings <- ContestRows
    MaxSubs = 1
    MaxInvited = 1
    LastMoment = 3
    MaxUpdates = 1
    Accounts = {a, b, c}
    SiteAdmins = {c}
    Author = b
    StaffRequests = {q1, q2}
    TokenIds = {1, 2, 3, 4}
    Owners = {a, b}
    Grants = {q1, q2}
    NoToken = 0
    MaxSignOuts = 1
    SessionIds = {1, 2}
    SessionRequests = {q1, q2}
    MaxSessionCount = 1
    MaxVersions = 3
    Views = {v1, v2}
    Edits = {e1, e2}
    MaxEdits = 2
    Sources = {s1, s2}
    Checkings = {k1, k2}
    MaxTime = 3
    Contestants = {a}
    ContestProblems = {p, r}
    SumSubtasks = {r}
    Subtasks = {t1, t2}
    MaxSubmissions = 3
    Scores = {0, 100}
    PartScores = {0, 50}
    Scales = {50, 100}
    SubmissionPenalty = 20
    Freeze = 2
    LastMinute = 3
    Lists = {l1, l2, l3}
    ListedProblems = {p}
    MaxListEdits = 1
    Jobs = {q1, q2}
    Archives = {{1}, {1, 2}}
    MaxTests = 2
    MaxSubtasks = 1
    Precisions = {1, 10, 100}
    GivenScores <- ArchiveScores
    TestCount = 2
    Layouts <- LayoutRows
    TestWorth = 425
    Percentages = {0, 50, 100}
    Units = {1, 10}
    DefaultPoints = 100
    MaxReworks = 1
CONSTRAINTS SmallContest SmallBoard
SYMMETRY ServicesSymmetry
INVARIANTS
    SubmittersSee NoEarlyLook AtMostOnePerRequest EntriesOwned
    EditorKept RevokedTogether CacheExplained RenderExplained CheckerExplained
    IcpcByTheRules CellsExplainRow PageMatchesCount
    FilesExplained ImportIsWhole ScoresAddUp ResultFollows
CHECK_DEADLOCK FALSE
