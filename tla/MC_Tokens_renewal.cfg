SPECIFICATION TokenSpec
CONSTANTS
    Owners = {a}
    Grants = {g}
    TokenIds = {1, 2, 3, 4}
    NoToken = 0
    MaxSignOuts = 1
INVARIANT RenewalWorks
CHECK_DEADLOCK FALSE
