\* Two creations and a query at once; three changes of roles, enough to
\* exchange one role for the other and to take it back.
CONSTANTS
    Users = {owner, alice}
    Owner = owner
    Ledgers = {ethereum, tezos}
    Contracts = {bond}
    Ids = {id1}
    Creations = {c1, c2}
    Queries = {q1}
    NoRow = NoRow
    NoRequest = NoRequest
    MaxRoleChanges = 3
SPECIFICATION AccessSpec
INVARIANTS
    SavedByARegistrar
    AnsweredRowsStay
    VisibleWasAllowed
    KeptAccessIsSeen
CHECK_DEADLOCK FALSE
