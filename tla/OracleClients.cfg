\* Two calls that wait at once, and one call of fsoClient that sends up to
\* two transactions.
CONSTANTS
    FroCalls = {fro1, fro2}
    FsoCalls = {fso1}
    MaxHashes = 2
SPECIFICATION Spec
INVARIANTS
    ReturnedIsMined
    PromisesAreAwaited
    NothingEmittedTwice
    NoCallIsForgotten
PROPERTY CallsEnd
CHECK_DEADLOCK FALSE
