SPECIFICATION ChangesSpec
CONSTANTS
    NoToken = NoToken
    NoRequest = NoRequest
    Names = {a, b}
    Tokens = {t1, t2, t3}
    Requests = {q1, q2}
    MaxRevisions = 2
    MaxConsole = 1
    PolicyKeys = {"cors", "localRateLimit", "unlisted"}
    MaxChanges = 2
    Documents <- MCDocuments
    ProviderDrafts <- MCProviderDrafts
    ModelDrafts <- MCModelDrafts
    ServerDrafts <- MCServerDrafts
    Prefix <- MCPrefix
    Expressions <- MCExpressions
    Ports = {1, 2}
SYMMETRY NameSymmetry
INVARIANTS
    TypeOK
    TokensAreUsedOnce
    OnlyOldTokensAreEvicted
    FlagHasAHolder
    DocumentIsSound
    WritesAreConfirmed
PROPERTIES
    ChangesAreCompareAndSwap
    ChangesAreLocal
CHECK_DEADLOCK FALSE
