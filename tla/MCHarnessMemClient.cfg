CONSTANTS
    None = None
    EmptyStr = EmptyStr
    Blank = Blank
    NonStr = NonStr
    Absent = Absent
    Secrets = {s1}
    Texts = {t1, t2}
    IdTexts = {i1}
    MaxIds = 2
    Statuses <- MCStatuses
    Timeout = 1
    MaxChunks = 0
SPECIFICATION Spec
INVARIANTS
    TypeOK
    OnlyExplicitFalseFails
    ApiMessagePrecedence
    ErrorStatusIsApiError
    NoRequestWithoutIds
