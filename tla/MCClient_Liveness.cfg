CONSTANTS
    None = None
    EmptyStr = EmptyStr
    Blank = Blank
    NonStr = NonStr
    Absent = Absent
    Secrets = {s1}
    Texts = {t1}
    IdTexts = {i1}
    MaxIds = 1
    Statuses <- MCStatuses
    Timeout = 1
    MaxChunks = 1
SPECIFICATION LiveSpec
PROPERTY CallReturns
