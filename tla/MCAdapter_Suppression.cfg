CONSTANTS
    None = None
    EmptyStr = EmptyStr
    Absent = Absent
    Secrets = {s1}
    Statuses <- MCAdapterStatuses
    InputLens <- MCInputLens
    TitleLimit = 120
    ContentLimit = 4000
SPECIFICATION ASpec
INVARIANT
    NoSilentSuppression
