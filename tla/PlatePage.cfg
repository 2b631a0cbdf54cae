SPECIFICATION Spec
CONSTANTS
    f1 = f1
    f2 = f2
    m1 = m1
    v1 = v1
    Contents <- MCContents
    Fields = {f1, f2}
    Modules = {m1}
    Values = {v1}
    Empty = empty
    None = none
    Hashes <- MCHashes
INVARIANTS
    TypeOK
    TabHasContent
    TabsAgree
    AllReachable
PROPERTY
    NothingStale
