SPECIFICATION Spec
CONSTANTS
    Character <- MCCharacter
    Client = {c1, c2}
    Config <- MCConfig
    Document <- MCDocument
    Uuid = {"u1", "u2"}
    Idle = Idle
    Nothing = Nothing
INVARIANTS
    TypeOK
    DownloadsExact
    FoldersApart
PROPERTY
    NeverOverwritten
