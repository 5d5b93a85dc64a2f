CONSTANTS
    main = main
    lib = lib
    app = app
    a = a
    b = b
    None = None
    Torn = Torn
    Paths <- MCPaths
    Dirs <- MCDirs
    DirOf <- OneKept
    Data <- MCData
    Fresh = TRUE
    Overlap = FALSE
    LateErrors = FALSE
    MaxTx = 1
    MaxTroubles = 1
SPECIFICATION Spec
INVARIANTS RecordedFilesPresent
