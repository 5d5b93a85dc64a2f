CONSTANTS
    main = main
    lib = lib
    app = app
    a = a
    b = b
    None = None
    Torn = Torn
    Paths <- MCPaths
    Dirs <- MCDirs
    DirOf <- OneKept
    Data <- MCData
    Fresh = FALSE
    Overlap = TRUE
    LateErrors = FALSE
    MaxTx = 1
    MaxTroubles = 2
SPECIFICATION Spec
INVARIANTS RecordedFilesPresent
