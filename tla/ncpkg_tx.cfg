CONSTANTS
    main = main
    lib = lib
    app = app
    a = a
    b = b
    None = None
    Torn = Torn
    Paths <- MCPaths
    Dirs <- MCDirs
    DirOf <- OneDir
    Data <- MCData
    Fresh = FALSE
    Overlap = FALSE
    LateErrors = TRUE
    MaxTx = 2
    MaxTroubles = 3
SPECIFICATION MCSpec
INVARIANTS UndoCanProceed
PROPERTIES NoLeftovers Atomicity Recovers
