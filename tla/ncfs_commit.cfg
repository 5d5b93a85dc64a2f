CONSTANTS
    Blocks = {b1, b2, b3}
    Data = {d1, d2}
    None = None
    Torn = Torn
    ReopenUnflushed = "no"
    MaxGen = 3
SPECIFICATION Spec
SYMMETRY Sym
INVARIANTS CanMount LastCommitUntouched BlocksAccounted
PROPERTIES Atomicity
