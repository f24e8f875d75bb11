SPECIFICATION Spec
CONSTANTS
    c1 = c1
    c2 = c2
    Calls = {c1, c2}
    None = None
    u1 = u1
    u2 = u2
    Users = {u1, u2}
    Strings <- MCStrings
    Names <- MCNames
    Blank <- MCBlank
    normalize <- MCnormalize
    Draws <- MCDraws
    Operations <- MCOperations
    Keys = {k1}
    MaxUploads = 2
    Tables <- MCTables
INVARIANTS
    TypeOK
    SlugCurrent
    AnswersTrue
PROPERTIES
    SlugIdKept
    ShutdownEnds
CHECK_DEADLOCK FALSE
