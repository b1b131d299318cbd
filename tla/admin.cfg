\* Tables of three or four deliveries of two callbacks.
CONSTANTS
    Names = {"mail", "audit"}
    Tables <- SmallTables
    Inserts <- Later
    Uuids = {"h"}
    Requests <- SomeRequests
    Token = "secret"
    MaxChanges = 4
    MaxTicks = 3
    NULL = NULL
SPECIFICATION Spec
INVARIANTS PagesComplete AnswersFit StatsAgree GaugesFresh
CHECK_DEADLOCK FALSE
