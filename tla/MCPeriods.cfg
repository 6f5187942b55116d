SPECIFICATION Spec
CONSTANTS
    SlotsPerDay = 4
    MonthDays = 30
    WindowDays = 90
    Never = Never
    From = 144
    Until = 280
CHECK_DEADLOCK FALSE
INVARIANTS
    PreviousFireIsTheLatest
