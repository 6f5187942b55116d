SPECIFICATION MCSpec
CONSTANTS
    Syncs = {s1}
    Kept = kept
    Dropped = dropped
    Unscheduled = Unscheduled
    NoRow = NoRow
    MaxRows = 2
PROPERTIES
    ToggleSurvives
