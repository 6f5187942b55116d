SPECIFICATION MCSpec
CONSTANTS
    ReservedPrefixes = {"users"}
    None = None
    Unset = None
    Empty = ""
    Weak = {"", "weak"}
    FernetKeys = {"k1", "k2", "s1"}
    Localization = Localization
    Dir = {"d1", "d2"}
    Label <- Labels
    Plans <- SomePlans
    Late <- LateOnes
    Nothing = Nothing
    Syncs = {s1, s2}
    Names = {kept, dropped}
    Releases <- TwoReleases
    Kept = kept
    Dropped = dropped
    Unscheduled = Unscheduled
    NoRow = NoRow
    MaxRows = 2
    SlotsPerDay = 4
    MonthDays = 30
    WindowDays = 8
    Never = Never
    Specs <- Scheduled
    StallThreshold = 1
    SeenWindow = 1
    From = 16
    Until = 24
    MaxUpsets = 2
    Webs = {w1, w2}
    MaxKeys = 3
    MaxSecrets = 3
    Batch = 2
    Lost = Lost
    Held <- SomeHeld
    Numeric <- Numbers
    MaxWrites = 2
SYMMETRY Symmetry
INVARIANTS
    BootServesWhole
    TwinsAgree
    ContractsIgnorePlugins
    TablesApart
    MonitorIsRight
    SecretsStayReadable
    SettingsMeanWhatTheySay
PROPERTIES
    SyncKeepsItsWord
CHECK_DEADLOCK FALSE
