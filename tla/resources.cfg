CONSTANTS
    Proc = {"vlan", "port", "system"}
    Page = {"config", "settings", "management", "info"}
    MaxWrites = 3
    Faults = TRUE
    Nobody = Nobody
    Absent = Absent
    Setups <- MCSetups
    Imports <- MCImports
    OwnerChanges <- MCOwnerChanges
    MaxOwnerWrites = 1
    MaxRuns = 2
    VID = 8
SPECIFICATION ResourcesSpec
VIEW MCView
INVARIANT ResourcesTypeOK
INVARIANT PVIDNamesAVLAN
INVARIANT RecordedIsDevice
INVARIANT CleanRunConverges
PROPERTY OmittedKept
PROPERTY RecordedAsConfigured
PROPERTY CreatedIsOurs
