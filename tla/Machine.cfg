CONSTANTS
    Releases <- MCReleases
    Installed = "r0"
    Info <- MCInfo
    Catalogs <- MCCatalogs
    PlistArgs <- MCPlistArgs
    MaxAttempts = 2
    MaxUpdFaults = 2
    MaxPids = 3
    Cmds = {c1}
    MaxCmds = 3
    Calm = TRUE
    Faults = {TRUE, FALSE}
    Models = {m1, m2}
    Machines <- MCMachines
    Healers = {h1, h2}
    CDNs <- MCCDNs
    MaxRtFaults = 2
    Layouts <- MCLayouts
    Size = 2
    Threshold = 1
    MaxRetries = 3
    Catalog = {"a", "b", "c"}
    SizeGB <- MCSizeGB
    MinRam <- MCMinRam
    DiskGB <- MCDiskGB
    Memories = {8, 16, 24}
    Reserve = 4
SPECIFICATION MachineSpec
INVARIANTS
    OneObedientInstance
    ClaimsAreTrue
    PackagesKept
    DownloadsAreWhole
    TemplatesAreRight
    PickerIsRight
PROPERTIES
    UpdatesAreSafe
    MachineProgress
CHECK_DEADLOCK FALSE
