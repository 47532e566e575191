\* The caller stops calling.
CHECK_DEADLOCK FALSE
SPECIFICATION FairSpec
CONSTANTS
    Modules = {m1, m2}
    Target = m1
    Fields = {"username", "ip_address", "dhcp"}
    Methods = {"search", "search_targets", "connect", "get_config", "save_config", "change_network",
               "set_dhcp", "reboot"}
    Devices <- MCDevices
    AtOnce = TRUE
    Retries = 2
    ConnectRetries = 2
    MaxResults = 2
    StrayKinds = {"text", "binary"}
    MaxDevices = 2
    MaxOps = 2
    MaxFaults = 1
INVARIANTS
    TypeOK
    ReadsAreOwn
    SavedDespiteOneLoss
    RebootedAfterWriting
    SearchListsAll
PROPERTIES
    EveryCallReturns
