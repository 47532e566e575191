\* The caller stops calling.
CHECK_DEADLOCK FALSE
SPECIFICATION Spec
CONSTANTS
    Modules = {m1}
    Target = m1
    Fields = {"username", "gateway_ip", "ip_address", "dhcp"}
    Methods = {"connect", "change_network", "set_dhcp"}
    Devices <- OneDevice
    AtOnce = FALSE
    Retries = 5
    ConnectRetries = 3
    MaxResults = 255
    StrayKinds = {}
    MaxDevices = 1
    MaxOps = 3
    MaxFaults = 0
INVARIANTS
    DhcpTakesEffect
