SPECIFICATION Spec
CONSTANTS
    Fields = {"username", "ip_address", "port_number", "reconnect",
              "baud_rate", "dhcp"}
    Words <- MCWords
    Addresses <- MCAddresses
    Quirks <- MCQuirks
    Assigned <- MCAssigned
    MaxChanges = 2
INVARIANT FailsLoud
