SPECIFICATION Spec
CONSTANTS
    DismissMs = 3
    ErrorHoldMs = 1
    ConnectTimeoutMs = 5
    DiscoveryMs = 5
    Pens = {p1, p2}
    NoMac = NoMac
    MaxSeats = 2
    MaxReports = 3
PROPERTY RequestReachesBluez
