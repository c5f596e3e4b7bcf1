SPECIFICATION FairSpec
CONSTANTS
    ip1 = ip1
    ip2 = ip2
    ip3 = ip3
    Domain = {d1, d2}
    Address = {ip1, ip2, ip3}
    Family <- MCFamily
    Absent = Absent
    None = None
    Hostname = Hostname
    MaxListens = 2
    MaxAssigns = 2
    MaxFaults = 1
INVARIANTS
    TypeOK
    RoutesServeTheCluster
PROPERTIES
    EndpointsFollowService
