SPECIFICATION FairSpec
CONSTANTS
    etcdCA = etcdCA
    etcdServer = etcdServer
    Intermediate = {etcdCA}
    Leaf = {etcdServer, controller, admin}
    LeafIssuer <- MCLeafIssuer
    InternalUser = {controller}
    Admin = admin
    MachineDeployment = {md}
    MachinePool = {mp}
    Orphan = {orphan}
    RootDuration = 4
    CADuration = 4
    LeafDuration = 2
    Delay = 0
    Sync = 1
    MaxTime = 6
    MaxFaults = 1
INVARIANTS
    TypeOK
    LeavesTrusted
    KubeconfigsWork
    NodesRotatedInTime
PROPERTIES
    EventuallyComplete
