SPECIFICATION FairSpec
CONSTANTS
    plane = plane
    sibling = sibling
    shared = shared
    issued = issued
    token = token
    RootCA = RootCA
    Plane = {plane}
    Sibling = {sibling}
    Secret = {shared, issued, token}
    ConfigMap = {RootCA}
    Mounts <- OneMount
    Issued <- OwnCertificate
    Url <- Targets
    Audits = {"none", "webhook"}
    MaxWrites = 2
    MaxEdits = 2
    MaxFaults = 1
INVARIANTS
    TypeOK
PROPERTIES
    ConfigReachesPods
    RolloutsEnd
