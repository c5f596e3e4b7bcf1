SPECIFICATION FairSpec
CONSTANTS
    plane = plane
    sibling = sibling
    shared = shared
    issued = issued
    token = token
    RootCA = RootCA
    Plane = {plane}
    Sibling = {sibling}
    Secret = {shared, issued, token}
    ConfigMap = {RootCA}
    Mounts <- OneMount
    Issued <- OwnCertificate
    Url <- Targets
    Audits = {"none", "log"}
    MaxWrites = 0
    MaxEdits = 1
    MaxFaults = 1
PROPERTIES
    ConfigReachesPods
