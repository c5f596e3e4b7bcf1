SPECIFICATION FairSpec
CONSTANTS
    plane = plane
    sibling = sibling
    shared = shared
    issued = issued
    token = token
    RootCA = RootCA
    Plane = {plane}
    Sibling = {sibling}
    Secret = {shared, issued, token}
    ConfigMap = {RootCA}
    Mounts <- TwoMounts
    Issued <- SiblingsCertificate
    Url <- Targets
    Audits = {"none"}
    MaxWrites = 0
    MaxEdits = 0
    MaxFaults = 1
PROPERTIES
    RolloutsEnd
