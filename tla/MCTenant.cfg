CONSTANTS
    Kinds = {"namespace", "tenant", "prerequisite", "object", "failure", "permission", "restart"}
    MaxDisturbances = 2
    Steps = 5
    Gateways = {"openshift", "custom"}
    Missing = {{}, {"AuthConfig"}}
    DefaultGateway = "openshift"
    Editable = {"ms", "gw", "days"}
SPECIFICATION FairSpec
INVARIANTS
    TypeOK
PROPERTIES
    TeardownBeforeRelease
    PlatformConverges
    NamespaceReturns
    StartWaitsForever
