CONSTANTS
    Kinds = {"external", "gateway", "failure", "ref", "backend", "optout", "restart"}
    Governed = {"LLMInferenceService"}
    MaxDisturbances = 2
SPECIFICATION FairSpec
CHECK_DEADLOCK FALSE
INVARIANTS
    TypeOK
    ExternalConverges
    BackendBeforeRoute
PROPERTIES
    StatusConverges
    DeletionIsClean
    DeletionCompletes
