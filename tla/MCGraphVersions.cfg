SPECIFICATION Spec
CONSTANTS
    None = None
    Refused = Refused
    Registry <- MCRegistry
    Bindings <- MCBindings
    DefaultOf <- MCDefaultOf
    Connectors = {"atlas", "fal"}
    Matches <- MCMatches
    InputNodeOf <- MCInputNodeOf
    StartGraphs <- MCStartGraphs
    AgentPlans <- MCAgentPlans
    OpRequests <- MCOpRequests
    Intents <- MCIntents
    MaxVersions = 3
    MaxRevision = 2
INVARIANTS
    VersionsAreSound
    PlansFollowTheEdges
    AgentPinsRun
    ProposalsConverge
PROPERTIES
    MigratedPinsSurvive
CHECK_DEADLOCK FALSE
