SPECIFICATION Spec
CONSTANTS
    None = None
    Refused = Refused
    Registry <- MCRegistry
    Bindings <- MCBindings
    DefaultOf <- MCDefaultOf
    Connectors = {"atlas", "fal"}
    Matches <- MCMatches
    InputNodeOf <- MCInputNodeOf
    StartGraphs <- MCStartGraphs
    AgentPlans <- MCAgentPlans
    OpRequests <- MCOpRequests
    Intents <- MCIntents
    MaxVersions = 3
    MaxRevision = 1
PROPERTIES
    PinsSurvive
CHECK_DEADLOCK FALSE
