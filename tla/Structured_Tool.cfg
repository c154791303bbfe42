\* Violated: in tool mode the arguments of the call are never read.
SPECIFICATION Spec
CONSTANTS
    Clients <- MCClients
    Answers <- MCAnswers
    Held <- MCHeld
    Schemas <- MCSchemas
    Values <- MCValues
    NoValue <- Nothing
    Reading <- Data
    Valid <- model_validate
    SchemaSent <- schema_sent
    Endless <- Bottomless
CHECK_DEADLOCK FALSE
INVARIANT ToolAnswerDelivered
