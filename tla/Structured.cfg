\* One call, up to four attempts; a single attempt with every form of answer.
\* A cache that earlier calls have filled, and others write to.  The call ends.
SPECIFICATION Spec
CONSTANTS
    Clients <- MCClients
    Answers <- MCAnswers
    Held <- MCHeld
    Schemas <- MCSchemas
    Values <- MCValues
    NoValue <- Nothing
    Reading <- Data
    Valid <- model_validate
    SchemaSent <- schema_sent
    Endless <- Bottomless
CHECK_DEADLOCK FALSE
INVARIANTS
    ResultSaid
    WholeWhenFinished
    RepeatServed
    SchemaAsked
    SchemaFits
    OutcomeJustified
