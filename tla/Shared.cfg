\* Three tasks on two loops, one slot.  Calls may get stuck.
SPECIFICATION Spec
CONSTANTS
    t1 = t1
    t2 = t2
    t3 = t3
    l1 = l1
    l2 = l2
    Nobody = Nobody
    Tasks <- MCTasks
    Loops <- MCLoops
    Plans <- MCPlans
    Limit = 1
CHECK_DEADLOCK FALSE
INVARIANTS
    
    TokenOwn
PROPERTY
    CallsEnd
