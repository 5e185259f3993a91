CONSTANTS
    MaxQueues <- MCMaxQueues
    MaxProps <- MCMaxProps
    QueueIds <- MCQueueIds
    Ports <- MCPorts
    PropIds <- MCPropIds
SPECIFICATION Spec
CHECK_DEADLOCK FALSE
INVARIANTS
    TypeOK
    WalkFindsQueues
