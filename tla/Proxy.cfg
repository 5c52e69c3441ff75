SPECIFICATION FairSpec
CONSTANTS
    Messages <- AllMessages
    WantsReply <- RepliedMessages
    LoadRequests <- Loads
    ShutDown = ShutDown
INVARIANTS
    RepliesFindTheirHandler
    ReleasedConnectionIsInvalid
    MessagesArriveInOrder
    EveryHandlerIsCalledOnce
PROPERTIES
    HandlersAreCalledAfterExit
    HandlersAreCalledAfterDestruct
CHECK_DEADLOCK FALSE
