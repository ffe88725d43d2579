CONSTANTS
    p1 = p1
    p2 = p2
    c1 = c1
    c2 = c2
    Publishers <- MCPublishers
    Subscribers <- OneSubscriber
    Topics = {"user:created"}
    Buffer = 1
    Foreign = {2}
    None = None
    MaxMessages = 3
SPECIFICATION FairSpec
PROPERTIES PublishReturns AcceptedIsDelivered LeavesNothing
