CONSTANTS
    p1 = p1
    p2 = p2
    c1 = c1
    c2 = c2
    Publishers <- MCPublishers
    Subscribers <- MCSubscribers
    Topics = {"user:created"}
    Buffer = 1
    Foreign = {2}
    None = None
    MaxMessages = 3
SPECIFICATION Spec
INVARIANTS TypeOK NoSendOnClosed InOrderOnce
SYMMETRY MCSymmetry
