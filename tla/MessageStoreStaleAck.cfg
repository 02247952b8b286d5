SPECIFICATION Spec
CONSTANTS
    Message = {m1}
    Delivery = {m1}
    Mailbox = {m1}
    MessageOf <- OneEach
    MailboxOf <- OneEach
    ExternalId = {x1}
    RenewOp = {}
    NoMessage = NoMessage
    NoId = NoId
    MaxAttempts = 2
    LeaseTicks = 1
    Delays = {0}
    Lifetimes = {0}
    MaxLag = 0
    MaxTime = 4
SYMMETRY Names
INVARIANTS
    ResultsOfOwnAttempt
CHECK_DEADLOCK FALSE
