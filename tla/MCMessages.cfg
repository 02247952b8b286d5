SPECIFICATION MCSpec
CONSTANTS
    Message = {m1}
    Delivery = {m1}
    Mailbox = {m1}
    MessageOf <- OneEach
    MailboxOf <- OneEach
    ExternalId = {x1}
    RenewOp = {o1}
    NoMessage = NoMessage
    NoId = NoId
    MaxAttempts = 2
    LeaseTicks = 2
    Delays = {0, 1}
    Lifetimes = {0, 3}
    MaxLag = 1
    MaxTime = 5
    ReplyMessage = m2
    ReplyTime = 2
INVARIANTS
    DeliveriesSound
    RepliesSound
PROPERTIES
    HistoriesStand
    ImplementsContract
    DeliveriesEnd
CHECK_DEADLOCK FALSE
