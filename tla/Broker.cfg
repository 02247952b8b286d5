SPECIFICATION FairBroker
CONSTANTS
    Message = {m1, m2}
    Delivery = {m1}
    Mailbox = {m1}
    MessageOf <- OnlyMessage
    MailboxOf <- OnlyMessage
    ExternalId = {x1}
    RenewOp = {}
    NoMessage = NoMessage
    NoId = NoId
    MaxAttempts = 2
    LeaseTicks = 3
    Delays = {0}
    Lifetimes = {0, 4}
    MaxLag = 1
    MaxTime = 12
    Pump = {p1, p2}
    ReplyMessage = m2
    AdapterTimeout = 1
    Margin = 1
    MaxSpare = 0
    MaxKills = 1
INVARIANTS
    SettlementsSound
PROPERTIES
    BrokerEnds
CHECK_DEADLOCK FALSE
