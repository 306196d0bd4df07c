SPECIFICATION Spec
CONSTANTS
    meta = meta
    records = records
    l1 = l1
    Channels <- MCChannels
    Meta = meta
    Listeners = {l1}
    ChannelOf <- MCChannelOf
    MaxInflight = 1
    Retries = 1
    QueueSize = 3
    Statuses = {"session.logged.in", "session.logged.out"}
    Errors = {"none", "402::Unknown client"}
    MaxHandshakes = 2
    MaxChanges = 1
    MaxCalls = 2
INVARIANT RecoveredConnectionReestablishes
CHECK_DEADLOCK FALSE
