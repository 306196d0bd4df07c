SPECIFICATION Spec
CONSTANTS
    meta = meta
    records = records
    l1 = l1
    Channels <- MCChannels
    Meta = meta
    Listeners = {l1}
    ChannelOf <- MCChannelOf
    MaxInflight = 1
    Retries = 0
    QueueSize = 3
    Statuses = {"session.logged.in", "session.logged.out"}
    Errors = {"none", "402::Unknown client"}
    MaxHandshakes = 1
    MaxChanges = 0
    MaxCalls = 2
INVARIANT LastListenerUnsubscribes
CHECK_DEADLOCK FALSE
