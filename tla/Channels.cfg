\* A call and an event of a channel that is registered late or never; the
\* event is listened to twice.
SPECIFICATION FairSpec
CONSTANTS
    c1 = c1
    e1 = e1
    late = late
    Call = {c1}
    Event = {e1}
    Channel = {late}
    ChannelOf <- OneChannel
    MaxListens = 2
    MaxFires = 2
CHECK_DEADLOCK FALSE
INVARIANTS TypeOK RunsIffWanted AnswerIsDue HeardInOrderOnce
PROPERTY EventuallySettled
