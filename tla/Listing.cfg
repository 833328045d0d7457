SPECIFICATION Spec
CONSTANTS
    Rows = {r1, r2, r3}
    ChannelOf <- TheChannels
    Statuses = {"pending", "queued"}
    Filters <- TheFilters
    NotGiven = NotGiven
    Limits <- TheLimits
    Offsets <- TheOffsets
    Unparsed = Unparsed
    DefaultLimit = 2
    MaxLimit = 3
    MaxTime = 3
    MaxChanges = 2
    r1 = r1
    r2 = r2
    r3 = r3
INVARIANTS TypeOK SkipsOnlyForLeavers TotalIsReachable
PROPERTIES PagingAdvances PagingEnds
