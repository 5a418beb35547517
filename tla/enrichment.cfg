SPECIFICATION MCSpec
CONSTANTS
    Names = {c1, c2}
    MaxMade = 2
    Absent = Absent
    Waiting = Waiting
    Failed = Failed
    Ports = {1, 2}
    Placeholder = 1
    Unset = Unset
    Garbled = Garbled
    MaxPorts = 2
    Stacks = {web}
    Members = {m1, m2}
    None = None
    Own = Own
    Down = Down
    MaxUsed = 3
    SampleTTL = 3
    NoFigure = NoFigure
    Reported = Reported
    Guests = {g1}
    OsIcon = OsIcon
    NoIcon = NoIcon
    DetailTTL = 3
    RetryTTL = 2
    ProbeTTL = 4
    PollGap = 2
    Tokens = {c1, c2}
    Requests = {r1, r2}
    Icons = {pic}
    Missing = Missing
    Nothing = Nothing
    HitTTL = 2
    MissTTL = 1
    MaxCached = 1
    Unanswered = Unanswered
SYMMETRY MCSymmetry
INVARIANTS
    TemplateNotOlder
    NoNeedlessFetch
    TemplatesCurrent
    LinkLeadsToPort
    StacksAgree
    FiguresHonest
    MeasuredThisPoll
    IconsCatchUp
    EndpointSpared
    NothingBackdated
    CacheBounded
PROPERTIES
    ServesFreshIcons
    PicturesStay
