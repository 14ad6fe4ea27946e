\* The components around the run control, each with its own faults and interleavings.
SPECIFICATION Spec
CONSTANTS
    None = None
    Metrics = {m1}
    Deliveries = {d1, d2, d3}
    Followed = d1
    Dispatchers = {w1, w2}
    Runs = {r1}
    Tests = {t1}
    Addresses = {a1}
    Mailers = {w1, w2}
    People = {u1, u2}
    Callers = {c1, c2}
    Members = {u1, u2}
    Admins = {u3}
    Executors = {e1, e2}
    Tickets = {k1}
    Gateways = {g1, g2}
    Chatters = {c1, c2}
    MaxAttempts = 2
    MaxEvents = 1
    Editors = 1
    MaxCases = 2
    MaxQuestions = 2
INVARIANTS
    TypesOK
    ReceiverKnowsTheAlert
    ReplaysFormALine
    BootstrapOnce
    DutiesAreKept
    EvidenceWasVerified
    EventsPrecedeResult
    RetriesRepeatTheReport
    MutatingRunsOnce
    ResultsAreEarned
PROPERTIES
    QuietWhileSilenced
    ConsecutiveNoticesDiffer
    QueuesAreKept
    ShownRunStaysPublished
    AnswersAreKept
    NoticesCatchUp
    DeliverySettles
