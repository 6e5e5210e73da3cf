SPECIFICATION FairSpec

CONSTANTS
    a1 = a1
    a2 = a2
    r1 = r1
    r2 = r2
    m1 = m1
    bad = bad
    k1 = k1
    k2 = k2
    none = none
    Torn = torn
    Procs = {p1, p2}
    Attempts = {a1, a2}
    Uses <- MCUses
    MaxText = 2
    MaxReceipts = 2
    DraftId <- MCDraftId
    NoId = none
    Replies <- MCReplies
    Undeliverable <- MCUndeliverable
    Runs = {r1, r2}
    MaxSends = 1
    MaxFaults = 2
    lead = lead
    alert = alert
    issue = issue
    d1 = d1
    Messages = {lead, alert, issue}
    Mail <- MCMail
    Received <- MCReceived
    Undated = undated
    StaleDays = 1
    HandlersReadCache = FALSE
    Desks = {d1}
    Exports <- MCExports
    Reports <- MCReports
    ActionOutcomes <- MCOutcomes
    ResolverStatuses = {"verified_resolved"}
    Decisions = {"approved", "rejected"}
    DeliveryStatuses = {"sent_recorded"}
    MaxTime = 1
    MaxSnapshots = 1
    MaxFile <- MCFile
    MaxLines = 3
    InboundTexts <- MCTexts

INVARIANTS
    TypeOK
    OncePerAttempt
    SentUnderAuthority
    RepeatHasACause
    DeliveredWasApproved
    QueuedUntilClosed
    NothingFallsBetween

PROPERTY RepliesGoOut
CHECK_DEADLOCK FALSE
