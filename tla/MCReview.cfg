SPECIFICATION FairSpec

CONSTANTS
    news = news
    deal = deal
    m0 = m0
    m1 = m1
    m2 = m2
    ask = ask
    note = note
    Messages = {m0, m1, m2}
    Talks <- MCTalks
    TalkOf <- MCTalkOf
    Rank <- MCRank
    Standing <- MCUnreadable
    Unreadable <- MCUnreadable
    MaxCorpora = 2
    ThreadLimit = 1
    MessageLimit = 1
    MaxTime = 3
    MaxFaults = 0
    Obligations = {ask, note}
    Says <- MCSays
    Questions <- MCQuestions
    MaxReviews = 2
    NoReview = noreview
    NoGuard = noguard

INVARIANTS
    PassIsFounded
    ObjectionStands

PROPERTY ReadableThreadsCollected
CHECK_DEADLOCK FALSE
