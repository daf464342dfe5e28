CONSTANTS
    Keys = {k1, k2}
    Values = {v1, v2}
    Callers = {t1, t2}
    Ids = {1, 2, 3}
    Rejectable = {"begin", "commit", "forget"}
    NoCaller = NoCaller
    NoCall = NoCall
    NoIntent = NoIntent
    NoRequest = NoRequest
    NoReply = NoReply
SPECIFICATION Spec
INVARIANTS MirrorAgrees NoIntentUnderLatch ReplayAfterLastCommand
PROPERTIES ImplementsService WaitEnds AbandonedJournalIsReplayed
CHECK_DEADLOCK FALSE
