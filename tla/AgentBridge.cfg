SPECIFICATION FairSpec
CONSTANTS
    MaxMentions = 2
    MaxRuns = 2
    SeenLimit = 1
    Occurs = {"crash", "stop", "timeout", "broken", "unreachable", "answer_lost", "refused", "barred", "redelivered", "truncated", "declined", "unanswered", "accept_lost", "report_lost"}
    MaxDisturbances = 2
INVARIANTS BridgeTypeOK NobodyIgnored RoomReadsInOrder OneTurnEach StoryInOrder RoomAgrees
PROPERTIES EveryMentionSettles
CHECK_DEADLOCK FALSE
