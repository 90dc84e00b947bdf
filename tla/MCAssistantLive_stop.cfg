\* One question, asked once, and a process that may die while it is answered.
SPECIFICATION LiveSpec
CONSTANTS
    Users = {u1}
    Conversations = {c1}
    Keys = {k1}
    Requests = {r1}
    DailyMessageLimit = 1
    GlobalDailyMessageLimit = 1
    MaxToolCalls = 0
    RetentionDays = 1
    MaxDay = 0
    Faults = {"crash"}
    Docs = {d1}
    Texts = {1}
    Syncs = {s1}
    MaxFiles = 1
    MaxEdits = 0
    MaxFaults = 0
    MaxSwaps = 0
    Convs = {"a"}
    Old = {"a"}
    Long = {}
    MaxStreams = 1
    MaxQuestions = 1
    MaxLoads = 1
PROPERTIES InterruptedRunsEnd
CHECK_DEADLOCK FALSE
