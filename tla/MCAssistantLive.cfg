\* One user with two requests over two days, and a process that may die over them; one document whose synchronisation fails or
\* stops twice; one panel with one conversation and room for two streams.
SPECIFICATION LiveSpec
CONSTANTS
    Users = {u1}
    Conversations = {c1}
    Keys = {k1, k2}
    Requests = {r1, r2}
    DailyMessageLimit = 1
    GlobalDailyMessageLimit = 2
    MaxToolCalls = 1
    RetentionDays = 1
    MaxDay = 1
    Faults = {"crash"}
    Docs = {d1}
    Texts = {1, 2}
    Syncs = {s1}
    MaxFiles = 7
    MaxEdits = 2
    MaxFaults = 2
    MaxSwaps = 1
    Convs = {"a"}
    Old = {"a"}
    Long = {}
    MaxStreams = 2
    MaxQuestions = 1
    MaxLoads = 1
INVARIANTS QuotaHolds
PROPERTIES InterruptionsEnd RetriesConverge
CHECK_DEADLOCK FALSE
