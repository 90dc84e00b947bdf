\* Three requests about two questions of one conversation, with
\* clients that leave, a conversation that is deleted under them and a database that
\* fails; and one synchronisation at a time over two documents, any of whose calls
\* fails or ends the command.
SPECIFICATION Spec
CONSTANTS
    Users = {u1}
    Conversations = {c1}
    Keys = {k1, k2}
    Requests = {r1, r2, r3}
    DailyMessageLimit = 2
    GlobalDailyMessageLimit = 2
    MaxToolCalls = 1
    RetentionDays = 1
    MaxDay = 0
    Faults = {"database"}
    d1 = d1
    d2 = d2
    s1 = s1
    Docs = {d1, d2}
    Texts = {1, 2}
    Syncs = {s1}
    MaxFiles = 8
    MaxEdits = 3
    MaxFaults = 1
    MaxSwaps = 1
SYMMETRY Interchangeable
INVARIANTS AnswersHaveEvidence StreamTellsTheConversation
PROPERTIES RunsAreSettledOnce CorpusIsApproved
CHECK_DEADLOCK FALSE
