\* One conversation and room for another: any interleaving of the user and the answers.
SPECIFICATION ChatSpec
CONSTANTS
    Convs = {"a", "b"}
    Old = {"a"}
    Long = {"a"}
    MaxStreams = 2
    MaxQuestions = 1
    MaxLoads = 2
INVARIANTS PanelTellsItsConversation
CHECK_DEADLOCK FALSE
