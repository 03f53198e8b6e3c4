SPECIFICATION FairSpec
CONSTANTS
    Sockets = {"A"}
    Clients = {"page", "post", "get"}
    Nobody = "nobody"
    Parts = 2
    AnswerLen <- MCAnswerLen
    TxCap = 2
    RxCap = 2
INVARIANTS
    HttpTypeOK
    OwnAnswer
    AtMostOnce
PROPERTIES
    TailIsSent
    DeadlinesFree
