SPECIFICATION Spec
INVARIANT
    DeskTypeOK
    OwnTextsSurvive
    ChainVerifies
    AnswersTellTheTruth
    RefusalsArePaidFor
PROPERTY
    FollowerCatchesUp
    LastWriterWins
    ArtifactsAgree
    PutsReplaceWhatWasRead
    LeasesHold
    ChainIsALog
    AppendsEnd
CONSTANTS
    a = a
    b = b
    t1 = t1
    t2 = t2
    t3 = t3
    anna = anna
    ben = ben
    cleo = cleo
    x = x
    k1 = k1
    k2 = k2
    k3 = k3
    seal = seal
    Plain = Plain
    Nothing = Nothing
    Blank = Blank
    First = First
    Node = {a, b}
    Text = {t1, t2, t3}
    Cap = 2
    MaxVersion = 3
    MaxImports = 2
    Peer = {a, b}
    Client = {anna, ben, cleo}
    DeskOf <- CleoApart
    Actor = {1, 2, 3}
    ActorOf <- CleoBetween
    Body = {x}
    MaxCounter = 3
    MaxShared = 2
    Call = {k1, k2, k3}
    MaxRetries = 1
    Key = {seal}
CHECK_DEADLOCK FALSE
