SPECIFICATION FairSpec
CONSTANTS
    Nodes = {1, 2, 3, 4, 5, 6}
    Prios = {0, 1}
    NullNode = NullNode
    Events = {1, 2, 3}
    MaxNow = 2
    Watches = {w1, w2}
    Timeouts = {t1, t2}
    LabelMax = 6
    DomainNameMax = 1014
    HashRange = 65536
    Bytes = {97, 65, 46, 92, 49, 57, 195, 169, 32, 35, 45}
    MaxText = 4
    ServiceTypes <- MCServiceTypes
    Domains <- MCDomains
    StringMax = 4
    TxtKeys <- MCTxtKeys
    TxtValues <- MCTxtValues
    TxtMax = 3
    ProbeHosts = {h1, h2}
    RRsets <- MCRRsets
    RecordKey <- MCRecordKey
    Valid <- MCValid
    Compare <- MCCompare
    Agree <- MCAgree
    HeaderSize = 12
    PtrLimit = 50
    KeyNameSize = 6
    LabelsMax = 6
    PacketSizes <- MCPacketSizes
    MaxItems = 3
    KeyOffers <- MCKeyOffers
    RecordOffers <- MCRecordOffers
    k1 = k1
    k2 = k2
    r1 = r1
    r2 = r2
    Keys = {k1, k2}
    AnswersOf <- MCAnswersOf
    AnswerSize <- MCAnswerSize
    QuerySpace = 2
    MaxUsers = 2
    MaxPosted = 3
    ResponseRecords = {r1, r2}
    Askers = {h1, h2}
    Ttls = {0, 1, 4}
    Unique = {r1}
    MaxSuppressed = 2
    Aux <- MCAux
CHECK_DEADLOCK FALSE
INVARIANTS NextEventIsTimed WakeupNotLost TextsSurvive OneProbeLoses PacketDecodes QuestionsKept OwedAnswersScheduled
PROPERTIES StopEndsThread
