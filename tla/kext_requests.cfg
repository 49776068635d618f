SPECIFICATION Spec
CONSTANTS
    Byte = 128
    MAXWELEM = 1
    Null = Null
    MaxMsg = 110
    MSizes = {20, 127}
    MaxCalls = 2
    Strings <- MCStrings
    VersionU <- DotU9P
    Datas <- MCDatas
    Counts = {2, 100}
    Qids <- MCQids
    Entries <- MCEntries
    Chunks = {30, 65, 200}
    NoError <- MCNoError
    UnknownFid <- MCUnknownFid
    DirCount = 70
INVARIANTS
    TypeOK
    RequestUnderstood
    AcceptsOnlyEncodings
    ResultFromReply
    StreamAligned
    DirsExact
    TransfersFit
    SwiftSendsTheSame
    SwiftReadsTheSame
CHECK_DEADLOCK FALSE
