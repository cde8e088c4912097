SPECIFICATION FairSpec
CONSTANTS
    Peers = {p1}
    RxSeqs = {0}
    MaxRetrans = 1
    TrToLen = 1
    SeqMod = 2
    MaxTx = 2
    EncodeFails = TRUE
INVARIANTS
    TypeOK
    OneTimeoutPerTransaction
    OneOutcomePerRequest
    GiveUpAfterAllTries
    StoppedDisarmed
    ResponsesRoutedBeforeWrap
PROPERTIES
    
    TxTransactionsEnd
    RxTransactionsEnd
CHECK_DEADLOCK FALSE
