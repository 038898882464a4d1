CONSTANTS
    MaxAppl = 2
    MaxSkb = 3
    MaxDataWindow = 8
    BChans = 2
    Params <- MCParams
    RxPackets <- MCRxPackets
    CardEnabled = TRUE
    AllocMayFail = TRUE
    MaxRestarts = 1
    NoSkb = NoSkb
    NoParams = NoParams
SPECIFICATION FairSpec
PROPERTY QueueDrains
