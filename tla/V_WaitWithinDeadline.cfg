CONSTANTS
    Me = Me
    a1 = a1
    a2 = a2
    bcast = bcast
    other = other
    NoTag = NoTag
    NoFilter = NoFilter
    NoMac = NoMac
    NoFrame = NoFrame
    NoSession = NoSession
    Overflow = Overflow
    MyPid = MyPid
    OtherPid = OtherPid
    Macs <- MCMacs
    Unicast <- MCUnicast
    Payloads <- MCPayloads
    Sessions <- MCSessions
    Frames <- MCFrames
    Configs <- MCConfigs
    MaxAttempts = 3
    BaseTimeout = 1
    MaxPayload = 1494
    MaxPADOs = 2
SPECIFICATION Spec
INVARIANT WaitWithinDeadline
