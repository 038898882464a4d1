CONSTANTS
    s1 = s1
    s2 = s2
    Stations <- MCStations
    OwnIndex <- MCOwn
    Datagrams <- MCDatagrams
    StaleNlh <- MCStaleNlh
    StaleIfi <- MCStaleIfi
    StaleRta <- MCStaleRta
    StaleIwe <- MCStaleIwe
    Confs <- MCConfs
    Jumpstart = TRUE
    MaxSta = 1
SPECIFICATION Spec
INVARIANT NoOverread
