SPECIFICATION YawccSpec
CONSTANTS
    c1 = c1
    c2 = c2
    Clients <- MCClients
    Setups <- MCSetups
    Locations <- MCLocations
    Upgrades <- MCUpgrades
    Scenes <- MCScenes
    Channel = 2
    Backlog = 1
    Room = 1
INVARIANTS CredentialsStayHome NeverDowngrades OkMeansBothClosed BroadcastNoGap
PROPERTIES ShutdownEnds CloseEnds
CHECK_DEADLOCK FALSE
