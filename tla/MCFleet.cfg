SPECIFICATION FairFSpec
CONSTANTS
    RouteNodes <- DemoRouteNodes
    RouteEdges <- DemoRouteEdges
    RouteOrder = "demo-route-1"
    ReleaseWindow = 3
    Home = "r_0"
    MaxDisturbances = 2
    MaxInFlight = 2
INVARIANTS FTypeOK ReleasedInOrder NothingCorrupts InStep PanicsOnlyAfterReconnect
PROPERTIES WindowsJoin RequestIsAnswered
