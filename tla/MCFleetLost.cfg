SPECIFICATION FairFSpec
CONSTANTS
    RouteNodes <- DemoRouteNodes
    RouteEdges <- DemoRouteEdges
    RouteOrder = "demo-route-1"
    ReleaseWindow = 3
    Home = "r_0"
    MaxDisturbances = 1
    MaxInFlight = 2
PROPERTIES ExtendsWheneverReported
