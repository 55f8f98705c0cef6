SPECIFICATION LFairSpec
CONSTANTS
    g1 = g1
    g2 = g2
    h1 = h1
    h2 = h2
    Streams = {g1, g2}
    HttpReqs = {h1, h2}
INVARIANTS
    LTypeOK
    StreamsDrained
    HttpGetsItsTime
PROPERTIES
    ServersBeforeResources
    StopsWithoutStreams
