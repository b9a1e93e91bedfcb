SPECIFICATION FairSpec
CONSTANTS
    s = s
    d = d
    e = e
    n1 = n1
    n2 = n2
    None = None
    Conns = {c1, c2}
    Ids <- NSIds
    Namespaces = {n1, n2}
    Keys <- NSKeys
    Objs <- NSObjs
    IdOf <- NSIdOf
    KeyNs <- NSKeyNs
    RegNs <- NSRegNs
    Statics = {}
    Dynamic = TRUE
    Policy = "round-robin"
    DirectRouting = TRUE
INVARIANT
    NamespaceIsolation
PROPERTIES
    StaleEvicted
    HandlerResolves
    RouteKept
