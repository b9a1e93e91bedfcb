SPECIFICATION ServiceSpec
CONSTANTS
    p1 = p1
    p2 = p2
    m1 = m1
    m2 = m2
    b1 = b1
    b2 = b2
    b3 = b3
    t1 = t1
    t2 = t2
    None = None
    Publishers <- MCPublishers
    Images <- MCImages
    Blobs <- MCBlobs
    BlobsOf <- MCBlobsOf
    Tags <- MCTags
    TagOf <- MCTagOf
    Products <- MCProducts
    LocalNames = 2
    StackFiles <- MCStackFiles
    Www <- MCWww
    Cutovers <- MCCutovers
    VHostFiles <- MCVHostFiles
    DNSFiles <- MCDNSFiles
    Snapshots <- MCSnapshots
    Packs <- MCPacks
    Names <- MCNames
    DoHURLs <- MCDoHURLs
    MeshTLD <- MCMeshTLD
    ConfSuffixes <- MCConfSuffixes
    TLDs <- MCTLDs
    Zone <- MCZone
    NSHost <- MCNSHost
    Admins = {a1, a2}
    Reloaders = {}
INVARIANTS
    RoutesKept
CHECK_DEADLOCK FALSE
