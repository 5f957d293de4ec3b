SPECIFICATION FairSpec
CONSTANTS
    Steps = {t1, t2}
    NumFmp = 2
    NumDatasets = 3
    Forever = Forever
    Ttl <- SmallTtl
    MaxTime = 1
INVARIANTS
    CollisionIsFirstFetch
    HitsAreFresh
PROPERTY
    LoadsEnd
