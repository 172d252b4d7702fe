SPECIFICATION LoaderSpec
CONSTANTS
    Nodes = {n1}
    MaxSubscriptionDepth = 1
    MaxPaths = 1
    MaxFiles = 1
    MaxEntries = 1
INVARIANTS OptionsReachAdapter
