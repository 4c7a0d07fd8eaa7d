SPECIFICATION Spec
CONSTANTS
    tiny = tiny
    org = org
    huge = huge
    orgListed = orgListed
    weights = weights
    config = config
    bin = bin
    big = big
    Procs = {2, 3}
    Models = {tiny, org, huge}
    Files = {weights, config, bin, big}
    FilesOf <- MCFilesOf
    Shards <- MCShards
    Weights = {weights, bin, big}
    Safetensors = {weights}
    Size <- MCSize
    Requests <- MCRequests
    Sessions <- MCSessions
    MaxFaults = 1
    Names = {tiny, orgListed, huge}
    Listed <- MCListed
    Contains <- MCContains
    Ports = {1, 2}
    Layers <- MCLayers
    Machine <- MCMachine
INVARIANTS
    TypeOK
    ResumeIsSound
    
PROPERTIES
    PullIsWhole
    
    OneEntryAtATime
CHECK_DEADLOCK FALSE
