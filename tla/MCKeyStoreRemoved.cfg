SPECIFICATION PolicySpec
CONSTANTS
    alice = alice
    bob = bob
    c1 = c1
    c2 = c2
    m = m
    Wildcard = Wildcard
    Absent = Absent
    Torn = Torn
    NoCopy = NoCopy
    Policy = Policy
    Nobody = Nobody
    Users = {alice}
    Models = {m}
    Quotas = {0, 1}
    Clis = {c1}
    Files <- MCFiles
    MaxChanges = 2
    bot = bot
    eve = eve
    Bearers = {bot}
    Browsers = {}
    Handlers = {h1}
    h1 = h1
    h2 = h2
    Unknown = Unknown
PROPERTIES
    RemovedStaysRemoved
