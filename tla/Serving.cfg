\* The serving side: requests, connections and rates.
CONSTANTS
    t1 = t1  t2 = t2  t3 = t3
    Names <- People
    Tokens = {t1, t2, t3}
    Domains <- TwoDomains
    DefaultDomain = "default"
    Deployments <- SomeDeployments
    MaxRequests = 3
    MaxIds = 2
    MaxConnections = 2
    Loads <- TwoLoads
    Keys <- TwoKeys
    Rate <- TheRate
    Burst <- TheBurst
    Token = 4
    Penalty = 3
    BucketCap = 1
    BucketIdle = 4
    Actors <- TwoActors
    ActorCap = 1
    ActorIdle = 4
    Rules <- TwoRules
    Limit <- TheLimit
    WindowLength = 2
    CoolDown = 2
    PenaltyTime = 3
    AlertCap = 3
    Slots = 3
    Lag = 1
    MaxTime = 6
    MaxCalls <- TheCalls
SPECIFICATION FairSpec
INVARIANTS TypeOK AccountsSound RequestsSound PromisesKept GuardSound
PROPERTIES DrainEnds
CHECK_DEADLOCK FALSE
