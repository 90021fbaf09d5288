CONSTANTS
    e1 = e1
    e2 = e2
    t1 = t1
    t2 = t2
    url = url
    slow = slow
    Events = {e1, e2}
    Emitted <- SentAndReceived
    Subscribed <- All
    Enabled <- OneOfEach
    SpecificEvents = {}
    GlobalGroups = {}
    Urls = {url, slow}
    Hung = {slow}
    Tabs = {t1, t2}
    MaxConns = 2
    DialTries = 1
    PublishTries = 2
    PostTries = 2
SPECIFICATION FairSpec
INVARIANTS
    TypeOK
    RegistrationExact
    OpenTabsGot
    PostedExactly
PROPERTIES
    WebhookReached
\* Every event was delivered.
CHECK_DEADLOCK FALSE
