\* Up to four requests and three messages in two flows, five calls together,
\* from the hooks to the specs: a spec can take in three answers of an endpoint
\* and four of two, and three messages, each one more than its limit.  A host
\* that is skipped is not allowed either.
CONSTANTS
    f1 = f1
    f2 = f2
    api = api
    ads = ads
    list = list
    item = item
    icon = icon
    a = a
    Nothing = Nothing
    Flows <- TwoFlows
    Hosts <- TwoHosts
    AllowedHosts <- Api
    SkippedHosts <- Ads
    Endpoints <- ThreeEndpoints
    AssetEndpoints <- Icons
    Payloads <- OnePayload
    QueueMax = 2
    DropWhenFull = TRUE
    MaxRequests = 4
    MaxFrames = 3
    MaxCalls = 5
    MaxPerEndpoint = 2
    MaxTotal = 3
    MaxMessages = 2
SYMMETRY Symmetric
CHECK_DEADLOCK FALSE
SPECIFICATION Spec
INVARIANTS
    HooksTypeOK
    SamplesSound
    SamplesAreAnswers
