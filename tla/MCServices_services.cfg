\* Forwarding, CAP poller, command channel. Every step is an event of a
\* bounded number or follows one: each part really stops.
SPECIFICATION MCSpec
CONSTANTS
    Parts = {"forwarding", "poller", "commands"}
    Alerts <- MCAlerts
    Activations <- MCActivations
    MaxEvents = 1
    Payloads <- MCPayloads
    Endpoints = {"noaa", "ipaws"}
    Pollers = {"one", "two"}
    MaxCapEvents = 1
    Requests = {"r1", "r2"}
    MaxTick = 1
    MaxCommandEvents = 1
INVARIANTS RepeatOnlyIfConcurrent LinkedWasAired LightFollowsPolls
    AiredOncePerRow ChainGoesForward AnsweredWasExecuted ServiceAgrees
PROPERTIES LinksStay ImplementsDelivery
CHECK_DEADLOCK FALSE
