------------------------------ MODULE ProxyHooks ------------------------------
(***************************************************************************)
(* motim/proxy/addon.py: what the hooks of MotimAddon decide of each flow, *)
(* and what becomes of it in the specs.  mitmproxy calls http_connect for  *)
(* a tunnel, request, response once there is one, and websocket_message    *)
(* while the flow is an open WebSocket; the flows interleave, the hooks    *)
(* run one at a time.  An event that a hook captures goes through the      *)
(* pipeline's queue to Store.update(), or there directly if the pipeline   *)
(* is off.  CapturePipeline has the steps of the queue and CaptureSystem   *)
(* the way to the database, which start from an event that this module     *)
(* lets through.                                                           *)
(*                                                                         *)
(* Whether a host is allowed depends on the list and on its name           *)
(* resolving to addresses outside the prohibited networks, which is asked  *)
(* anew each time.  Left out: profiling, the log, the content of headers.  *)
(***************************************************************************)
EXTENDS SpecSamples

CONSTANTS
    Flows,                      \* as many as are under way at a time
    Hosts, Endpoints,           \* what requests are about
    Payloads,                   \* the rest of a request and of what is answered
    AllowedHosts,               \* hosts capture.allowed_hosts matches
    SkippedHosts,               \* hosts capture.skip_domains matches
    AssetEndpoints,             \* endpoints DEFAULT_IGNORE_PATHS matches
    Nothing,                    \* no response, no Location, no body
    QueueMax, DropWhenFull,     \* of the pipeline
    MaxRequests, MaxFrames,     \* bounds on requests and messages, and on both
    MaxCalls                    \* together, for model checking

ASSUME HooksAssumption ==
    /\ AllowedHosts \subseteq Hosts /\ SkippedHosts \subseteq Hosts
    /\ AssetEndpoints \subseteq Endpoints
    /\ Nothing \notin Hosts \cup Endpoints \cup Payloads
    /\ DropWhenFull \in BOOLEAN /\ QueueMax \in Nat /\ {MaxRequests, MaxFrames, MaxCalls} \subseteq Nat

VARIABLES
    pipelineEnabled,            \* capture.pipeline_enabled, read once
    stage,       \* where each flow is; a finished one gives way to the next
    request,     \* flow.request: its host and endpoint
    response,    \* flow.response: its content and Location, or Nothing
    queue,       \* events the pipeline has not taken yet
    spec,        \* Store: the spec of each host
    captured, skipped,          \* the addon's counters
    now,         \* the time of the last update() with a sample
    requests, frames,           \* history: requests and WebSocket messages so far
    delivered,   \* history: host, endpoint and content of the responses that
                 \* response() found and let pass to the browser
    inserted     \* history: the samples each spec ever took in, in order

flowVars == <<stage, request, response, delivered>>
countVars == <<captured, skipped>>
storeVars == <<spec, now, inserted>>
vars == <<pipelineEnabled, flowVars, queue, countVars, storeVars, requests, frames>>

Stages == {"new", "tunnel", "asked", "answered", "open"}
Requests == [host : Hosts, endpoint : Endpoints]
Statuses == {"ok", "moved", "forbidden"}
Contents == [status : Statuses, payload : Payloads \cup {Nothing}]
Responses == [content : Contents, location : Hosts \cup {Nothing}]
Refusal == [content |-> [status |-> "forbidden", payload |-> Nothing], location |-> Nothing]

Init ==
    /\ pipelineEnabled \in BOOLEAN
    /\ stage = [f \in Flows |-> "new"]
    /\ request = [f \in Flows |-> Nothing] /\ response = [f \in Flows |-> Nothing]
    /\ queue = <<>> /\ spec = [h \in Hosts |-> EmptySpec]
    /\ captured = 0 /\ skipped = 0
    /\ now = 0 /\ requests = 0 /\ frames = 0 /\ delivered = {}
    /\ inserted = [h \in Hosts |-> <<>>]

Goes(f, from, to) == stage[f] = from /\ stage' = [stage EXCEPT ![f] = to]

\* A flow that is over is forgotten.
Ends(f, from) ==
    /\ Goes(f, from, "new")
    /\ request' = [request EXCEPT ![f] = Nothing]
    /\ response' = [response EXCEPT ![f] = Nothing]

-----------------------------------------------------------------------------
(* The egress check                                                        *)

\* is_host_allowed() with the outcome of the lookup.
Allowed(h, resolves) == h \in AllowedHosts /\ resolves

\* http_connect(): a tunnel that is refused is closed with the hook's response.
Connect(f, h) ==
    /\ \E resolves \in BOOLEAN :
        IF Allowed(h, resolves)
        THEN /\ Goes(f, "new", "tunnel") /\ UNCHANGED response
             /\ request' = [request EXCEPT ![f] = [host |-> h, endpoint |-> Nothing]]
        ELSE Ends(f, "new")
    /\ UNCHANGED <<delivered, queue, countVars, storeVars, requests, frames>>

\* request(), in a tunnel or in the clear: mitmproxy asks the service or takes
\* the response of the hook for its answer.
Request(f, r) ==
    /\ \/ stage[f] = "tunnel" /\ request[f].host = r.host
       \/ stage[f] = "new"
    /\ requests < MaxRequests /\ requests + frames < MaxCalls /\ requests' = requests + 1
    /\ request' = [request EXCEPT ![f] = r]
    /\ \E resolves \in BOOLEAN :
        IF Allowed(r.host, resolves)
        THEN Goes(f, stage[f], "asked") /\ UNCHANGED response
        ELSE Goes(f, stage[f], "answered") /\ response' = [response EXCEPT ![f] = Refusal]
    /\ UNCHANGED <<delivered, queue, countVars, storeVars, frames>>

\* The service answers, or the connection fails and there is no response.
Answer(f) ==
    /\ stage[f] = "asked"
    /\ \/ /\ Goes(f, "asked", "answered")
          /\ \E r \in Responses :
                /\ r.content.status # "forbidden" /\ r.content.payload # Nothing
                /\ r.location # Nothing => r.content.status = "moved"
                /\ response' = [response EXCEPT ![f] = r]
          /\ UNCHANGED request
       \/ Ends(f, "asked")
    /\ UNCHANGED <<delivered, queue, countVars, storeVars, requests, frames>>

-----------------------------------------------------------------------------
(* response()                                                              *)

\* should_capture_with_config()
ShouldCapture(r) == r.host \notin SkippedHosts /\ r.endpoint \notin AssetEndpoints

Full == QueueMax > 0 /\ Len(queue) >= QueueMax

HttpEvent(f) ==
    [kind |-> "http", host |-> request[f].host, endpoint |-> request[f].endpoint,
     content |-> response[f].content]

\* Store.update() of a request and its response.
Updates(e) ==
    /\ now' = now + 1
    /\ spec' = [spec EXCEPT ![e.host] = WithSample(@, e.endpoint, e.content, now + 1)]
    /\ inserted' = IF Known(spec[e.host], e.endpoint, e.content) THEN inserted
                   ELSE [inserted EXCEPT ![e.host] =
                                Append(@, [endpoint |-> e.endpoint, body |-> e.content])]

\* A response goes to the browser as it is; one that upgrades (101, among the
\* "ok" here) leaves a WebSocket open.
Passes(f) ==
    /\ \/ Ends(f, "answered")
       \/ /\ Goes(f, "answered", "open") /\ response[f].content.status = "ok"
          /\ UNCHANGED <<request, response>>
    /\ delivered' = delivered \cup {[host |-> request[f].host, endpoint |-> request[f].endpoint,
                                     content |-> response[f].content]}

Redirects(f, resolves) ==
    response[f].location # Nothing /\ ~Allowed(response[f].location, resolves)

\* Fault: the response is replaced only after it was captured.
RedirectBlockedLate(f) ==
    /\ Ends(f, "answered")
    /\ \E resolves \in BOOLEAN : Redirects(f, resolves)
    /\ ShouldCapture(request[f]) /\ pipelineEnabled /\ ~Full
    /\ queue' = Append(queue, HttpEvent(f)) /\ captured' = captured + 1
    /\ UNCHANGED <<delivered, skipped, storeVars, requests, frames>>

\* A redirect to a host that is not allowed is answered with a 403 instead.
RedirectBlocked(f) ==
    /\ Ends(f, "answered")
    /\ \E resolves \in BOOLEAN : Redirects(f, resolves)
    /\ UNCHANGED <<delivered, queue, countVars, storeVars, requests, frames>>

Inspected(f) == \E resolves \in BOOLEAN : ~Redirects(f, resolves)

Filtered(f) ==
    /\ Passes(f) /\ Inspected(f) /\ ~ShouldCapture(request[f])
    /\ skipped' = skipped + 1
    /\ UNCHANGED <<queue, captured, storeVars, requests, frames>>

\* pipeline.enqueue(); an event that is dropped counts as captured all the same.
Captured(f) ==
    /\ Passes(f) /\ Inspected(f) /\ ShouldCapture(request[f]) /\ pipelineEnabled
    /\ Full => DropWhenFull
    /\ queue' = IF Full THEN queue ELSE Append(queue, HttpEvent(f))
    /\ captured' = captured + 1
    /\ UNCHANGED <<skipped, storeVars, requests, frames>>

\* Without a pipeline the hook updates the spec itself, without the bodies.
WithoutPayload(e) == [e EXCEPT !.content.payload = Nothing]

CapturedAtOnce(f) ==
    /\ Passes(f) /\ Inspected(f) /\ ShouldCapture(request[f]) /\ ~pipelineEnabled
    /\ Updates(WithoutPayload(HttpEvent(f)))
    /\ captured' = captured + 1
    /\ UNCHANGED <<queue, skipped, requests, frames>>

\* Redaction, or the update, raises out of the hook; mitmproxy goes on.
CaptureRaises(f) ==
    /\ Passes(f) /\ Inspected(f) /\ ShouldCapture(request[f])
    /\ UNCHANGED <<queue, countVars, storeVars, requests, frames>>

Response(f) ==
    RedirectBlocked(f) \/ Filtered(f) \/ Captured(f) \/ CapturedAtOnce(f) \/ CaptureRaises(f)

-----------------------------------------------------------------------------
(* websocket_message(), which asks neither the filter nor the allowlist    *)

MayFrame(f) == stage[f] = "open" /\ frames < MaxFrames /\ requests + frames < MaxCalls

Frame(f) ==
    /\ MayFrame(f) /\ frames' = frames + 1
    /\ pipelineEnabled /\ Full => DropWhenFull
    /\ queue' = IF Full \/ ~pipelineEnabled THEN queue
                ELSE Append(queue, [kind |-> "ws", host |-> request[f].host,
                                    message |-> frames + 1])
    /\ UNCHANGED <<flowVars, countVars, storeVars, requests>>

FrameRaises(f) ==
    /\ MayFrame(f) /\ pipelineEnabled /\ frames' = frames + 1
    /\ UNCHANGED <<flowVars, queue, countVars, storeVars, requests>>

Disconnect(f) ==
    /\ Ends(f, "open") \/ Ends(f, "tunnel")
    /\ UNCHANGED <<delivered, queue, countVars, storeVars, requests, frames>>

-----------------------------------------------------------------------------
(* The pipeline's worker: _process_http(), _process_ws()                   *)

ProcessHttp ==
    /\ queue # <<>> /\ Head(queue).kind = "http"
    /\ queue' = Tail(queue)
    /\ Updates(Head(queue))
    /\ UNCHANGED <<flowVars, countVars, requests, frames>>

ProcessWs ==
    /\ queue # <<>> /\ Head(queue).kind = "ws"
    /\ queue' = Tail(queue)
    /\ LET e == Head(queue) IN
        spec' = [spec EXCEPT ![e.host] = WithMessage(@, e.message)]
    /\ UNCHANGED <<flowVars, countVars, now, inserted, requests, frames>>

ProcessRaises ==
    /\ queue # <<>> /\ queue' = Tail(queue)
    /\ UNCHANGED <<flowVars, countVars, storeVars, requests, frames>>

-----------------------------------------------------------------------------
Flow(f) ==
    \/ \E h \in Hosts : Connect(f, h)
    \/ \E r \in Requests : Request(f, r)
    \/ Answer(f) \/ Response(f) \/ Frame(f) \/ FrameRaises(f) \/ Disconnect(f)

Next ==
    /\ (\E f \in Flows : Flow(f)) \/ ProcessHttp \/ ProcessWs \/ ProcessRaises
    /\ UNCHANGED pipelineEnabled

Spec == Init /\ [][Next]_vars

-----------------------------------------------------------------------------
(* Properties                                                              *)

\* The variables range over what the hooks and the store keep in them.
HooksTypeOK ==
    /\ stage \in [Flows -> Stages]
    /\ \A f \in Flows : /\ stage[f] = "answered" => response[f] \in Responses
                        /\ request[f] = Nothing \/ request[f].host \in Hosts
    /\ {captured, skipped, now, requests, frames} \subseteq Nat
    /\ \A h \in Hosts : \A i \in DOMAIN spec[h].samples :
            LET s == spec[h].samples[i] IN
            s.endpoint \in spec[h].endpoints /\ s.body \in Contents /\ s.seen \in 1..now

\* update(): "samples", "max_samples_per_endpoint", "max_samples_total".  The
\* samples of a spec are distinct and within the limits; what is kept of an
\* endpoint is the newest that was taken in; and the latest answer is there.
\* A limit of one sample per endpoint is none: the slice list[-0:] is the list.
Untimed(samples) ==
    [i \in DOMAIN samples |-> [endpoint |-> samples[i].endpoint, body |-> samples[i].body]]
IsSuffix(s, t) == Len(s) <= Len(t) /\ s = SubSeq(t, Len(t) - Len(s) + 1, Len(t))
Distinct(samples) ==
    \A i, j \in DOMAIN samples :
        i # j => samples[i].endpoint # samples[j].endpoint \/ samples[i].body # samples[j].body
WithinLimits(h) ==
    /\ Len(spec[h].samples) <= MaxTotal /\ Len(spec[h].messages) <= MaxMessages
    /\ MaxPerEndpoint > 1 => \A e \in Endpoints :
          Cardinality({i \in DOMAIN spec[h].samples : spec[h].samples[i].endpoint = e})
            <= MaxPerEndpoint
NewestKept(h) ==
    \A e \in Endpoints : IsSuffix(Select(Untimed(spec[h].samples), e, TRUE),
                                 Select(inserted[h], e, TRUE))
LatestKept == now > 0 => \E h \in Hosts : \E i \in DOMAIN spec[h].samples :
                                spec[h].samples[i].seen = now
SamplesSound ==
    /\ \A h \in Hosts : Distinct(spec[h].samples) /\ WithinLimits(h) /\ NewestKept(h)
    /\ LatestKept

\* Hooks, queue and store together: each sample of a spec is a response that
\* response() found on a request to that host and endpoint, that the filter lets
\* through and that a browser got unchanged: the service's answer, or the 403 of
\* request(), which is recorded as if the host had given it.  Neither a redirect
\* that response() replaces nor what it puts there is ever recorded.
SamplesAreAnswers ==
    \A h \in Hosts : \A i \in DOMAIN spec[h].samples :
        LET s == spec[h].samples[i] IN
        /\ h \notin SkippedHosts /\ s.endpoint \notin AssetEndpoints
        /\ \E d \in delivered :
              /\ d.host = h /\ d.endpoint = s.endpoint /\ d.content.status = s.body.status
              /\ pipelineEnabled => d.content = s.body
=============================================================================
