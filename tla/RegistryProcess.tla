-------------------------- MODULE RegistryProcess --------------------------
(***************************************************************************)
(* The life of a dinki process (cmd/dinki/command/command.go): it opens    *)
(* the blob and the metadata store, starts the garbage collector, serves   *)
(* the registry and the health endpoint, and undoes all of it in reverse   *)
(* when it is told to stop, when a server stops, or when a step fails.     *)
(***************************************************************************)
EXTENDS Naturals, FiniteSets

CONSTANT Requests     \* requests to the registry that may be under way

VARIABLES
    pc,          \* where serve and serveAll are
    ctx,         \* whether the process was told to stop
    open,        \* the stores that are open
    collector,   \* "none", "pass" (uses the stores), "waits", "done"
    cancelled,   \* the collector's context
    listening,   \* the servers whose listener is open
    results,     \* servers whose Serve returned an error nobody has read
    expired,     \* whether the shutdown's 10 seconds are over
    aborted,     \* whether the servers were closed without a shutdown
    failed,      \* whether serve returns an error
    request      \* request[r]: "none" or "running"

vars == <<pc, ctx, open, collector, cancelled, listening, results, expired,
          aborted, failed, request>>

Stores == {"content", "metadata"}
Servers == {"registry", "health"}
Busy == {r \in Requests : request[r] = "running"}

Init ==
    /\ pc = "content" /\ ctx = FALSE /\ open = {} /\ collector = "none"
    /\ cancelled = FALSE /\ listening = {} /\ results = {} /\ expired = FALSE
    /\ aborted = FALSE /\ failed = FALSE /\ request = [r \in Requests |-> "none"]

Serving == <<listening, results, expired, aborted, request>>
Collecting == <<collector, cancelled>>

-----------------------------------------------------------------------------
\* What is open after newBackend failed.
Discard == {}

OpenContent ==
    /\ pc = "content"
    /\ \/ open' = {"content"} /\ pc' = "metadata" /\ UNCHANGED failed
       \/ UNCHANGED open /\ pc' = "done" /\ failed' = TRUE
    /\ UNCHANGED <<ctx, Collecting, Serving>>

\* boltkv, and then the metadata and the OCI store on top of it.
OpenMetadata ==
    /\ pc = "metadata"
    /\ \/ open' = Stores /\ pc' = "collector" /\ UNCHANGED failed
       \/ open' = Discard /\ pc' = "done" /\ failed' = TRUE
    /\ UNCHANGED <<ctx, Collecting, Serving>>

StartCollector ==
    /\ pc = "collector"
    /\ collector' = "pass" /\ pc' = "handler"
    /\ UNCHANGED <<ctx, open, cancelled, Serving, failed>>

\* newHandler and serverTLSConfig.  From here the deferred calls do the rest.
Prepare ==
    /\ pc = "handler"
    /\ \/ pc' = "registry" /\ UNCHANGED failed
       \/ pc' = "cancel" /\ failed' = TRUE
    /\ UNCHANGED <<ctx, open, Collecting, Serving>>

\* The servers are started one after the other.
Listen(s) ==
    /\ pc = s
    /\ \/ /\ listening' = listening \cup {s}
          /\ pc' = IF s = "registry" THEN "health" ELSE "serving"
          /\ UNCHANGED <<aborted, failed>>
       \/ /\ pc' = "close" /\ failed' = TRUE /\ aborted' = TRUE
          /\ UNCHANGED listening
    /\ UNCHANGED <<ctx, open, Collecting, results, expired, request>>

\* A server that returns closes its listener.
Stopped(s) == listening \ {s}

\* Serve returns although nobody shut the server down.
ServeFails(s) ==
    /\ s \in listening
    /\ pc \in {"health", "serving"}
    /\ listening' = Stopped(s) /\ results' = results \cup {s}
    /\ UNCHANGED <<pc, ctx, open, Collecting, expired, aborted, failed, request>>

Reported(s) == TRUE

\* The select: either case when both are ready.
Select ==
    /\ pc = "serving"
    /\ \/ \E s \in results :
            results' = results \ {s} /\ failed' = Reported(s)
       \/ ctx /\ UNCHANGED <<results, failed>>
    /\ pc' = "stop registry"
    /\ UNCHANGED <<ctx, open, Collecting, listening, expired, aborted, request>>

\* Shutdown closes the listener at once ...
StopListening(s) ==
    /\ pc = (IF s = "registry" THEN "stop registry" ELSE "stop health")
    /\ listening' = listening \ {s}
    /\ pc' = IF s = "registry" THEN "drain" ELSE "close"
    /\ UNCHANGED <<ctx, open, Collecting, results, expired, aborted, failed, request>>

Idle == Busy = {}

\* ... and waits for the requests, or for the end of the time all servers share.
Drain ==
    /\ pc = "drain"
    /\ Idle \/ expired
    /\ failed' = (failed \/ ~Idle)
    /\ pc' = "stop health"
    /\ UNCHANGED <<ctx, open, Collecting, Serving>>

Expire ==
    /\ pc = "drain" /\ ~expired
    /\ expired' = TRUE
    /\ UNCHANGED <<pc, ctx, open, Collecting, listening, results, aborted, failed, request>>

\* serveAll's deferred Close: connections are closed, handlers are not waited for.
Close ==
    /\ pc = "close"
    /\ listening' = {} /\ pc' = "cancel"
    /\ UNCHANGED <<ctx, open, Collecting, results, expired, aborted, failed, request>>

\* Mutant: serve does not wait until the collector is done.
CollectorDone_Now == TRUE

CollectorDone == collector = "done"

\* cancelCollector, and the wait for collectorDone.
StopCollector ==
    /\ pc = "cancel" /\ cancelled' = TRUE /\ pc' = "await"
    /\ UNCHANGED <<ctx, open, collector, Serving, failed>>

AwaitCollector ==
    /\ pc = "await" /\ CollectorDone /\ pc' = "backend"
    /\ UNCHANGED <<ctx, open, Collecting, Serving, failed>>

CloseBackend ==
    /\ pc = "backend"
    /\ open' = {} /\ pc' = "done"
    /\ UNCHANGED <<ctx, Collecting, Serving, failed>>

-----------------------------------------------------------------------------
Ended == ctx \/ cancelled

\* A pass: content without references, expired uploads, expired reservations.
PassEnds ==
    /\ collector = "pass" /\ collector' = "waits"
    /\ UNCHANGED <<pc, ctx, open, cancelled, Serving, failed>>

\* The ticker, which may win over a context that is done as well.
Tick ==
    /\ collector = "waits" /\ collector' = "pass"
    /\ UNCHANGED <<pc, ctx, open, cancelled, Serving, failed>>

CollectorEnds ==
    /\ collector = "waits" /\ Ended
    /\ collector' = "done"
    /\ UNCHANGED <<pc, ctx, open, cancelled, Serving, failed>>

\* SIGTERM.
Terminate ==
    /\ ~ctx /\ pc # "done" /\ ctx' = TRUE
    /\ UNCHANGED <<pc, open, Collecting, Serving, failed>>

RequestStarts(r) ==
    /\ "registry" \in listening /\ request[r] = "none"
    /\ request' = [request EXCEPT ![r] = "running"]
    /\ UNCHANGED <<pc, ctx, open, Collecting, listening, results, expired, aborted, failed>>

RequestEnds(r) ==
    /\ r \in Busy
    /\ request' = [request EXCEPT ![r] = "none"]
    /\ UNCHANGED <<pc, ctx, open, Collecting, listening, results, expired, aborted, failed>>

Process ==
    \/ OpenContent \/ OpenMetadata \/ StartCollector \/ Prepare \/ Select
    \/ Drain \/ Close \/ StopCollector \/ AwaitCollector \/ CloseBackend
    \/ \E s \in Servers : Listen(s) \/ StopListening(s)

Next ==
    \/ Process \/ Expire \/ PassEnds \/ Tick \/ CollectorEnds \/ Terminate
    \/ \E s \in Servers : ServeFails(s)
    \/ \E r \in Requests : RequestStarts(r) \/ RequestEnds(r)

Spec == Init /\ [][Next]_vars

\* Nothing is assumed of the requests: one may never end.
Fairness ==
    WF_vars(Process) /\ WF_vars(Expire) /\ WF_vars(PassEnds) /\ SF_vars(CollectorEnds)

-----------------------------------------------------------------------------
\* The types of the variables.
TypeOK ==
    /\ open \subseteq Stores /\ listening \subseteq Servers /\ results \subseteq Servers
    /\ ctx \in BOOLEAN /\ cancelled \in BOOLEAN /\ failed \in BOOLEAN
    /\ expired \in BOOLEAN /\ aborted \in BOOLEAN
    /\ collector \in {"none", "pass", "waits", "done"}
    /\ request \in [Requests -> {"none", "running"}]
    /\ results \cap listening = {}

\* A collector's pass always has both stores (serve's deferred calls).
CollectorHasStores == collector = "pass" => open = Stores

\* So has a request, unless the shutdown's time is over or the process could
\* not start its second server (serve, serveAll).
RequestHasStores == Busy # {} /\ ~expired /\ ~aborted => open = Stores

\* However far the process came, it leaves no store and no listener open and
\* no collector behind (newBackend's and serve's error paths).
EndsClean == pc = "done" => open = {} /\ listening = {} /\ collector \in {"none", "done"}

\* The process only ends without an error when it was told to end (serveAll).
EndsForAReason == pc = "done" => ctx \/ failed

\* Told to stop, or with a server gone, the process ends even when a request
\* never does (serveAll's timeout, collectGarbage's context).
Stops == (ctx \/ results # {}) ~> pc = "done"

-----------------------------------------------------------------------------
(* The inductive invariant, for every set of requests. *)

Begins == {"content", "metadata", "collector"}
Running == {"handler", "registry", "health", "serving", "stop registry", "drain"}
Stopping == {"stop health", "close", "cancel", "await", "backend"}

\* What the place serve has reached says of the stores, ...
OpenAt ==
    /\ pc \in Begins \cup Running \cup Stopping \cup {"done"}
    /\ pc \in {"content", "done"} => open = {}
    /\ pc = "metadata" => open = {"content"}
    /\ pc \in {"collector"} \cup Running \cup Stopping => open = Stores

\* ... of the collector, ...
CollectorAt ==
    /\ pc \in Begins => collector = "none"
    /\ pc = "backend" => collector = "done"
    /\ pc = "done" => collector \in {"none", "done"}

\* ... of the servers, ...
ServersAt ==
    /\ pc \in Begins \cup {"handler", "registry"} => listening = {} /\ results = {}
    /\ pc = "health" => "health" \notin listening \cup results
    /\ pc \in {"drain", "stop health"} => "registry" \notin listening
    /\ pc = "close" /\ "registry" \in listening => aborted
    /\ pc \in {"cancel", "await", "backend", "done"} => listening = {}

\* ... of the requests, and of why serve is returning.
RequestsAt ==
    /\ pc \in Begins \cup {"handler", "registry"} => Busy = {}
    /\ pc \in Stopping \cup {"done"} /\ Busy # {} => expired \/ aborted

ReasonAt == pc \in {"stop registry", "drain"} \cup Stopping \cup {"done"} => ctx \/ failed

IInv == TypeOK /\ OpenAt /\ CollectorAt /\ ServersAt /\ RequestsAt /\ ReasonAt
=============================================================================
