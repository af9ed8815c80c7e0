------------------------------ MODULE MCDaemon ------------------------------
(***************************************************************************)
(* dink's sessions, streams and plugins, for TLC: one component at a time, *)
(* and the variables of the others are Off.                                *)
(***************************************************************************)
EXTENDS Integers, TLC

CONSTANTS
    a, b,                   \* two calls, sessions, Pods or containers
    one,                    \* a single one
    Vacant, Off

VARIABLES
    component,  \* the component this behaviour is of
    phase, removed, entry, create, start, queue, execResize,
    attachBox, left, attach, table, sizes, mu, attachResize,
    eventsBox, pods, spent, watched, fwd, eventsOut, client, told,
    pos, reader, tagger, merger, handler, done, failed,
    stream, running, clock, pc, previous, previousPod, statsOut,
    object, uids, seen, current, plugin, call, up, aborts,
    registered, ready, request,
    main, server, sent, closing, errc, cancelled

\* One exec, two clients that start it, two that resize its terminal.
Exec == INSTANCE ExecSessions WITH
    Creators <- {one}, Starters <- {a, b}, Resizers <- {1, 2}, Pods <- {"own", "left"},
    ExitCodes <- {0, 1}, None <- Vacant, resize <- execResize

\* Two sessions and a resize of a container that may run twice.
Attach == INSTANCE AttachSessions WITH
    Sessions <- {a, b}, Resizers <- {one}, Free <- Vacant, MaxRuns <- 2, box <- attachBox,
    resize <- attachResize

\* A container and its replacement, a Pod that runs twice, one subscriber.
Ev == INSTANCE Events WITH
    Pods <- {one}, Containers <- {a, b}, MaxRuns <- 2, MaxVols <- 0, MaxQueue <- 2,
    MaxOther <- 0, Cap <- 1, None <- Vacant, box <- eventsBox, out <- eventsOut

\* Two Pods of three lines, of which two were asked for.
Logs == INSTANCE LogStreams WITH
    Pods <- {a, b}, Lines <- 3, Until <- 2, Fail <- TRUE

\* Three samples, two Pods, a clock that may go back.
Stats == INSTANCE ContainerStats WITH
    PodNames <- {1, 2}, Rates <- {0, 2}, Window <- 1, MaxTime <- 3, MaxSamples <- 3,
    out <- statsOut

\* A plugin object that is deleted and made anew.
Health == INSTANCE PluginHealth WITH
    Requests <- {one}, MaxUid <- 2, MaxGeneration <- 1, MaxAborts <- 1, None <- Vacant

\* A plugin object that is changed.
Versions == INSTANCE PluginHealth WITH
    Requests <- {one}, MaxUid <- 1, MaxGeneration <- 2, MaxAborts <- 1, None <- Vacant

\* One request while plugins of one name come and go in three scopes.
Reqs == INSTANCE PluginRequests WITH
    Names <- {1}, Requests <- {one}, None <- Vacant

\* Three servers: one more than Serve has.
Serve == INSTANCE PluginServe WITH
    N <- 3

execVars == <<phase, removed, entry, create, start, queue, execResize>>
attachVars == <<attachBox, left, attach, table, sizes, mu, attachResize>>
eventsVars == <<eventsBox, pods, spent, watched, fwd, eventsOut, client, told>>
logsVars == <<pos, reader, tagger, merger, handler, done, failed>>
statsVars == <<stream, running, clock, pc, previous, previousPod, statsOut>>
pluginVars == <<object, uids, seen, current, plugin, call, up, aborts>>
reqsVars == <<registered, ready, request>>
serveVars == <<main, server, sent, closing, errc, cancelled>>
vars == <<component, execVars, attachVars, eventsVars, logsVars, statsVars, pluginVars,
          reqsVars, serveVars>>

Components == {"exec", "attach", "events", "logs", "stats", "health", "versions", "requests",
               "serve"}

Init ==
    /\ component \in Components
    /\ IF component = "exec" THEN Exec!Init
       ELSE /\ phase = Off /\ removed = Off /\ entry = Off /\ create = Off /\ start = Off
            /\ queue = Off /\ execResize = Off
    /\ IF component = "attach" THEN Attach!Init
       ELSE /\ attachBox = Off /\ left = Off /\ attach = Off /\ table = Off /\ sizes = Off
            /\ mu = Off /\ attachResize = Off
    /\ IF component = "events" THEN Ev!Init
       ELSE /\ eventsBox = Off /\ pods = Off /\ spent = Off /\ watched = Off /\ fwd = Off
            /\ eventsOut = Off /\ client = Off /\ told = Off
    /\ IF component = "logs" THEN Logs!Init
       ELSE /\ pos = Off /\ reader = Off /\ tagger = Off /\ merger = Off /\ handler = Off
            /\ done = Off /\ failed = Off
    /\ IF component = "stats" THEN Stats!Init
       ELSE /\ stream = Off /\ running = Off /\ clock = Off /\ pc = Off /\ previous = Off
            /\ previousPod = Off /\ statsOut = Off
    /\ CASE component = "health" -> Health!Init
         [] component = "versions" -> Versions!Init
         [] OTHER -> /\ object = Off /\ uids = Off /\ seen = Off /\ current = Off /\ plugin = Off
                     /\ call = Off /\ up = Off /\ aborts = Off
    /\ IF component = "requests" THEN Reqs!Init
       ELSE registered = Off /\ ready = Off /\ request = Off
    /\ IF component = "serve" THEN Serve!Init
       ELSE /\ main = Off /\ server = Off /\ sent = Off /\ closing = Off /\ errc = Off
            /\ cancelled = Off

Next ==
    /\ UNCHANGED component
    /\ IF component = "exec" THEN Exec!Next ELSE UNCHANGED execVars
    /\ IF component = "attach" THEN Attach!Next ELSE UNCHANGED attachVars
    /\ IF component = "events" THEN Ev!Next ELSE UNCHANGED eventsVars
    /\ IF component = "logs" THEN Logs!Next ELSE UNCHANGED logsVars
    /\ IF component = "stats" THEN Stats!Next ELSE UNCHANGED statsVars
    /\ CASE component = "health" -> Health!Next
         [] component = "versions" -> Versions!Next
         [] OTHER -> UNCHANGED pluginVars
    /\ IF component = "requests" THEN Reqs!Next ELSE UNCHANGED reqsVars
    /\ IF component = "serve" THEN Serve!Next ELSE UNCHANGED serveVars

Spec == Init /\ [][Next]_vars

\* Sessions, Pods and containers are interchangeable in each component.
Symmetry == Permutations({a, b})

\* The instance satisfies what the proofs assume of the constants.
ASSUME DaemonConstants == Exec!Sane /\ Serve!NAssumption /\ Health!Sane /\ Versions!Sane

-----------------------------------------------------------------------------
\* However many clients start one exec at once, one of them runs its command
\* (ContainerExecStart). An exec that is not running offers no terminal to a
\* resize, and the exit code that inspect reports stays.
ExecSafe ==
    /\ [](component = "exec" => Exec!TypeOK /\ Exec!OneAtATime /\ Exec!NoStaleTerminal)
    /\ [][component = "exec" => Exec!ExitCodeFinal]_vars

\* A client is connected only to a Pod its container owns (waitAttachPod), no
\* resize outlives the table of sessions it read (ContainerResize), and an
\* attach that reports success saw the process end (attachTargetExited).
AttachSafe ==
    /\ [](component = "attach" =>
             Attach!TypeOK /\ Attach!AttachToOwnPod /\ Attach!ResizeReachesSessions)
    /\ [][component = "attach" => Attach!SuccessMeansEnded]_vars

\* No start or exit is reported twice, or was there when the subscription
\* began. The exit of a run is never reported after the start of a later one,
\* and no health for a run whose exit was reported (podTransitionEvents,
\* observePodEventState).
EventsSafe ==
    /\ [](component = "events" => Ev!TypeOK /\ Ev!NothingTwice)
    /\ [][component = "events" => Ev!DieBeforeNextStart /\ Ev!HealthOfTheLiving]_vars

\* Each Pod's log lines come in order, without gaps and under its own task; a
\* stream that ends as if complete is complete, and a log that could not be
\* read does not end like one (withLogAttrs, mergeLogStreams, podLogs). The
\* CPU share a client computes is the rate the metrics reported, of one Pod
\* (ContainerStats).
ReadsAreTrue ==
    /\ component = "logs" =>
          Logs!TypeOK /\ Logs!InOrder /\ Logs!CompleteIfClosed /\ Logs!ErrorReported
    /\ component = "stats" => Stats!TypeOK /\ Stats!ShareIsRate /\ Stats!ComparesOwnPod

\* Once the informer has caught up the registry holds the object's version
\* (upsert, remove). A status is written to the object it describes, never to
\* a new one of the same name (writeStatus). An unreachable plugin is tried
\* once in every retryAfter, however many requests want it (ensureReady).
PluginsSafe ==
    /\ component = "health" =>
          /\ Health!TypeOK /\ Health!RegistryFollows /\ Health!StatusOfItsObject
          /\ Health!OneTryPerBackoff
    /\ component = "versions" =>
          Versions!TypeOK /\ Versions!RegistryFollows /\ Versions!OneTryPerBackoff

\* The handler runs only after every auth plugin that applied throughout has
\* allowed the request, and every plugin that allowed it has passed its
\* answer (AuthZRequest, AuthZResponse). A name means the tenant's own plugin
\* first (Registry.Lookup, InspectPlugin).
RequestsReviewed ==
    component = "requests" =>
       Reqs!TypeOK /\ Reqs!NoneSkipped /\ Reqs!AnswerReviewed /\ Reqs!OwnFirst

\* A server that failed is why Serve returns, whatever it races; a plugin
\* that is cancelled and ends in time reports no error; no server serves once
\* Serve has returned (serveAll).
ServeSafe ==
    component = "serve" =>
       /\ Serve!TypeOK /\ Serve!FailureIsReported /\ Serve!CleanStopIsNil
       /\ Serve!StoppedWhenReturned
=============================================================================
