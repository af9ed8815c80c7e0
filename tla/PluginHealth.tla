----------------------------- MODULE PluginHealth -----------------------------
(***************************************************************************)
(* A plugin registration and its health (core/plugins).  dinkle writes the *)
(* Plugin object, the informer hands it to the registry, which makes a     *)
(* Plugin of every version and handshakes with it in the background and    *)
(* before its use; the outcome of calls is observed and the health written *)
(* to the object's status.  A version is <<uid, generation>>.              *)
(***************************************************************************)
EXTENDS Naturals

CONSTANTS
    Requests,   \* requests that use the plugin
    MaxUid, MaxGeneration,
    MaxAborts,  \* how many requests are cancelled during a handshake
    None

Versions == (1..MaxUid) \X (1..MaxGeneration)

Callers == Requests \cup Versions   \* a version names its background check

VARIABLES
    object,     \* the API object: version, validity, status; None
    uids,       \* how many objects there have been
    seen,       \* the version the informer delivered last
    current,    \* byNamespace: the version the registry holds
    plugin,     \* plugin[v]: the Plugin made of version v
    call,       \* call[c]: a request or background check
    up,         \* whether the plugin answers
    aborts

objectVars == <<object, uids>>
registryVars == <<seen, current>>
vars == <<objectVars, registryVars, plugin, call, up, aborts>>

NoStatus == [of |-> None, ready |-> FALSE, message |-> "none"]
Idle == [pc |-> "idle", on |-> None, then |-> "idle", snap |-> NoStatus]
Unmade == [valid |-> FALSE, ready |-> FALSE, lastErr |-> "none", checked |-> FALSE,
           recent |-> FALSE, holder |-> None, failures |-> 0]

Init ==
    /\ object = None /\ uids = 0
    /\ seen = None /\ current = None
    /\ plugin = [v \in Versions |-> Unmade]
    /\ call = [c \in Callers |-> Idle]
    /\ up = FALSE /\ aborts = 0

-----------------------------------------------------------------------------
\* dinkle plugin add and remove, and the plugin's own process.

Version == IF object = None THEN None ELSE object.version

AddPlugin(valid) ==
    /\ IF object = None
       THEN /\ uids < MaxUid /\ uids' = uids + 1
            /\ object' = [version |-> <<uids + 1, 1>>, valid |-> valid, status |-> NoStatus]
       ELSE /\ Version[2] < MaxGeneration
            /\ object' = [object EXCEPT !.version[2] = @ + 1, !.valid = valid]
            /\ UNCHANGED uids
    /\ UNCHANGED <<registryVars, plugin, call, up, aborts>>

RemovePlugin ==
    /\ object # None /\ object' = None
    /\ UNCHANGED <<uids, registryVars, plugin, call, up, aborts>>

UpOrDown ==
    /\ up' = ~up
    /\ UNCHANGED <<objectVars, registryVars, plugin, call, aborts>>

-----------------------------------------------------------------------------
\* The informer's handlers; the informer may skip versions.

\* A status write changes neither uid nor generation.
SameVersion_GenerationOnly == current # None /\ current[2] = Version[2]

SameVersion == current # None /\ current = Version

upsert ==
    /\ object # None /\ seen # Version /\ seen' = Version
    /\ IF SameVersion THEN UNCHANGED <<current, plugin, call>>
       ELSE /\ current' = Version
            /\ plugin' = [plugin EXCEPT ![Version] = [Unmade EXCEPT !.valid = object.valid]]
            /\ call' = [call EXCEPT ![Version] =
                  [Idle EXCEPT !.on = Version,
                               !.pc = IF object.valid THEN "ensure" ELSE "health"]]
    /\ UNCHANGED <<objectVars, up, aborts>>

remove ==
    /\ object = None /\ seen # None
    /\ seen' = None /\ current' = None
    /\ UNCHANGED <<objectVars, plugin, call, up, aborts>>

-----------------------------------------------------------------------------
\* Lookup and ensureReady.

Lookup(r) ==
    /\ call[r].pc = "idle" /\ current # None
    /\ call' = [call EXCEPT ![r] = [Idle EXCEPT !.pc = "ensure", !.on = current]]
    /\ UNCHANGED <<objectVars, registryVars, plugin, up, aborts>>

Ready(c) == IF c \in Requests THEN "use" ELSE "idle"

Go(c, pc) == call' = [call EXCEPT ![c] = IF pc = "idle" THEN Idle ELSE [@ EXCEPT !.pc = pc]]

ensureReady_Forever(c) ==
    LET v == call[c].on
        p == plugin[v]
    IN  /\ call[c].pc = "ensure" /\ p.holder = None
        /\ IF p.valid /\ ~p.ready /\ p.lastErr = "none"
           THEN Go(c, "handshake") /\ plugin' = [plugin EXCEPT ![v].holder = c]
           ELSE Go(c, IF p.valid /\ p.ready THEN Ready(c) ELSE "idle") /\ UNCHANGED plugin
        /\ UNCHANGED <<objectVars, registryVars, up, aborts>>

\* The mutex is held for the handshake that may follow.
ensureReady(c) ==
    LET v == call[c].on
        p == plugin[v]
    IN  /\ call[c].pc = "ensure" /\ p.holder = None
        /\ IF p.valid /\ ~p.ready /\ (p.lastErr = "none" \/ ~p.recent)
           THEN Go(c, "handshake") /\ plugin' = [plugin EXCEPT ![v].holder = c]
           ELSE Go(c, IF p.valid /\ p.ready THEN Ready(c) ELSE "idle") /\ UNCHANGED plugin
        /\ UNCHANGED <<objectVars, registryVars, up, aborts>>

\* Its outcome, and whether that is news for the status.
Handshaken(c, ok) ==
    LET v == call[c].on
        p == plugin[v]
        err == IF ok THEN "none" ELSE "handshake"
        changed == ~p.checked \/ p.ready # ok \/ p.lastErr # err
        after == IF ok THEN Ready(c) ELSE "idle"
    IN  /\ call[c].pc = "handshake"
        /\ plugin' = [plugin EXCEPT ![v] =
              [@ EXCEPT !.ready = ok, !.lastErr = err, !.checked = TRUE, !.recent = TRUE,
                        !.holder = None, !.failures = IF ok THEN 0 ELSE p.failures + 1]]
        /\ IF changed THEN call' = [call EXCEPT ![c].pc = "health", ![c].then = after]
           ELSE Go(c, after)
        /\ UNCHANGED <<objectVars, registryVars, up>>

handshake(c) == Handshaken(c, up) /\ UNCHANGED aborts

\* The request that handshakes is cancelled.
Abort(r) ==
    /\ aborts < MaxAborts /\ aborts' = aborts + 1
    /\ Handshaken(r, FALSE)

\* retryAfter has passed.
Elapse(v) ==
    /\ plugin[v].recent
    /\ plugin' = [plugin EXCEPT ![v].recent = FALSE, ![v].failures = 0]
    /\ UNCHANGED <<objectVars, registryVars, call, up, aborts>>

-----------------------------------------------------------------------------
\* The call itself, and Observe with its outcome some time later.

Use(r) ==
    /\ call[r].pc = "use"
    /\ Go(r, IF up THEN "idle" ELSE "observe")
    /\ UNCHANGED <<objectVars, registryVars, plugin, up, aborts>>

Observe(r) ==
    LET v == call[r].on
    IN  /\ call[r].pc = "observe" /\ plugin[v].holder = None
        /\ plugin' = [plugin EXCEPT ![v] =
              [@ EXCEPT !.ready = FALSE, !.lastErr = "call", !.recent = TRUE]]
        /\ Go(r, IF plugin[v].ready THEN "health" ELSE "idle")
        /\ UNCHANGED <<objectVars, registryVars, up, aborts>>

\* writeStatus: the health is read under the mutex, then patched.
Health(c) ==
    LET v == call[c].on
    IN  /\ call[c].pc = "health" /\ plugin[v].holder = None
        /\ call' = [call EXCEPT ![c].pc = "patch",
              ![c].snap = [of |-> v[1], ready |-> plugin[v].ready,
                           message |-> IF plugin[v].valid THEN plugin[v].lastErr ELSE "invalid"]]
        /\ UNCHANGED <<objectVars, registryVars, plugin, up, aborts>>

\* A merge patch: a field left out, the empty message, keeps what it was.
Merge(s, t) == [t EXCEPT !.message = IF @ = "none" THEN s.message ELSE @]

writeStatus(c) ==
    /\ call[c].pc = "patch"
    /\ object' = IF object # None /\ Version[1] = call[c].snap.of
                 THEN [object EXCEPT !.status = Merge(@, call[c].snap)] ELSE object
    /\ IF call[c].then = "idle" THEN Go(c, "idle")
       ELSE call' = [call EXCEPT ![c] = [Idle EXCEPT !.pc = call[c].then, !.on = call[c].on]]
    /\ UNCHANGED <<uids, registryVars, plugin, up, aborts>>

-----------------------------------------------------------------------------
Next ==
    \/ \E valid \in BOOLEAN : AddPlugin(valid)
    \/ RemovePlugin \/ UpOrDown \/ upsert \/ remove
    \/ \E r \in Requests : Lookup(r) \/ Abort(r) \/ Use(r) \/ Observe(r)
    \/ \E c \in Callers : ensureReady(c) \/ handshake(c) \/ Health(c) \/ writeStatus(c)
    \/ \E v \in Versions : Elapse(v)

Spec == Init /\ [][Next]_vars

\* dink's goroutines run, time passes, and requests keep coming.
Fairness ==
    /\ WF_vars(upsert) /\ WF_vars(remove)
    /\ \A r \in Requests : WF_vars(Lookup(r)) /\ WF_vars(Use(r)) /\ SF_vars(Observe(r))
    /\ \A c \in Callers : /\ SF_vars(ensureReady(c)) /\ WF_vars(handshake(c))
                          /\ SF_vars(Health(c)) /\ WF_vars(writeStatus(c))
    /\ \A v \in Versions : WF_vars(Elapse(v))

-----------------------------------------------------------------------------
\* The types of the variables.
TypeOK ==
    /\ seen \in Versions \cup {None} /\ current \in Versions \cup {None}
    /\ \A v \in Versions : /\ plugin[v].holder \in Callers \cup {None}
                           /\ plugin[v].ready => plugin[v].valid /\ plugin[v].lastErr = "none"
    /\ \A c \in Callers :
          call[c].pc \in {"idle", "ensure", "handshake", "use", "observe", "health", "patch"}

\* When the informer has caught up the registry holds the object's version,
\* also of an object that was deleted and made anew (upsert).
RegistryFollows == seen = Version => current = Version

\* A status is written to the object whose plugin it describes, never to a
\* new object of the same name (the uid in writeStatus's patch).
StatusOfItsObject == object # None => object.status.of \in {None, Version[1]}

\* However many requests want it, an unreachable plugin is handshaken once in
\* every retryAfter (ensureReady's mutex and backoff).
OneTryPerBackoff == \A v \in Versions : plugin[v].failures <= 1

\* A plugin that answers again, while requests want it, is ready again for
\* good, late outcomes of earlier calls notwithstanding.
Recovers ==
    (<>[]up /\ <>[][object' = object \/ Version' = Version]_vars)
        => <>[](current = None \/ ~plugin[current].valid \/ plugin[current].ready)

-----------------------------------------------------------------------------
(* What the properties rest on, for any number of requests and versions: a   *)
(* version reaches the registry once, and the call that handshakes with its  *)
(* Plugin has the mutex and follows no failure within retryAfter.            *)

Statuses == [of : (1..MaxUid) \cup {None}, ready : BOOLEAN,
             message : {"none", "handshake", "call", "invalid"}]
Objects == [version : Versions, valid : BOOLEAN, status : Statuses]
Plugins == [valid : BOOLEAN, ready : BOOLEAN, lastErr : {"none", "handshake", "call"},
            checked : BOOLEAN, recent : BOOLEAN, holder : Callers \cup {None}, failures : 0..1]
Calls == [pc : {"idle", "ensure", "handshake", "use", "observe", "health", "patch"},
          on : Versions \cup {None}, then : {"idle", "use"}, snap : Statuses]

Sane == /\ None \notin Versions \cup Requests \cup Objects /\ Requests \cap Versions = {}
        /\ MaxUid \in Nat /\ MaxGeneration \in Nat \ {0}

Typed ==
    /\ object \in Objects \cup {None} /\ uids \in 0..MaxUid
    /\ seen \in Versions \cup {None} /\ current \in Versions \cup {None}
    /\ plugin \in [Versions -> Plugins] /\ call \in [Callers -> Calls]

\* The registry has had v, and has it still if it is the object's version.
Delivered(v) ==
    /\ v \in Versions /\ v[1] <= uids
    /\ object # None /\ v[1] = uids => v[2] <= object.version[2]
    /\ object # None /\ v = object.version => current = v

CallAt(c) ==
    /\ call[c].pc # "idle" => Delivered(call[c].on)
    /\ call[c].pc = "handshake" =>
          LET p == plugin[call[c].on] IN p.holder = c /\ p.valid /\ p.failures = 0

PluginAt(v) ==
    /\ plugin[v].ready => plugin[v].valid /\ plugin[v].lastErr = "none"
    /\ plugin[v].failures = 1 => plugin[v].recent /\ plugin[v].lastErr # "none"

IInv ==
    /\ Typed /\ seen = current /\ (current # None => Delivered(current))
    /\ object # None => object.version[1] = uids /\ object.status.of \in {None, uids}
    /\ \A c \in Callers : CallAt(c)
    /\ \A v \in Versions : PluginAt(v)
=============================================================================
