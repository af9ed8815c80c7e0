---------------------------- MODULE PluginRequests ----------------------------
(***************************************************************************)
(* Which plugins a tenant's request meets (core/plugins, core/auth,        *)
(* core/secrets): the auth middleware puts every visible auth plugin       *)
(* before the handler and again before the answer, lookups pick one plugin *)
(* by name, while registrations come, change and go.                       *)
(***************************************************************************)
EXTENDS Naturals, Sequences, SequencesExt

CONSTANTS
    Names,
    Requests,
    None

Scopes == <<"static", "system", "tenant">>   \* in Visible's order
Types == {"auth", "secrets"}
Plugins == {"static", "system", "tenant"} \X Names

VARIABLES
    registered, \* registered[p]: None, or [valid, types]
    ready,      \* plugins whose handshake succeeds
    request     \* request[q]: a request in the middleware

vars == <<registered, ready, request>>

Registrations ==
    [valid : {TRUE}, types : {{"auth"}, {"secrets"}, Types}] \cup
    [valid : {FALSE}, types : {{}}]

NoRequest == [pc |-> "new", plugins |-> <<>>, at |-> 1, invalid |-> {}, stayed |-> {},
              allowed |-> {}, approved |-> {}]

Init ==
    /\ registered = [p \in Plugins |-> None]
    /\ ready = {}
    /\ request = [q \in Requests |-> NoRequest]

\* Static plugins are checked when dink starts and do not change.
Register(p, r) ==
    /\ registered[p] # r /\ (p[1] = "static" => r # None /\ r.valid /\ registered[p] = None)
    /\ registered' = [registered EXCEPT ![p] = r]
    /\ request' = [q \in Requests |-> [request[q] EXCEPT !.stayed = @ \ {p}]]
    /\ UNCHANGED ready

ReadyOrNot(p) ==
    /\ ready' = IF p \in ready THEN ready \ {p} ELSE ready \cup {p}
    /\ UNCHANGED <<registered, request>>

-----------------------------------------------------------------------------
\* An invalid registration matches every type, so that its error is met.
has(p, t) == registered[p] # None /\ (~registered[p].valid \/ t \in registered[p].types)

Sorted(scope) ==
    SetToSortSeq({p \in Plugins : p[1] = scope /\ registered[p] # None},
                 LAMBDA p, q : p[2] < q[2])

Visible == FlattenSeq([i \in 1..3 |-> Sorted(Scopes[i])])

\* History: the plugins that apply, those registered wrongly among them.
Applying ==
    {p \in Plugins : registered[p] # None /\
                     ("auth" \in registered[p].types \/ ~registered[p].valid)}

Auth(q) ==
    /\ request[q].pc = "new"
    /\ LET found == SelectSeq(Visible, LAMBDA p : has(p, "auth"))
       IN  request' = [request EXCEPT ![q] =
              [NoRequest EXCEPT !.pc = IF found = <<>> THEN "handler" ELSE "ensure",
                                !.plugins = found,
                                !.invalid = {p \in ToSet(found) : ~registered[p].valid},
                                !.stayed = Applying]]
    /\ UNCHANGED <<registered, ready>>

Plugin(q) == request[q].plugins[request[q].at]

\* One plugin done: the next one, or the step that follows the last.
Advance(q, next, field) ==
    LET last == request[q].at = Len(request[q].plugins)
    IN  request' = [request EXCEPT ![q] =
           [@ EXCEPT !.at = IF last THEN 1 ELSE @ + 1,
                     !.pc = IF last THEN next ELSE @,
                     !.allowed = IF field = "allowed" THEN @ \cup {Plugin(q)} ELSE @,
                     !.approved = IF field = "approved" THEN @ \cup {Plugin(q)} ELSE @]]

Stop(q) == request' = [request EXCEPT ![q] = [NoRequest EXCEPT !.pc = "forbidden"]]

\* ensureReady of the Plugin found, whatever became of its registration.
EnsureReady(q) ==
    /\ request[q].pc = "ensure"
    /\ IF Plugin(q) \in ready /\ Plugin(q) \notin request[q].invalid
       THEN Advance(q, "ask", "none") ELSE Stop(q)
    /\ UNCHANGED <<registered, ready>>

\* A call that fails, or a body too large for the plugins, refuses too.
AuthZRequest(q, allow) ==
    /\ request[q].pc = "ask"
    /\ IF allow THEN Advance(q, "handler", "allowed") ELSE Stop(q)
    /\ UNCHANGED <<registered, ready>>

Handler(q) ==
    /\ request[q].pc = "handler"
    /\ request' = [request EXCEPT ![q].pc =
                    IF request[q].plugins = <<>> THEN "answered" ELSE "review"]
    /\ UNCHANGED <<registered, ready>>

AuthZResponse_Once(q, allow) ==
    /\ request[q].pc = "review"
    /\ IF allow
       THEN request' = [request EXCEPT ![q].pc = "answered", ![q].approved = @ \cup {Plugin(q)}]
       ELSE Stop(q)
    /\ UNCHANGED <<registered, ready>>

AuthZResponse(q, allow) ==
    /\ request[q].pc = "review"
    /\ IF allow THEN Advance(q, "answered", "approved") ELSE Stop(q)
    /\ UNCHANGED <<registered, ready>>

Again(q) ==
    /\ request[q].pc \in {"answered", "forbidden"}
    /\ request' = [request EXCEPT ![q] = NoRequest]
    /\ UNCHANGED <<registered, ready>>

-----------------------------------------------------------------------------
Next ==
    \/ \E p \in Plugins : ReadyOrNot(p) \/ \E r \in Registrations \cup {None} : Register(p, r)
    \/ \E q \in Requests :
          \/ Auth(q) \/ EnsureReady(q) \/ Handler(q) \/ Again(q)
          \/ \E allow \in BOOLEAN : AuthZRequest(q, allow) \/ AuthZResponse(q, allow)

Spec == Init /\ [][Next]_vars

-----------------------------------------------------------------------------
\* Lookup by name, and what docker plugin inspect shows for it.

Lookup(n, t) ==
    LET own == <<"tenant", n>>
        cluster == <<"system", n>>
        static == <<"static", n>>
    IN  IF has(own, t) THEN own
        ELSE IF has(cluster, t) THEN cluster
        ELSE IF has(static, t) THEN static ELSE None

InspectPlugin(n) ==
    LET named == SelectSeq(Visible, LAMBDA p : p[2] = n)
    IN  IF named = <<>> THEN None ELSE Last(named)

-----------------------------------------------------------------------------
\* The types of the variables.
TypeOK ==
    /\ ready \subseteq Plugins
    /\ \A q \in Requests :
          /\ request[q].pc \in {"new", "ensure", "ask", "handler", "review", "answered", "forbidden"}
          /\ request[q].plugins # <<>> => request[q].at \in 1..Len(request[q].plugins)

\* The handler runs only after every auth plugin that applied for the whole
\* of the request so far has allowed it; one that is registered wrongly, or
\* does not answer, lets nothing through (has, Registry.Auth, AuthZRequest).
NoneSkipped ==
    \A q \in Requests :
       request[q].pc \in {"handler", "review", "answered"} => request[q].stayed \subseteq request[q].allowed

\* A client sees an answer only when every plugin that allowed the request
\* has passed the answer as well.
AnswerReviewed ==
    \A q \in Requests : request[q].pc = "answered" => request[q].approved = request[q].allowed

\* A name means the tenant's own plugin before the cluster's, and a wrong
\* registration of the tenant hides the cluster's instead of falling through
\* to it; inspect shows the plugin a lookup uses.
OwnFirst ==
    \A n \in Names, t \in Types :
       /\ registered[<<"tenant", n>>] # None =>
             InspectPlugin(n) = <<"tenant", n>>
       /\ InspectPlugin(n) # None /\ has(InspectPlugin(n), t) => Lookup(n, t) = InspectPlugin(n)
       /\ Lookup(n, t) = None => \A p \in Plugins : p[2] = n => ~has(p, t)
=============================================================================
