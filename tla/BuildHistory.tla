----------------------------- MODULE BuildHistory -----------------------------
(***************************************************************************)
(* Build history through the gateway (core/buildkit/history.go,            *)
(* history_content.go).  BuildKit keeps one history for all clients.  dink *)
(* files a build under a reference that encodes the client's identity and  *)
(* lists, changes and reads through that encoding.  BuildKit's side (the   *)
(* records, filters, limit and the event stream) is external.              *)
(***************************************************************************)
EXTENDS Naturals, FiniteSets

CONSTANTS
    Ids,        \* client identities
    Foreign,    \* what owns a record that was not built through dink
    Refs,       \* build references clients choose
    Contents,   \* digests
    Listeners, Readers,
    Client,     \* Client[x]: the identity of a listener or reader
    Wants,      \* Wants[x]: the references a listener, the digest a reader asks for
    Limit       \* Limit[l]: how many records a listener asks for

VARIABLES
    records,    \* BuildKit's records: a history reference, its content
    listen,     \* listen[l]: a ListenBuildHistory call
    reads       \* reads[r]: a content request

vars == <<records, listen, reads>>

historyRef(id, ref) == <<id, ref>>

\* The reference a client knows the record by: none if it is another's.
originalHistoryRef(id, href) == IF href[1] = id THEN {href[2]} ELSE {}

Owns(id, rec) == originalHistoryRef(id, rec.href) # {}

\* What the scope dink adds to every filter, and a reference, select.
Matches(l, rec) ==
    Owns(Client[l], rec) /\ \E ref \in Wants[l] : rec.href = historyRef(Client[l], ref)

Init ==
    /\ records = {}
    /\ listen = [l \in Listeners |->
                    [open |-> FALSE, listed |-> {}, live |-> {}, sent |-> {}, due |-> 0]]
    /\ reads = [r \in Readers |-> [pc |-> "new", owned |-> FALSE]]

-----------------------------------------------------------------------------
\* History: whether a request has met an own record of its content.
OwnContent(r, recs) == \E rec \in recs : rec.href[1] = Client[r] /\ Wants[r] \in rec.content

Noticed(recs) ==
    [r \in Readers |->
        [reads[r] EXCEPT !.owned = @ \/ (reads[r].pc = "asked" /\ OwnContent(r, recs))]]

\* BuildKit sends every listener what happens to a record.
Tell(href, kind) ==
    listen' = [l \in Listeners |->
                  IF listen[l].open
                  THEN [listen[l] EXCEPT !.live = @ \cup {[href |-> href, kind |-> kind]}]
                  ELSE listen[l]]

\* Solve files the build under the client's reference.
Build(owner, ref, content) ==
    /\ \A rec \in records : rec.href # historyRef(owner, ref)
    /\ records' = records \cup {[href |-> historyRef(owner, ref), content |-> content]}
    /\ Tell(historyRef(owner, ref), "complete")
    /\ reads' = Noticed(records')

UpdateBuildHistory(id, ref) ==
    \E rec \in records :
       /\ rec.href = historyRef(id, ref)
       /\ records' = records \ {rec}
       /\ Tell(rec.href, "deleted")
       /\ UNCHANGED reads

\* The scoped request: BuildKit lists up to the limit of what matches.
Selected(l) == {rec \in records : Matches(l, rec)}

AtMost(n, S) == IF Cardinality(S) < n THEN Cardinality(S) ELSE n

ListenBuildHistory(l) ==
    /\ ~listen[l].open
    /\ \E S \in SUBSET Selected(l) :
          /\ Cardinality(S) = AtMost(Limit[l], Selected(l))
          /\ listen' = [listen EXCEPT ![l] =
                [open |-> TRUE, live |-> {}, sent |-> {},
                 listed |-> {[href |-> rec.href, kind |-> "complete"] : rec \in S},
                 due |-> AtMost(Limit[l], {rec \in records : /\ rec.href[1] = Client[l]
                                                             /\ rec.href[2] \in Wants[l]})]]
    /\ UNCHANGED <<records, reads>>

\* Every event is checked again: the live ones are not filtered.
Passed(l, e) ==
    {[ref |-> ref, kind |-> e.kind, of |-> e.href[1]] :
        ref \in originalHistoryRef(Client[l], e.href) \cap Wants[l]}

SendListed(l) ==
    \E e \in listen[l].listed :
       /\ listen' = [listen EXCEPT ![l].listed = @ \ {e},
                                   ![l].sent = Passed(l, e),
                                   ![l].due = IF Passed(l, e) = {} THEN @ ELSE @ - 1]
       /\ UNCHANGED <<records, reads>>

SendLive(l) ==
    \E e \in listen[l].live :
       /\ listen' = [listen EXCEPT ![l].live = @ \ {e}, ![l].sent = Passed(l, e)]
       /\ UNCHANGED <<records, reads>>

Leave(l) ==
    /\ listen[l].open
    /\ listen' = [listen EXCEPT ![l].open = FALSE, ![l].listed = {}, ![l].live = {},
                                ![l].sent = {}, ![l].due = 0]
    /\ UNCHANGED <<records, reads>>

-----------------------------------------------------------------------------
\* historyContent: the history is asked on every request.
Ask(r) ==
    /\ reads[r].pc \in {"new", "served", "denied"}
    /\ reads' = [reads EXCEPT ![r] = [pc |-> "asked", owned |-> OwnContent(r, records)]]
    /\ UNCHANGED <<records, listen>>

historyReferencesDigest(rec, d) == d \in rec.content

authorize(r) ==
    \E rec \in records : Owns(Client[r], rec) /\ historyReferencesDigest(rec, Wants[r])

Authorize(r) ==
    /\ reads[r].pc = "asked"
    /\ reads' = [reads EXCEPT ![r].pc = IF authorize(r) THEN "granted" ELSE "denied"]
    /\ UNCHANGED <<records, listen>>

\* Info or Read; the record may be gone by now.
Read(r) ==
    /\ reads[r].pc = "granted"
    /\ reads' = [reads EXCEPT ![r].pc = "served"]
    /\ UNCHANGED <<records, listen>>

-----------------------------------------------------------------------------
Next ==
    \/ \E owner \in Ids \cup {Foreign}, ref \in Refs, content \in SUBSET Contents :
          Build(owner, ref, content)
    \/ \E id \in Ids, ref \in Refs : UpdateBuildHistory(id, ref)
    \/ \E l \in Listeners :
          ListenBuildHistory(l) \/ SendListed(l) \/ SendLive(l) \/ Leave(l)
    \/ \E r \in Readers : Ask(r) \/ Authorize(r) \/ Read(r)

Spec == Init /\ [][Next]_vars

-----------------------------------------------------------------------------
\* The types of the variables.
TypeOK ==
    /\ \A rec \in records : rec.href \in (Ids \cup {Foreign}) \X Refs
    /\ \A l \in Listeners : listen[l].due \in 0..Limit[l]

\* A client hears of its own builds only, listed or live, under the reference
\* it gave them (the ownership check after BuildKit's filter).
OwnHistory ==
    \A l \in Listeners : \A e \in listen[l].sent : e.of = Client[l] /\ e.ref \in Wants[l]

\* Once the listing is through, the client has as many of its own records as
\* it asked for: other clients' records take no part in the limit.
LimitCountsOwn ==
    \A l \in Listeners : listen[l].open /\ listen[l].listed = {} => listen[l].due = 0

\* Content is served only if a record of the client referred to it while the
\* request was under way: another client's record, or one deleted before,
\* grants nothing.
ServedFromOwn == \A r \in Readers : reads[r].pc = "served" => reads[r].owned
=============================================================================
