---------------------------- MODULE SwarmObjects ----------------------------
(***************************************************************************)
(* Swarm secrets and configs (core/translator/swarm_secret.go and          *)
(* swarm_config.go): Kubernetes Secrets and ConfigMaps with a kind label,  *)
(* found by their name or by a prefix of their Docker ID.  A call finds    *)
(* its object first and writes or deletes it in a second request; clients  *)
(* guard updates with the version they read.  Strings are sequences of     *)
(* letters, since a name may itself look like an ID or a prefix of one.    *)
(***************************************************************************)
EXTENDS Integers, SequencesExt, FiniteSetsExt

CONSTANTS Calls,     \* requests served at the same time
          Names,     \* object names
          Ids,       \* the Docker IDs of the objects made, in order
          Queries,   \* what clients ask for
          Foreign,   \* names taken by objects of another kind
          MaxUpdates,\* bound on the versions given out
          Force      \* whether clients may send version 0

Labels == {"a", "b"}

None == [id |-> <<>>]
Idle == [pc |-> "idle"]

VARIABLES objs,   \* by name: [id, ver, payload, labels], or None
          calls,  \* the requests in progress
          made    \* [objs, ver]: objects made, versions given out

vars == <<objs, calls, made>>

-----------------------------------------------------------------------------
Live == {n \in Names : objs[n] # None}

Found(n) == [how |-> "found", name |-> n]
Refused(how) == [how |-> how, name |-> <<>>]

ByPrefix(q) ==
    LET hits == {n \in Live : IsPrefix(q, objs[n].id)}
    IN  CASE hits = {} -> Refused("not found")
          [] Cardinality(hits) = 1 -> Found(CHOOSE n \in hits : TRUE)
          [] OTHER -> Refused("ambiguous")

\* findSecret, findConfig: the name first, then a prefix of the ID.  An object
\* of another kind with that name does not count.
find(q) ==
    CASE q = <<>> -> Refused("invalid")
      [] q \in Live -> Found(q)
      [] OTHER -> ByPrefix(q)

-----------------------------------------------------------------------------
\* A name taken, by an object of either kind of label, is refused: nothing changes.
Create(n) ==
    /\ made.objs < Len(Ids)
    /\ n \notin Foreign
    /\ objs[n] = None
    /\ objs' = [objs EXCEPT ![n] = [id |-> Ids[made.objs + 1], ver |-> made.ver + 1,
                                    payload |-> made.objs + 1, labels |-> "a"]]
    /\ made' = [objs |-> made.objs + 1, ver |-> made.ver + 1]
    /\ UNCHANGED calls

\* A client that has read the object sends an update of its labels, or a removal.
Request(op, q, v, labels) ==
    [pc |-> "find", op |-> op, q |-> q, ver |-> v, labels |-> labels,
     saw |-> objs[find(q).name].labels, copy |-> None, name |-> <<>>]

Ask(c, q) ==
    /\ calls[c] = Idle
    /\ find(q).how = "found"
    /\ \/ calls' = [calls EXCEPT ![c] = Request("remove", q, 0, "a")]
       \/ \E v \in {objs[find(q).name].ver} \cup (IF Force THEN {0} ELSE {}), labels \in Labels :
             calls' = [calls EXCEPT ![c] = Request("update", q, v, labels)]
    /\ UNCHANGED <<objs, made>>

Find(c) ==
    /\ calls[c].pc = "find"
    /\ calls' = [calls EXCEPT ![c] =
          IF find(calls[c].q).how # "found" THEN Idle
          ELSE [calls[c] EXCEPT !.pc = calls[c].op, !.name = find(calls[c].q).name,
                                !.copy = objs[find(calls[c].q).name]]]
    /\ UNCHANGED <<objs, made>>

\* resourceVersionFor: version 0 guards nothing; the object's own UID still does.
Guard(c) == calls[c].ver \in {0, objs[calls[c].name].ver}

\* Mutant: the object sent is the new spec alone, without the payload.
Written_spec(c) == [calls[c].copy EXCEPT !.labels = calls[c].labels, !.payload = 0]

\* The object sent: the copy that was found, with new annotations.
Written(c) == [calls[c].copy EXCEPT !.labels = calls[c].labels]

UpdateLabels(c) ==
    LET n == calls[c].name
        ok == objs[n] # None /\ objs[n].id = calls[c].copy.id /\ Guard(c)
    IN  /\ calls[c].pc = "update"
        /\ ok => made.ver < MaxUpdates
        /\ IF ok
           THEN /\ objs' = [objs EXCEPT ![n] = [Written(c) EXCEPT !.ver = made.ver + 1]]
                /\ made' = [made EXCEPT !.ver = @ + 1]
           ELSE UNCHANGED <<objs, made>>
        /\ calls' = [calls EXCEPT ![c] = Idle]

\* The delete goes by name; one that finds nothing succeeds.
RemoveObject(c) ==
    /\ calls[c].pc = "remove"
    /\ objs' = [objs EXCEPT ![calls[c].name] = None]
    /\ calls' = [calls EXCEPT ![c] = Idle]
    /\ UNCHANGED made

-----------------------------------------------------------------------------
Init ==
    /\ objs = [n \in Names |-> None]
    /\ calls = [c \in Calls |-> Idle]
    /\ made = [objs |-> 0, ver |-> 0]

Next ==
    \/ \E n \in Names : Create(n)
    \/ \E c \in Calls :
          \/ \E q \in Queries : Ask(c, q)
          \/ Find(c) \/ UpdateLabels(c) \/ RemoveObject(c)

Spec == Init /\ [][Next]_vars

-----------------------------------------------------------------------------
(* Properties. *)

\* The shape of the objects and of the requests.
TypeOK ==
    /\ \A n \in Live : objs[n].ver \in 1..made.ver /\ n \notin Foreign
    /\ \A n \in Live : objs[n].payload \in 0..Len(Ids) /\ objs[n].labels \in Labels
    /\ \A c \in Calls : calls[c] = Idle \/ calls[c].pc \in {"find", "update", "remove"}

\* As long as an object keeps its ID its payload never changes, whatever
\* updates, removals and re-creations run at the same time: "only secret labels
\* can be updated" (UpdateSecret, UpdateConfig).
PayloadStays ==
    \A n, m \in Names :
      (objs[n] # None /\ objs'[m] # None /\ objs[n].id = objs'[m].id)
          => n = m /\ objs[n].payload = objs'[m].payload

\* An update takes the place of exactly the version its client read, so no
\* client's labels are lost unseen (resourceVersionFor).
NoLostLabels ==
    \A c \in Calls :
      (calls[c].pc = "update" /\ calls'[c] = Idle /\ objs' # objs /\ calls[c].ver # 0)
          => objs[calls[c].name].labels = calls[c].saw

\* An object is acted on only if the client's words name it, or name it alone
\* by its ID: two objects that share a prefix are never confused (findSecret).
NamesItAlone ==
    \A q \in Queries :
        find(q).how = "found" =>
            \/ q = find(q).name
            \/ {n \in Live : IsPrefix(q, objs[n].id)} = {find(q).name} /\ q \notin Live

=============================================================================
