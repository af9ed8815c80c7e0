------------------------------ MODULE Networks ------------------------------
(***************************************************************************)
(* Docker networks (core/translator/network*.go): DockerNetwork objects,   *)
(* one per name, the NetworkPolicies they own, and the membership labels   *)
(* on the containers' Pod templates.                                       *)
(*                                                                         *)
(* A network's object and policy are named after the network, so a network *)
(* created again under a name competes with what its predecessor left      *)
(* behind. Requests that change membership hold the container's lock and   *)
(* containerNameMu; those that create or delete networks hold neither.     *)
(***************************************************************************)
EXTENDS TLAPS

CONSTANTS Calls, Containers,
          Names,     \* networks users create
          Builtin,   \* predefined networks; "none" and "host" have no policy
          Uids, NoUid, Ops

Networks == Names \cup Builtin

VARIABLES
    net,       \* net[n]: UID of the DockerNetwork named n, or NoUid
    policy,    \* policy[n]: UID that owns the NetworkPolicy of n, or NoUid
    deny,      \* the default-deny policy exists
    labels,    \* labels[c]: networks on c's template, or Absent, or Gone
    fresh,     \* UIDs not used yet
    lock,      \* lock[c]: call that holds lockContainer(c), or "free"
    nameMu,    \* call that holds containerNameMu, or "free"
    call,      \* call[i]: local state of a call
    attached   \* attached[i]: on call i's network ever since it listed them

cluster == <<net, policy, deny, labels, fresh, attached>>
locks == <<lock, nameMu>>
vars == <<net, policy, deny, labels, fresh, lock, nameMu, call, attached>>

\* A container that was removed does not come back: the next has another UID.
Absent == {"absent"}
Gone == {"gone"}
Exists(c) == labels[c] \notin {Absent, Gone}
Members(n) == {c \in Containers : n \in labels[c]}
HasPolicy(n) == n \notin {"none", "host"}

Init ==
    /\ net = [n \in Networks |-> NoUid]
    /\ policy = [n \in Networks |-> NoUid]
    /\ deny = FALSE
    /\ labels = [c \in Containers |-> Absent]
    /\ fresh = Uids
    /\ lock = [c \in Containers |-> "free"] /\ nameMu = "free"
    /\ call = [i \in Calls |-> [pc |-> "idle", op |-> "none", n |-> "none",
                                c |-> "none", b |-> "none", uid |-> NoUid,
                                has |-> FALSE, seen |-> {}, result |-> "none"]]
    /\ attached = [i \in Calls |-> {}]

-----------------------------------------------------------------------------
Goto(i, step) == call' = [call EXCEPT ![i].pc = step]

Return(i, res) ==
    /\ call' = [call EXCEPT ![i] = [@ EXCEPT !.pc = "done", !.result = res]]
    /\ lock' = [c \in Containers |-> IF lock[c] = i THEN "free" ELSE lock[c]]
    /\ nameMu' = IF nameMu = i THEN "free" ELSE nameMu

OnContainer(op) == op \in {"connect", "disconnect"}

\* Creating a container on built-in networks alone looks no network up.
FirstStep(op, n) ==
    CASE OnContainer(op) -> "lock"
      [] op = "run" -> "mutex"
      [] OTHER -> "list"

Call(i) ==
    /\ call[i].pc = "idle"
    /\ \E op \in Ops, n \in Networks, c \in Containers :
          /\ op = "create" => n \in Names
          /\ call' = [call EXCEPT ![i] = [@ EXCEPT !.pc = FirstStep(op, n), !.op = op,
                                                   !.n = n, !.c = c]]
    /\ UNCHANGED <<cluster, locks>>

\* lockContainer: the labels read are those of the locked container.
Lock(i) ==
    LET c == call[i].c
    IN /\ call[i].pc = "lock"
       /\ IF Exists(c)
          THEN /\ lock[c] = "free" /\ lock' = [lock EXCEPT ![c] = i]
               /\ call' = [call EXCEPT ![i] = [@ EXCEPT !.pc = "mutex",
                                                        !.has = call[i].n \in labels[c]]]
               /\ UNCHANGED nameMu
          ELSE Return(i, "notFound")
       /\ UNCHANGED cluster

TakeNameMu(i) ==
    /\ call[i].pc = "mutex" /\ nameMu = "free" /\ nameMu' = i
    /\ Goto(i, IF call[i].op = "run" /\ call[i].n \in Builtin
               THEN "isolate" ELSE "list")
    /\ UNCHANGED <<cluster, lock>>

-----------------------------------------------------------------------------
Create(n) ==
    /\ fresh # {}
    /\ LET u == CHOOSE u \in fresh : TRUE
       IN net' = [net EXCEPT ![n] = u] /\ fresh' = fresh \ {u}

\* A policy of that name that exists already is taken for this network's.
EnsureNetworkPolicy(n) ==
    policy' = [policy EXCEPT ![n] =
                 IF HasPolicy(n) /\ @ = NoUid THEN net[n] ELSE @]

\* networkList and ensureBuiltinNetworks, then the part of the call that
\* looks at the list.

List(i) ==
    /\ call[i].pc = "list"
    /\ call' = [call EXCEPT ![i] = [@ EXCEPT !.pc = "ensure",
                   !.seen = {n \in Networks : net[n] # NoUid},
                   !.uid = net[call[i].n]]]
    /\ attached' = [attached EXCEPT ![i] = Members(call[i].n)]
    /\ UNCHANGED <<net, policy, deny, labels, fresh, locks>>

EnsureBuiltin(i) ==
    /\ call[i].pc = "ensure"
    /\ \E n \in Builtin \ call[i].seen :
          IF net[n] = NoUid
          THEN /\ Create(n)
               /\ call' = [call EXCEPT ![i] = [@ EXCEPT !.pc = "builtinPolicy", !.b = n]]
               /\ UNCHANGED <<policy, deny, labels, attached>>
          ELSE Goto(i, "list") /\ UNCHANGED cluster
    /\ UNCHANGED locks

BuiltinPolicy(i) ==
    /\ call[i].pc = "builtinPolicy"
    /\ EnsureNetworkPolicy(call[i].b)
    /\ Goto(i, "list")
    /\ UNCHANGED <<net, deny, labels, fresh, locks, attached>>

AfterList(op, n, seen) ==
    CASE op = "create" -> IF n \in seen THEN "conflict" ELSE "make"
      [] n \notin seen -> "notFound"
      [] op = "delete" -> IF n \in Builtin THEN "forbidden" ELSE "inUse"
      [] op = "prune" -> IF n \in Builtin THEN "ok" ELSE "inUse"
      [] op = "run" -> "isolate"
      [] OTHER -> "label"

Listed(i) ==
    /\ call[i].pc = "ensure" /\ Builtin \subseteq call[i].seen
    /\ LET step == AfterList(call[i].op, call[i].n, call[i].seen)
       IN IF step \in {"conflict", "notFound", "forbidden", "ok"}
          THEN Return(i, step)
          ELSE Goto(i, step) /\ UNCHANGED locks
    /\ UNCHANGED cluster

-----------------------------------------------------------------------------
\* CreateNetwork: the object, the baseline, the network's own policy.

Make(i) ==
    /\ call[i].pc = "make"
    /\ IF net[call[i].n] = NoUid
       THEN /\ Create(call[i].n)
            /\ call' = [call EXCEPT ![i] = [@ EXCEPT !.pc = "isolate",
                                                     !.uid = net'[call[i].n]]]
            /\ UNCHANGED <<policy, deny, labels, locks, attached>>
       ELSE Return(i, "conflict") /\ UNCHANGED cluster

\* ensureNamespaceIsolation, for a network and for a container.
Isolate(i) ==
    /\ call[i].pc = "isolate"
    /\ deny' = TRUE
    /\ Goto(i, IF call[i].op = "run" THEN "run" ELSE "policy")
    /\ UNCHANGED <<net, policy, labels, fresh, locks, attached>>

\* The policy's owner is the object this call created, gone or not.
EnsurePolicy(i) ==
    LET n == call[i].n
    IN /\ call[i].pc = "policy"
       /\ policy' = [policy EXCEPT ![n] = IF @ = NoUid THEN call[i].uid ELSE @]
       /\ Return(i, "ok")
       /\ UNCHANGED <<net, deny, labels, fresh, attached>>

\* Owner references: the policy goes after its network has gone.
CollectPolicy(n) ==
    /\ policy[n] # NoUid /\ policy[n] # net[n]
    /\ policy' = [policy EXCEPT ![n] = NoUid]
    /\ UNCHANGED <<net, deny, labels, fresh, locks, call, attached>>

-----------------------------------------------------------------------------
\* DeleteNetwork and NetworkPrune: networkInUse, then Delete by UID.

InUse_Unchecked(i) ==
    /\ call[i].pc = "inUse"
    /\ Goto(i, "delete")
    /\ UNCHANGED <<cluster, locks>>

InUse(i) ==
    /\ call[i].pc = "inUse"
    /\ IF Members(call[i].n) # {}
       THEN Return(i, IF call[i].op = "prune" THEN "ok" ELSE "conflict")
       ELSE Goto(i, "delete") /\ UNCHANGED locks
    /\ UNCHANGED cluster

DeleteByUid(i) ==
    LET n == call[i].n
    IN /\ call[i].pc = "delete"
       /\ net' = [net EXCEPT ![n] = IF @ = call[i].uid THEN NoUid ELSE @]
       /\ Return(i, IF net[n] = call[i].uid THEN "ok" ELSE "notFound")
       /\ UNCHANGED <<policy, deny, labels, fresh, attached>>

-----------------------------------------------------------------------------
\* Membership: create and remove of a container, connect and disconnect.

SetLabels(c, value) ==
    /\ labels' = [labels EXCEPT ![c] = value]
    /\ attached' = [i \in Calls |->
          IF call[i].n \in value THEN attached[i] ELSE attached[i] \ {c}]

\* The name may be taken; a container that is created is a new one.
RunContainer(i) ==
    /\ call[i].pc = "run"
    /\ \/ Return(i, "conflict") /\ UNCHANGED <<labels, attached>>
       \/ Return(i, "ok") /\ \E c \in Containers :
             labels[c] = Absent /\ SetLabels(c, {call[i].n})
    /\ UNCHANGED <<net, policy, deny, fresh>>

\* updateNetworkLabels, unless the locked container needs no change.
Label(i) ==
    LET c == call[i].c
        n == call[i].n
        connect == call[i].op = "connect"
    IN /\ call[i].pc = "label"
       /\ IF connect = call[i].has \/ ~Exists(c)
          THEN /\ Return(i, IF connect /\ call[i].has THEN "ok" ELSE "notFound")
               /\ UNCHANGED <<labels, attached>>
          ELSE /\ SetLabels(c, IF connect THEN labels[c] \cup {n}
                               ELSE labels[c] \ {n})
               /\ Return(i, "ok")
       /\ UNCHANGED <<net, policy, deny, fresh>>

\* ContainerRm, and Kubernetes on its own.
RemoveContainer(c) ==
    /\ Exists(c)
    /\ SetLabels(c, Gone)
    /\ UNCHANGED <<net, policy, deny, fresh, locks, call>>

\* A cancelled request or a failing API call ends a call anywhere.
Fail(i) ==
    /\ call[i].pc \notin {"idle", "lock", "mutex", "done"}
    /\ Return(i, "error")
    /\ UNCHANGED cluster

-----------------------------------------------------------------------------
CallStep(i) ==
    \/ Lock(i) \/ TakeNameMu(i) \/ List(i) \/ EnsureBuiltin(i)
    \/ BuiltinPolicy(i) \/ Listed(i) \/ Make(i) \/ Isolate(i)
    \/ EnsurePolicy(i) \/ InUse(i) \/ DeleteByUid(i)
    \/ RunContainer(i) \/ Label(i)

Next ==
    \/ \E i \in Calls : Call(i) \/ CallStep(i) \/ Fail(i)
    \/ \E n \in Networks : CollectPolicy(n)
    \/ \E c \in Containers : RemoveContainer(c)

Spec == Init /\ [][Next]_vars

-----------------------------------------------------------------------------
\* What the records of the state may hold.
Pcs == {"idle", "lock", "mutex", "list", "ensure", "builtinPolicy", "label", "make",
        "isolate", "policy", "inUse", "delete", "run", "done"}
Results == {"none", "ok", "error", "conflict", "notFound", "forbidden"}
CallRecs == [pc : Pcs, op : Ops \cup {"none"}, n : Networks \cup {"none"},
             c : Containers \cup {"none"}, b : Networks \cup {"none"},
             uid : Uids \cup {NoUid}, has : BOOLEAN, seen : SUBSET Networks,
             result : Results]

\* The types of the variables.
TypeOK ==
    /\ net \in [Networks -> Uids \cup {NoUid}]
    /\ policy \in [Networks -> Uids \cup {NoUid}]
    /\ labels \in [Containers -> (SUBSET Networks) \cup {Absent, Gone}]
    /\ fresh \subseteq Uids
    /\ call \in [Calls -> CallRecs]
    /\ attached \in [Calls -> SUBSET Containers]
    /\ lock \in [Containers -> Calls \cup {"free"}]

\* "The baseline is what makes per-network allow policies isolating": no
\* container exists in a namespace without the default-deny policy.
IsolatedFirst == (\E c \in Containers : Exists(c)) => deny

\* DeleteNetwork and NetworkPrune never remove a network from under a
\* container that was attached before they looked and has not left since.
DeleteSparesEndpoints ==
    \A n \in Networks, i \in Calls :
       call[i].pc = "delete" /\ call[i].n = n
       /\ net[n] # NoUid /\ net'[n] = NoUid /\ call'[i].pc = "done"
       => attached[i] = {}

\* connect reads the labels under the container's lock and answers from what
\* it read: a container it reports connected is connected at that moment.
ConnectTakesHold ==
    \A i \in Calls :
       call[i].op = "connect" /\ call[i].pc = "label"
       /\ call'[i].result = "ok" /\ Exists(call[i].c)
       => call[i].n \in labels'[call[i].c]

-----------------------------------------------------------------------------
(* Proofs, for any number of calls, containers and networks. *)

\* What the proofs assume of the constants.
Sane ==
    /\ "free" \notin Calls /\ {"absent", "gone"} \cap Networks = {}
    /\ Ops \subseteq {"create", "delete", "prune", "run", "connect", "disconnect"}

\* A connect or disconnect has the lock of its container, and what it read of
\* the container's networks is so.
Holder(i) ==
    OnContainer(call[i].op)
    /\ call[i].pc \in {"mutex", "list", "ensure", "builtinPolicy", "label"} =>
       /\ lock[call[i].c] = i /\ labels[call[i].c] # Absent
       /\ Exists(call[i].c) => (call[i].has <=> call[i].n \in labels[call[i].c])

\* A call knows what it works on, and only then.
Asked(i) ==
    /\ IF call[i].pc = "idle" THEN attached[i] = {}
       ELSE call[i].op \in Ops /\ call[i].n \in Networks /\ call[i].c \in Containers
    /\ call[i].pc = "label" => OnContainer(call[i].op)
    /\ call[i].pc # "done" => call[i].result = "none"

\* What a deletion has found attached is, and in the end there is none.
Spares(i) ==
    /\ \A c \in attached[i] : call[i].n \in labels[c]
    /\ call[i].pc = "delete" => attached[i] = {}

CallInv(i) == Holder(i) /\ Asked(i) /\ Spares(i) /\ (call[i].pc = "run" => deny)

IInv == TypeOK /\ IsolatedFirst /\ \A i \in Calls : CallInv(i)

\* A step of one call, and of what it asks for nothing changes.
Moves(i) == call' \in [Calls -> CallRecs] /\ \A j \in Calls \ {i} : call'[j] = call[j]
Keeps(i) ==
    /\ call'[i].op = call[i].op /\ call'[i].n = call[i].n /\ call'[i].c = call[i].c
Goes(i, pc) == Moves(i) /\ Keeps(i) /\ call'[i].pc = pc /\ call'[i].result = call[i].result

LEMMA CallUpdate ==
  ASSUME TypeOK, NEW i \in Calls, NEW q \in CallRecs, call' = [call EXCEPT ![i] = q]
  PROVE  Moves(i) /\ call'[i] = q
BY Zenon DEF TypeOK, Moves

LEMMA GotoGoes ==
  ASSUME TypeOK, NEW i \in Calls, NEW pc \in Pcs, Goto(i, pc)
  PROVE  Goes(i, pc) /\ call'[i].has = call[i].has
<1> DEFINE q == [call[i] EXCEPT !.pc = pc]
<1>1. call[i] \in CallRecs
  BY Zenon DEF TypeOK
<1>2. /\ q \in CallRecs /\ q.pc = pc /\ q.op = call[i].op /\ q.n = call[i].n /\ q.c = call[i].c
      /\ q.has = call[i].has /\ q.result = call[i].result
  BY <1>1, Zenon DEF CallRecs
<1>3. call' = [call EXCEPT ![i] = q]
  BY Zenon DEF Goto
<1> HIDE DEF q
<1> QED
  BY <1>2, <1>3, CallUpdate, Zenon DEF Goes, Keeps

LEMMA ReturnGoes ==
  ASSUME Sane, TypeOK, NEW i \in Calls, NEW res \in Results, Return(i, res)
  PROVE  /\ Moves(i) /\ Keeps(i) /\ call'[i].pc = "done"
         /\ lock' \in [Containers -> Calls \cup {"free"}]
         /\ \A c \in Containers : lock[c] # i => lock'[c] = lock[c]
<1> DEFINE q == [call[i] EXCEPT !.pc = "done", !.result = res]
<1>1. call[i] \in CallRecs /\ "done" \in Pcs
  BY Zenon DEF TypeOK, Pcs
<1>2. q \in CallRecs /\ q.pc = "done" /\ q.op = call[i].op /\ q.n = call[i].n /\ q.c = call[i].c
  BY <1>1, Zenon DEF CallRecs
<1>3. call' = [call EXCEPT ![i] = q]
  BY Zenon DEF Return
<1> HIDE DEF q
<1>4. Moves(i) /\ Keeps(i) /\ call'[i].pc = "done"
  BY <1>2, <1>3, CallUpdate, Zenon DEF Keeps
<1> QED
  BY <1>4, Zenon DEF Return, TypeOK

LEMMA CallGoes ==
  ASSUME TypeOK, NEW i \in Calls, Call(i)
  PROVE  \E op \in Ops, n \in Networks, c \in Containers :
            /\ Moves(i) /\ call'[i].pc = FirstStep(op, n) /\ call'[i].result = call[i].result
            /\ call'[i].op = op /\ call'[i].n = n /\ call'[i].c = c
<1>1. PICK op \in Ops, n \in Networks, c \in Containers :
         call' = [call EXCEPT ![i] = [@ EXCEPT !.pc = FirstStep(op, n), !.op = op,
                                               !.n = n, !.c = c]]
  BY Zenon DEF Call
<1> DEFINE pc == FirstStep(op, n)
           q == [call[i] EXCEPT !.pc = pc, !.op = op, !.n = n, !.c = c]
<1>2. call[i] \in CallRecs /\ pc \in Pcs
  BY Zenon DEF TypeOK, FirstStep, Pcs
<1>3. call' = [call EXCEPT ![i] = q]
  BY <1>1, Zenon
<1> HIDE DEF pc
<1>4. /\ q \in CallRecs /\ q.pc = pc /\ q.op = op /\ q.n = n /\ q.c = c
      /\ q.result = call[i].result
  BY <1>2, Zenon DEF CallRecs
<1> HIDE DEF q
<1>5. /\ Moves(i) /\ call'[i].pc = pc /\ call'[i].result = call[i].result
      /\ call'[i].op = op /\ call'[i].n = n /\ call'[i].c = c
  BY <1>3, <1>4, CallUpdate, Zenon
<1> QED
  BY <1>5, Zenon DEF pc

LEMMA LockGoes ==
  ASSUME TypeOK, NEW i \in Calls, NEW b \in BOOLEAN,
         call' = [call EXCEPT ![i] = [@ EXCEPT !.pc = "mutex", !.has = b]]
  PROVE  Goes(i, "mutex") /\ call'[i].has = b
<1> DEFINE q == [call[i] EXCEPT !.pc = "mutex", !.has = b]
<1>1. call[i] \in CallRecs /\ "mutex" \in Pcs
  BY Zenon DEF TypeOK, Pcs
<1>2. /\ q \in CallRecs /\ q.pc = "mutex" /\ q.op = call[i].op /\ q.n = call[i].n
      /\ q.c = call[i].c /\ q.has = b /\ q.result = call[i].result
  BY <1>1, Zenon DEF CallRecs
<1> HIDE DEF q
<1> QED
  BY <1>2, CallUpdate, Zenon DEF q, Goes, Keeps

LEMMA ListGoes ==
  ASSUME TypeOK, NEW i \in Calls, call[i].n \in Networks, List(i)
  PROVE  Goes(i, "ensure") /\ call'[i].has = call[i].has
<1> DEFINE seen == {n \in Networks : net[n] # NoUid}
           uid == net[call[i].n]
           q == [call[i] EXCEPT !.pc = "ensure", !.seen = seen, !.uid = uid]
<1>1. /\ call[i] \in CallRecs /\ "ensure" \in Pcs /\ seen \in SUBSET Networks
      /\ uid \in Uids \cup {NoUid}
  BY Zenon DEF TypeOK, Pcs
<1>2. call' = [call EXCEPT ![i] = q]
  BY Zenon DEF List
<1> HIDE DEF seen, uid
<1>3. /\ q \in CallRecs /\ q.pc = "ensure" /\ q.op = call[i].op /\ q.n = call[i].n
      /\ q.c = call[i].c /\ q.has = call[i].has /\ q.result = call[i].result
  BY <1>1, Zenon DEF CallRecs
<1> HIDE DEF q
<1> QED
  BY <1>2, <1>3, CallUpdate, Zenon DEF Goes, Keeps

LEMMA BuiltinGoes ==
  ASSUME TypeOK, NEW i \in Calls, NEW n \in Networks,
         call' = [call EXCEPT ![i] = [@ EXCEPT !.pc = "builtinPolicy", !.b = n]]
  PROVE  Goes(i, "builtinPolicy") /\ call'[i].has = call[i].has
<1> DEFINE q == [call[i] EXCEPT !.pc = "builtinPolicy", !.b = n]
<1>1. call[i] \in CallRecs /\ "builtinPolicy" \in Pcs
  BY Zenon DEF TypeOK, Pcs
<1>2. /\ q \in CallRecs /\ q.pc = "builtinPolicy" /\ q.op = call[i].op /\ q.n = call[i].n
      /\ q.c = call[i].c /\ q.has = call[i].has /\ q.result = call[i].result
  BY <1>1, Zenon DEF CallRecs
<1> HIDE DEF q
<1> QED
  BY <1>2, CallUpdate, Zenon DEF q, Goes, Keeps

LEMMA MakeGoes ==
  ASSUME TypeOK, NEW i \in Calls, NEW u \in Uids \cup {NoUid},
         call' = [call EXCEPT ![i] = [@ EXCEPT !.pc = "isolate", !.uid = u]]
  PROVE  Goes(i, "isolate")
<1> DEFINE q == [call[i] EXCEPT !.pc = "isolate", !.uid = u]
<1>1. call[i] \in CallRecs /\ "isolate" \in Pcs
  BY Zenon DEF TypeOK, Pcs
<1>2. /\ q \in CallRecs /\ q.pc = "isolate" /\ q.op = call[i].op /\ q.n = call[i].n
      /\ q.c = call[i].c /\ q.result = call[i].result
  BY <1>1, Zenon DEF CallRecs
<1> HIDE DEF q
<1> QED
  BY <1>2, CallUpdate, Zenon DEF q, Goes, Keeps

LEMMA CreateTypes ==
  ASSUME TypeOK, NEW n \in Networks, Create(n)
  PROVE  net' \in [Networks -> Uids \cup {NoUid}] /\ fresh' \subseteq Uids
BY Zenon DEF TypeOK, Create

\* A change of a container's networks.
LEMMA SetLabelsDoes ==
  ASSUME TypeOK, NEW c \in Containers, NEW value \in (SUBSET Networks) \cup {Absent, Gone},
         SetLabels(c, value)
  PROVE  /\ labels' \in [Containers -> (SUBSET Networks) \cup {Absent, Gone}]
         /\ attached' \in [Calls -> SUBSET Containers]
         /\ labels'[c] = value /\ \A d \in Containers \ {c} : labels'[d] = labels[d]
         /\ \A i \in Calls :
               attached'[i] = (IF call[i].n \in value THEN attached[i] ELSE attached[i] \ {c})
BY Zenon DEF TypeOK, SetLabels

LEMMA TypeStep ==
  ASSUME Sane, IInv, [Next]_vars
  PROVE  TypeOK'
<1>t. TypeOK
  BY Zenon DEF IInv
<1>0. ASSUME NEW i \in Calls, call[i].pc # "idle"
      PROVE  call[i].n \in Networks /\ call[i].c \in Containers
  BY <1>0, Zenon DEF IInv, CallInv, Asked
<1>1. ASSUME NEW i \in Calls, Call(i) PROVE TypeOK'
  <2>2. call' \in [Calls -> CallRecs]
    BY <1>1, <1>t, CallGoes, Zenon DEF Moves
  <2> QED
    BY <1>1, <1>t, <2>2, Zenon DEF Call, TypeOK, cluster, locks
<1>2. ASSUME NEW i \in Calls, NEW res \in Results, Return(i, res), UNCHANGED cluster PROVE TypeOK'
  <2>1. call' \in [Calls -> CallRecs] /\ lock' \in [Containers -> Calls \cup {"free"}]
    BY <1>2, <1>t, ReturnGoes, Zenon DEF Moves
  <2> QED
    BY <1>2, <1>t, <2>1, Zenon DEF TypeOK, cluster
<1>3. ASSUME NEW i \in Calls, NEW pc \in Pcs, Goto(i, pc), UNCHANGED <<cluster, lock>> PROVE TypeOK'
  <2>1. call' \in [Calls -> CallRecs]
    BY <1>3, <1>t, GotoGoes, Zenon DEF Goes, Moves
  <2> QED
    BY <1>3, <1>t, <2>1, Zenon DEF TypeOK, cluster
<1>4. ASSUME NEW i \in Calls, Lock(i) PROVE TypeOK'
  <2>1. CASE Exists(call[i].c)
    <3>1. /\ lock' = [lock EXCEPT ![call[i].c] = i] /\ UNCHANGED cluster
          /\ call' = [call EXCEPT ![i] = [@ EXCEPT !.pc = "mutex",
                                                   !.has = call[i].n \in labels[call[i].c]]]
      BY <1>4, <2>1, Zenon DEF Lock
    <3>2. (call[i].n \in labels[call[i].c]) \in BOOLEAN
      BY SMT
    <3>3. call' \in [Calls -> CallRecs]
      BY <1>t, <3>1, <3>2, LockGoes, Zenon DEF Goes, Moves
    <3> QED
      BY <1>t, <3>1, <3>3, Zenon DEF TypeOK, cluster
  <2>2. CASE ~Exists(call[i].c)
    BY <1>2, <1>4, <2>2, Zenon DEF Lock, Results
  <2> QED
    BY <2>1, <2>2, Zenon
<1>5. ASSUME NEW i \in Calls, TakeNameMu(i) \/ Listed(i) \/ InUse(i) \/ Fail(i) PROVE TypeOK'
  BY <1>2, <1>3, <1>5, SMT DEF TakeNameMu, Listed, AfterList, InUse, Fail, Pcs, Results, locks
<1>6. ASSUME NEW i \in Calls, List(i) PROVE TypeOK'
  <2>1. call' \in [Calls -> CallRecs]
    BY <1>0, <1>6, <1>t, ListGoes, Zenon DEF List, Goes, Moves
  <2>2. attached' \in [Calls -> SUBSET Containers]
    BY <1>6, <1>t, Zenon DEF List, Members, TypeOK
  <2> QED
    BY <1>6, <1>t, <2>1, <2>2, Zenon DEF List, TypeOK, locks
<1>7. ASSUME NEW i \in Calls, EnsureBuiltin(i) PROVE TypeOK'
  <2>1. PICK n \in Builtin :
           \/ /\ Create(n) /\ UNCHANGED <<policy, deny, labels, attached>>
              /\ call' = [call EXCEPT ![i] = [@ EXCEPT !.pc = "builtinPolicy", !.b = n]]
           \/ Goto(i, "list") /\ UNCHANGED cluster
    BY <1>7, Zenon DEF EnsureBuiltin
  <2>2. n \in Networks /\ lock' = lock
    BY <1>7, Zenon DEF Networks, EnsureBuiltin, locks
  <2>3. CASE Goto(i, "list") /\ UNCHANGED cluster
    BY <1>3, <2>2, <2>3, Zenon DEF Pcs
  <2>4. CASE /\ Create(n) /\ UNCHANGED <<policy, deny, labels, attached>>
             /\ call' = [call EXCEPT ![i] = [@ EXCEPT !.pc = "builtinPolicy", !.b = n]]
    <3>1. call' \in [Calls -> CallRecs]
      BY <1>t, <2>2, <2>4, BuiltinGoes, Zenon DEF Goes, Moves
    <3>2. net' \in [Networks -> Uids \cup {NoUid}] /\ fresh' \subseteq Uids
      BY <1>t, <2>2, <2>4, CreateTypes, Zenon
    <3> QED
      BY <1>t, <2>2, <2>4, <3>1, <3>2, Zenon DEF TypeOK
  <2> QED
    BY <2>1, <2>3, <2>4, Zenon
<1>8. ASSUME NEW i \in Calls, BuiltinPolicy(i) \/ Isolate(i) PROVE TypeOK'
  <2>1. call' \in [Calls -> CallRecs]
    BY <1>8, <1>t, GotoGoes, Zenon DEF BuiltinPolicy, Isolate, Goes, Moves, Pcs
  <2>2. policy' \in [Networks -> Uids \cup {NoUid}]
    BY <1>8, <1>t, Zenon DEF BuiltinPolicy, Isolate, EnsureNetworkPolicy, TypeOK
  <2> QED
    BY <1>8, <1>t, <2>1, <2>2, Zenon DEF BuiltinPolicy, Isolate, TypeOK, locks
<1>9. ASSUME NEW i \in Calls, Make(i) PROVE TypeOK'
  <2>1. CASE net[call[i].n] = NoUid
    <3>1. /\ Create(call[i].n) /\ UNCHANGED <<policy, deny, labels, lock, attached>>
          /\ call' = [call EXCEPT ![i] = [@ EXCEPT !.pc = "isolate", !.uid = net'[call[i].n]]]
      BY <1>9, <2>1, Zenon DEF Make, locks
    <3>2. net' \in [Networks -> Uids \cup {NoUid}] /\ fresh' \subseteq Uids
      BY <1>0, <1>9, <1>t, <3>1, CreateTypes, Zenon DEF Make
    <3>3. net'[call[i].n] \in Uids \cup {NoUid}
      BY <1>0, <1>9, <3>2, Zenon DEF Make
    <3>4. call' \in [Calls -> CallRecs]
      BY <1>t, <3>1, <3>3, MakeGoes, Zenon DEF Goes, Moves
    <3> QED
      BY <1>t, <3>1, <3>2, <3>4, Zenon DEF TypeOK
  <2>2. CASE net[call[i].n] # NoUid
    BY <1>2, <1>9, <2>2, Zenon DEF Make, Results
  <2> QED
    BY <2>1, <2>2, Zenon
<1>10. ASSUME NEW i \in Calls, EnsurePolicy(i) \/ DeleteByUid(i) PROVE TypeOK'
  <2>1. call' \in [Calls -> CallRecs] /\ lock' \in [Containers -> Calls \cup {"free"}]
    BY <1>10, <1>t, ReturnGoes, Zenon DEF EnsurePolicy, DeleteByUid, Moves, Results
  <2>2. call[i].uid \in Uids \cup {NoUid}
    BY <1>t, Zenon DEF TypeOK, CallRecs
  <2>3. policy' \in [Networks -> Uids \cup {NoUid}] /\ net' \in [Networks -> Uids \cup {NoUid}]
    BY <1>10, <1>t, <2>2, Zenon DEF EnsurePolicy, DeleteByUid, TypeOK
  <2> QED
    BY <1>10, <1>t, <2>1, <2>3, Zenon DEF EnsurePolicy, DeleteByUid, TypeOK
<1>11. ASSUME NEW i \in Calls, NEW c \in Containers, NEW res \in Results, Return(i, res),
              NEW value \in (SUBSET Networks) \cup {Absent, Gone}, SetLabels(c, value),
              UNCHANGED <<net, policy, deny, fresh>>
       PROVE  TypeOK'
  <2>1. call' \in [Calls -> CallRecs] /\ lock' \in [Containers -> Calls \cup {"free"}]
    BY <1>11, <1>t, ReturnGoes, Zenon DEF Moves
  <2> QED
    BY <1>11, <1>t, <2>1, SetLabelsDoes, Zenon DEF TypeOK
<1>12. ASSUME NEW i \in Calls, RunContainer(i) \/ Label(i) PROVE TypeOK'
  <2>1. ASSUME NEW res \in Results, Return(i, res), UNCHANGED <<labels, attached>>,
               UNCHANGED <<net, policy, deny, fresh>>
        PROVE  TypeOK'
    BY <1>2, <2>1, Zenon DEF cluster
  <2>2. CASE RunContainer(i)
    <3>1. {call[i].n} \in SUBSET Networks
      BY <1>0, <2>2, Zenon DEF RunContainer
    <3> QED
      BY <1>11, <2>1, <2>2, <3>1, Zenon DEF RunContainer, Results
  <2>3. CASE Label(i)
    <3>1. call[i].c \in Containers /\ call[i].n \in Networks
      BY <1>0, <2>3, Zenon DEF Label
    <3>2. Exists(call[i].c) => /\ labels[call[i].c] \cup {call[i].n} \in SUBSET Networks
                               /\ labels[call[i].c] \ {call[i].n} \in SUBSET Networks
      <4>1. labels[call[i].c] \in (SUBSET Networks) \cup {Absent, Gone}
        BY <1>t, <3>1, Zenon DEF TypeOK
      <4> QED
        BY <3>1, <4>1, Zenon DEF Exists
    <3> QED
      BY <1>11, <2>1, <2>3, <3>1, <3>2, Zenon DEF Label, Results
  <2> QED
    BY <1>12, <2>2, <2>3, Zenon
<1>13. ASSUME NEW n \in Networks, CollectPolicy(n) PROVE TypeOK'
  BY <1>13, <1>t, Zenon DEF CollectPolicy, TypeOK, locks
<1>14. ASSUME NEW c \in Containers, RemoveContainer(c) PROVE TypeOK'
  BY <1>14, <1>t, SetLabelsDoes, Zenon DEF RemoveContainer, TypeOK, locks
<1>15. CASE UNCHANGED vars
  BY <1>15, <1>t, Zenon DEF vars, TypeOK
<1> QED
  BY <1>1, <1>4, <1>5, <1>6, <1>7, <1>8, <1>9, <1>10, <1>12, <1>13, <1>14, <1>15, Zenon DEF
     Next, CallStep

\* A call that another step leaves alone keeps what it relies on.
LEMMA Bystander ==
  ASSUME Sane, IInv, NEW j \in Calls, call'[j] = call[j], deny => deny',
         \A c \in Containers : lock[c] = j => lock'[c] = j,
         attached'[j] \subseteq attached[j],
         \A c \in attached'[j] : call[j].n \in labels'[c],
         \A c \in Containers : \/ labels'[c] = labels[c] \/ labels[c] = Absent
                               \/ labels'[c] = Gone \/ lock[c] # j
  PROVE  CallInv(j)'
<1>1. Holder(j) /\ Asked(j) /\ Spares(j) /\ (call[j].pc = "run" => deny)
  BY Zenon DEF IInv, CallInv
<1>2. Asked(j)' /\ Spares(j)' /\ (call[j].pc = "run" => deny)'
  BY <1>1, Zenon DEF Asked, Spares
<1>3. Holder(j)'
  <2> SUFFICES ASSUME OnContainer(call[j].op),
                      call[j].pc \in {"mutex", "list", "ensure", "builtinPolicy", "label"}
               PROVE  Holder(j)'
    BY Zenon DEF Holder
  <2>1. /\ call[j].c \in Containers /\ lock[call[j].c] = j /\ labels[call[j].c] # Absent
        /\ Exists(call[j].c) => (call[j].has <=> call[j].n \in labels[call[j].c])
    BY <1>1, Zenon DEF Holder, Asked
  <2>2. CASE labels'[call[j].c] = labels[call[j].c]
    BY <2>1, <2>2, Zenon DEF Holder, Exists
  <2>3. CASE labels'[call[j].c] = Gone
    BY <2>1, <2>3, Zenon DEF Holder, Exists, Gone, Absent
  <2> QED
    BY <2>1, <2>2, <2>3, Zenon
<1> QED
  BY <1>2, <1>3, Zenon DEF CallInv

\* A step of call i that changes no container: others keep what they rely on.
LEMMA QuietStep ==
  ASSUME Sane, IInv, NEW i \in Calls, Moves(i), deny => deny', UNCHANGED labels,
         \A j \in Calls \ {i} : attached'[j] = attached[j],
         \A c \in Containers : lock[c] \in Calls \ {i} => lock'[c] = lock[c],
         CallInv(i)'
  PROVE  IsolatedFirst' /\ \A j \in Calls : CallInv(j)'
<1>1. IsolatedFirst'
  BY Zenon DEF IInv, IsolatedFirst, Exists
<1>2. ASSUME NEW j \in Calls \ {i} PROVE CallInv(j)'
  <2>1. call'[j] = call[j] /\ \A c \in attached[j] : call[j].n \in labels[c]
    BY Zenon DEF Moves, IInv, CallInv, Spares
  <2> QED
    BY <2>1, Bystander, Zenon
<1> QED
  BY <1>1, <1>2, Zenon

\* A call that returns, or goes on without new claims.
LEMMA ReturnedInv ==
  ASSUME IInv, NEW i \in Calls, call[i].pc # "idle", Keeps(i), call'[i].pc = "done",
         \A c \in attached'[i] : call[i].n \in labels'[c]
  PROVE  CallInv(i)'
BY Zenon DEF IInv, CallInv, Keeps, Holder, Asked, Spares

LEMMA GoesInv ==
  ASSUME IInv, NEW i \in Calls, NEW pc, Goes(i, pc), pc \in Pcs \ {"idle", "done", "delete"},
         call[i].pc \notin {"idle", "done"}, UNCHANGED <<labels, attached>>,
         pc = "run" => deny', pc = "label" => OnContainer(call[i].op),
         OnContainer(call[i].op) /\ pc \in {"mutex", "list", "ensure", "builtinPolicy", "label"} =>
            /\ call[i].pc \in {"mutex", "list", "ensure", "builtinPolicy", "label"}
            /\ lock' = lock /\ call'[i].has = call[i].has
  PROVE  CallInv(i)'
<1>1. Holder(i) /\ Asked(i) /\ Spares(i)
  BY Zenon DEF IInv, CallInv
<1>2. Asked(i)' /\ Spares(i)' /\ (call[i].pc = "run" => deny)'
  BY <1>1, Zenon DEF Asked, Spares, Goes, Keeps
<1>3. Holder(i)'
  BY <1>1, Zenon DEF Holder, Goes, Keeps, Exists
<1> QED
  BY <1>2, <1>3, Zenon DEF CallInv

LEMMA InvStep ==
  ASSUME Sane, IInv, [Next]_vars
  PROVE  IsolatedFirst' /\ \A j \in Calls : CallInv(j)'
<1>t. TypeOK /\ IsolatedFirst /\ \A i \in Calls : CallInv(i)
  BY Zenon DEF IInv
<1>1. ASSUME NEW i \in Calls, NEW res \in Results, Return(i, res), call[i].pc # "idle",
             deny => deny', UNCHANGED <<labels, attached>>
      PROVE  IsolatedFirst' /\ \A j \in Calls : CallInv(j)'
  <2>1. /\ Moves(i) /\ Keeps(i) /\ call'[i].pc = "done"
        /\ \A c \in Containers : lock[c] # i => lock'[c] = lock[c]
    BY <1>1, <1>t, ReturnGoes, Zenon
  <2>2. CallInv(i)'
    BY <1>1, <1>t, <2>1, ReturnedInv, Zenon DEF CallInv, Spares
  <2> QED
    BY <1>1, <2>1, <2>2, QuietStep, Zenon
<1>2. ASSUME NEW i \in Calls, NEW pc \in Pcs \ {"idle", "done", "delete"}, Goes(i, pc),
             call[i].pc \notin {"idle", "lock", "done"},
             deny => deny', UNCHANGED <<labels, attached, lock>>,
             pc = "run" => deny', pc = "label" => OnContainer(call[i].op),
             pc \in {"mutex", "list", "ensure", "builtinPolicy", "label"} =>
                /\ call[i].pc \in {"mutex", "list", "ensure", "builtinPolicy", "label"}
                /\ call'[i].has = call[i].has
      PROVE  IsolatedFirst' /\ \A j \in Calls : CallInv(j)'
  <2>1. CallInv(i)'
    BY <1>2, GoesInv, Zenon
  <2> QED
    BY <1>2, <2>1, QuietStep, Zenon DEF Goes
<1>3. ASSUME NEW i \in Calls, Call(i)
      PROVE  IsolatedFirst' /\ \A j \in Calls : CallInv(j)'
  <2>2. PICK op \in Ops, n \in Networks, c \in Containers :
           /\ Moves(i) /\ call'[i].pc = FirstStep(op, n) /\ call'[i].result = call[i].result
           /\ call'[i].op = op /\ call'[i].n = n /\ call'[i].c = c
    BY <1>3, <1>t, CallGoes, Zenon
  <2>3. /\ call[i].pc = "idle" /\ UNCHANGED <<labels, attached, lock, deny>>
        /\ attached[i] = {} /\ call[i].result = "none"
    BY <1>3, <1>t, Zenon DEF Call, cluster, locks, CallInv, Asked
  <2>4. /\ FirstStep(op, n) \in {"lock", "mutex", "list"}
        /\ OnContainer(op) => FirstStep(op, n) = "lock"
    BY Zenon DEF FirstStep, OnContainer
  <2>5. CallInv(i)'
    BY <2>2, <2>3, <2>4, Zenon DEF CallInv, Holder, Asked, Spares
  <2> QED
    BY <2>2, <2>3, <2>5, QuietStep, Zenon
<1>4. ASSUME NEW i \in Calls, Lock(i)
      PROVE  IsolatedFirst' /\ \A j \in Calls : CallInv(j)'
  <2>1. call[i].pc = "lock" /\ call[i].c \in Containers /\ UNCHANGED <<labels, attached, deny>>
    BY <1>4, <1>t, Zenon DEF Lock, cluster, CallInv, Asked
  <2>2. CASE ~Exists(call[i].c)
    BY <1>1, <1>4, <2>1, <2>2, Zenon DEF Lock, Results
  <2>3. CASE Exists(call[i].c)
    <3>1. /\ lock[call[i].c] = "free" /\ lock' = [lock EXCEPT ![call[i].c] = i]
          /\ call' = [call EXCEPT ![i] = [@ EXCEPT !.pc = "mutex",
                                                   !.has = call[i].n \in labels[call[i].c]]]
      BY <1>4, <2>3, Zenon DEF Lock
    <3>2. (call[i].n \in labels[call[i].c]) \in BOOLEAN
      BY SMT
    <3>3. Goes(i, "mutex") /\ call'[i].has = (call[i].n \in labels[call[i].c])
      BY <1>t, <3>1, <3>2, LockGoes, Zenon
    <3>4. /\ lock'[call[i].c] = i
          /\ \A c \in Containers : lock[c] \in Calls \ {i} => lock'[c] = lock[c]
      BY <1>t, <2>1, <3>1, Zenon DEF TypeOK, Sane
    <3>5. Asked(i)' /\ Spares(i)'
      BY <1>t, <2>1, <3>3, Zenon DEF CallInv, Asked, Spares, Goes, Keeps
    <3>6. Holder(i)'
      BY <2>1, <2>3, <3>3, <3>4, Zenon DEF Holder, Exists, Goes, Keeps
    <3>7. CallInv(i)'
      BY <3>3, <3>5, <3>6, Zenon DEF CallInv, Goes
    <3> QED
      BY <2>1, <3>3, <3>4, <3>7, QuietStep, Zenon DEF Goes
  <2> QED
    BY <2>2, <2>3, Zenon
<1>5. ASSUME NEW i \in Calls, List(i)
      PROVE  IsolatedFirst' /\ \A j \in Calls : CallInv(j)'
  <2>1. /\ call[i].pc = "list" /\ UNCHANGED <<labels, deny, lock>>
        /\ attached' = [attached EXCEPT ![i] = Members(call[i].n)]
    BY <1>5, Zenon DEF List, locks
  <2>2. Goes(i, "ensure") /\ call'[i].has = call[i].has
    BY <1>5, <1>t, <2>1, ListGoes, Zenon DEF CallInv, Asked
  <2>3. attached'[i] = Members(call[i].n) /\ \A j \in Calls \ {i} : attached'[j] = attached[j]
    BY <1>t, <2>1, Zenon DEF TypeOK
  <2>4. Asked(i)' /\ Spares(i)'
    BY <1>t, <2>1, <2>2, <2>3, Zenon DEF CallInv, Asked, Spares, Goes, Keeps, Members
  <2>5. Holder(i)'
    BY <1>t, <2>1, <2>2, Zenon DEF CallInv, Holder, Exists, Goes, Keeps
  <2>6. CallInv(i)'
    BY <2>2, <2>4, <2>5, Zenon DEF CallInv, Goes
  <2> QED
    BY <2>1, <2>2, <2>3, <2>6, QuietStep, Zenon DEF Goes
<1>6. ASSUME NEW i \in Calls, TakeNameMu(i) \/ BuiltinPolicy(i)
      PROVE  IsolatedFirst' /\ \A j \in Calls : CallInv(j)'
  <2>1. PICK pc \in {"list", "isolate"} : Goto(i, pc)
    BY <1>6, Zenon DEF TakeNameMu, BuiltinPolicy
  <2>2. Goes(i, pc) /\ call'[i].has = call[i].has
    BY <1>t, <2>1, GotoGoes, Zenon DEF Pcs
  <2>3. /\ call[i].pc \in {"mutex", "builtinPolicy"} /\ UNCHANGED <<labels, attached, lock, deny>>
    BY <1>6, Zenon DEF TakeNameMu, BuiltinPolicy, cluster, locks
  <2> QED
    BY <1>2, <2>2, <2>3, Zenon DEF Pcs
<1>7. ASSUME NEW i \in Calls, EnsureBuiltin(i)
      PROVE  IsolatedFirst' /\ \A j \in Calls : CallInv(j)'
  <2>1. PICK n \in Builtin :
           \/ call' = [call EXCEPT ![i] = [@ EXCEPT !.pc = "builtinPolicy", !.b = n]]
           \/ Goto(i, "list")
    BY <1>7, Zenon DEF EnsureBuiltin
  <2>2. /\ n \in Networks /\ call[i].pc = "ensure" /\ UNCHANGED <<labels, attached, lock, deny>>
    BY <1>7, Zenon DEF Networks, EnsureBuiltin, locks, cluster
  <2>3. PICK pc \in {"builtinPolicy", "list"} : Goes(i, pc) /\ call'[i].has = call[i].has
    BY <1>t, <2>1, <2>2, BuiltinGoes, GotoGoes, Zenon DEF Pcs
  <2> QED
    BY <1>2, <2>2, <2>3, Zenon DEF Pcs
<1>8. ASSUME NEW i \in Calls, Listed(i)
      PROVE  IsolatedFirst' /\ \A j \in Calls : CallInv(j)'
  <2>1. call[i].pc = "ensure" /\ UNCHANGED <<labels, attached, deny>> /\ call[i].op \in Ops
    BY <1>8, <1>t, Zenon DEF Listed, cluster, CallInv, Asked
  <2> DEFINE step == AfterList(call[i].op, call[i].n, call[i].seen)
  <2>2. /\ step \in {"conflict", "notFound", "forbidden", "ok", "make", "inUse", "isolate", "label"}
        /\ step = "label" => OnContainer(call[i].op)
    BY <2>1, Zenon DEF AfterList, OnContainer, Sane
  <2>3. \/ step \in {"conflict", "notFound", "forbidden", "ok"} /\ Return(i, step)
        \/ /\ step \notin {"conflict", "notFound", "forbidden", "ok"}
           /\ Goto(i, step) /\ lock' = lock
    BY <1>8, Zenon DEF Listed, locks
  <2> HIDE DEF step
  <2>4. CASE step \in {"conflict", "notFound", "forbidden", "ok"} /\ Return(i, step)
    BY <1>1, <2>1, <2>4, Zenon DEF Results
  <2>5. CASE step \in {"make", "inUse", "isolate", "label"} /\ Goto(i, step) /\ lock' = lock
    <3>1. Goes(i, step) /\ call'[i].has = call[i].has
      BY <1>t, <2>5, GotoGoes, Zenon DEF Pcs
    <3> QED
      BY <1>2, <2>1, <2>2, <2>5, <3>1, Zenon DEF Pcs
  <2> QED
    BY <2>2, <2>3, <2>4, <2>5, Zenon
<1>9. ASSUME NEW i \in Calls, Make(i)
      PROVE  IsolatedFirst' /\ \A j \in Calls : CallInv(j)'
  <2>1. /\ call[i].pc = "make" /\ UNCHANGED <<labels, attached, deny>> /\ call[i].n \in Networks
    BY <1>9, <1>t, Zenon DEF Make, cluster, CallInv, Asked
  <2>2. CASE net[call[i].n] = NoUid
    <3>1. /\ Create(call[i].n) /\ lock' = lock
          /\ call' = [call EXCEPT ![i] = [@ EXCEPT !.pc = "isolate", !.uid = net'[call[i].n]]]
      BY <1>9, <2>2, Zenon DEF Make, locks
    <3>2. net' \in [Networks -> Uids \cup {NoUid}]
      BY <1>t, <2>1, <3>1, CreateTypes, Zenon
    <3>3. net'[call[i].n] \in Uids \cup {NoUid}
      BY <2>1, <3>2, Zenon
    <3>4. Goes(i, "isolate")
      BY <1>t, <3>1, <3>3, MakeGoes, Zenon
    <3> QED
      BY <1>2, <2>1, <3>1, <3>4, Zenon DEF Pcs
  <2>3. CASE net[call[i].n] # NoUid
    BY <1>1, <1>9, <2>1, <2>3, Zenon DEF Make, Results
  <2> QED
    BY <2>2, <2>3, Zenon
<1>10. ASSUME NEW i \in Calls, Isolate(i)
       PROVE  IsolatedFirst' /\ \A j \in Calls : CallInv(j)'
  <2>1. PICK pc \in {"run", "policy"} : Goto(i, pc)
    BY <1>10, Zenon DEF Isolate
  <2>2. Goes(i, pc)
    BY <1>t, <2>1, GotoGoes, Zenon DEF Pcs
  <2>3. call[i].pc = "isolate" /\ deny' /\ UNCHANGED <<labels, attached, lock>>
    BY <1>10, Zenon DEF Isolate, locks
  <2> QED
    BY <1>2, <2>2, <2>3, Zenon DEF Pcs
<1>11. ASSUME NEW i \in Calls, EnsurePolicy(i) \/ DeleteByUid(i) \/ Fail(i)
       PROVE  IsolatedFirst' /\ \A j \in Calls : CallInv(j)'
  BY <1>1, <1>11, SMT DEF EnsurePolicy, DeleteByUid, Fail, Results, cluster
<1>12. ASSUME NEW i \in Calls, InUse(i)
       PROVE  IsolatedFirst' /\ \A j \in Calls : CallInv(j)'
  <2>1. call[i].pc = "inUse" /\ UNCHANGED <<labels, attached, deny>>
    BY <1>12, Zenon DEF InUse, cluster
  <2>2. CASE Members(call[i].n) # {}
    BY <1>1, <1>12, <2>1, <2>2, Zenon DEF InUse, Results
  <2>3. CASE Members(call[i].n) = {}
    <3>1. Goto(i, "delete") /\ lock' = lock
      BY <1>12, <2>3, Zenon DEF InUse, locks
    <3>2. Goes(i, "delete")
      BY <1>t, <3>1, GotoGoes, Zenon DEF Pcs
    <3>3. attached[i] = {}
      BY <1>t, <2>3, Zenon DEF CallInv, Spares, Members, TypeOK
    <3>4. CallInv(i)'
      BY <1>t, <2>1, <3>2, <3>3, Zenon DEF CallInv, Holder, Asked, Spares, Goes, Keeps
    <3> QED
      BY <2>1, <3>1, <3>2, <3>4, QuietStep, Zenon DEF Goes
  <2> QED
    BY <2>2, <2>3, Zenon
<1>13. ASSUME NEW c \in Containers, NEW value \in (SUBSET Networks) \cup {Gone},
              SetLabels(c, value), deny' = deny, value # Gone => deny,
              NEW j \in Calls, call'[j] = call[j],
              \A d \in Containers : lock[d] = j => lock'[d] = j,
              value = Gone \/ labels[c] = Absent \/ lock[c] # j
       PROVE  CallInv(j)'
  <2>1. /\ labels'[c] = value /\ \A d \in Containers \ {c} : labels'[d] = labels[d]
        /\ attached'[j] = (IF call[j].n \in value THEN attached[j] ELSE attached[j] \ {c})
    BY <1>13, <1>t, SetLabelsDoes, Zenon
  <2>2. attached[j] \subseteq Containers /\ \A d \in attached[j] : call[j].n \in labels[d]
    BY <1>t, Zenon DEF TypeOK, CallInv, Spares
  <2>3. attached'[j] \subseteq attached[j] /\ \A d \in attached'[j] : call[j].n \in labels'[d]
    BY <2>1, <2>2, Zenon
  <2> QED
    BY <1>13, <2>1, <2>3, Bystander, Zenon
<1>14. ASSUME NEW i \in Calls, NEW res \in Results, Return(i, res), call[i].pc # "idle",
              NEW c \in Containers, NEW value \in SUBSET Networks, SetLabels(c, value),
              deny, deny', labels[c] = Absent \/ lock[c] = i
       PROVE  IsolatedFirst' /\ \A j \in Calls : CallInv(j)'
  <2>1. /\ Moves(i) /\ Keeps(i) /\ call'[i].pc = "done"
        /\ \A d \in Containers : lock[d] # i => lock'[d] = lock[d]
    BY <1>14, <1>t, ReturnGoes, Zenon
  <2>2. /\ labels'[c] = value /\ \A d \in Containers \ {c} : labels'[d] = labels[d]
        /\ attached'[i] = (IF call[i].n \in value THEN attached[i] ELSE attached[i] \ {c})
    BY <1>14, <1>t, SetLabelsDoes, Zenon
  <2>3. attached[i] \subseteq Containers /\ \A d \in attached[i] : call[i].n \in labels[d]
    BY <1>t, Zenon DEF TypeOK, CallInv, Spares
  <2>4. CallInv(i)'
    BY <1>14, <2>1, <2>2, <2>3, ReturnedInv, Zenon
  <2>5. ASSUME NEW j \in Calls \ {i} PROVE CallInv(j)'
    <3>1. call'[j] = call[j] /\ \A d \in Containers : lock[d] = j => lock'[d] = j
      BY <2>1, Zenon DEF Moves
    <3> QED
      BY <1>13, <1>14, <3>1, Zenon
  <2> QED
    BY <1>14, <2>4, <2>5, Zenon DEF IsolatedFirst
<1>15. ASSUME NEW i \in Calls, RunContainer(i)
       PROVE  IsolatedFirst' /\ \A j \in Calls : CallInv(j)'
  <2>1. call[i].pc = "run" /\ deny /\ deny' /\ {call[i].n} \in SUBSET Networks /\ deny' = deny
    BY <1>15, <1>t, Zenon DEF RunContainer, CallInv, Asked
  <2> QED
    BY <1>1, <1>14, <1>15, <2>1, Zenon DEF RunContainer, Results
<1>16. ASSUME NEW i \in Calls, Label(i)
       PROVE  IsolatedFirst' /\ \A j \in Calls : CallInv(j)'
  <2>1. /\ call[i].pc = "label" /\ deny' = deny /\ call[i].c \in Containers
        /\ call[i].n \in Networks /\ lock[call[i].c] = i
    BY <1>16, <1>t, Zenon DEF Label, CallInv, Asked, Holder
  <2>2. CASE UNCHANGED <<labels, attached>> /\ \E res \in Results : Return(i, res)
    BY <1>1, <2>1, <2>2, Zenon
  <2>3. CASE /\ Exists(call[i].c) /\ Return(i, "ok")
             /\ \/ SetLabels(call[i].c, labels[call[i].c] \cup {call[i].n})
                \/ SetLabels(call[i].c, labels[call[i].c] \ {call[i].n})
    <3>1. labels[call[i].c] \in (SUBSET Networks) \cup {Absent, Gone}
      BY <1>t, <2>1, Zenon DEF TypeOK
    <3>2. PICK value \in SUBSET Networks : SetLabels(call[i].c, value)
      BY <2>1, <2>3, <3>1, Zenon DEF Exists
    <3>3. deny /\ deny'
      BY <1>t, <2>1, <2>3, Zenon DEF IsolatedFirst
    <3> QED
      BY <1>14, <2>1, <2>3, <3>2, <3>3, Zenon DEF Results
  <2> QED
    BY <1>16, <2>2, <2>3, Zenon DEF Label, Results
<1>17. ASSUME NEW c \in Containers, RemoveContainer(c)
       PROVE  IsolatedFirst' /\ \A j \in Calls : CallInv(j)'
  <2>1. SetLabels(c, Gone) /\ Exists(c) /\ UNCHANGED <<deny, lock, call>>
    BY <1>17, Zenon DEF RemoveContainer, locks
  <2>2. ASSUME NEW j \in Calls PROVE CallInv(j)'
    BY <1>13, <2>1, Zenon
  <2>3. IsolatedFirst'
    BY <1>t, <2>1, Zenon DEF IsolatedFirst
  <2> QED
    BY <2>2, <2>3, Zenon
<1>18. ASSUME UNCHANGED <<deny, labels, lock, call, attached>>
       PROVE  IsolatedFirst' /\ \A j \in Calls : CallInv(j)'
  BY <1>18, <1>t, Zenon DEF IsolatedFirst, CallInv, Holder, Asked, Spares, Exists
<1>19. ASSUME NEW n \in Networks, CollectPolicy(n)
       PROVE  IsolatedFirst' /\ \A j \in Calls : CallInv(j)'
  BY <1>18, <1>19, Zenon DEF CollectPolicy, locks
<1>20. CASE UNCHANGED vars
  BY <1>18, <1>20, Zenon DEF vars
<1> QED
  BY <1>3, <1>4, <1>5, <1>6, <1>7, <1>8, <1>9, <1>10, <1>11, <1>12, <1>15, <1>16, <1>17,
     <1>19, <1>20, Zenon DEF Next, CallStep

\* For any calls, containers and networks: no container runs before the
\* namespace is isolated, a connect or disconnect holds its container's lock
\* with a true reading of its networks, and what a deletion found attached still is.
THEOREM NetworksAreSafe ==
  ASSUME Sane
  PROVE  Spec => []IInv
<1>1. Init => IInv
  BY SMT DEF Init, IInv, TypeOK, CallRecs, Pcs, Results, IsolatedFirst, CallInv, Holder,
     Asked, Spares, Exists
<1>2. IInv /\ [Next]_vars => IInv'
  <2> SUFFICES ASSUME IInv, [Next]_vars PROVE IInv'
    BY Zenon
  <2>1. TypeOK'
    BY TypeStep, Zenon
  <2>2. IsolatedFirst' /\ \A j \in Calls : CallInv(j)'
    BY InvStep, Zenon
  <2> QED
    BY <2>1, <2>2, Zenon DEF IInv
<1> QED
  BY <1>1, <1>2, PTL DEF Spec

\* Every container runs behind the default-deny policy.
THEOREM IsolationComesFirst ==
  ASSUME Sane
  PROVE  Spec => []IsolatedFirst
BY NetworksAreSafe, PTL DEF IInv

\* A network is not deleted from under a container that was attached when the
\* deletion looked and has not left since.
THEOREM EndpointsAreSpared ==
  ASSUME Sane
  PROVE  Spec => [][DeleteSparesEndpoints]_vars
<1>1. IInv /\ [Next]_vars => [DeleteSparesEndpoints]_vars
  BY Zenon DEF IInv, CallInv, Spares, DeleteSparesEndpoints
<1> QED
  BY <1>1, NetworksAreSafe, PTL DEF Spec

\* A step of a call changes no other call.
LEMMA OwnStep ==
  ASSUME Sane, IInv, NEW i \in Calls, Call(i) \/ CallStep(i) \/ Fail(i)
  PROVE  Moves(i)
<1>t. TypeOK /\ (call[i].pc # "idle" => call[i].n \in Networks /\ call[i].c \in Containers)
  BY Zenon DEF IInv, CallInv, Asked
<1>1. ASSUME NEW res \in Results, Return(i, res) PROVE Moves(i)
  BY <1>1, <1>t, ReturnGoes, Zenon
<1>2. ASSUME NEW pc \in Pcs, Goto(i, pc) PROVE Moves(i)
  BY <1>2, <1>t, GotoGoes, Zenon DEF Goes
<1>3. CASE Call(i)
  BY <1>3, <1>t, CallGoes, Zenon
<1>4. CASE Lock(i)
  <2>1. CASE ~Exists(call[i].c)
    BY <1>1, <1>4, <2>1, Zenon DEF Lock, Results
  <2>2. CASE Exists(call[i].c)
    <3>1. (call[i].n \in labels[call[i].c]) \in BOOLEAN
      BY SMT
    <3>2. call' = [call EXCEPT ![i] = [@ EXCEPT !.pc = "mutex",
                                                !.has = call[i].n \in labels[call[i].c]]]
      BY <1>4, <2>2, Zenon DEF Lock
    <3> QED
      BY <1>t, <3>1, <3>2, LockGoes, Zenon DEF Goes
  <2> QED
    BY <2>1, <2>2, Zenon
<1>5. CASE List(i)
  BY <1>5, <1>t, ListGoes, Zenon DEF List, Goes
<1>6. CASE TakeNameMu(i) \/ BuiltinPolicy(i) \/ Isolate(i)
  BY <1>2, <1>6, Zenon DEF TakeNameMu, BuiltinPolicy, Isolate, Pcs
<1>7. CASE EnsureBuiltin(i)
  <2>1. PICK n \in Builtin :
           \/ call' = [call EXCEPT ![i] = [@ EXCEPT !.pc = "builtinPolicy", !.b = n]]
           \/ Goto(i, "list")
    BY <1>7, Zenon DEF EnsureBuiltin
  <2>2. n \in Networks
    BY Zenon DEF Networks
  <2> QED
    BY <1>2, <1>t, <2>1, <2>2, BuiltinGoes, Zenon DEF Goes, Pcs
<1>8. CASE Listed(i) \/ InUse(i) \/ EnsurePolicy(i) \/ DeleteByUid(i) \/ Fail(i)
  BY <1>1, <1>2, <1>8, SMT DEF Listed, AfterList, InUse, EnsurePolicy, DeleteByUid, Fail,
     Pcs, Results
<1>9. CASE Make(i)
  <2>1. CASE net[call[i].n] = NoUid
    <3>1. /\ Create(call[i].n)
          /\ call' = [call EXCEPT ![i] = [@ EXCEPT !.pc = "isolate", !.uid = net'[call[i].n]]]
      BY <1>9, <2>1, Zenon DEF Make
    <3>2. net'[call[i].n] \in Uids \cup {NoUid}
      BY <1>9, <1>t, <3>1, CreateTypes, Zenon DEF Make
    <3> QED
      BY <1>t, <3>1, <3>2, MakeGoes, Zenon DEF Goes
  <2>2. CASE net[call[i].n] # NoUid
    BY <1>1, <1>9, <2>2, Zenon DEF Make, Results
  <2> QED
    BY <2>1, <2>2, Zenon
<1>10. CASE RunContainer(i) \/ Label(i)
  BY <1>1, <1>10, Zenon DEF RunContainer, Label, Results
<1> QED
  BY <1>3, <1>4, <1>5, <1>6, <1>7, <1>8, <1>9, <1>10, Zenon DEF CallStep

\* A container that connect reports connected is connected at that moment.
THEOREM ConnectionsHold ==
  ASSUME Sane
  PROVE  Spec => [][ConnectTakesHold]_vars
<1>1. IInv /\ [Next]_vars => [ConnectTakesHold]_vars
  <2> SUFFICES ASSUME IInv, [Next]_vars, NEW i \in Calls, call[i].op = "connect",
                      call[i].pc = "label", call'[i].result = "ok", Exists(call[i].c)
               PROVE  call[i].n \in labels'[call[i].c]
    BY Zenon DEF ConnectTakesHold
  <2>1. /\ call[i] \in CallRecs /\ labels \in [Containers -> (SUBSET Networks) \cup {Absent, Gone}]
        /\ call[i].result = "none" /\ call[i].c \in Containers /\ call[i].has \in BOOLEAN
        /\ call[i].has <=> call[i].n \in labels[call[i].c]
    BY Zenon DEF IInv, TypeOK, CallRecs, CallInv, Asked, Holder, OnContainer
  <2>2. Label(i) \/ Fail(i)
    <3>1. call' # call /\ call'[i] # call[i]
      BY <2>1, Zenon
    <3>2. PICK j \in Calls : Call(j) \/ CallStep(j) \/ Fail(j)
      BY <3>1, Zenon DEF Next, CollectPolicy, RemoveContainer, vars
    <3>3. j = i
      BY <3>1, <3>2, OwnStep, Zenon DEF Moves
    <3> QED
      BY <3>2, <3>3, Zenon DEF Call, CallStep, Lock, TakeNameMu, List, EnsureBuiltin,
         BuiltinPolicy, Listed, Make, Isolate, EnsurePolicy, InUse, DeleteByUid,
         RunContainer
  <2>3. ASSUME NEW res \in Results, Return(i, res) PROVE call'[i].result = res
    <3>1. call' = [call EXCEPT ![i] = [@ EXCEPT !.pc = "done", !.result = res]]
      BY <2>3, Zenon DEF Return
    <3> QED
      BY <2>1, <3>1, Zenon DEF IInv, TypeOK, CallRecs
  <2>4. Label(i)
    BY <2>2, <2>3, Zenon DEF Fail, Results
  <2>5. CASE call[i].has
    <3>1. labels' = labels
      BY <2>4, <2>5, Zenon DEF Label
    <3> QED
      BY <2>1, <2>5, <3>1, Zenon
  <2>6. CASE ~call[i].has
    <3>1. labels' = [labels EXCEPT ![call[i].c] = labels[call[i].c] \cup {call[i].n}]
      BY <2>4, <2>6, Zenon DEF Label, SetLabels
    <3> QED
      BY <2>1, <3>1, Zenon
  <2> QED
    BY <2>5, <2>6, Zenon
<1> QED
  BY <1>1, NetworksAreSafe, PTL DEF Spec
=============================================================================
