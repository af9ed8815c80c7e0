---------------------------- MODULE TenantValues ----------------------------
(***************************************************************************)
(* The values a tenant's containers refer to as se://k8s/<key>: keys of    *)
(* one Secret that operators change with `dinkle secret`                   *)
(* (cmd/dinkle/command/secret.go).  Each command reads the Secret and      *)
(* writes it back whole; the tenant may be deleted and created anew in     *)
(* between.                                                                *)
(***************************************************************************)
EXTENDS Integers, FiniteSets

CONSTANTS Operators, Keys, Values,
          MaxVersion   \* bound: versions of the Secret

VARIABLES tenant,    \* whether the tenant's namespace is "none", "active", "going"
          store,     \* the Secret: [rv, ours, data]; rv 0 when there is none
          version,   \* the cluster's last resource version
          acked,     \* what the operators were told is set
          cmd        \* the command each operator runs

vars == <<tenant, store, version, acked, cmd>>

None == "none"
Empty == [k \in Keys |-> None]
NoStore == [rv |-> 0, ours |-> FALSE, data |-> Empty]
Idle == [op |-> "none", pc |-> "idle", key |-> None, value |-> None, read |-> NoStore]

Go(o, c) == cmd' = [cmd EXCEPT ![o] = c]

Write(read, data) ==
    /\ version < MaxVersion
    /\ version' = version + 1
    /\ store' = [rv |-> version', ours |-> read.rv = 0 \/ read.ours, data |-> data]

-----------------------------------------------------------------------------
Start(o) ==
    /\ cmd[o] = Idle
    /\ \E k \in Keys, v \in Values \cup {None} :
        Go(o, [Idle EXCEPT !.op = IF v = None THEN "remove" ELSE "set", !.pc = "get", !.key = k, !.value = v])
    /\ UNCHANGED <<tenant, store, version, acked>>

\* A Secret without the store's label is somebody else's.
Usable(s) == s.rv # 0 => s.ours

\* RemoveSecret wants the key to be set.
Unset(c) == c.op = "remove" /\ store.data[c.key] = None

SecretStore(o) ==
    LET c == cmd[o]
    IN  /\ c.pc = "get"
        /\ Go(o, IF tenant = "none" \/ ~Usable(store) \/ Unset(c)
                 THEN Idle ELSE [c EXCEPT !.read = store, !.pc = "write"])
        /\ UNCHANGED <<tenant, store, version, acked>>

\* Mutant: the value is written over whatever is there now.
Current_any(c) == tenant # "none" /\ (store.rv = 0) = (c.read.rv = 0) /\ store.ours = c.read.ours

\* An update carries the version it read; a create wants no Secret, and a
\* namespace that is not going.
Current(c) ==
    /\ tenant # "none" /\ store.rv = c.read.rv
    /\ c.read.rv = 0 => tenant = "active"

SetSecret(o) ==
    LET c == cmd[o]
    IN  /\ c.pc = "write"
        /\ IF Current(c)
           THEN /\ Write(c.read, [c.read.data EXCEPT ![c.key] = c.value])
                /\ acked' = [acked EXCEPT ![c.key] = c.value]
           ELSE UNCHANGED <<store, version, acked>>
        /\ Go(o, Idle)
        /\ UNCHANGED tenant

\* The namespace is created, deleted and collected; a tenant may also make a
\* Secret of that name itself.
Namespace ==
    \/ tenant = "none" /\ tenant' = "active" /\ UNCHANGED <<store, version, acked>>
    \/ tenant = "active" /\ tenant' = "going" /\ UNCHANGED <<store, version, acked>>
    \/ tenant = "going" /\ tenant' = "none" /\ store' = NoStore /\ acked' = Empty /\ UNCHANGED version
    \/ /\ tenant = "active" /\ store.rv = 0 /\ version < MaxVersion
       /\ \E v \in Values : store' = [rv |-> version + 1, ours |-> FALSE, data |-> [k \in Keys |-> v]]
       /\ version' = version + 1
       /\ UNCHANGED <<tenant, acked>>

Cluster == Namespace /\ UNCHANGED cmd

Init ==
    /\ tenant = "active"
    /\ store = NoStore
    /\ version = 0
    /\ acked = Empty
    /\ cmd = [o \in Operators |-> Idle]

Next == Cluster \/ \E o \in Operators : Start(o) \/ SecretStore(o) \/ SetSecret(o)

Spec == Init /\ [][Next]_vars

-----------------------------------------------------------------------------
(* Properties. *)

\* The shape of the Secret; no Secret without its namespace.
TypeOK ==
    /\ tenant \in {"none", "active", "going"}
    /\ store.rv \in 0..version
    /\ tenant = "none" => store = NoStore

\* A value reported as set or removed stays so while other commands change
\* other keys of the same Secret, and the values of a tenant that was deleted
\* never come back in one of the same name.
AckedStays == (store.ours \/ store.rv = 0) => store.data = acked

\* A Secret of the store's name that dinkle did not make is left alone.
ForeignKept ==
    store.rv # 0 /\ ~store.ours => store' \in {store, NoStore}

-----------------------------------------------------------------------------
(* What AckedStays and ForeignKept rest on: the cluster gives no version of  *)
(* the Secret twice, so a command that writes has read what is there.        *)

Contents == [Keys -> Values \cup {None}]
Stores == [rv : Nat, ours : BOOLEAN, data : Contents]
Commands == [op : {"none", "set", "remove"}, pc : {"idle", "get", "write"},
             key : Keys \cup {None}, value : Values \cup {None}, read : Stores]

Typed ==
    /\ tenant \in {"none", "active", "going"} /\ store \in Stores /\ version \in Nat
    /\ acked \in Contents /\ cmd \in [Operators -> Commands]
    /\ \A o \in Operators : cmd[o].pc # "idle" => cmd[o].key \in Keys

Numbered(s) == s.rv <= version /\ (s.rv = 0 => s = NoStore)

ReadIsUsable(c) ==
    c.pc = "write" =>
        Numbered(c.read) /\ Usable(c.read) /\ (c.read.rv = store.rv => c.read = store)

IInv ==
    /\ Typed /\ Numbered(store) /\ AckedStays
    /\ tenant = "none" => store = NoStore
    /\ \A o \in Operators : ReadIsUsable(cmd[o])
=============================================================================
