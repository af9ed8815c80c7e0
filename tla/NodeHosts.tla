----------------------------- MODULE NodeHosts -----------------------------
(***************************************************************************)
(* dinki serve-node keeps the container runtime's registry configuration   *)
(* (cmd/dinki/command/node.go): the CA bundle and hosts.toml of a node are *)
(* written before it listens and refreshed on every tick, while the CA is  *)
(* rotated, operations fail, and the process is killed and started again,  *)
(* possibly with another address.                                          *)
(***************************************************************************)
EXTENDS Integers

CONSTANTS
    MaxRotations,     \* bound: versions of the CA bundle after the first
    MaxFaults,        \* bound: operations of the file system that fail
    MaxKills,         \* bound: times the process is killed
    Addresses         \* positive numbers: addresses it can be told to listen on

VARIABLES
    bundle,           \* the version of the CA bundle in the mounted Secret
    address,          \* the address in the process's arguments
    files,            \* [ca, hosts]: the version and the address the runtime reads
    temps,            \* temporary files in the directory
    proc,             \* [pc, ca, file, listening]
    faults, kills

vars == <<bundle, address, files, temps, proc, faults, kills>>

Absent == 0
Torn == -1

Stopped == [pc |-> "stopped", ca |-> Absent, file |-> "none", listening |-> FALSE]

\* What replaceFile is to write; the name of the CA file in hosts.toml never changes.
Data == IF proc.file = "ca" THEN proc.ca ELSE address

-----------------------------------------------------------------------------
(* writeHostsConfig and replaceFile. *)

\* The CA is replaced, then hosts.toml.
NextFile(file) == CASE file = "none" -> "ca" [] file = "ca" -> "hosts" [] file = "hosts" -> "none"

\* The next file, or the end of writeHostsConfig.
Proceed(p, file) == [p EXCEPT !.file = file, !.pc = IF file # "none" THEN "compare" ELSE IF p.listening THEN "idle" ELSE "listen"]

ReadBundle ==
    /\ proc.pc = "read"
    /\ proc' = Proceed([proc EXCEPT !.ca = bundle], NextFile("none"))
    /\ UNCHANGED <<bundle, address, files, temps, faults, kills>>

\* A file that already holds the data is left alone.
Compare ==
    /\ proc.pc = "compare"
    /\ proc' = IF files[proc.file] = Data THEN Proceed(proc, NextFile(proc.file)) ELSE [proc EXCEPT !.pc = "create"]
    /\ UNCHANGED <<bundle, address, files, temps, faults, kills>>

\* The data goes to a temporary file.
Create ==
    /\ proc.pc = "create" /\ temps' = temps + 1 /\ proc' = [proc EXCEPT !.pc = "rename"]
    /\ UNCHANGED <<bundle, address, files, faults, kills>>

Rename ==
    /\ proc.pc = "rename"
    /\ files' = [files EXCEPT ![proc.file] = Data] /\ temps' = temps - 1
    /\ proc' = Proceed(proc, NextFile(proc.file))
    /\ UNCHANGED <<bundle, address, faults, kills>>

\* Mutant: an error does not keep the process from listening.
AfterFailure_Listen == [proc EXCEPT !.pc = IF proc.listening THEN "idle" ELSE "listen", !.file = "none"]

\* An error ends a process that does not listen yet, and is logged by a refresh.
AfterFailure == IF proc.listening THEN [proc EXCEPT !.pc = "idle", !.file = "none"] ELSE Stopped

\* The deferred removal, whose error is ignored: a failed write removes its file.
RemoveFails ==
    \/ temps' = temps - 1 /\ faults' = faults + 1
    \/ faults + 1 < MaxFaults /\ temps' = temps /\ faults' = faults + 2

Fails ==
    /\ faults < MaxFaults
    /\ \/ proc.pc \in {"read", "create"} /\ faults' = faults + 1 /\ UNCHANGED temps
       \/ proc.pc = "rename" /\ RemoveFails
    /\ proc' = AfterFailure
    /\ UNCHANGED <<bundle, address, files, kills>>

-----------------------------------------------------------------------------
(* serveNode. *)

Start ==
    /\ proc.pc = "stopped" /\ proc' = [proc EXCEPT !.pc = "read"]
    /\ UNCHANGED <<bundle, address, files, temps, faults, kills>>

Listen ==
    /\ proc.pc = "listen" /\ proc' = [proc EXCEPT !.pc = "idle", !.listening = TRUE]
    /\ UNCHANGED <<bundle, address, files, temps, faults, kills>>

Tick ==
    /\ proc.pc = "idle" /\ proc' = [proc EXCEPT !.pc = "read"]
    /\ UNCHANGED <<bundle, address, files, temps, faults, kills>>

-----------------------------------------------------------------------------
(* The environment. *)

Rotate ==
    /\ bundle <= MaxRotations /\ bundle' = bundle + 1
    /\ UNCHANGED <<address, files, temps, proc, faults, kills>>

\* The process is killed; if that is for an update its address may change.
Kill ==
    /\ proc.pc # "stopped" /\ kills < MaxKills
    /\ kills' = kills + 1 /\ proc' = Stopped /\ address' \in Addresses
    /\ UNCHANGED <<bundle, files, temps, faults>>

Init ==
    /\ bundle = 1 /\ address \in Addresses /\ files = [ca |-> Absent, hosts |-> Absent]
    /\ temps = 0 /\ proc = Stopped /\ faults = 0 /\ kills = 0

Process == ReadBundle \/ Compare \/ Create \/ Rename \/ Start \/ Listen \/ Tick

Next == Process \/ Fails \/ Rotate \/ Kill

Spec == Init /\ [][Next]_vars

\* The ticker fires, the kubelet restarts the process, and nothing is assumed of the rest.
Fairness == WF_vars(Process)

-----------------------------------------------------------------------------
\* The type invariant.
TypeOK ==
    /\ proc.pc \in {"stopped", "read", "compare", "create", "rename", "listen", "idle"}
    /\ (proc.file = "none") = (proc.pc \in {"stopped", "read", "listen", "idle"})
    /\ temps \in 0..(MaxKills + MaxFaults + 1)

\* The runtime never reads half a file, whenever the process is killed or a
\* write fails ("replaceFile atomically replaces path with data").
WholeFiles ==
    files.ca \in 0..(MaxRotations + 1) /\ files.hosts \in Addresses \cup {Absent}

\* hosts.toml is there only with the CA it names: a runtime that is sent to the
\* node's address can verify it (writeHostsConfig).
NamedCAExists ==
    files.hosts # Absent => files.ca # Absent

\* While the process listens, the runtime is configured for the address it
\* listens on, whatever refreshes fail (serveNode).
ListensAsConfigured ==
    proc.listening => files.hosts = address /\ files.ca # Absent

\* A temporary file stays behind only if the process was killed with it, or if
\* both a write and the removal after it failed (replaceFile).
TempsAreRemoved ==
    2 * (temps - kills - (IF proc.pc = "rename" THEN 1 ELSE 0)) <= faults

\* Once the CA and the address stay, the node's files have them, after any
\* failures, kills and a restart halfway (serveNode's refresh).
Settles ==
    <>[](files.ca = bundle /\ files.hosts = address)

-----------------------------------------------------------------------------
(* The inductive invariant, for every number of rotations, failures and kills. *)

\* Addresses are never empty strings, which Absent stands for.
ConstantsOK ==
    /\ MaxRotations \in Nat /\ MaxFaults \in Nat /\ MaxKills \in Nat
    /\ Addresses \subseteq Nat \ {0}

Versions == 0..(MaxRotations + 1)
Quiet == {"stopped", "read", "listen", "idle"}
Writing == {"compare", "create", "rename"}
Procs == [pc : Quiet \cup Writing, ca : Versions, file : {"none", "ca", "hosts"}, listening : BOOLEAN]

\* The types, with the bounds that come from the guards.
Typed ==
    /\ bundle \in Versions \ {Absent} /\ address \in Addresses /\ proc \in Procs
    /\ files \in [ca : Versions, hosts : Addresses \cup {Absent}]
    /\ temps \in Nat /\ faults \in 0..MaxFaults /\ kills \in 0..MaxKills

\* How far writeHostsConfig is: the CA it writes is one that was read, and
\* hosts.toml has its turn, and the listener its own, only after the files before.
Progressed ==
    /\ (proc.file = "none") = (proc.pc \in Quiet)
    /\ proc.pc \in Writing => proc.ca # Absent
    /\ proc.file = "hosts" => files.ca # Absent
    /\ proc.pc = "listen" => files.hosts = address /\ files.ca # Absent
    /\ proc.pc = "idle" => proc.listening
    /\ proc.pc = "rename" => temps > 0

IInv == Typed /\ Progressed /\ NamedCAExists /\ ListensAsConfigured /\ TempsAreRemoved
=============================================================================
