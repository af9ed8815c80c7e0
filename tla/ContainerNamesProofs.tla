------------------------ MODULE ContainerNamesProofs ------------------------
(***************************************************************************)
(* Proofs about ContainerNames for any number of calls, containers and     *)
(* names, in one dink process: a container resolves by its name, names are *)
(* unique, and a call that reports success has left the Services it        *)
(* promised. With two processes the second is false (run names_race).      *)
(***************************************************************************)
EXTENDS ContainerNames, TLAPS

\* The calls that one process serves.
OneProcess == \A p, q \in Processes : p = q

-----------------------------------------------------------------------------
(* The inductive invariant.                                                *)

\* r works on a workload, or has just made one.
HasUid(r) == HoldsLock(r) \/ Pc(r) \in {"dns", "publish", "undo"}

\* Which call is at which step, and what it has read by then.
StepOf(r) ==
    /\ InFlight(r) => Op(r) # "none" /\ req[r].name \in Names
    /\ Pc(r) \in {"object", "workload", "dns", "publish", "undo"}
          => Op(r) = "create"
    /\ Pc(r) \in {"check", "getService"} => Op(r) \in {"create", "rename"}
    /\ Pc(r) \in {"reserve", "commit", "unreserve", "mark", "stale"}
          => Op(r) = "rename"
    /\ Pc(r) \in {"aliasDrop", "aliasApply"}
          => Op(r) \in {"rename", "connect", "disconnect", "start"}
    /\ Pc(r) = "annotate" => Op(r) \in {"connect", "disconnect"}
    /\ Pc(r) = "scale" => Op(r) = "start"
    /\ Pc(r) \in {"delete", "wait", "services"} => Op(r) = "rm"
    /\ Pc(r) \notin {"aliasApply", "done"} => req[r].todo = {}
    /\ Pc(r) = "aliasApply" => req[r].todo \subseteq req[r].aliases
    /\ HasUid(r) => Uid(r) \in Uids /\ req[r].app \in Names \cup Uids

StepInv == \A r \in Requests : StepOf(r)

\* One call at a time holds containerNameMu, and one the lock of a container.
LockInv ==
    \A r, s \in Requests :
        /\ HoldsNameMu(r) /\ HoldsNameMu(s) => r = s
        /\ HoldsLock(r) /\ HoldsLock(s) /\ Uid(r) = Uid(s) => r = s

Creating(r) == Pc(r) \in {"dns", "publish", "undo"}

\* A UID is that of one workload, which never comes back. A call on a
\* container that is being created gets no further than containerNameMu.
UidInv ==
    /\ \A r \in Requests : HasUid(r) => Uid(r) \notin fresh
    /\ \A u \in fresh : ~Alive(u)
    /\ \A n \in Names : services[n] # NoService => services[n].owner \notin fresh
    /\ \A r, s \in Requests :
          Creating(r) /\ HoldsLock(s) /\ Uid(r) = Uid(s)
          => Pc(s) \in {"mu", "delete", "wait"}

\* r works on a workload that exists.
Works(r) == HasUid(r) /\ Alive(Uid(r))

\* A Service is labelled with the object name of its owner, which a call
\* knows.
AppOf(r) == Works(r) => req[r].app = workloads[Uid(r)].app

AppInv ==
    /\ \A r \in Requests : AppOf(r)
    /\ \A n \in Names :
          services[n] # NoService /\ Alive(services[n].owner)
          => services[n].app = workloads[services[n].owner].app

\* The name a call works with is the one the workload has, except before a
\* rename has committed it; a removal past its delete works on none.
NameOf(r) ==
    Works(r) =>
    /\ \/ InFlight(r) /\ Op(r) \in {"connect", "disconnect", "start"}
       \/ Op(r) = "rename" /\ Pc(r) \in {"mark", "aliasDrop", "aliasApply", "stale"}
       \/ Pc(r) \in {"dns", "publish"}
       => workloads[Uid(r)].name = req[r].name
    /\ Pc(r) \in {"dns", "publish"} => ~workloads[Uid(r)].created
    /\ Op(r) = "rm" => Pc(r) = "delete"

\* The Service a create or a rename has made or found stays its own; one made
\* by a rename is not that of the name it would give up.
ClaimOf(r) ==
    /\ Pc(r) = "publish" =>
          services[req[r].name] = NoService \/ OwnedBy(req[r].name, Uid(r))
    /\ Works(r) =>
          /\ \/ Pc(r) = "publish"
             \/ /\ Op(r) = "rename"
                /\ Pc(r) \in {"commit", "mark", "aliasDrop", "aliasApply", "stale"}
             => OwnedBy(req[r].name, Uid(r))
          /\ /\ Pc(r) \in {"commit", "unreserve"}
             /\ req[r].reserved /\ workloads[Uid(r)].created
             => workloads[Uid(r)].name # req[r].name

\* What applyAliasServices has done so far, and what is left of it later.
AliasOf(r) ==
    Works(r) =>
    /\ Pc(r) \in {"aliasApply", "stale", "annotate", "scale"}
          => \A n \in req[r].aliases \ req[r].todo : OwnedBy(n, Uid(r))
    /\ Pc(r) \in {"aliasApply", "stale", "annotate"}
          => \A n \in Names \ {req[r].name} :
                OwnedBy(n, Uid(r)) /\ services[n].kind = "alias"
                => n \in req[r].aliases

CallInv == \A r \in Requests : NameOf(r) /\ ClaimOf(r) /\ AliasOf(r)

\* Also while calls work on it, a container that was created resolves by its
\* name.
Resolves ==
    \A u \in Uids : Alive(u) /\ workloads[u].created => OwnedBy(workloads[u].name, u)

IInv ==
    /\ TypeOK /\ StepInv /\ LockInv /\ UidInv /\ AppInv /\ CallInv /\ Resolves

-----------------------------------------------------------------------------
(* What a step does to the calls.                                          *)

\* Only the record of r changes.
Others(r) == \A s \in Requests \ {r} : req'[s] = req[s]

\* The call goes on to pc with what it was asked for.
Moves(r, pc) ==
    /\ Others(r) /\ req'[r].pc = pc
    /\ req'[r].op = req[r].op /\ req'[r].name = req[r].name
    /\ req'[r].aliases = req[r].aliases /\ req'[r].process = req[r].process

\* It goes on with the same workload, too.
MovesOn(r, pc) ==
    Moves(r, pc) /\ req'[r].uid = req[r].uid /\ req'[r].app = req[r].app

\* The call is over.
Returns(r, res) == Others(r) /\ req'[r].pc = "done" /\ req'[r].result = res

LEMMA GotoMoves ==
  ASSUME TypeOK, NEW r \in Requests, NEW pc, Goto(r, pc)
  PROVE  /\ MovesOn(r, pc)
         /\ req'[r].todo = req[r].todo /\ req'[r].reserved = req[r].reserved
<1> DEFINE q == [req[r] EXCEPT !.pc = pc]
<1>1. req' = [req EXCEPT ![r] = q]
  BY Zenon DEF Goto
<1>2. q.pc = pc /\ q.op = req[r].op /\ q.name = req[r].name
      /\ q.aliases = req[r].aliases /\ q.process = req[r].process
      /\ q.uid = req[r].uid /\ q.app = req[r].app /\ q.todo = req[r].todo
      /\ q.reserved = req[r].reserved
  BY ZenonT(30) DEF TypeOK, Request
<1> HIDE DEF q
<1> QED
  BY <1>1, <1>2, Zenon DEF TypeOK, MovesOn, Moves, Others

LEMMA ReturnMoves ==
  ASSUME TypeOK, NEW r \in Requests, NEW res, Return(r, res)
  PROVE  Returns(r, res)
BY Zenon DEF Return, TypeOK, Returns, Others, Request0

\* The steps that change more than that.
LEMMA CallCreateMoves ==
  ASSUME TypeOK, NEW r \in Requests, NEW n \in Names, NEW A \in SUBSET Names,
         CallCreate(r, n, A)
  PROVE  /\ Others(r) /\ req' \in [Requests -> Request]
         /\ req'[r].pc = "mu" /\ req'[r].op = "create" /\ req'[r].name = n
         /\ req'[r].todo = req[r].todo
<1> DEFINE q == [req[r] EXCEPT !.pc = "mu", !.op = "create", !.name = n, !.aliases = A]
<1>1. req' = [req EXCEPT ![r] = q]
  BY Zenon DEF CallCreate
<1>2. "mu" \in Pcs /\ req[r] \in Request
  BY Zenon DEF Pcs, TypeOK
<1>3. q \in Request
  BY <1>2, Zenon DEF Request
<1>4. q.pc = "mu" /\ q.op = "create" /\ q.name = n /\ q.todo = req[r].todo
  BY <1>2, Zenon DEF Request
<1> HIDE DEF q
<1> QED
  BY <1>1, <1>3, <1>4, Zenon DEF TypeOK, Others

LEMMA CallOnContainerMoves ==
  ASSUME TypeOK, NEW r \in Requests, NEW o \in Ops, NEW u \in Uids, NEW n \in Names,
         CallOnContainer(r, o, u, n)
  PROVE  /\ Others(r) /\ req' \in [Requests -> Request]
         /\ req'[r].pc = (IF o = "rm" THEN "delete" ELSE "mu")
         /\ req'[r].op = o /\ o \notin {"none", "create"}
         /\ req'[r].uid = u /\ req'[r].app = workloads[u].app
         /\ req'[r].name = (IF o = "rename" THEN n ELSE workloads[u].name)
         /\ req'[r].todo = req[r].todo
<1> DEFINE pc == IF o = "rm" THEN "delete" ELSE "mu"
           name == IF o = "rename" THEN n ELSE workloads[u].name
           aliases == CASE o = "connect" -> {n}
                        [] o = "disconnect" -> {}
                        [] OTHER -> workloads[u].aliases
           q == [req[r] EXCEPT !.pc = pc, !.op = o, !.uid = u,
                               !.app = workloads[u].app,
                               !.old = workloads[u].name,
                               !.name = name, !.aliases = aliases]
<1>1. req' = [req EXCEPT ![r] = q] /\ o # "create"
  BY Zenon DEF CallOnContainer
<1>2. workloads[u] \in Workload /\ req[r] \in Request
  BY Zenon DEF CallOnContainer, TypeOK, Alive
<1>3. aliases \in SUBSET Names
  BY <1>2, Zenon DEF Workload
<1>4. pc \in Pcs /\ name \in Names /\ workloads[u].name \in Names
      /\ workloads[u].app \in Names \cup Uids
  BY <1>2, Zenon DEF Workload, Pcs
<1> HIDE DEF pc, name, aliases
<1>5. o \in {"create", "rename", "connect", "disconnect", "start", "rm"}
  BY NamesAssumption, Zenon
<1>6. q \in Request
  BY <1>2, <1>3, <1>4, <1>5, Zenon DEF Request
<1>7. /\ q.pc = pc /\ q.op = o /\ q.uid = u /\ q.app = workloads[u].app
      /\ q.name = name /\ q.todo = req[r].todo
  BY <1>2, Zenon DEF Request
<1> HIDE DEF q
<1>8. Others(r) /\ req'[r] = q /\ req' \in [Requests -> Request]
  BY <1>1, <1>6, Zenon DEF TypeOK, Others
<1> QED
  BY <1>1, <1>5, <1>6, <1>7, <1>8, Zenon DEF pc, name

LEMMA ObjectMoves ==
  ASSUME TypeOK, NEW r \in Requests, req[r].name \in Names, ChooseObjectName(r)
  PROVE  /\ Moves(r, "workload") /\ req' \in [Requests -> Request]
         /\ req'[r].uid = req[r].uid /\ req'[r].todo = req[r].todo
<1> DEFINE app == IF ObjectExists(req[r].name) THEN NoName ELSE req[r].name
           q == [req[r] EXCEPT !.pc = "workload", !.app = app]
<1>1. req' = [req EXCEPT ![r] = q]
  BY Zenon DEF ChooseObjectName
<1>2. "workload" \in Pcs /\ req[r] \in Request /\ app \in Names \cup {NoName}
  BY Zenon DEF Pcs, TypeOK
<1> HIDE DEF app
<1>3. q \in Request
  BY <1>2, Zenon DEF Request
<1>4. /\ q.pc = "workload" /\ q.op = req[r].op /\ q.name = req[r].name
      /\ q.aliases = req[r].aliases /\ q.process = req[r].process
      /\ q.uid = req[r].uid /\ q.todo = req[r].todo
  BY <1>2, Zenon DEF Request
<1> HIDE DEF q
<1> QED
  BY <1>1, <1>3, <1>4, Zenon DEF TypeOK, Moves, Others

\* CreateWorkload fails, or takes a fresh UID.
Creates(r, u) ==
    /\ Pc(r) = "workload" /\ u \in fresh /\ fresh' = fresh \ {u}
    /\ Moves(r, "dns") /\ req' \in [Requests -> Request]
    /\ req'[r].uid = u /\ req'[r].todo = req[r].todo
    /\ UNCHANGED services
    /\ workloads' = [workloads EXCEPT ![u] =
          [name |-> req[r].name, app |-> req'[r].app, aliases |-> req[r].aliases,
           running |-> FALSE, created |-> FALSE]]
    /\ req'[r].app \in Names \cup Uids

LEMMA CreateMoves ==
  ASSUME TypeOK, NEW r \in Requests, CreateWorkload(r)
  PROVE  \/ Returns(r, "error") /\ Pc(r) = "workload" /\ UNCHANGED <<workloads, services, fresh>>
         \/ \E u \in Uids : Creates(r, u)
<1>1. CASE ObjectExists(req[r].app) /\ Return(r, "error") /\ UNCHANGED <<workloads, fresh>>
  BY <1>1, ReturnMoves, Zenon DEF CreateWorkload
<1> DEFINE app(u) == IF req[r].app = NoName THEN u ELSE req[r].app
           q(u) == [req[r] EXCEPT !.pc = "dns", !.uid = u, !.app = app(u)]
           w(u) == [name |-> req[r].name, app |-> app(u), aliases |-> req[r].aliases,
                    running |-> FALSE, created |-> FALSE]
<1>2. ASSUME NEW u \in fresh,
             workloads' = [workloads EXCEPT ![u] = w(u)],
             fresh' = fresh \ {u}, req' = [req EXCEPT ![r] = q(u)]
      PROVE  \E v \in Uids : Creates(r, v)
  <2>1. "dns" \in Pcs /\ req[r] \in Request /\ u \in Uids
    BY Zenon DEF Pcs, TypeOK
  <2>2. app(u) \in Names \cup Uids
    BY <2>1, Zenon DEF Request
  <2> HIDE DEF app
  <2>3. q(u) \in Request
    BY <2>1, <2>2, Zenon DEF Request
  <2>4. /\ q(u).pc = "dns" /\ q(u).op = req[r].op /\ q(u).name = req[r].name
        /\ q(u).aliases = req[r].aliases /\ q(u).process = req[r].process
        /\ q(u).uid = u /\ q(u).app = app(u) /\ q(u).todo = req[r].todo
    BY <2>1, Zenon DEF Request
  <2>5. Others(r) /\ req'[r] = q(u) /\ req' \in [Requests -> Request]
    BY <1>2, <2>3, Zenon DEF TypeOK, Others
  <2> HIDE DEF q
  <2> QED
    BY <1>2, <2>1, <2>2, <2>3, <2>4, <2>5, Zenon DEF Creates, Moves, CreateWorkload
<1> QED
  BY <1>1, <1>2, Zenon DEF CreateWorkload

LEMMA ReserveMoves ==
  ASSUME TypeOK, NEW r \in Requests, NEW new \in BOOLEAN,
         req' = [req EXCEPT ![r] = [@ EXCEPT !.pc = "commit", !.reserved = new]]
  PROVE  /\ MovesOn(r, "commit") /\ req' \in [Requests -> Request]
         /\ req'[r].todo = req[r].todo /\ req'[r].reserved = new
<1> DEFINE q == [req[r] EXCEPT !.pc = "commit", !.reserved = new]
<1>1. "commit" \in Pcs /\ req[r] \in Request
  BY Zenon DEF Pcs, TypeOK
<1>2. q \in Request
  BY <1>1, Zenon DEF Request
<1>3. /\ q.pc = "commit" /\ q.op = req[r].op /\ q.name = req[r].name
      /\ q.aliases = req[r].aliases /\ q.process = req[r].process
      /\ q.uid = req[r].uid /\ q.app = req[r].app /\ q.todo = req[r].todo
      /\ q.reserved = new
  BY <1>1, Zenon DEF Request
<1>4. req' = [req EXCEPT ![r] = q]
  BY Zenon
<1> HIDE DEF q
<1> QED
  BY <1>2, <1>3, <1>4, Zenon DEF TypeOK, MovesOn, Moves, Others

LEMMA ApplyMoves ==
  ASSUME TypeOK, NEW r \in Requests,
         req' = [req EXCEPT ![r] = [@ EXCEPT !.pc = "aliasApply", !.todo = req[r].aliases]]
  PROVE  /\ MovesOn(r, "aliasApply") /\ req' \in [Requests -> Request]
         /\ req'[r].todo = req[r].aliases
<1> DEFINE q == [req[r] EXCEPT !.pc = "aliasApply", !.todo = req[r].aliases]
<1>1. "aliasApply" \in Pcs /\ req[r] \in Request
  BY Zenon DEF Pcs, TypeOK
<1>2. q \in Request
  BY <1>1, Zenon DEF Request
<1>3. /\ q.pc = "aliasApply" /\ q.op = req[r].op /\ q.name = req[r].name
      /\ q.aliases = req[r].aliases /\ q.process = req[r].process
      /\ q.uid = req[r].uid /\ q.app = req[r].app /\ q.todo = req[r].aliases
  BY <1>1, Zenon DEF Request
<1>4. req' = [req EXCEPT ![r] = q]
  BY Zenon
<1> HIDE DEF q
<1> QED
  BY <1>2, <1>3, <1>4, Zenon DEF TypeOK, MovesOn, Moves, Others

LEMMA AppliedMoves ==
  ASSUME TypeOK, NEW r \in Requests, NEW a, Pc(r) = "aliasApply",
         req' = [req EXCEPT ![r].todo = @ \ {a}]
  PROVE  /\ MovesOn(r, "aliasApply") /\ req' \in [Requests -> Request]
         /\ req'[r].todo = req[r].todo \ {a}
<1> DEFINE q == [req[r] EXCEPT !.todo = @ \ {a}]
<1>1. req[r] \in Request
  BY Zenon DEF TypeOK
<1>2. q \in Request
  BY <1>1, Zenon DEF Request
<1>3. /\ q.pc = req[r].pc /\ q.op = req[r].op /\ q.name = req[r].name
      /\ q.aliases = req[r].aliases /\ q.process = req[r].process
      /\ q.uid = req[r].uid /\ q.app = req[r].app /\ q.todo = req[r].todo \ {a}
  BY <1>1, Zenon DEF Request
<1>4. req' = [req EXCEPT ![r] = q]
  BY Zenon
<1> HIDE DEF q
<1> QED
  BY <1>2, <1>3, <1>4, Zenon DEF TypeOK, MovesOn, Moves, Others, Pc

LEMMA GotoType ==
  ASSUME TypeOK, NEW r \in Requests, NEW pc \in Pcs, Goto(r, pc)
  PROVE  req' \in [Requests -> Request]
<1>1. req[r] \in Request
  BY Zenon DEF TypeOK
<1>2. [req[r] EXCEPT !.pc = pc] \in Request
  BY <1>1, Zenon DEF Request
<1> QED
  BY <1>2, Zenon DEF Goto, TypeOK

LEMMA ReturnType ==
  ASSUME TypeOK, NEW r \in Requests, NEW res \in {"ok", "error"}, Return(r, res)
  PROVE  req' \in [Requests -> Request]
<1>1. "done" \in Pcs /\ req[r].process \in Processes
  BY Zenon DEF Pcs, TypeOK, Request
<1>2. Request0("done", req[r].process, res) \in Request
  BY <1>1, Zenon DEF Request0, Request
<1> QED
  BY <1>2, Zenon DEF Return, TypeOK

\* What a step writes.
LEMMA ServiceWrites ==
  ASSUME TypeOK, NEW n \in Names,
         NEW u \in Uids, NEW app \in Names \cup Uids
  PROVE  /\ DNSService(u, app) # NoService /\ DNSService(u, app).owner = u
         /\ AliasService(u, app) # NoService /\ AliasService(u, app).owner = u
         /\ [services EXCEPT ![n] = DNSService(u, app)]
               \in [Names -> Service \cup {NoService}]
         /\ [services EXCEPT ![n] = AliasService(u, app)]
               \in [Names -> Service \cup {NoService}]
         /\ [services EXCEPT ![n] = NoService] \in [Names -> Service \cup {NoService}]
<1>1. DNSService(u, app) \in Service /\ AliasService(u, app) \in Service
  BY Zenon DEF DNSService, AliasService, Service
<1>2. DNSService(u, app).owner = u /\ AliasService(u, app).owner = u
  BY Zenon DEF DNSService, AliasService
<1> QED
  BY <1>1, <1>2, NamesAssumption, Zenon DEF TypeOK

LEMMA WorkloadWrites ==
  ASSUME TypeOK, NEW u \in Uids, Alive(u)
  PROVE  /\ [workloads EXCEPT ![u].created = TRUE] \in [Uids -> Workload \cup {NoWorkload}]
         /\ [workloads EXCEPT ![u].running = TRUE] \in [Uids -> Workload \cup {NoWorkload}]
         /\ \A n \in Names :
               [workloads EXCEPT ![u].name = n] \in [Uids -> Workload \cup {NoWorkload}]
         /\ \A A \in SUBSET Names :
               [workloads EXCEPT ![u].aliases = A] \in [Uids -> Workload \cup {NoWorkload}]
<1>1. workloads[u] \in Workload
  BY Zenon DEF TypeOK, Alive
<1>2. /\ [workloads[u] EXCEPT !.created = TRUE] \in Workload
      /\ [workloads[u] EXCEPT !.running = TRUE] \in Workload
  BY <1>1, Zenon DEF Workload
<1>3. \A n \in Names : [workloads[u] EXCEPT !.name = n] \in Workload
  BY <1>1, Zenon DEF Workload
<1>4. \A A \in SUBSET Names : [workloads[u] EXCEPT !.aliases = A] \in Workload
  BY <1>1, Zenon DEF Workload
<1> QED
  BY <1>2, <1>3, <1>4, Zenon DEF TypeOK

LEMMA StepOthers ==
  ASSUME StepInv, NEW r \in Requests, Others(r), StepOf(r)'
  PROVE  StepInv'
BY SMT DEF StepInv, StepOf, Others, Pc, Op, Uid, InFlight, HasUid, HoldsLock

\* Most steps take neither containerNameMu nor a container lock.
KeepsLocks(r) ==
    /\ Others(r)
    /\ HoldsNameMu(r)' => HoldsNameMu(r)
    /\ HoldsLock(r)' => HoldsLock(r) /\ Uid(r)' = Uid(r)

LEMMA LocksKept ==
  ASSUME LockInv, NEW r \in Requests, KeepsLocks(r)
  PROVE  LockInv'
BY SMT DEF LockInv, KeepsLocks, Others, HoldsNameMu, HoldsLock, InFlight, Pc, Op, Uid

-----------------------------------------------------------------------------
(* Types, steps and locks, action by action.                               *)

LEMMA TypeStep ==
  ASSUME TypeOK, StepInv, [Next]_vars PROVE TypeOK'
<1> USE DEF TypeOK, Pc, Uid, Op
<1>1. ASSUME NEW r \in Requests, NEW n \in Names, NEW A \in SUBSET Names, CallCreate(r, n, A) PROVE TypeOK'
  BY <1>1, CallCreateMoves, Zenon DEF CallCreate
<1>2. ASSUME NEW r \in Requests, NEW o \in Ops, NEW u \in Uids, NEW n \in Names, CallOnContainer(r, o, u, n) PROVE TypeOK'
  BY <1>2, CallOnContainerMoves, Zenon DEF CallOnContainer, HoldsLock, SameProcess
<1>3. ASSUME NEW r \in Requests, TakeNameMu(r) PROVE TypeOK'
  BY <1>3, GotoType, Zenon DEF TakeNameMu, HoldsNameMu, SameProcess, Pcs
<1>4. ASSUME NEW r \in Requests, CheckWorkloads(r) PROVE TypeOK'
  BY <1>4, GotoType, ReturnType, Zenon DEF CheckWorkloads, Pcs
<1>5. ASSUME NEW r \in Requests, CheckService(r) PROVE TypeOK'
  BY <1>5, GotoType, ReturnType, Zenon DEF CheckService, Pcs
<1>6. ASSUME NEW r \in Requests, ChooseObjectName(r) PROVE TypeOK'
  BY <1>6, ObjectMoves, Zenon DEF ChooseObjectName, StepInv, StepOf, InFlight
<1>7. ASSUME NEW r \in Requests, CreateWorkload(r) PROVE TypeOK'
  <2>1. CASE UNCHANGED <<workloads, services, fresh>> /\ Pc(r) = "workload" /\ Return(r, "error")
    BY <2>1, ReturnType, Zenon
  <2>2. CASE \E u \in Uids : Creates(r, u)
    <3>1. PICK u \in Uids : Creates(r, u)
      BY <2>2, Zenon
    <3>2. req[r] \in Request /\ req[r].name \in Names
      BY <3>1, Zenon DEF Creates, StepInv, StepOf, InFlight
    <3>3. [name |-> req[r].name, app |-> req'[r].app, aliases |-> req[r].aliases,
           running |-> FALSE, created |-> FALSE] \in Workload
      BY <3>1, <3>2, Zenon DEF Creates, Workload, Request
    <3> QED
      BY <3>1, <3>3, Zenon DEF Creates
  <2> QED
    BY <1>7, <2>1, <2>2, CreateMoves, Zenon DEF CreateWorkload
<1>8. ASSUME NEW r \in Requests, CreateService(r) PROVE TypeOK'
  <2>1. workloads' \in [Uids -> Workload \cup {NoWorkload}]
    BY <1>8, Zenon DEF CreateService
  <2>2. services' \in [Names -> Service \cup {NoService}]
    <3>1. Uid(r) \in Uids /\ req[r].name \in Names /\ req[r].app \in Names \cup Uids
      BY <1>8, Zenon DEF CreateService, StepInv, StepOf, HasUid, HoldsLock, InFlight
    <3> QED
      BY <1>8, <3>1, ServiceWrites, SMT DEF CreateService, OwnedBy
  <2>3. req' \in [Requests -> Request]
    BY <1>8, GotoType, ReturnType, Zenon DEF CreateService, Pcs
  <2> QED
    BY <1>8, <2>1, <2>2, <2>3, Zenon DEF CreateService
<1>9. ASSUME NEW r \in Requests, CreateReturns(r) PROVE TypeOK'
  <2>1. workloads' \in [Uids -> Workload \cup {NoWorkload}]
    BY <1>9, WorkloadWrites, Zenon
       DEF CreateReturns, StepInv, StepOf, HasUid, HoldsLock, InFlight
  <2>2. services' \in [Names -> Service \cup {NoService}]
    BY <1>9, Zenon DEF CreateReturns
  <2>3. req' \in [Requests -> Request]
    BY <1>9, GotoType, ReturnType, Zenon DEF CreateReturns, Pcs
  <2> QED
    BY <1>9, <2>1, <2>2, <2>3, Zenon DEF CreateReturns
<1>10. ASSUME NEW r \in Requests, CreatePublishFails(r) PROVE TypeOK'
  BY <1>10, GotoType, Zenon DEF CreatePublishFails, Pcs
<1>11. ASSUME NEW r \in Requests, CreateUndo(r) PROVE TypeOK'
  <2>1. workloads' \in [Uids -> Workload \cup {NoWorkload}]
    BY <1>11, Zenon DEF CreateUndo
  <2>2. services' \in [Names -> Service \cup {NoService}]
    BY <1>11, Zenon DEF CreateUndo
  <2>3. req' \in [Requests -> Request]
    BY <1>11, GotoType, ReturnType, Zenon DEF CreateUndo, Pcs
  <2> QED
    BY <1>11, <2>1, <2>2, <2>3, Zenon DEF CreateUndo
<1>12. ASSUME NEW r \in Requests, RenameReserves(r) PROVE TypeOK'
  <2>1. workloads' \in [Uids -> Workload \cup {NoWorkload}]
    BY <1>12, Zenon DEF RenameReserves
  <2>2. services' \in [Names -> Service \cup {NoService}]
    <3>1. Uid(r) \in Uids /\ req[r].name \in Names /\ req[r].app \in Names \cup Uids
      BY <1>12, Zenon DEF RenameReserves, StepInv, StepOf, HasUid, HoldsLock, InFlight
    <3> QED
      BY <1>12, <3>1, ServiceWrites, SMT DEF RenameReserves, OwnedBy
  <2>3. req' \in [Requests -> Request]
    BY <1>12, ReturnType, ReserveMoves, Zenon DEF RenameReserves
  <2> QED
    BY <1>12, <2>1, <2>2, <2>3, Zenon DEF RenameReserves
<1>13. ASSUME NEW r \in Requests, RenameCommits(r) PROVE TypeOK'
  <2>1. workloads' \in [Uids -> Workload \cup {NoWorkload}]
    <3>1. Uid(r) \in Uids /\ req[r].name \in Names
      BY <1>13, Zenon DEF RenameCommits, StepInv, StepOf, HasUid, HoldsLock, InFlight
    <3>2. Alive(Uid(r)) => [workloads EXCEPT ![Uid(r)].name = req[r].name] \in [Uids -> Workload \cup {NoWorkload}]
      BY <3>1, WorkloadWrites, Zenon
    <3> QED
      BY <1>13, <3>2, Zenon DEF RenameCommits
  <2>2. services' \in [Names -> Service \cup {NoService}]
    BY <1>13, Zenon DEF RenameCommits
  <2>3. req' \in [Requests -> Request]
    BY <1>13, GotoType, ReturnType, Zenon DEF RenameCommits, Pcs
  <2> QED
    BY <1>13, <2>1, <2>2, <2>3, Zenon DEF RenameCommits
<1>14. ASSUME NEW r \in Requests, RenameUnreserves(r) PROVE TypeOK'
  <2>1. workloads' \in [Uids -> Workload \cup {NoWorkload}]
    BY <1>14, Zenon DEF RenameUnreserves
  <2>2. services' \in [Names -> Service \cup {NoService}]
    BY <1>14, Zenon DEF RenameUnreserves
  <2>3. req' \in [Requests -> Request]
    BY <1>14, GotoType, ReturnType, Zenon DEF RenameUnreserves, Pcs
  <2> QED
    BY <1>14, <2>1, <2>2, <2>3, Zenon DEF RenameUnreserves
<1>15. ASSUME NEW r \in Requests, RenameMarks(r) PROVE TypeOK'
  <2>1. workloads' \in [Uids -> Workload \cup {NoWorkload}]
    BY <1>15, Zenon DEF RenameMarks
  <2>2. services' \in [Names -> Service \cup {NoService}]
    <3>1. Uid(r) \in Uids /\ req[r].name \in Names /\ req[r].app \in Names \cup Uids
      BY <1>15, Zenon DEF RenameMarks, StepInv, StepOf, HasUid, HoldsLock, InFlight
    <3> QED
      BY <1>15, <3>1, ServiceWrites, SMT DEF RenameMarks, OwnedBy
  <2>3. req' \in [Requests -> Request]
    BY <1>15, GotoType, ReturnType, Zenon DEF RenameMarks, Pcs
  <2> QED
    BY <1>15, <2>1, <2>2, <2>3, Zenon DEF RenameMarks
<1>16. ASSUME NEW r \in Requests, RenameDropsStale(r) PROVE TypeOK'
  <2>1. workloads' \in [Uids -> Workload \cup {NoWorkload}]
    BY <1>16, Zenon DEF RenameDropsStale, DeleteServices
  <2>2. services' \in [Names -> Service \cup {NoService}]
    BY <1>16, Zenon DEF RenameDropsStale, DeleteServices
  <2>3. req' \in [Requests -> Request]
    BY <1>16, GotoType, ReturnType, Zenon DEF RenameDropsStale, DeleteServices, Pcs
  <2> QED
    BY <1>16, <2>1, <2>2, <2>3, Zenon DEF RenameDropsStale, DeleteServices
<1>17. ASSUME NEW r \in Requests, AliasDrops(r) PROVE TypeOK'
  <2>1. workloads' \in [Uids -> Workload \cup {NoWorkload}]
    BY <1>17, Zenon DEF AliasDrops, DeleteServices
  <2>2. services' \in [Names -> Service \cup {NoService}]
    <3>1. PICK D : services' = [n \in Names |-> IF n \in D THEN NoService ELSE services[n]]
      BY <1>17, Zenon DEF AliasDrops, DeleteServices
    <3> QED
      BY <3>1, Zenon
  <2>3. req' \in [Requests -> Request]
    BY <1>17, ReturnType, ApplyMoves, Zenon DEF AliasDrops, DeleteServices
  <2> QED
    BY <1>17, <2>1, <2>2, <2>3, Zenon DEF AliasDrops, DeleteServices
<1>18. ASSUME NEW r \in Requests, NEW a \in Names, AliasApplies(r, a) PROVE TypeOK'
  <2>1. workloads' \in [Uids -> Workload \cup {NoWorkload}]
    BY <1>18, Zenon DEF AliasApplies
  <2>2. services' \in [Names -> Service \cup {NoService}]
    <3>1. Uid(r) \in Uids /\ a \in Names /\ req[r].app \in Names \cup Uids
      BY <1>18, Zenon DEF AliasApplies, StepInv, StepOf, HasUid, HoldsLock, InFlight
    <3> QED
      BY <1>18, <3>1, ServiceWrites, SMT DEF AliasApplies, OwnedBy
  <2>3. req' \in [Requests -> Request]
    BY <1>18, ReturnType, AppliedMoves, Zenon DEF AliasApplies
  <2> QED
    BY <1>18, <2>1, <2>2, <2>3, Zenon DEF AliasApplies
<1>19. ASSUME NEW r \in Requests, AliasesApplied(r) PROVE TypeOK'
  BY <1>19, GotoType, Zenon DEF AliasesApplied, Pcs
<1>20. ASSUME NEW r \in Requests, StoreAliases(r) PROVE TypeOK'
  <2>1. workloads' \in [Uids -> Workload \cup {NoWorkload}]
    <3>1. Uid(r) \in Uids /\ req[r].aliases \in SUBSET Names
      BY <1>20
        , Zenon DEF StoreAliases, StepInv, StepOf, HasUid, HoldsLock, InFlight, Request
    <3>2. Alive(Uid(r)) => [workloads EXCEPT ![Uid(r)].aliases = req[r].aliases] \in [Uids -> Workload \cup {NoWorkload}]
      BY <3>1, WorkloadWrites, Zenon
    <3> QED
      BY <1>20, <3>2, Zenon DEF StoreAliases
  <2>2. services' \in [Names -> Service \cup {NoService}]
    BY <1>20, Zenon DEF StoreAliases
  <2>3. req' \in [Requests -> Request]
    BY <1>20, GotoType, ReturnType, Zenon DEF StoreAliases, Pcs
  <2> QED
    BY <1>20, <2>1, <2>2, <2>3, Zenon DEF StoreAliases
<1>21. ASSUME NEW r \in Requests, StartScales(r) PROVE TypeOK'
  <2>1. workloads' \in [Uids -> Workload \cup {NoWorkload}]
    <3>1. Uid(r) \in Uids
      BY <1>21, Zenon DEF StartScales, StepInv, StepOf, HasUid, HoldsLock, InFlight
    <3>2. Alive(Uid(r)) => [workloads EXCEPT ![Uid(r)].running = TRUE] \in [Uids -> Workload \cup {NoWorkload}]
      BY <3>1, WorkloadWrites, Zenon
    <3> QED
      BY <1>21, <3>2, Zenon DEF StartScales
  <2>2. services' \in [Names -> Service \cup {NoService}]
    BY <1>21, Zenon DEF StartScales
  <2>3. req' \in [Requests -> Request]
    BY <1>21, GotoType, ReturnType, Zenon DEF StartScales, Pcs
  <2> QED
    BY <1>21, <2>1, <2>2, <2>3, Zenon DEF StartScales
<1>22. ASSUME NEW r \in Requests, RmDeletes(r) PROVE TypeOK'
  BY <1>22, GotoType, Zenon DEF RmDeletes, Pcs
<1>23. ASSUME NEW r \in Requests, RmStopped(r) PROVE TypeOK'
  BY <1>23, GotoType, Zenon DEF RmStopped, Pcs
<1>24. ASSUME NEW r \in Requests, RmDropsServices(r) PROVE TypeOK'
  BY <1>24, ReturnType, Zenon DEF RmDropsServices, DeleteServices
<1>25. ASSUME NEW r \in Requests, Abort(r) PROVE TypeOK'
  BY <1>25, GotoType, ReturnType, Zenon DEF Abort, Pcs
<1>26. ASSUME NEW u \in Uids, JobExpires(u) PROVE TypeOK'
  BY <1>26, Zenon DEF JobExpires
<1>27. ASSUME NEW n \in Names, CollectService(n) PROVE TypeOK'
  BY <1>27, Zenon DEF CollectService
<1>28. CASE UNCHANGED vars
  BY <1>28, Zenon DEF vars
<1> QED
  BY <1>1, <1>2, <1>3, <1>4, <1>5, <1>6, <1>7, <1>8, <1>9, <1>10, <1>11, <1>12, <1>13,
     <1>14, <1>15, <1>16, <1>17, <1>18, <1>19, <1>20, <1>21, <1>22, <1>23, <1>24, <1>25,
     <1>26, <1>27, <1>28 , Zenon
     DEF Next, Call, RequestStep, AllReturned

LEMMA StepStep ==
  ASSUME TypeOK, StepInv, TypeOK', [Next]_vars PROVE StepInv'
<1> USE DEF Pc, Op, Uid, InFlight, HasUid, HoldsLock, Moves, MovesOn, Returns
<1>1. ASSUME NEW r \in Requests, NEW n \in Names, NEW A \in SUBSET Names, CallCreate(r, n, A) PROVE StepInv'
  <2>1. Others(r) /\ StepOf(r) /\ Pc(r) = "idle"
    BY <1>1, CallCreateMoves, Zenon DEF StepInv, CallCreate
  <2>2. StepOf(r)'
    BY <1>1, <2>1, CallCreateMoves, ZenonT(30) DEF StepOf
  <2> QED
    BY <2>1, <2>2, StepOthers, Zenon
<1>2. ASSUME NEW r \in Requests, NEW o \in Ops, NEW u \in Uids, NEW n \in Names, CallOnContainer(r, o, u, n) PROVE StepInv'
  <2>1. Others(r)
    BY <1>2, CallOnContainerMoves, Zenon
  <2>2. StepOf(r) /\ Pc(r) = "idle" /\ req'[r] \in Request
    BY <1>2, CallOnContainerMoves, ZenonT(30) DEF StepInv, CallOnContainer
  <2>3. workloads[u].app \in Names \cup Uids /\ workloads[u].name \in Names
    BY <1>2, Zenon DEF CallOnContainer, TypeOK, Workload, Alive
  <2>4. StepOf(r)'
    BY <1>2, <2>2, <2>3, CallOnContainerMoves, SMT DEF StepOf
  <2> QED
    BY <2>1, <2>4, StepOthers, Zenon
<1>3. ASSUME NEW r \in Requests, TakeNameMu(r) PROVE StepInv'
  <2>1. Others(r) /\ StepOf(r)
    BY <1>3, GotoMoves, Zenon DEF StepInv, TakeNameMu
  <2>2. Op(r) \in {"create", "rename", "connect", "disconnect", "start", "rm"}
    BY <1>3, <2>1, Zenon DEF StepOf, TakeNameMu, TypeOK, Request
  <2> DEFINE pc == CASE Op(r) \in {"create", "rename"} -> "check"
                     [] Op(r) = "rm" -> "services"
                     [] Op(r) = "start" /\ req[r].aliases = {} -> "scale"
                     [] OTHER -> "aliasDrop"
  <2>3. \/ Op(r) \in {"create", "rename"} /\ pc = "check"
        \/ Op(r) = "rm" /\ pc = "services"
        \/ Op(r) = "start" /\ pc = "scale"
        \/ Op(r) \in {"connect", "disconnect", "start"} /\ pc = "aliasDrop"
    BY <2>2, Zenon
  <2>4. Goto(r, pc) /\ Pc(r) = "mu"
    BY <1>3, Zenon DEF TakeNameMu
  <2> HIDE DEF pc
  <2>5. StepOf(r)'
    BY <2>1, <2>3, <2>4, GotoMoves, Zenon DEF StepOf
  <2> QED
    BY <2>1, <2>5, StepOthers, Zenon
<1>4. ASSUME NEW r \in Requests, CheckWorkloads(r) PROVE StepInv'
  BY <1>4, GotoMoves, ReturnMoves, SMTT(30) DEF CheckWorkloads, StepInv, StepOf, Others
<1>5. ASSUME NEW r \in Requests, CheckService(r) PROVE StepInv'
  BY <1>5, GotoMoves, ReturnMoves, SMT DEF CheckService, StepInv, StepOf, Others
<1>6. ASSUME NEW r \in Requests, ChooseObjectName(r) PROVE StepInv'
  <2>1. StepOf(r) /\ Pc(r) = "object"
    BY <1>6, Zenon DEF StepInv, ChooseObjectName
  <2>2. req[r].name \in Names
    BY <2>1, Zenon DEF StepOf
  <2>3. StepOf(r)'
    BY <1>6, <2>1, <2>2, ObjectMoves, Zenon DEF StepOf
  <2> QED
    BY <1>6, <2>2, <2>3, StepOthers, ObjectMoves, Zenon
<1>7. ASSUME NEW r \in Requests, CreateWorkload(r) PROVE StepInv'
  BY <1>7, CreateMoves, SMTT(30) DEF Creates, StepInv, StepOf, Others
<1>8. ASSUME NEW r \in Requests, CreateService(r) PROVE StepInv'
  BY <1>8, GotoMoves, SMT DEF CreateService, DNSService, StepInv, StepOf, Others
<1>9. ASSUME NEW r \in Requests, CreateReturns(r) PROVE StepInv'
  BY <1>9, ReturnMoves, SMT DEF CreateReturns, StepInv, StepOf, Others
<1>10. ASSUME NEW r \in Requests, CreatePublishFails(r) PROVE StepInv'
  BY <1>10, GotoMoves, SMT DEF CreatePublishFails, StepInv, StepOf, Others
<1>11. ASSUME NEW r \in Requests, CreateUndo(r) PROVE StepInv'
  BY <1>11, ReturnMoves, SMTT(30) DEF CreateUndo, StepInv, StepOf, Others
<1>12. ASSUME NEW r \in Requests, RenameReserves(r) PROVE StepInv'
  <2>1. StepOf(r) /\ Pc(r) = "reserve"
    BY <1>12, Zenon DEF StepInv, RenameReserves
  <2>2. CASE Return(r, "error")
    BY <2>2, ReturnMoves, StepOthers, Zenon DEF StepOf
  <2>3. CASE MovesOn(r, "commit") /\ req'[r].todo = req[r].todo
    <3>1. StepOf(r)'
      BY <2>1, <2>3, Zenon DEF StepOf
    <3> QED
      BY <2>3, <3>1, StepOthers, Zenon
  <2> QED
    BY <1>12, <2>2, <2>3, ReserveMoves, Zenon DEF RenameReserves
<1>13. ASSUME NEW r \in Requests, RenameCommits(r) PROVE StepInv'
  BY <1>13, GotoMoves, SMTT(30) DEF RenameCommits, StepInv, StepOf, Others
<1>14. ASSUME NEW r \in Requests, RenameUnreserves(r) PROVE StepInv'
  BY <1>14, ReturnMoves, SMTT(30) DEF RenameUnreserves, StepInv, StepOf, Others
<1>15. ASSUME NEW r \in Requests, RenameMarks(r) PROVE StepInv'
  BY <1>15, GotoMoves, ReturnMoves
    , SMT DEF RenameMarks, DNSService, StepInv, StepOf, Others
<1>16. ASSUME NEW r \in Requests, RenameDropsStale(r) PROVE StepInv'
  BY <1>16, ReturnMoves
    , SMT DEF RenameDropsStale, DeleteServices, StepInv, StepOf, Others
<1>17. ASSUME NEW r \in Requests, AliasDrops(r) PROVE StepInv'
  <2>1. Others(r)
    BY <1>17, ReturnMoves, ApplyMoves, Zenon DEF AliasDrops, DeleteServices
  <2>2. StepOf(r)
    BY Zenon DEF StepInv
  <2>3. Pc(r) = "aliasDrop"
    BY <1>17, Zenon DEF AliasDrops
  <2>4. \/ Returns(r, "error")
        \/ MovesOn(r, "aliasApply") /\ req'[r].todo = req[r].aliases
    BY <1>17, ReturnMoves, ApplyMoves, Zenon DEF AliasDrops, DeleteServices
  <2>5. StepOf(r)'
    <3>1. CASE Returns(r, "error")
      BY <3>1, Zenon DEF StepOf
    <3>2. CASE MovesOn(r, "aliasApply") /\ req'[r].todo = req[r].aliases
      BY <2>2, <2>3, <3>2, Zenon DEF StepOf
    <3> QED
      BY <2>4, <3>1, <3>2, Zenon
  <2> QED
    BY <2>1, <2>5, StepOthers, Zenon
<1>18. ASSUME NEW r \in Requests, NEW a \in Names, AliasApplies(r, a) PROVE StepInv'
  BY <1>18, AppliedMoves, ReturnMoves
    , SMT DEF AliasApplies, AliasService, StepInv, StepOf, Others
<1>19. ASSUME NEW r \in Requests, AliasesApplied(r) PROVE StepInv'
  BY <1>19, GotoMoves, SMT DEF AliasesApplied, StepInv, StepOf, Others
<1>20. ASSUME NEW r \in Requests, StoreAliases(r) PROVE StepInv'
  BY <1>20, ReturnMoves, SMT DEF StoreAliases, StepInv, StepOf, Others
<1>21. ASSUME NEW r \in Requests, StartScales(r) PROVE StepInv'
  BY <1>21, ReturnMoves, SMT DEF StartScales, StepInv, StepOf, Others
<1>22. ASSUME NEW r \in Requests, RmDeletes(r) PROVE StepInv'
  BY <1>22, GotoMoves, SMT DEF RmDeletes, StepInv, StepOf, Others
<1>23. ASSUME NEW r \in Requests, RmStopped(r) PROVE StepInv'
  BY <1>23, GotoMoves, SMTT(30) DEF RmStopped, StepInv, StepOf, Others
<1>24. ASSUME NEW r \in Requests, RmDropsServices(r) PROVE StepInv'
  BY <1>24, ReturnMoves, SMTT(30)
     DEF RmDropsServices, DeleteServices, StepInv, StepOf, Others
<1>25. ASSUME NEW r \in Requests, Abort(r) PROVE StepInv'
  BY <1>25, GotoMoves, ReturnMoves, SMT DEF Abort, StepInv, StepOf, Others
<1>26. ASSUME NEW u \in Uids, JobExpires(u) PROVE StepInv'
  BY <1>26, Zenon DEF JobExpires, StepInv, StepOf
<1>27. ASSUME NEW n \in Names, CollectService(n) PROVE StepInv'
  BY <1>27, ZenonT(30) DEF CollectService, StepInv, StepOf
<1>28. CASE UNCHANGED vars
  BY <1>28, ZenonT(30) DEF vars, StepInv, StepOf
<1> QED
  BY <1>1, <1>2, <1>3, <1>4, <1>5, <1>6, <1>7, <1>8, <1>9, <1>10, <1>11, <1>12, <1>13,
     <1>14, <1>15, <1>16, <1>17, <1>18, <1>19, <1>20, <1>21, <1>22, <1>23, <1>24, <1>25,
     <1>26, <1>27, <1>28 , Zenon
     DEF Next, Call, RequestStep, AllReturned

LEMMA LockStep ==
  ASSUME OneProcess, TypeOK, StepInv, LockInv, [Next]_vars
  PROVE  LockInv'
<1> USE DEF Pc, Op, Uid, InFlight, HoldsLock, HoldsNameMu, Moves, MovesOn, Returns
<1>1. ASSUME NEW r \in Requests, NEW n \in Names, NEW A \in SUBSET Names, CallCreate(r, n, A) PROVE LockInv'
  <2>1. KeepsLocks(r)
    BY <1>1, CallCreateMoves, Zenon DEF KeepsLocks
  <2> QED
    BY <2>1, LocksKept, Zenon
<1>2. ASSUME NEW r \in Requests, NEW o \in Ops, NEW u \in Uids, NEW n \in Names, CallOnContainer(r, o, u, n) PROVE LockInv'
  <2>1. \A s \in Requests : SameProcess(r, s)
    BY Zenon DEF OneProcess, SameProcess, TypeOK, Request
  <2>2. Others(r) /\ Op(r)' # "create" /\ Uid(r)' = u /\ ~HoldsNameMu(r)'
    BY <1>2, CallOnContainerMoves, SMT
  <2>3. \A s \in Requests : HoldsLock(s) => Uid(s) # u
    BY <1>2, <2>1, Zenon DEF CallOnContainer
  <2> QED
    BY <2>2, <2>3, ZenonT(30) DEF LockInv, Others
<1>3. ASSUME NEW r \in Requests, TakeNameMu(r) PROVE LockInv'
  <2>1. \A s \in Requests : SameProcess(r, s)
    BY Zenon DEF OneProcess, SameProcess, TypeOK, Request
  <2>2. \A s \in Requests : ~HoldsNameMu(s)
    BY <1>3, <2>1, Zenon DEF TakeNameMu
  <2>3. Others(r) /\ (HoldsLock(r)' => HoldsLock(r)) /\ Uid(r)' = Uid(r)
    BY <1>3, GotoMoves, Zenon DEF TakeNameMu
  <2> QED
    BY <2>2, <2>3, SMT DEF LockInv, Others
<1>4. ASSUME NEW r \in Requests, CheckWorkloads(r) PROVE LockInv'
  BY <1>4, LocksKept, GotoMoves, ReturnMoves, ZenonT(30) DEF CheckWorkloads, KeepsLocks
<1>5. ASSUME NEW r \in Requests, CheckService(r) PROVE LockInv'
  BY <1>5, LocksKept, GotoMoves, ReturnMoves, ZenonT(30) DEF CheckService, KeepsLocks
<1>6. ASSUME NEW r \in Requests, ChooseObjectName(r) PROVE LockInv'
  <2>1. StepOf(r) /\ Pc(r) = "object"
    BY <1>6, Zenon DEF StepInv, ChooseObjectName
  <2>2. req[r].name \in Names /\ Op(r) = "create"
    BY <2>1, Zenon DEF StepOf
  <2>3. KeepsLocks(r)
    BY <1>6, <2>1, <2>2, ObjectMoves, Zenon DEF KeepsLocks
  <2> QED
    BY <2>3, LocksKept, Zenon
<1>7. ASSUME NEW r \in Requests, CreateWorkload(r) PROVE LockInv'
  BY <1>7, LocksKept, CreateMoves, ZenonT(30) DEF StepInv, StepOf, Creates, KeepsLocks
<1>8. ASSUME NEW r \in Requests, CreateService(r) PROVE LockInv'
  BY <1>8, LocksKept, GotoMoves, Zenon DEF CreateService, DNSService, KeepsLocks
<1>9. ASSUME NEW r \in Requests, CreateReturns(r) PROVE LockInv'
  BY <1>9, LocksKept, ReturnMoves, Zenon DEF CreateReturns, KeepsLocks
<1>10. ASSUME NEW r \in Requests, CreatePublishFails(r) PROVE LockInv'
  BY <1>10, LocksKept, GotoMoves, Zenon DEF CreatePublishFails, KeepsLocks
<1>11. ASSUME NEW r \in Requests, CreateUndo(r) PROVE LockInv'
  BY <1>11, LocksKept, ReturnMoves, Zenon DEF CreateUndo, KeepsLocks
<1>12. ASSUME NEW r \in Requests, RenameReserves(r) PROVE LockInv'
  <2>1. Returns(r, "error") \/ (MovesOn(r, "commit") /\ Pc(r) = "reserve")
    BY <1>12, ReserveMoves, ReturnMoves, Zenon DEF RenameReserves
  <2>2. KeepsLocks(r)
    BY <2>1, Zenon DEF KeepsLocks
  <2> QED
    BY <2>2, LocksKept, Zenon
<1>13. ASSUME NEW r \in Requests, RenameCommits(r) PROVE LockInv'
  BY <1>13, LocksKept, GotoMoves, ZenonT(30) DEF RenameCommits, KeepsLocks
<1>14. ASSUME NEW r \in Requests, RenameUnreserves(r) PROVE LockInv'
  BY <1>14, LocksKept, ReturnMoves, Zenon DEF RenameUnreserves, KeepsLocks
<1>15. ASSUME NEW r \in Requests, RenameMarks(r) PROVE LockInv'
  BY <1>15, LocksKept, GotoMoves, ReturnMoves
    , ZenonT(30) DEF RenameMarks, DNSService, KeepsLocks
<1>16. ASSUME NEW r \in Requests, RenameDropsStale(r) PROVE LockInv'
  BY <1>16, LocksKept, ReturnMoves
    , Zenon DEF RenameDropsStale, DeleteServices, KeepsLocks
<1>17. ASSUME NEW r \in Requests, AliasDrops(r) PROVE LockInv'
  BY <1>17, LocksKept, ApplyMoves, ReturnMoves, ZenonT(30)
     DEF AliasDrops, DeleteServices, KeepsLocks
<1>18. ASSUME NEW r \in Requests, NEW a \in Names, AliasApplies(r, a) PROVE LockInv'
  BY <1>18, LocksKept, AppliedMoves, ReturnMoves, ZenonT(30)
     DEF AliasApplies, AliasService, KeepsLocks
<1>19. ASSUME NEW r \in Requests, AliasesApplied(r) PROVE LockInv'
  BY <1>19, LocksKept, GotoMoves, Zenon DEF AliasesApplied, KeepsLocks
<1>20. ASSUME NEW r \in Requests, StoreAliases(r) PROVE LockInv'
  BY <1>20, LocksKept, ReturnMoves, Zenon DEF StoreAliases, KeepsLocks
<1>21. ASSUME NEW r \in Requests, StartScales(r) PROVE LockInv'
  BY <1>21, LocksKept, ReturnMoves, Zenon DEF StartScales, KeepsLocks
<1>22. ASSUME NEW r \in Requests, RmDeletes(r) PROVE LockInv'
  BY <1>22, LocksKept, GotoMoves, Zenon DEF RmDeletes, KeepsLocks
<1>23. ASSUME NEW r \in Requests, RmStopped(r) PROVE LockInv'
  BY <1>23, LocksKept, GotoMoves, Zenon DEF RmStopped, KeepsLocks
<1>24. ASSUME NEW r \in Requests, RmDropsServices(r) PROVE LockInv'
  BY <1>24, LocksKept, ReturnMoves
    , Zenon DEF RmDropsServices, DeleteServices, KeepsLocks
<1>25. ASSUME NEW r \in Requests, Abort(r) PROVE LockInv'
  BY <1>25, LocksKept, GotoMoves, ReturnMoves, ZenonT(30) DEF Abort, KeepsLocks
<1>26. ASSUME NEW u \in Uids, JobExpires(u) PROVE LockInv'
  BY <1>26, Zenon DEF JobExpires, LockInv
<1>27. ASSUME NEW n \in Names, CollectService(n) PROVE LockInv'
  BY <1>27, Zenon DEF CollectService, LockInv
<1>28. CASE UNCHANGED vars
  BY <1>28, Zenon DEF vars, LockInv
<1> QED
  BY <1>1, <1>2, <1>3, <1>4, <1>5, <1>6, <1>7, <1>8, <1>9, <1>10, <1>11, <1>12, <1>13,
     <1>14, <1>15, <1>16, <1>17, <1>18, <1>19, <1>20, <1>21, <1>22, <1>23, <1>24, <1>25,
     <1>26, <1>27, <1>28 , Zenon
     DEF Next, Call, RequestStep, AllReturned

-----------------------------------------------------------------------------
(* What a step does to workloads and Services, by the calls R: one or none. *)

\* The workload of a new UID appears. Of the others only the lock holder
\* changes the name and only the create that made it says it is created.
WorkloadFrame(R) ==
    /\ fresh' \subseteq fresh
    /\ \A u \in fresh' : workloads'[u] = workloads[u]
    /\ \A u \in Uids : u \in fresh /\ Alive(u)' => ~workloads'[u].created
    /\ \A u \in Uids \ fresh : Alive(u)' =>
          /\ Alive(u) /\ workloads'[u].app = workloads[u].app
          /\ \/ workloads'[u].name = workloads[u].name
             \/ \E r \in R : HoldsLock(r) /\ HoldsNameMu(r) /\ Uid(r) = u
          /\ \/ workloads'[u].created = workloads[u].created
             \/ \E r \in R : Pc(r) = "publish" /\ Uid(r) = u

\* A call changes Services that nobody or its workload owns, and the garbage
\* collector those whose owner is gone.
ServiceFrame(R) ==
    \A n \in Names :
        \/ services'[n] = services[n]
        \/ services[n] # NoService /\ ~Alive(services[n].owner) /\ services'[n] = NoService
        \/ \E r \in R :
              /\ HoldsNameMu(r) /\ HasUid(r)
              /\ services[n] = NoService \/ OwnedBy(n, Uid(r))
              /\ services'[n] \in {NoService, DNSService(Uid(r), req[r].app),
                                   AliasService(Uid(r), req[r].app)}

\* How a call comes to a workload, and past containerNameMu.
Progress(r) ==
    /\ HasUid(r)' =>
          \/ HasUid(r) /\ Uid(r)' = Uid(r) /\ (Creating(r)' => Creating(r))
          \/ HoldsLock(r)' /\ Pc(r)' \in {"mu", "delete"} /\ Uid(r)' \notin fresh
          \/ Pc(r)' = "dns" /\ Uid(r)' \in fresh \ fresh'
    /\ HoldsLock(r)' /\ Pc(r)' \notin {"mu", "delete", "wait"} =>
          /\ HoldsLock(r) /\ Uid(r)' = Uid(r)
          /\ \/ Pc(r) \notin {"mu", "delete", "wait"}
             \/ \A s \in Requests : ~HoldsNameMu(s)

Frame(R) ==
    /\ \A s \in Requests \ R : req'[s] = req[s]
    /\ WorkloadFrame(R) /\ ServiceFrame(R)
    /\ \A r \in R : Progress(r)

LEMMA UidStep ==
  ASSUME TypeOK, StepInv, UidInv, StepInv', NEW R \in SUBSET Requests,
         \A r, s \in R : r = s, Frame(R)
  PROVE  UidInv'
<1>1. ASSUME NEW r \in Requests, HasUid(r)' PROVE Uid(r)' \notin fresh'
  BY <1>1
    , SMT DEF UidInv, Frame, WorkloadFrame, Progress, HasUid, HoldsLock, InFlight,
              Pc, Op, Uid
<1>2. ASSUME NEW u \in fresh' PROVE ~Alive(u)'
  BY <1>2, Zenon DEF UidInv, Frame, WorkloadFrame, Alive
<1>3. ASSUME NEW n \in Names, services'[n] # NoService
      PROVE  services'[n].owner \notin fresh'
  BY <1>3
    , SMT DEF UidInv, Frame, ServiceFrame, WorkloadFrame, DNSService, AliasService
<1>4. ASSUME NEW r \in Requests, NEW s \in Requests,
             Creating(r)', HoldsLock(s)', Uid(r)' = Uid(s)'
      PROVE  Pc(s)' \in {"mu", "delete", "wait"}
  <2>1. r # s /\ HasUid(r)'
    BY <1>4, Zenon DEF StepInv, StepOf, Creating, HoldsLock, HasUid
  <2>2. CASE r \in R
    <3>1. req'[s] = req[s] /\ Progress(r)
      BY <2>1, <2>2, Zenon DEF Frame
    <3>2. HoldsLock(s) /\ Pc(s)' = Pc(s) /\ Uid(s)' = Uid(s) /\ Uid(s) \notin fresh
      BY <1>4, <3>1, Zenon DEF UidInv, HoldsLock, InFlight, Pc, Op, Uid, HasUid
    <3>3. Creating(r) /\ Uid(r)' = Uid(r)
      BY <1>4, <2>1, <3>1, <3>2, Zenon DEF Progress, Creating
    <3> QED
      BY <1>4, <3>2, <3>3, Zenon DEF UidInv
  <2>3. CASE s \in R
    <3>1. req'[r] = req[r] /\ Progress(s)
      BY <2>1, <2>3, Zenon DEF Frame
    <3>2. Creating(r) /\ Uid(r)' = Uid(r) /\ HoldsNameMu(r)
      BY <1>4, <3>1, Zenon DEF Creating, Pc, Uid, HoldsNameMu, InFlight
    <3>3. Pc(s)' \notin {"mu", "delete", "wait"} =>
             /\ HoldsLock(s) /\ Uid(s)' = Uid(s)
             /\ Pc(s) \notin {"mu", "delete", "wait"}
      BY <1>4, <3>1, <3>2, Zenon DEF Progress
    <3> QED
      BY <1>4, <3>2, <3>3, Zenon DEF UidInv
  <2>4. CASE r \notin R /\ s \notin R
    BY <1>4, <2>4, Zenon DEF Frame, UidInv, Creating, HoldsLock, InFlight, Pc, Op, Uid
  <2> QED
    BY <2>2, <2>3, <2>4, Zenon
<1> QED
  BY <1>1, <1>2, <1>3, <1>4, Zenon DEF UidInv

\* What Frame says of a call that does not take the step.
LEMMA OthersWork ==
  ASSUME StepInv, UidInv, NEW R \in SUBSET Requests, Frame(R),
         NEW s \in Requests \ R, Works(s)'
  PROVE  /\ Works(s) /\ Uid(s) \in Uids \ fresh /\ req'[s] = req[s]
         /\ workloads'[Uid(s)].app = workloads[Uid(s)].app
         /\ \/ workloads'[Uid(s)].name = workloads[Uid(s)].name
            \/ \E r \in R : HoldsLock(r) /\ HoldsNameMu(r) /\ Uid(r) = Uid(s)
         /\ \/ workloads'[Uid(s)].created = workloads[Uid(s)].created
            \/ \E r \in R : Pc(r) = "publish" /\ Uid(r) = Uid(s)
<1>1. req'[s] = req[s]
  BY Zenon DEF Frame
<1>2. HasUid(s) /\ Uid(s)' = Uid(s) /\ Alive(Uid(s))'
  BY <1>1, Zenon DEF Works, HasUid, HoldsLock, InFlight, Pc, Op, Uid, Alive
<1>3. Uid(s) \in Uids \ fresh
  BY <1>2, Zenon DEF StepInv, StepOf, UidInv
<1> QED
  BY <1>1, <1>2, <1>3, Zenon DEF Frame, WorkloadFrame, Works, Alive

LEMMA AppStep ==
  ASSUME TypeOK, StepInv, UidInv, AppInv, NEW R \in SUBSET Requests, Frame(R),
         \A r \in R : AppOf(r)'
  PROVE  AppInv'
<1>1. ASSUME NEW s \in Requests \ R PROVE AppOf(s)'
  BY OthersWork, SMTT(30) DEF AppInv, AppOf, Uid
<1>2. ASSUME NEW n \in Names, services'[n] # NoService, Alive(services[n].owner)'
      PROVE  services'[n].app = workloads'[services'[n].owner].app
  <2>1. CASE services'[n] = services[n]
    <3>1. services[n].owner \in Uids \ fresh
      BY <1>2, <2>1, Zenon DEF TypeOK, Service, UidInv
    <3> QED
      BY <1>2, <2>1, <3>1, SMTT(30) DEF AppInv, Frame, WorkloadFrame, Alive
  <2>2. CASE services'[n] # services[n]
    <3>1. PICK r \in R : HasUid(r) /\ services'[n] \in {DNSService(Uid(r), req[r].app),
                                                        AliasService(Uid(r), req[r].app)}
      BY <1>2, <2>2, Zenon DEF Frame, ServiceFrame
    <3>2. services'[n].owner = Uid(r) /\ services'[n].app = req[r].app
      BY <3>1, SMTT(30) DEF DNSService, AliasService
    <3>3. Uid(r) \in Uids \ fresh
      BY <3>1, Zenon DEF StepInv, StepOf, UidInv
    <3> QED
      BY <1>2, <3>1, <3>2, <3>3, SMTT(30)
         DEF AppInv, AppOf, Works, Frame, WorkloadFrame, Alive
  <2> QED
    BY <2>1, <2>2, Zenon
<1> QED
  BY <1>1, <1>2, Zenon DEF AppInv, Alive

LEMMA NameOthers ==
  ASSUME TypeOK, StepInv, LockInv, UidInv, CallInv, NEW R \in SUBSET Requests,
         Frame(R), NEW s \in Requests \ R
  PROVE  NameOf(s)'
<1> SUFFICES ASSUME Works(s)' PROVE NameOf(s)'
  BY Zenon DEF NameOf
<1>1. /\ Works(s) /\ NameOf(s)
      /\ Pc(s)' = Pc(s) /\ Op(s)' = Op(s) /\ Uid(s)' = Uid(s)
      /\ req'[s].name = req[s].name
  BY OthersWork, Zenon DEF CallInv, Pc, Op, Uid
<1>2. InFlight(s)' = InFlight(s)
  BY <1>1, Zenon DEF InFlight
<1>3. ASSUME HoldsLock(s) \/ HoldsNameMu(s)
      PROVE  workloads'[Uid(s)].name = workloads[Uid(s)].name
  BY <1>3, OthersWork, SMT DEF LockInv
<1>4. ASSUME Pc(s) \in {"dns", "publish"}
      PROVE  HoldsNameMu(s) /\ workloads'[Uid(s)].created = workloads[Uid(s)].created
  <2>1. \A r \in R : Pc(r) # "publish"
    BY <1>4, Zenon DEF LockInv, HoldsNameMu, InFlight
  <2> QED
    BY <1>4, <2>1, OthersWork, SMT DEF HoldsNameMu, InFlight
<1> QED
  BY <1>1, <1>2, <1>3, <1>4, Zenon DEF NameOf, HoldsLock, InFlight

\* A call that holds containerNameMu, or the lock of a container that is not
\* being created, keeps the Services of that container while it exists.
LEMMA ServicesKept ==
  ASSUME TypeOK, StepInv, LockInv, UidInv, NEW R \in SUBSET Requests, Frame(R),
         NEW s \in Requests \ R, NEW n \in Names,
         \/ HoldsNameMu(s)
         \/ HoldsLock(s) /\ Pc(s) \notin {"mu", "delete", "wait"} /\ OwnedBy(n, Uid(s))
  PROVE  \/ services'[n] = services[n]
         \/ services[n] # NoService /\ ~Alive(services[n].owner) /\ services'[n] = NoService
<1>1. ASSUME NEW r \in R, HoldsNameMu(r), HasUid(r),
             services[n] = NoService \/ OwnedBy(n, Uid(r))
      PROVE  FALSE
  <2>1. r # s /\ r \in Requests
    BY Zenon
  <2>2. CASE HoldsNameMu(s)
    BY <1>1, <2>1, <2>2, Zenon DEF LockInv
  <2>3. CASE HoldsLock(s) /\ Pc(s) \notin {"mu", "delete", "wait"} /\ OwnedBy(n, Uid(s))
    <3>1. Uid(r) = Uid(s)
      BY <1>1, <2>3, Zenon DEF OwnedBy
    <3> QED
      BY <1>1, <2>1, <2>3, <3>1, Zenon DEF LockInv, UidInv, HasUid, Creating
  <2> QED
    BY <2>2, <2>3, Zenon
<1> QED
  BY <1>1, Zenon DEF Frame, ServiceFrame

LEMMA ClaimOthers ==
  ASSUME TypeOK, StepInv, LockInv, UidInv, CallInv, NEW R \in SUBSET Requests,
         Frame(R), NEW s \in Requests \ R
  PROVE  ClaimOf(s)'
<1>1. /\ req'[s] = req[s] /\ ClaimOf(s) /\ StepOf(s)
      /\ Pc(s)' = Pc(s) /\ Op(s)' = Op(s) /\ Uid(s)' = Uid(s)
  BY Zenon DEF Frame, CallInv, StepInv, Pc, Op, Uid
<1>2. ASSUME Pc(s) = "publish"
      PROVE  (services[req[s].name] = NoService \/ OwnedBy(req[s].name, Uid(s)))'
  <2>1. HoldsNameMu(s) /\ req[s].name \in Names
    BY <1>1, <1>2, Zenon DEF StepOf, HoldsNameMu, InFlight
  <2>2. \/ services'[req[s].name] = services[req[s].name]
        \/ services'[req[s].name] = NoService
    BY <2>1, ServicesKept, Zenon
  <2> QED
    BY <1>1, <1>2, <2>2, Zenon DEF ClaimOf, OwnedBy
<1>3. ASSUME Works(s)',
             \/ Pc(s) = "publish"
             \/ /\ Op(s) = "rename"
                /\ Pc(s) \in {"commit", "mark", "aliasDrop", "aliasApply", "stale"}
      PROVE  OwnedBy(req[s].name, Uid(s))'
  <2>1. HoldsNameMu(s) /\ req[s].name \in Names /\ Works(s)
    BY <1>1, <1>3, OthersWork, Zenon DEF StepOf, HoldsNameMu, InFlight
  <2>2. OwnedBy(req[s].name, Uid(s)) /\ Alive(Uid(s))
    BY <1>1, <1>3, <2>1, Zenon DEF ClaimOf, Works
  <2>3. services'[req[s].name] = services[req[s].name]
    BY <2>1, <2>2, ServicesKept, Zenon DEF OwnedBy
  <2> QED
    BY <1>1, <2>2, <2>3, Zenon DEF OwnedBy
<1>4. ASSUME Works(s)', Pc(s) \in {"commit", "unreserve"},
             req[s].reserved, workloads'[Uid(s)].created
      PROVE  workloads'[Uid(s)].name # req[s].name
  <2>1. HoldsNameMu(s) /\ HoldsLock(s)
    BY <1>1, <1>4, Zenon DEF StepOf, HoldsNameMu, HoldsLock, InFlight
  <2>2. \A r \in R : ~HoldsNameMu(r) /\ Pc(r) # "publish"
    BY <2>1, Zenon DEF LockInv, HoldsNameMu, InFlight
  <2>3. /\ Works(s) /\ workloads'[Uid(s)].name = workloads[Uid(s)].name
        /\ workloads'[Uid(s)].created = workloads[Uid(s)].created
    BY <1>4, <2>2, OthersWork, Zenon
  <2> QED
    BY <1>1, <1>4, <2>3, Zenon DEF ClaimOf
<1> QED
  BY <1>1, <1>2, <1>3, <1>4, Zenon DEF ClaimOf

LEMMA AliasOthers ==
  ASSUME TypeOK, StepInv, LockInv, UidInv, CallInv, NEW R \in SUBSET Requests,
         Frame(R), NEW s \in Requests \ R
  PROVE  AliasOf(s)'
<1> SUFFICES ASSUME Works(s)', Pc(s)' \in {"aliasApply", "stale", "annotate", "scale"}
             PROVE  AliasOf(s)'
  BY Zenon DEF AliasOf
<1>1. /\ Works(s) /\ AliasOf(s) /\ StepOf(s) /\ req'[s] = req[s]
      /\ Pc(s)' = Pc(s) /\ Op(s)' = Op(s) /\ Uid(s)' = Uid(s)
  BY OthersWork, Zenon DEF CallInv, StepInv, Pc, Op, Uid
<1>2. HoldsLock(s) /\ Pc(s) \notin {"mu", "delete", "wait"}
  BY <1>1, Zenon DEF StepOf, HoldsLock, InFlight
<1>3. ASSUME NEW n \in Names, OwnedBy(n, Uid(s))
      PROVE  services'[n] = services[n]
  BY <1>1, <1>2, <1>3, ServicesKept, Zenon DEF OwnedBy, Works
<1>4. ASSUME Pc(s) # "scale", NEW n \in Names, OwnedBy(n, Uid(s))'
      PROVE  OwnedBy(n, Uid(s))
  <2>1. HoldsNameMu(s)
    BY <1>1, <1>4, Zenon DEF HoldsNameMu, InFlight
  <2> QED
    BY <1>1, <1>4, <2>1, ServicesKept, Zenon DEF OwnedBy
<1>5. req[s].aliases \subseteq Names
  BY Zenon DEF TypeOK, Request
<1>6. ASSUME NEW n \in Names, OwnedBy(n, Uid(s)) PROVE OwnedBy(n, Uid(s))'
  BY <1>1, <1>3, <1>6, Zenon DEF OwnedBy
<1> QED
  BY <1>1, <1>3, <1>4, <1>5, <1>6, Zenon DEF AliasOf

\* A container that no call of R works on still resolves.
LEMMA ResolvesOthers ==
  ASSUME TypeOK, StepInv, LockInv, UidInv, Resolves, NEW R \in SUBSET Requests,
         Frame(R), NEW u \in Uids, \A r \in R : HasUid(r) => Uid(r) # u,
         Alive(u)', workloads'[u].created
  PROVE  OwnedBy(workloads[u].name, u)'
<1>1. u \notin fresh
  BY Zenon DEF Frame, WorkloadFrame
<1>2. \A r \in R : Pc(r) = "publish" \/ HoldsLock(r) => Uid(r) # u
  BY Zenon DEF HasUid
<1>3. /\ Alive(u) /\ workloads'[u].name = workloads[u].name
      /\ workloads[u].created
  BY <1>1, <1>2, Zenon DEF Frame, WorkloadFrame
<1>4. OwnedBy(workloads[u].name, u) /\ workloads[u].name \in Names
  BY <1>3, Zenon DEF Resolves, TypeOK, Workload, Alive
<1>5. services'[workloads[u].name] = services[workloads[u].name]
  BY <1>3, <1>4, Zenon DEF Frame, ServiceFrame, OwnedBy
<1> QED
  BY <1>3, <1>4, <1>5, Zenon DEF OwnedBy

-----------------------------------------------------------------------------
(* The call that takes the step keeps its part of the invariant.           *)

Keeps(r) == Progress(r) /\ AppOf(r)' /\ NameOf(r)' /\ ClaimOf(r)' /\ AliasOf(r)'

ResolvesOf(u) == Alive(u) /\ workloads[u].created => OwnedBy(workloads[u].name, u)

LEMMA FrameOf ==
  ASSUME NEW r \in Requests, Others(r), Progress(r), WorkloadFrame({r}), ServiceFrame({r})
  PROVE  Frame({r})
BY Zenon DEF Frame, Others

LEMMA SameWorkloads ==
  ASSUME TypeOK, UidInv, NEW r \in Requests, UNCHANGED <<workloads, fresh>>
  PROVE  WorkloadFrame({r})
BY Zenon DEF WorkloadFrame, UidInv, Alive

LEMMA SameServices ==
  ASSUME NEW r \in Requests, UNCHANGED services
  PROVE  ServiceFrame({r})
BY Zenon DEF ServiceFrame

LEMMA ReturnKeeps ==
  ASSUME NEW r \in Requests, NEW res, Returns(r, res)
  PROVE  Others(r) /\ Keeps(r)
BY Zenon DEF Returns, Keeps, Progress, AppOf, NameOf, ClaimOf, AliasOf, Works, HasUid,
       HoldsLock, InFlight, Pc

\* The steps that only read.
Local(r) ==
    \/ \E n \in Names, A \in SUBSET Names : CallCreate(r, n, A)
    \/ \E o \in Ops, u \in Uids, n \in Names : CallOnContainer(r, o, u, n)
    \/ TakeNameMu(r) \/ CheckWorkloads(r) \/ CheckService(r) \/ ChooseObjectName(r)
    \/ AliasesApplied(r) \/ RmStopped(r) \/ Abort(r)

LEMMA LocalKeeps ==
  ASSUME OneProcess, IInv, NEW r \in Requests, Local(r)
  PROVE  Others(r) /\ Keeps(r) /\ UNCHANGED <<workloads, services, fresh>>
<1> USE DEF Pc, Op, Uid, InFlight
<1>1. UNCHANGED <<workloads, services, fresh>>
  BY Zenon DEF Local, CallCreate, CallOnContainer, TakeNameMu, CheckWorkloads, CheckService,
         ChooseObjectName, AliasesApplied, RmStopped, Abort
<1>2. TypeOK /\ StepOf(r) /\ AppOf(r) /\ NameOf(r) /\ ClaimOf(r) /\ AliasOf(r)
  BY Zenon DEF IInv, StepInv, AppInv, CallInv
<1>3. \A u : Alive(u)' <=> Alive(u)
  BY <1>1, Zenon DEF Alive
<1>4. \A n, u : OwnedBy(n, u)' <=> OwnedBy(n, u)
  BY <1>1, Zenon DEF OwnedBy
<1>5. ASSUME NEW n \in Names, NEW A \in SUBSET Names, CallCreate(r, n, A)
      PROVE  Others(r) /\ Keeps(r)
  BY <1>2, <1>5, CallCreateMoves
    , Zenon DEF Keeps, Progress, AppOf, NameOf, ClaimOf, AliasOf,
     Works, HasUid, HoldsLock
<1>6. ASSUME NEW o \in Ops, NEW u \in Uids, NEW n \in Names, CallOnContainer(r, o, u, n)
      PROVE  Others(r) /\ Keeps(r)
  <2>1. Alive(u) /\ u \notin fresh
    BY <1>6, Zenon DEF CallOnContainer, IInv, UidInv
  <2>2. Progress(r)
    BY <1>2, <1>6, <2>1, CallOnContainerMoves, SMTT(60) DEF Progress, HasUid, HoldsLock
  <2>3. /\ Others(r) /\ Pc(r)' = (IF o = "rm" THEN "delete" ELSE "mu")
        /\ Op(r)' = o /\ Uid(r)' = u /\ req'[r].app = workloads[u].app
        /\ req'[r].name = (IF o = "rename" THEN n ELSE workloads[u].name)
    BY <1>2, <1>6, CallOnContainerMoves, SMTT(60)
  <2>4. AppOf(r)' /\ NameOf(r)' /\ ClaimOf(r)' /\ AliasOf(r)'
    BY <1>1, <2>3, Zenon DEF AppOf, NameOf, ClaimOf, AliasOf
  <2> QED
    BY <2>2, <2>3, <2>4, Zenon DEF Keeps
<1>7. CASE TakeNameMu(r)
  <2>1. \A s \in Requests : ~HoldsNameMu(s)
    BY <1>2, <1>7, ZenonT(30) DEF TakeNameMu, OneProcess, SameProcess, TypeOK, Request
  <2> DEFINE pc == CASE Op(r) \in {"create", "rename"} -> "check"
                     [] Op(r) = "rm" -> "services"
                     [] Op(r) = "start" /\ req[r].aliases = {} -> "scale"
                     [] OTHER -> "aliasDrop"
  <2>2. Goto(r, pc) /\ Pc(r) = "mu"
    BY <1>7, Zenon DEF TakeNameMu
  <2>3. \/ Op(r) \in {"create", "rename"} /\ pc = "check"
        \/ Op(r) = "rm" /\ pc = "services"
        \/ Op(r) = "start" /\ pc = "scale" /\ req[r].aliases = {}
        \/ Op(r) \notin {"create", "rename", "rm"} /\ pc = "aliasDrop"
    BY Zenon
  <2> HIDE DEF pc
  <2>4. Progress(r)
    BY <1>2, <2>1, <2>2, <2>3, GotoMoves
      , Zenon DEF Progress, HasUid, HoldsLock, Creating, MovesOn, Moves
  <2>5. AppOf(r)' /\ NameOf(r)'
    BY <1>1, <1>2, <1>3, <2>2, <2>3, GotoMoves
      , Zenon DEF AppOf, NameOf, Works, HasUid, HoldsLock, MovesOn, Moves
  <2>6. ClaimOf(r)' /\ AliasOf(r)'
    BY <1>1, <1>2, <2>2, <2>3, GotoMoves, Zenon DEF ClaimOf, AliasOf, MovesOn, Moves
  <2>7. Others(r)
    BY <1>2, <2>2, GotoMoves, Zenon DEF MovesOn, Moves
  <2> QED
    BY <1>1, <2>4, <2>5, <2>6, <2>7, Zenon DEF Keeps
<1>8. ASSUME NEW pc \in {"getService", "object", "reserve"}, Goto(r, pc),
             Pc(r) \in {"check", "getService"}, pc = "object" => Op(r) = "create"
      PROVE  Others(r) /\ Keeps(r)
  <2>1. MovesOn(r, pc) /\ Op(r) \in {"create", "rename"}
    BY <1>2, <1>8, GotoMoves, Zenon DEF StepOf
  <2>2. /\ Others(r) /\ Pc(r)' = pc /\ Op(r)' = Op(r) /\ Uid(r)' = Uid(r)
        /\ req'[r].app = req[r].app
    BY <2>1, Zenon DEF MovesOn, Moves
  <2>3. Progress(r)
    BY <1>8, <2>2, Zenon DEF Progress, HasUid, HoldsLock, Creating
  <2>4. AppOf(r)'
    BY <1>1, <1>2, <1>3, <1>8, <2>2, Zenon DEF AppOf, Works, HasUid, HoldsLock
  <2>5. NameOf(r)' /\ ClaimOf(r)' /\ AliasOf(r)'
    BY <1>8, <2>1, <2>2, Zenon DEF NameOf, ClaimOf, AliasOf
  <2> QED
    BY <2>2, <2>3, <2>4, <2>5, Zenon DEF Keeps
<1>9. CASE CheckWorkloads(r) \/ CheckService(r)
  BY <1>1, <1>2, <1>8, <1>9, ReturnMoves, ReturnKeeps
    , Zenon DEF CheckWorkloads, CheckService
<1>10. CASE ChooseObjectName(r)
  <2>1. Op(r) = "create" /\ req[r].name \in Names
    BY <1>2, <1>10, Zenon DEF ChooseObjectName, StepOf
  <2>2. Others(r) /\ Pc(r)' = "workload" /\ Op(r)' = "create"
    BY <1>2, <1>10, <2>1, ObjectMoves, Zenon DEF Moves
  <2> QED
    BY <1>1, <2>2, Zenon
       DEF Keeps, Progress, AppOf, NameOf, ClaimOf, AliasOf, Works, HasUid, HoldsLock
<1>11. CASE AliasesApplied(r)
  <2>1. PICK pc \in {"stale", "scale", "annotate"} :
           Goto(r, pc) /\ (pc = "stale" <=> Op(r) = "rename")
    BY <1>11, Zenon DEF AliasesApplied
  <2>2. Pc(r) = "aliasApply" /\ req[r].todo = {} /\ Op(r) # "create"
    BY <1>2, <1>11, Zenon DEF AliasesApplied, StepOf
  <2>3. Progress(r)
    BY <1>2, <2>1, <2>2, GotoMoves
      , Zenon DEF Progress, HasUid, HoldsLock, Creating, MovesOn, Moves
  <2>4. Works(r)' <=> Works(r)
    BY <1>2, <1>3, <2>1, <2>2, GotoMoves
      , Zenon DEF Works, HasUid, HoldsLock, MovesOn, Moves
  <2>5. AppOf(r)' /\ NameOf(r)'
    BY <1>1, <1>2, <2>1, <2>2, <2>4, GotoMoves
      , Zenon DEF AppOf, NameOf, MovesOn, Moves
  <2>6. ClaimOf(r)'
    BY <1>1, <1>2, <1>4, <2>1, <2>2, <2>4, GotoMoves
      , Zenon DEF ClaimOf, MovesOn, Moves
  <2>7. AliasOf(r)'
    BY <1>1, <1>2, <1>4, <2>1, <2>2, <2>4, GotoMoves
      , Zenon DEF AliasOf, MovesOn, Moves
  <2>8. Others(r)
    BY <1>2, <2>1, GotoMoves, Zenon DEF MovesOn, Moves
  <2> QED
    BY <1>1, <2>3, <2>5, <2>6, <2>7, <2>8, Zenon DEF Keeps
<1>12. CASE RmStopped(r)
  <2>1. MovesOn(r, "mu") /\ Pc(r) = "wait" /\ Op(r) = "rm"
    BY <1>2, <1>12, GotoMoves, Zenon DEF RmStopped, StepOf
  <2>2. Others(r) /\ Progress(r) /\ AppOf(r)'
    BY <1>1, <1>2, <1>3, <2>1
      , Zenon DEF Progress, AppOf, Works, HasUid, HoldsLock, Creating, MovesOn, Moves
  <2>3. NameOf(r)'
    BY <1>2, <1>3, <2>1, Zenon DEF NameOf, Works, HasUid, HoldsLock, MovesOn, Moves
  <2>4. ClaimOf(r)' /\ AliasOf(r)'
    BY <2>1, Zenon DEF ClaimOf, AliasOf, MovesOn, Moves
  <2> QED
    BY <1>1, <2>2, <2>3, <2>4, Zenon DEF Keeps
<1>13. CASE Abort(r)
  <2>1. CASE Return(r, "error")
    BY <1>1, <1>2, <2>1, ReturnMoves, ReturnKeeps, Zenon
  <2>2. CASE Pc(r) = "dns" /\ Goto(r, "undo")
    <3>1. MovesOn(r, "undo") /\ Op(r) = "create"
      BY <1>2, <2>2, GotoMoves, Zenon DEF StepOf
    <3>2. Others(r) /\ Progress(r) /\ AppOf(r)'
      BY <1>1, <1>2, <1>3, <2>2, <3>1
        , Zenon DEF Progress, AppOf, Works, HasUid, HoldsLock, Creating, MovesOn, Moves
    <3>3. NameOf(r)' /\ ClaimOf(r)' /\ AliasOf(r)'
      BY <3>1, Zenon DEF NameOf, ClaimOf, AliasOf, MovesOn, Moves
    <3> QED
      BY <1>1, <3>2, <3>3, Zenon DEF Keeps
  <2>3. CASE Pc(r) = "commit" /\ Goto(r, "unreserve")
    <3>1. /\ MovesOn(r, "unreserve") /\ req'[r].reserved = req[r].reserved
          /\ Op(r) = "rename"
      BY <1>2, <2>3, GotoMoves, Zenon DEF StepOf
    <3>2. Others(r) /\ Progress(r) /\ AppOf(r)' /\ (Works(r)' <=> Works(r))
      BY <1>1, <1>2, <1>3, <2>3, <3>1
        , Zenon DEF Progress, AppOf, Works, HasUid, HoldsLock, Creating, MovesOn, Moves
    <3>3. NameOf(r)' /\ AliasOf(r)'
      BY <3>1, Zenon DEF NameOf, AliasOf, MovesOn, Moves
    <3>4. ClaimOf(r)'
      BY <1>1, <1>2, <2>3, <3>1, <3>2, Zenon DEF ClaimOf, MovesOn, Moves
    <3> QED
      BY <1>1, <3>2, <3>3, <3>4, Zenon DEF Keeps
  <2> QED
    BY <1>13, <2>1, <2>2, <2>3, Zenon DEF Abort
<1> QED
  BY <1>1, <1>5, <1>6, <1>7, <1>8, <1>9, <1>10, <1>11, <1>12, <1>13, Zenon DEF Local

\* What a step of r does, and that a container it works on still resolves.
Safe(r) ==
    /\ Others(r) /\ Keeps(r) /\ WorkloadFrame({r}) /\ ServiceFrame({r})
    /\ \A u \in Uids : HasUid(r) /\ Uid(r) = u /\ Alive(u)' /\ workloads'[u].created
          => OwnedBy(workloads[u].name, u)'

LEMMA LocalSafe ==
  ASSUME OneProcess, IInv, NEW r \in Requests, Local(r)
  PROVE  Safe(r)
<1>1. Others(r) /\ Keeps(r) /\ UNCHANGED <<workloads, services, fresh>>
  BY LocalKeeps, Zenon
<1>2. WorkloadFrame({r}) /\ ServiceFrame({r})
  BY <1>1, SameWorkloads, SameServices, Zenon DEF IInv
<1> QED
  BY <1>1, <1>2, Zenon DEF Safe, IInv, Resolves, Alive, OwnedBy

\* A step with containerNameMu on the Services of the workload.
Writes(r) ==
    /\ UNCHANGED <<workloads, fresh>>
    /\ \A n \in Names :
          \/ services'[n] = services[n]
          \/ /\ services[n] = NoService \/ OwnedBy(n, Uid(r))
             /\ services'[n] \in {NoService, DNSService(Uid(r), req[r].app),
                                  AliasService(Uid(r), req[r].app)}

LEMMA WritesSafe ==
  ASSUME IInv, NEW r \in Requests, Others(r), Keeps(r), HoldsNameMu(r), HasUid(r),
         Writes(r),
         \A u \in Uids : u = Uid(r) /\ Works(r) /\ workloads[u].created
            => OwnedBy(workloads[u].name, u)'
  PROVE  Safe(r)
<1>1. WorkloadFrame({r})
  BY SameWorkloads, Zenon DEF IInv, Writes
<1>2. ServiceFrame({r})
  BY Zenon DEF ServiceFrame, Writes
<1>3. ASSUME NEW u \in Uids, Uid(r) = u, Alive(u)', workloads'[u].created
      PROVE  OwnedBy(workloads[u].name, u)'
  BY <1>3, Zenon DEF Writes, Works, Alive
<1> QED
  BY <1>1, <1>2, <1>3, Zenon DEF Safe

LEMMA OnKeeps ==
  ASSUME NEW r \in Requests, StepOf(r), AppOf(r), NEW pc, MovesOn(r, pc), HasUid(r),
         UNCHANGED workloads, Pc(r) \notin {"mu", "delete", "wait"},
         pc \notin {"idle", "done", "mu", "delete", "wait"},
         pc \in {"dns", "publish", "undo"} => Creating(r)
  PROVE  /\ Others(r) /\ Progress(r) /\ AppOf(r)'
         /\ Pc(r)' = pc /\ Op(r)' = Op(r) /\ Uid(r)' = Uid(r)
         /\ req'[r].name = req[r].name /\ req'[r].aliases = req[r].aliases
         /\ Works(r)' => Works(r)
<1>1. /\ Others(r) /\ Pc(r)' = pc /\ Op(r)' = Op(r) /\ Uid(r)' = Uid(r)
      /\ req'[r].name = req[r].name /\ req'[r].aliases = req[r].aliases
      /\ req'[r].app = req[r].app
  BY Zenon DEF MovesOn, Moves, Pc, Op, Uid
<1>2. InFlight(r)' /\ (HoldsLock(r)' => HoldsLock(r)) /\ (Creating(r)' => Creating(r))
  BY <1>1, Zenon DEF InFlight, HoldsLock, Creating, HasUid
<1>3. Progress(r)
  BY <1>1, <1>2, Zenon DEF Progress
<1>4. Works(r)' => Works(r)
  BY <1>1, Zenon DEF Works, Alive
<1> QED
  BY <1>1, <1>3, <1>4, Zenon DEF AppOf

LEMMA CreateServiceSafe ==
  ASSUME IInv, NEW r \in Requests, CreateService(r)
  PROVE  Safe(r)
<1>1. /\ TypeOK /\ StepOf(r) /\ AppOf(r) /\ NameOf(r) /\ Pc(r) = "dns"
      /\ UNCHANGED <<workloads, fresh>>
  BY Zenon DEF IInv, StepInv, AppInv, CallInv, CreateService
<1>2. /\ Op(r) = "create" /\ HasUid(r) /\ HoldsNameMu(r) /\ Creating(r)
      /\ req[r].name \in Names /\ Uid(r) \in Uids
  BY <1>1, Zenon DEF StepOf, HasUid, HoldsNameMu, InFlight, Creating
<1>3. CASE services[req[r].name] = NoService
  <2>1. /\ services' = [services EXCEPT ![req[r].name] = DNSService(Uid(r), req[r].app)]
        /\ MovesOn(r, "publish")
    BY <1>1, <1>3, GotoMoves, Zenon DEF CreateService
  <2>2. /\ Others(r) /\ Progress(r) /\ AppOf(r)' /\ Pc(r)' = "publish"
        /\ Op(r)' = Op(r) /\ Uid(r)' = Uid(r) /\ req'[r].name = req[r].name
        /\ Works(r)' => Works(r)
    BY <1>1, <1>2, <2>1, OnKeeps, Zenon
  <2>3. services'[req[r].name] = DNSService(Uid(r), req[r].app)
    BY <1>1, <1>2, <2>1, Zenon DEF TypeOK
  <2>4. OwnedBy(req[r].name, Uid(r))'
    <3>1. req[r].app \in Names \cup Uids
      BY <1>1, <1>2, Zenon DEF StepOf
    <3> QED
      BY <1>1, <1>2, <2>2, <2>3, <3>1, ServiceWrites, SMTT(30) DEF OwnedBy
  <2>5. NameOf(r)' /\ ClaimOf(r)' /\ AliasOf(r)'
    BY <1>1, <1>2, <2>2, <2>4, Zenon DEF NameOf, ClaimOf, AliasOf
  <2>6. Writes(r)
    BY <1>1, <1>2, <1>3, <2>1, Zenon DEF Writes, TypeOK
  <2> QED
    BY <1>1, <1>2, <2>2, <2>5, <2>6, WritesSafe, Zenon DEF Keeps, NameOf
<1>4. CASE services[req[r].name] # NoService
  <2>1. UNCHANGED services /\ MovesOn(r, "undo")
    BY <1>1, <1>4, GotoMoves, Zenon DEF CreateService
  <2>2. /\ Others(r) /\ Progress(r) /\ AppOf(r)' /\ Pc(r)' = "undo" /\ Op(r)' = Op(r)
    BY <1>1, <1>2, <2>1, OnKeeps, Zenon
  <2>3. NameOf(r)' /\ ClaimOf(r)' /\ AliasOf(r)'
    BY <1>2, <2>2, Zenon DEF NameOf, ClaimOf, AliasOf
  <2> QED
    BY <1>1, <1>2, <2>1, <2>2, <2>3, WritesSafe, Zenon DEF Keeps, NameOf, Writes
<1> QED
  BY <1>3, <1>4, Zenon

LEMMA PublishFailsSafe ==
  ASSUME IInv, NEW r \in Requests, CreatePublishFails(r)
  PROVE  Safe(r)
<1>1. /\ TypeOK /\ StepOf(r) /\ AppOf(r) /\ NameOf(r) /\ ClaimOf(r) /\ Pc(r) = "publish"
      /\ UNCHANGED <<workloads, fresh>>
  BY Zenon DEF IInv, StepInv, AppInv, CallInv, CreatePublishFails
<1>2. /\ Op(r) = "create" /\ HasUid(r) /\ HoldsNameMu(r) /\ Creating(r)
      /\ req[r].name \in Names
  BY <1>1, Zenon DEF StepOf, HasUid, HoldsNameMu, InFlight, Creating
<1>3. MovesOn(r, "undo")
  BY <1>1, GotoMoves, Zenon DEF CreatePublishFails
<1>4. Others(r) /\ Progress(r) /\ AppOf(r)' /\ Pc(r)' = "undo" /\ Op(r)' = Op(r)
  BY <1>1, <1>2, <1>3, OnKeeps, Zenon
<1>5. NameOf(r)' /\ ClaimOf(r)' /\ AliasOf(r)'
  BY <1>2, <1>4, Zenon DEF NameOf, ClaimOf, AliasOf
<1>6. Writes(r)
  BY <1>1, <1>2, Zenon DEF Writes, CreatePublishFails, ClaimOf, TypeOK
<1> QED
  BY <1>1, <1>2, <1>4, <1>5, <1>6, WritesSafe, Zenon DEF Keeps, NameOf

\* A call that has failed leaves the Services.
LEMMA FailSafe ==
  ASSUME IInv, NEW r \in Requests, NEW res, Return(r, res),
         UNCHANGED <<workloads, services, fresh>>
  PROVE  Safe(r)
<1>1. Others(r) /\ Keeps(r)
  BY ReturnMoves, ReturnKeeps, Zenon DEF IInv
<1>2. WorkloadFrame({r}) /\ ServiceFrame({r})
  BY SameWorkloads, SameServices, Zenon DEF IInv
<1> QED
  BY <1>1, <1>2, Zenon DEF Safe, IInv, Resolves, Alive, OwnedBy

\* A call at a step of rename or applyAliasServices has both locks.
LEMMA LockedSteps ==
  ASSUME IInv, NEW r \in Requests,
         Pc(r) \in {"reserve", "commit", "unreserve", "mark", "stale", "aliasDrop",
                    "aliasApply", "services"}
  PROVE  /\ TypeOK /\ StepOf(r) /\ AppOf(r) /\ NameOf(r) /\ ClaimOf(r) /\ AliasOf(r)
         /\ HasUid(r) /\ HoldsLock(r) /\ HoldsNameMu(r) /\ InFlight(r)
         /\ req[r].name \in Names /\ Uid(r) \in Uids /\ req[r].app \in Names \cup Uids
<1>1. TypeOK /\ StepOf(r) /\ AppOf(r) /\ NameOf(r) /\ ClaimOf(r) /\ AliasOf(r)
  BY Zenon DEF IInv, StepInv, AppInv, CallInv
<1> QED
  BY <1>1, Zenon DEF StepOf, HasUid, HoldsLock, HoldsNameMu, InFlight

LEMMA RenameReservesSafe ==
  ASSUME IInv, NEW r \in Requests, RenameReserves(r)
  PROVE  Safe(r)
<1>1. Pc(r) = "reserve" /\ UNCHANGED <<workloads, fresh>>
  BY Zenon DEF RenameReserves
<1>2. /\ TypeOK /\ StepOf(r) /\ AppOf(r) /\ HasUid(r) /\ HoldsNameMu(r)
      /\ req[r].name \in Names /\ Uid(r) \in Uids /\ req[r].app \in Names \cup Uids
      /\ Op(r) = "rename"
  BY <1>1, LockedSteps, Zenon DEF StepOf
<1>3. ASSUME NEW new \in BOOLEAN,
             req' = [req EXCEPT ![r] = [@ EXCEPT !.pc = "commit", !.reserved = new]]
      PROVE  /\ Others(r) /\ Progress(r) /\ AppOf(r)' /\ Pc(r)' = "commit"
             /\ Op(r)' = Op(r) /\ Uid(r)' = Uid(r) /\ req'[r].name = req[r].name
             /\ Works(r)' => Works(r)
             /\ req'[r].reserved = new /\ NameOf(r)' /\ AliasOf(r)'
  <2>1. MovesOn(r, "commit") /\ req'[r].reserved = new
    BY <1>2, <1>3, ReserveMoves, Zenon
  <2>2. /\ Others(r) /\ Progress(r) /\ AppOf(r)' /\ Pc(r)' = "commit"
        /\ Op(r)' = Op(r) /\ Uid(r)' = Uid(r) /\ req'[r].name = req[r].name
        /\ Works(r)' => Works(r)
    BY <1>1, <1>2, <2>1, OnKeeps, Zenon
  <2> QED
    BY <1>2, <2>1, <2>2, Zenon DEF NameOf, AliasOf
<1>4. CASE /\ services[req[r].name] = NoService
           /\ services' = [services EXCEPT ![req[r].name] = DNSService(Uid(r), req[r].app)]
           /\ req' = [req EXCEPT ![r] = [@ EXCEPT !.pc = "commit", !.reserved = TRUE]]
  <2>1. /\ Others(r) /\ Progress(r) /\ AppOf(r)' /\ Pc(r)' = "commit"
        /\ Op(r)' = Op(r) /\ Uid(r)' = Uid(r) /\ req'[r].name = req[r].name
        /\ Works(r)' => Works(r)
        /\ NameOf(r)' /\ AliasOf(r)'
    BY <1>3, <1>4, Zenon
  <2>2. services'[req[r].name] = DNSService(Uid(r), req[r].app)
    BY <1>2, <1>4, Zenon DEF TypeOK
  <2>3. OwnedBy(req[r].name, Uid(r))'
    BY <1>2, <2>1, <2>2, ServiceWrites, SMTT(60) DEF OwnedBy
  <2>4. Works(r) /\ workloads[Uid(r)].created =>
           /\ workloads[Uid(r)].name # req[r].name
           /\ workloads[Uid(r)].name \in Names
           /\ OwnedBy(workloads[Uid(r)].name, Uid(r))
    BY <1>2, <1>4, ZenonT(30) DEF IInv, Resolves, Works, OwnedBy, TypeOK, Workload, Alive
  <2>5. ClaimOf(r)'
    BY <1>1, <1>2, <2>1, <2>3, <2>4, Zenon DEF ClaimOf
  <2>6. Writes(r)
    BY <1>1, <1>2, <1>4, Zenon DEF Writes, TypeOK
  <2>7. ASSUME NEW u \in Uids, u = Uid(r), Works(r), workloads[u].created
        PROVE  OwnedBy(workloads[u].name, u)'
    BY <1>1, <1>2, <1>4, <2>4, <2>7, Zenon DEF OwnedBy, TypeOK
  <2> QED
    BY <1>2, <2>1, <2>5, <2>6, <2>7, WritesSafe, Zenon DEF Keeps
<1>5. CASE /\ OwnedBy(req[r].name, Uid(r)) /\ UNCHANGED services
           /\ req' = [req EXCEPT ![r] = [@ EXCEPT !.pc = "commit", !.reserved = FALSE]]
  <2>1. /\ Others(r) /\ Progress(r) /\ AppOf(r)' /\ Pc(r)' = "commit"
        /\ Op(r)' = Op(r) /\ Uid(r)' = Uid(r) /\ req'[r].name = req[r].name
        /\ ~req'[r].reserved /\ NameOf(r)' /\ AliasOf(r)'
    BY <1>3, <1>5, Zenon
  <2>2. OwnedBy(req[r].name, Uid(r))'
    BY <1>5, <2>1, Zenon DEF OwnedBy
  <2>3. ClaimOf(r)'
    BY <2>1, <2>2, Zenon DEF ClaimOf
  <2>4. ASSUME NEW u \in Uids, u = Uid(r), Works(r), workloads[u].created
        PROVE  OwnedBy(workloads[u].name, u)'
    BY <1>1, <1>5, <2>4, Zenon DEF IInv, Resolves, Works, OwnedBy
  <2> QED
    BY <1>1, <1>2, <1>5, <2>1, <2>3, <2>4, WritesSafe, Zenon DEF Keeps, Writes
<1>6. CASE Return(r, "error") /\ UNCHANGED services
  BY <1>1, <1>6, FailSafe, Zenon
<1> QED
  BY <1>4, <1>5, <1>6, Zenon DEF RenameReserves

LEMMA RenameUnreservesSafe ==
  ASSUME IInv, NEW r \in Requests, RenameUnreserves(r)
  PROVE  Safe(r)
<1>1. Pc(r) = "unreserve" /\ UNCHANGED <<workloads, fresh>>
  BY Zenon DEF RenameUnreserves
<1>2. /\ TypeOK /\ ClaimOf(r) /\ HasUid(r) /\ HoldsNameMu(r)
      /\ req[r].name \in Names /\ Uid(r) \in Uids
  BY <1>1, LockedSteps, Zenon
<1>3. Others(r) /\ Keeps(r)
  BY <1>2, ReturnMoves, ReturnKeeps, Zenon DEF RenameUnreserves
<1>4. Writes(r)
  BY <1>1, <1>2, Zenon DEF Writes, RenameUnreserves, TypeOK
<1>5. ASSUME NEW u \in Uids, u = Uid(r), Works(r), workloads[u].created
      PROVE  OwnedBy(workloads[u].name, u)'
  <2>1. OwnedBy(workloads[u].name, u) /\ workloads[u].name \in Names
    BY <1>2, <1>5, Zenon DEF IInv, Resolves, Works, TypeOK, Workload, Alive
  <2>2. req[r].reserved => workloads[u].name # req[r].name
    BY <1>1, <1>2, <1>5, Zenon DEF ClaimOf
  <2>3. services'[workloads[u].name] = services[workloads[u].name]
    BY <1>2, <2>1, <2>2, Zenon DEF RenameUnreserves, TypeOK
  <2> QED
    BY <1>1, <2>1, <2>3, Zenon DEF OwnedBy
<1> QED
  BY <1>2, <1>3, <1>4, <1>5, WritesSafe, Zenon

LEMMA RenameMarksSafe ==
  ASSUME IInv, NEW r \in Requests, RenameMarks(r)
  PROVE  Safe(r)
<1>1. Pc(r) = "mark" /\ UNCHANGED <<workloads, fresh>>
  BY Zenon DEF RenameMarks
<1>2. /\ TypeOK /\ StepOf(r) /\ AppOf(r) /\ NameOf(r) /\ HasUid(r) /\ HoldsNameMu(r)
      /\ req[r].name \in Names /\ Uid(r) \in Uids /\ req[r].app \in Names \cup Uids
      /\ Op(r) = "rename"
  BY <1>1, LockedSteps, Zenon DEF StepOf
<1>3. CASE OwnedBy(req[r].name, Uid(r))
  <2>1. /\ services' = [services EXCEPT ![req[r].name] = DNSService(Uid(r), req[r].app)]
        /\ MovesOn(r, "aliasDrop")
    BY <1>2, <1>3, GotoMoves, Zenon DEF RenameMarks
  <2>2. /\ Others(r) /\ Progress(r) /\ AppOf(r)' /\ Pc(r)' = "aliasDrop"
        /\ Op(r)' = Op(r) /\ Uid(r)' = Uid(r) /\ req'[r].name = req[r].name
        /\ Works(r)' => Works(r)
    BY <1>1, <1>2, <2>1, OnKeeps, Zenon
  <2>3. services'[req[r].name] = DNSService(Uid(r), req[r].app)
    BY <1>2, <2>1, Zenon DEF TypeOK
  <2>4. OwnedBy(req[r].name, Uid(r))'
    BY <1>2, <2>2, <2>3, ServiceWrites, SMTT(60) DEF OwnedBy
  <2>5. NameOf(r)' /\ ClaimOf(r)' /\ AliasOf(r)'
    BY <1>1, <1>2, <2>2, <2>4, Zenon DEF NameOf, ClaimOf, AliasOf
  <2>6. Writes(r)
    BY <1>1, <1>2, <1>3, <2>1, Zenon DEF Writes, TypeOK
  <2>7. ASSUME NEW u \in Uids, u = Uid(r), Works(r), workloads[u].created
        PROVE  OwnedBy(workloads[u].name, u)'
    BY <1>1, <1>2, <2>2, <2>4, <2>7, Zenon DEF NameOf, OwnedBy
  <2> QED
    BY <1>2, <2>2, <2>5, <2>6, <2>7, WritesSafe, Zenon DEF Keeps
<1>4. CASE ~OwnedBy(req[r].name, Uid(r))
  BY <1>1, <1>4, FailSafe, Zenon DEF RenameMarks
<1> QED
  BY <1>3, <1>4, Zenon

\* Some Services that the workload owns are deleted, not that of its name.
Drops(r, D) ==
    /\ UNCHANGED <<workloads, fresh>>
    /\ services' = [n \in Names |-> IF n \in D THEN NoService ELSE services[n]]
    /\ \A n \in D : OwnedBy(n, Uid(r))
    /\ Works(r) => workloads[Uid(r)].name \notin D

LEMMA DropSafe ==
  ASSUME IInv, NEW r \in Requests, HoldsNameMu(r), HasUid(r), NEW D, Drops(r, D),
         Others(r), Keeps(r)
  PROVE  Safe(r)
<1>1. Writes(r)
  BY Zenon DEF Writes, Drops
<1>2. ASSUME NEW u \in Uids, u = Uid(r), Works(r), workloads[u].created
      PROVE  OwnedBy(workloads[u].name, u)'
  <2>1. OwnedBy(workloads[u].name, u) /\ workloads[u].name \in Names
    BY <1>2, Zenon DEF IInv, Resolves, Works, TypeOK, Workload, Alive
  <2> QED
    BY <1>2, <2>1, Zenon DEF OwnedBy, Drops
<1> QED
  BY <1>1, <1>2, WritesSafe, Zenon

LEMMA RenameDropsStaleSafe ==
  ASSUME IInv, NEW r \in Requests, RenameDropsStale(r)
  PROVE  Safe(r)
<1>1. Pc(r) = "stale"
  BY Zenon DEF RenameDropsStale
<1>2. /\ TypeOK /\ NameOf(r) /\ HasUid(r) /\ HoldsNameMu(r) /\ Op(r) = "rename"
  BY <1>1, LockedSteps, Zenon DEF StepOf
<1>3. Others(r) /\ Keeps(r)
  BY <1>2, ReturnMoves, ReturnKeeps, Zenon DEF RenameDropsStale, DeleteServices
<1>4. \E D : Drops(r, D)
  BY <1>1, <1>2, Zenon DEF RenameDropsStale, DeleteServices, Drops, NameOf
<1> QED
  BY <1>2, <1>3, <1>4, DropSafe, Zenon

LEMMA RmDropsServicesSafe ==
  ASSUME IInv, NEW r \in Requests, RmDropsServices(r)
  PROVE  Safe(r)
<1>1. Pc(r) = "services"
  BY Zenon DEF RmDropsServices
<1>2. /\ TypeOK /\ NameOf(r) /\ HasUid(r) /\ HoldsNameMu(r) /\ Op(r) = "rm"
  BY <1>1, LockedSteps, Zenon DEF StepOf
<1>3. Others(r) /\ Keeps(r)
  BY <1>2, ReturnMoves, ReturnKeeps, Zenon DEF RmDropsServices, DeleteServices
<1>4. \E D : Drops(r, D)
  BY <1>1, <1>2, Zenon DEF RmDropsServices, DeleteServices, Drops, NameOf
<1> QED
  BY <1>2, <1>3, <1>4, DropSafe, Zenon

Unwanted(r) ==
    {n \in Names \ (req[r].aliases \cup {req[r].name}) :
        /\ services[n] # NoService
        /\ services[n].kind = "alias"
        /\ services[n].app = req[r].app}

LEMMA AliasDropsSafe ==
  ASSUME IInv, NEW r \in Requests, AliasDrops(r)
  PROVE  Safe(r)
<1>1. Pc(r) = "aliasDrop" /\ UNCHANGED <<workloads, fresh>>
  BY Zenon DEF AliasDrops
<1>2. /\ TypeOK /\ StepOf(r) /\ AppOf(r) /\ NameOf(r) /\ ClaimOf(r) /\ HasUid(r)
      /\ HoldsNameMu(r) /\ InFlight(r) /\ req[r].name \in Names
      /\ Op(r) \in {"rename", "connect", "disconnect", "start"}
  BY <1>1, LockedSteps, Zenon DEF StepOf
<1>3. Works(r) => workloads[Uid(r)].name = req[r].name
  BY <1>1, <1>2, Zenon DEF NameOf
<1>4. ASSUME NEW D \in SUBSET Unwanted(r), \A n \in D : OwnedBy(n, Uid(r)),
             services' = [n \in Names |-> IF n \in D THEN NoService ELSE services[n]]
      PROVE  Drops(r, D)
  BY <1>1, <1>3, <1>4, Zenon DEF Drops, Unwanted
<1>5. CASE Return(r, "error")
  <2>1. Others(r) /\ Keeps(r)
    BY <1>2, <1>5, ReturnMoves, ReturnKeeps, Zenon
  <2>2. \E D \in SUBSET Unwanted(r) :
           /\ \A n \in D : OwnedBy(n, Uid(r))
           /\ services' = [n \in Names |-> IF n \in D THEN NoService ELSE services[n]]
    BY Zenon DEF AliasDrops, DeleteServices, Unwanted
  <2> QED
    BY <1>2, <1>4, <2>1, <2>2, DropSafe, Zenon
<1>6. CASE /\ \A n \in Unwanted(r) : OwnedBy(n, Uid(r))
           /\ services' = [n \in Names |-> IF n \in Unwanted(r) THEN NoService ELSE services[n]]
           /\ req' = [req EXCEPT ![r] = [@ EXCEPT !.pc = "aliasApply", !.todo = req[r].aliases]]
  <2>1. MovesOn(r, "aliasApply") /\ req'[r].todo = req[r].aliases
    BY <1>2, <1>6, ApplyMoves, Zenon
  <2>2. /\ Others(r) /\ Progress(r) /\ AppOf(r)' /\ Pc(r)' = "aliasApply"
        /\ Op(r)' = Op(r) /\ Uid(r)' = Uid(r) /\ req'[r].name = req[r].name
        /\ req'[r].aliases = req[r].aliases /\ (Works(r)' => Works(r)) /\ InFlight(r)'
    BY <1>1, <1>2, <2>1, OnKeeps, SMTT(60) DEF InFlight
  <2>3. NameOf(r)'
    BY <1>1, <1>2, <1>3, <2>2, Zenon DEF NameOf
  <2>4. services'[req[r].name] = services[req[r].name]
    BY <1>2, <1>6, Zenon DEF Unwanted
  <2>5. ClaimOf(r)'
    BY <1>1, <1>2, <2>2, <2>4, Zenon DEF ClaimOf, OwnedBy
  <2>6. ASSUME Works(r), NEW n \in Names \ {req[r].name}, OwnedBy(n, Uid(r))',
               services'[n].kind = "alias"
        PROVE  n \in req[r].aliases
    <3>1. services'[n] = services[n] /\ n \notin Unwanted(r) /\ OwnedBy(n, Uid(r))
      BY <1>6, <2>2, <2>6, Zenon DEF OwnedBy
    <3>2. services[n].app = req[r].app
      BY <1>2, <2>6, <3>1, Zenon DEF IInv, AppInv, AppOf, Works, OwnedBy
    <3> QED
      BY <2>6, <3>1, <3>2, Zenon DEF Unwanted, OwnedBy
  <2>7. AliasOf(r)'
    BY <2>1, <2>2, <2>6, Zenon DEF AliasOf
  <2>8. Drops(r, Unwanted(r))
    BY <1>4, <1>6, Zenon
  <2> QED
    BY <1>2, <2>2, <2>3, <2>5, <2>7, <2>8, DropSafe, Zenon DEF Keeps
<1> QED
  BY <1>5, <1>6, Zenon DEF AliasDrops, DeleteServices, Unwanted

LEMMA AliasAppliesSafe ==
  ASSUME IInv, NEW r \in Requests, NEW a \in Names, AliasApplies(r, a)
  PROVE  Safe(r)
<1>1. Pc(r) = "aliasApply" /\ a \in req[r].todo /\ UNCHANGED <<workloads, fresh>>
  BY Zenon DEF AliasApplies
<1>2. /\ TypeOK /\ StepOf(r) /\ AppOf(r) /\ NameOf(r) /\ ClaimOf(r) /\ AliasOf(r)
      /\ HasUid(r) /\ HoldsNameMu(r) /\ InFlight(r) /\ req[r].name \in Names
      /\ Uid(r) \in Uids /\ req[r].app \in Names \cup Uids
      /\ Op(r) \in {"rename", "connect", "disconnect", "start"}
      /\ req[r].todo \subseteq req[r].aliases /\ req[r].aliases \subseteq Names
  <2>1. req[r].aliases \subseteq Names
    BY <1>1, LockedSteps, Zenon DEF TypeOK, Request
  <2> QED
    BY <1>1, <2>1, LockedSteps, Zenon DEF StepOf
<1>3. CASE Return(r, "error") /\ UNCHANGED services
  BY <1>1, <1>3, FailSafe, Zenon
<1>4. ASSUME req' = [req EXCEPT ![r].todo = @ \ {a}],
             \/ OwnedBy(a, Uid(r)) /\ UNCHANGED services
             \/ /\ services[a] = NoService \/ OwnedBy(a, Uid(r))
                /\ services' = [services EXCEPT ![a] = AliasService(Uid(r), req[r].app)]
      PROVE  Safe(r)
  <2>1. MovesOn(r, "aliasApply") /\ req'[r].todo = req[r].todo \ {a}
    BY <1>1, <1>2, <1>4, AppliedMoves, Zenon
  <2>2. /\ Others(r) /\ Progress(r) /\ AppOf(r)' /\ Pc(r)' = "aliasApply"
        /\ Op(r)' = Op(r) /\ Uid(r)' = Uid(r) /\ req'[r].name = req[r].name
        /\ req'[r].aliases = req[r].aliases /\ (Works(r)' => Works(r)) /\ InFlight(r)'
    BY <1>1, <1>2, <2>1, OnKeeps, Zenon DEF InFlight
  <2>3. NameOf(r)'
    BY <1>1, <1>2, <2>2, Zenon DEF NameOf
  <2>4. OwnedBy(a, Uid(r))' /\ \A n \in Names \ {a} : services'[n] = services[n]
    <3>1. CASE UNCHANGED services
      BY <1>2, <1>4, <2>2, <3>1, ServiceWrites, SMTT(30) DEF OwnedBy, TypeOK
    <3>2. CASE services' = [services EXCEPT ![a] = AliasService(Uid(r), req[r].app)]
      <4>1. services'[a] = AliasService(Uid(r), req[r].app)
        BY <1>2, <3>2, Zenon DEF TypeOK
      <4>2. /\ AliasService(Uid(r), req[r].app) # NoService
            /\ AliasService(Uid(r), req[r].app).owner = Uid(r)
        BY <1>2, ServiceWrites, Zenon
      <4>3. OwnedBy(a, Uid(r))'
        BY <2>2, <4>1, <4>2, Zenon DEF OwnedBy
      <4>4. \A n \in Names \ {a} : services'[n] = services[n]
        BY <1>2, <3>2, Zenon DEF TypeOK
      <4> QED
        BY <4>3, <4>4, Zenon
    <3> QED
      BY <1>4, <3>1, <3>2, Zenon
  <2>5. \A n \in Names : OwnedBy(n, Uid(r)) => OwnedBy(n, Uid(r))'
    BY <2>2, <2>4, Zenon DEF OwnedBy
  <2>6. ClaimOf(r)'
    BY <1>1, <1>2, <2>2, <2>5, Zenon DEF ClaimOf
  <2>7. ASSUME Works(r), NEW n \in req[r].aliases \ req'[r].todo
        PROVE  OwnedBy(n, Uid(r))'
    BY <1>1, <1>2, <2>1, <2>4, <2>5, <2>7, Zenon DEF AliasOf
  <2>8. ASSUME Works(r), NEW n \in Names \ {req[r].name}, OwnedBy(n, Uid(r))',
               services'[n].kind = "alias"
        PROVE  n \in req[r].aliases
    BY <1>1, <1>2, <2>2, <2>4, <2>8, Zenon DEF AliasOf, OwnedBy
  <2>9. AliasOf(r)'
    BY <2>2, <2>7, <2>8, Zenon DEF AliasOf
  <2>10. Writes(r)
    BY <1>1, <1>2, <1>4, Zenon DEF Writes, TypeOK
  <2>11. ASSUME NEW u \in Uids, u = Uid(r), Works(r), workloads[u].created
         PROVE  OwnedBy(workloads[u].name, u)'
    <3>1. OwnedBy(workloads[u].name, u) /\ workloads[u].name \in Names
      BY <1>2, <2>11, Zenon DEF IInv, Resolves, Works, TypeOK, Workload, Alive
    <3> QED
      BY <1>1, <2>2, <2>5, <2>11, <3>1, Zenon DEF OwnedBy
  <2> QED
    BY <1>2, <2>2, <2>3, <2>6, <2>9, <2>10, <2>11, WritesSafe, Zenon DEF Keeps
<1> QED
  BY <1>3, <1>4, Zenon DEF AliasApplies

\* The workload of the call is gone, or keeps all but one field.
Updates(r) ==
    /\ UNCHANGED <<services, fresh>>
    /\ \A u \in Uids \ {Uid(r)} : workloads'[u] = workloads[u]
    /\ Alive(Uid(r)) \/ workloads'[Uid(r)] = NoWorkload

LEMMA UpdatesSafe ==
  ASSUME IInv, NEW r \in Requests, Others(r), Keeps(r), HasUid(r), Updates(r),
         NEW u \in Uids, u = Uid(r),
         Alive(u)' =>
            /\ Alive(u) /\ workloads'[u].app = workloads[u].app
            /\ \/ workloads'[u].name = workloads[u].name
               \/ HoldsLock(r) /\ HoldsNameMu(r)
            /\ \/ workloads'[u].created = workloads[u].created
               \/ Pc(r) = "publish"
            /\ workloads'[u].created => OwnedBy(workloads'[u].name, u)
  PROVE  Safe(r)
<1>1. u \notin fresh /\ fresh \subseteq Uids /\ \A v \in fresh : ~Alive(v)
  BY Zenon DEF IInv, UidInv, TypeOK
<1>2. WorkloadFrame({r})
  BY <1>1, Zenon DEF WorkloadFrame, Updates, Alive
<1>3. ServiceFrame({r})
  BY SameServices, Zenon DEF Updates
<1> QED
  BY <1>2, <1>3, Zenon DEF Safe, Updates, OwnedBy, Alive

\* What a write of one field of a workload changes.
LEMMA WorkloadFields ==
  ASSUME TypeOK, NEW u \in Uids, Alive(u)
  PROVE  /\ workloads' = [workloads EXCEPT ![u].created = TRUE] =>
               /\ \A v \in Uids \ {u} : workloads'[v] = workloads[v]
               /\ workloads'[u].app = workloads[u].app
               /\ workloads'[u].name = workloads[u].name
         /\ workloads' = [workloads EXCEPT ![u].running = TRUE] =>
               /\ \A v \in Uids \ {u} : workloads'[v] = workloads[v]
               /\ workloads'[u].app = workloads[u].app
               /\ workloads'[u].name = workloads[u].name
               /\ workloads'[u].created = workloads[u].created
         /\ \A n : workloads' = [workloads EXCEPT ![u].name = n] =>
               /\ \A v \in Uids \ {u} : workloads'[v] = workloads[v]
               /\ workloads'[u].app = workloads[u].app
               /\ workloads'[u].name = n
               /\ workloads'[u].created = workloads[u].created
         /\ \A A : workloads' = [workloads EXCEPT ![u].aliases = A] =>
               /\ \A v \in Uids \ {u} : workloads'[v] = workloads[v]
               /\ workloads'[u].app = workloads[u].app
               /\ workloads'[u].name = workloads[u].name
               /\ workloads'[u].created = workloads[u].created
<1>1. workloads[u] \in Workload /\ workloads \in [Uids -> Workload \cup {NoWorkload}]
  BY Zenon DEF TypeOK, Alive
<1> QED
  BY <1>1, ZenonT(30) DEF Workload

LEMMA CreateWorkloadSafe ==
  ASSUME IInv, NEW r \in Requests, CreateWorkload(r)
  PROVE  Safe(r)
<1>1. TypeOK /\ StepOf(r)
  BY Zenon DEF IInv, StepInv
<1>2. CASE Returns(r, "error") /\ UNCHANGED <<workloads, services, fresh>>
  <2>1. Others(r) /\ Keeps(r)
    BY <1>2, ReturnKeeps, Zenon
  <2>2. WorkloadFrame({r}) /\ ServiceFrame({r})
    BY <1>2, SameWorkloads, SameServices, Zenon DEF IInv
  <2> QED
    BY <1>2, <2>1, <2>2, Zenon DEF Safe, IInv, Resolves, Alive, OwnedBy
<1>3. ASSUME NEW u \in Uids, Creates(r, u) PROVE Safe(r)
  <2>1. /\ Pc(r) = "workload" /\ Op(r) = "create" /\ ~HasUid(r) /\ u \in fresh
        /\ fresh' = fresh \ {u} /\ UNCHANGED services
    BY <1>1, <1>3, Zenon DEF Creates, StepOf, HasUid, HoldsLock
  <2>2. /\ Others(r) /\ Pc(r)' = "dns" /\ Op(r)' = "create" /\ Uid(r)' = u
        /\ req'[r].name = req[r].name
    BY <1>3, <2>1, Zenon DEF Creates, Moves, Pc, Op, Uid
  <2>3. /\ \A v \in Uids \ {u} : workloads'[v] = workloads[v]
        /\ workloads'[u].app = req'[r].app /\ workloads'[u].name = req[r].name
        /\ ~workloads'[u].created
    BY <1>1, <1>3, Zenon DEF Creates, TypeOK
  <2>4. Progress(r)
    BY <2>1, <2>2, Zenon DEF Progress, HoldsLock
  <2>5. AppOf(r)' /\ NameOf(r)' /\ ClaimOf(r)' /\ AliasOf(r)'
    BY <2>2, <2>3, Zenon DEF AppOf, NameOf, ClaimOf, AliasOf
  <2>6. WorkloadFrame({r})
    <3>1. fresh \subseteq Uids /\ \A v \in fresh : ~Alive(v)
      BY Zenon DEF IInv, UidInv, TypeOK
    <3> QED
      BY <2>1, <2>3, <3>1, Zenon DEF WorkloadFrame, Alive
  <2>7. ServiceFrame({r})
    BY <2>1, SameServices, Zenon
  <2> QED
    BY <2>1, <2>2, <2>4, <2>5, <2>6, <2>7, Zenon DEF Safe, Keeps
<1> QED
  BY <1>1, <1>2, <1>3, CreateMoves, Zenon

LEMMA CreateReturnsSafe ==
  ASSUME IInv, NEW r \in Requests, CreateReturns(r)
  PROVE  Safe(r)
<1>1. /\ TypeOK /\ StepOf(r) /\ NameOf(r) /\ ClaimOf(r) /\ Pc(r) = "publish"
      /\ Alive(Uid(r)) /\ UNCHANGED <<services, fresh>>
  BY Zenon DEF IInv, StepInv, CallInv, CreateReturns
<1>2. HasUid(r) /\ Works(r) /\ Uid(r) \in Uids
  BY <1>1, Zenon DEF StepOf, HasUid, Works
<1>3. Others(r) /\ Keeps(r)
  BY <1>1, ReturnMoves, ReturnKeeps, Zenon DEF CreateReturns
<1>4. /\ \A v \in Uids \ {Uid(r)} : workloads'[v] = workloads[v]
      /\ workloads'[Uid(r)].app = workloads[Uid(r)].app
      /\ workloads'[Uid(r)].name = workloads[Uid(r)].name
  BY <1>1, <1>2, WorkloadFields, Zenon DEF CreateReturns
<1>5. OwnedBy(workloads[Uid(r)].name, Uid(r))
  BY <1>1, <1>2, Zenon DEF NameOf, ClaimOf
<1> QED
  BY <1>1, <1>2, <1>3, <1>4, <1>5, UpdatesSafe, Zenon DEF Updates

LEMMA CreateUndoSafe ==
  ASSUME IInv, NEW r \in Requests, CreateUndo(r)
  PROVE  Safe(r)
<1>1. /\ TypeOK /\ StepOf(r) /\ Pc(r) = "undo" /\ UNCHANGED <<services, fresh>>
  BY Zenon DEF IInv, StepInv, CreateUndo
<1>2. HasUid(r) /\ Uid(r) \in Uids
  BY <1>1, Zenon DEF StepOf, HasUid
<1>3. CASE UNCHANGED workloads
  BY <1>1, <1>3, FailSafe, Zenon DEF CreateUndo
<1>4. CASE workloads' = [workloads EXCEPT ![Uid(r)] = NoWorkload]
  <2>1. Others(r) /\ Keeps(r)
    BY <1>1, ReturnMoves, ReturnKeeps, Zenon DEF CreateUndo
  <2>2. Updates(r) /\ workloads'[Uid(r)] = NoWorkload
    BY <1>1, <1>2, <1>4, Zenon DEF Updates, TypeOK
  <2> QED
    BY <1>2, <2>1, <2>2, UpdatesSafe, Zenon DEF Alive
<1> QED
  BY <1>3, <1>4, Zenon DEF CreateUndo

LEMMA RmDeletesSafe ==
  ASSUME IInv, NEW r \in Requests, RmDeletes(r)
  PROVE  Safe(r)
<1>1. /\ TypeOK /\ StepOf(r) /\ Pc(r) = "delete" /\ UNCHANGED <<services, fresh>>
      /\ workloads' = [workloads EXCEPT ![Uid(r)] = NoWorkload] /\ MovesOn(r, "wait")
  BY GotoMoves, Zenon DEF IInv, StepInv, RmDeletes
<1>2. HasUid(r) /\ Uid(r) \in Uids /\ HoldsLock(r) /\ ~Creating(r)
  BY <1>1, Zenon DEF StepOf, HasUid, HoldsLock, InFlight, Creating
<1>3. /\ Others(r) /\ Pc(r)' = "wait" /\ Op(r)' = Op(r) /\ Uid(r)' = Uid(r)
  BY <1>1, Zenon DEF MovesOn, Moves, Pc, Op, Uid
<1>4. Updates(r) /\ workloads'[Uid(r)] = NoWorkload
  BY <1>1, <1>2, Zenon DEF Updates, TypeOK
<1>5. ~Works(r)'
  BY <1>3, <1>4, Zenon DEF Works, Alive
<1>6. Keeps(r)
  BY <1>2, <1>3, <1>5, Zenon
     DEF Keeps, Progress, Creating, AppOf, NameOf, ClaimOf, AliasOf
<1> QED
  BY <1>2, <1>3, <1>4, <1>6, UpdatesSafe, Zenon DEF Alive

LEMMA RenameCommitsSafe ==
  ASSUME IInv, NEW r \in Requests, RenameCommits(r)
  PROVE  Safe(r)
<1>1. Pc(r) = "commit" /\ UNCHANGED <<services, fresh>>
  BY Zenon DEF RenameCommits
<1>2. /\ TypeOK /\ StepOf(r) /\ AppOf(r) /\ ClaimOf(r) /\ HasUid(r) /\ HoldsLock(r)
      /\ HoldsNameMu(r) /\ req[r].name \in Names /\ Uid(r) \in Uids /\ Op(r) = "rename"
  BY <1>1, LockedSteps, Zenon DEF StepOf
<1>3. CASE Alive(Uid(r)) /\ workloads[Uid(r)].name \in {req[r].name, req[r].old}
  <2>1. workloads' = [workloads EXCEPT ![Uid(r)].name = req[r].name] /\ MovesOn(r, "mark")
    BY <1>2, <1>3, GotoMoves, Zenon DEF RenameCommits
  <2>2. /\ \A v \in Uids \ {Uid(r)} : workloads'[v] = workloads[v]
        /\ workloads'[Uid(r)].app = workloads[Uid(r)].app
        /\ workloads'[Uid(r)].name = req[r].name
        /\ workloads'[Uid(r)].created = workloads[Uid(r)].created
    BY <1>2, <1>3, <2>1, WorkloadFields, Zenon
  <2>3. /\ Others(r) /\ Pc(r)' = "mark" /\ Op(r)' = Op(r) /\ Uid(r)' = Uid(r)
        /\ req'[r].name = req[r].name /\ req'[r].app = req[r].app
    BY <2>1, Zenon DEF MovesOn, Moves, Pc, Op, Uid
  <2>4. Works(r) /\ OwnedBy(req[r].name, Uid(r)) /\ OwnedBy(req[r].name, Uid(r))'
    BY <1>1, <1>2, <1>3, <2>3, Zenon DEF Works, ClaimOf, OwnedBy
  <2>5. Progress(r) /\ AppOf(r)'
    BY <1>1, <1>2, <2>2, <2>3, <2>4, Zenon DEF Progress, AppOf, Creating
  <2>6. NameOf(r)' /\ ClaimOf(r)' /\ AliasOf(r)'
    BY <1>2, <2>2, <2>3, <2>4, Zenon DEF NameOf, ClaimOf, AliasOf
  <2> QED
    BY <1>1, <1>2, <1>3, <2>2, <2>3, <2>4, <2>5, <2>6, UpdatesSafe, Zenon
       DEF Keeps, Updates
<1>4. CASE UNCHANGED workloads /\ Goto(r, "unreserve")
  <2>1. MovesOn(r, "unreserve") /\ req'[r].reserved = req[r].reserved
    BY <1>2, <1>4, GotoMoves, Zenon
  <2>2. /\ Others(r) /\ Progress(r) /\ AppOf(r)' /\ Pc(r)' = "unreserve"
        /\ Op(r)' = Op(r) /\ Uid(r)' = Uid(r) /\ req'[r].name = req[r].name
        /\ Works(r)' => Works(r)
    BY <1>1, <1>2, <1>4, <2>1, OnKeeps, Zenon
  <2>3. NameOf(r)' /\ ClaimOf(r)' /\ AliasOf(r)'
    BY <1>1, <1>2, <1>4, <2>1, <2>2, Zenon DEF NameOf, ClaimOf, AliasOf
  <2>4. WorkloadFrame({r}) /\ ServiceFrame({r})
    BY <1>1, <1>4, SameWorkloads, SameServices, Zenon DEF IInv
  <2> QED
    BY <1>1, <1>4, <2>2, <2>3, <2>4
      , Zenon DEF Keeps, Safe, IInv, Resolves, Alive, OwnedBy
<1> QED
  BY <1>3, <1>4, Zenon DEF RenameCommits

\* setContainerAliases and the scale of a start change other fields.
LEMMA StoreSafe ==
  ASSUME IInv, NEW r \in Requests, StoreAliases(r) \/ StartScales(r)
  PROVE  Safe(r)
<1>1. /\ TypeOK /\ StepOf(r) /\ Pc(r) \in {"annotate", "scale"}
      /\ UNCHANGED <<services, fresh>>
  BY Zenon DEF IInv, StepInv, StoreAliases, StartScales
<1>2. HasUid(r) /\ Uid(r) \in Uids
  BY <1>1, Zenon DEF StepOf, HasUid, HoldsLock, InFlight
<1>3. CASE Alive(Uid(r))
  <2>1. Others(r) /\ Keeps(r)
    BY <1>1, <1>3, ReturnMoves, ReturnKeeps, Zenon DEF StoreAliases, StartScales
  <2>2. /\ \A v \in Uids \ {Uid(r)} : workloads'[v] = workloads[v]
        /\ workloads'[Uid(r)].app = workloads[Uid(r)].app
        /\ workloads'[Uid(r)].name = workloads[Uid(r)].name
        /\ workloads'[Uid(r)].created = workloads[Uid(r)].created
    BY <1>1, <1>2, <1>3, WorkloadFields, Zenon DEF StoreAliases, StartScales
  <2>3. workloads[Uid(r)].created => OwnedBy(workloads[Uid(r)].name, Uid(r))
    BY <1>2, <1>3, Zenon DEF IInv, Resolves
  <2> QED
    BY <1>1, <1>2, <1>3, <2>1, <2>2, <2>3, UpdatesSafe, Zenon DEF Updates
<1>4. CASE ~Alive(Uid(r))
  BY <1>1, <1>4, FailSafe, Zenon DEF StoreAliases, StartScales
<1> QED
  BY <1>3, <1>4, Zenon

-----------------------------------------------------------------------------
(* The invariant.                                                          *)

LEMMA FrameStep ==
  ASSUME IInv, TypeOK', StepInv', LockInv', NEW R \in SUBSET Requests,
         \A r, s \in R : r = s, Frame(R), \A r \in R : Keeps(r),
         \A r \in R, u \in Uids :
            HasUid(r) /\ Uid(r) = u /\ Alive(u)' /\ workloads'[u].created
            => OwnedBy(workloads[u].name, u)'
  PROVE  IInv'
<1>1. UidInv'
  BY UidStep, Zenon DEF IInv
<1>2. AppInv'
  BY AppStep, Zenon DEF IInv, Keeps
<1>3. ASSUME NEW s \in Requests PROVE NameOf(s)' /\ ClaimOf(s)' /\ AliasOf(s)'
  <2>1. CASE s \in R
    BY <2>1, Zenon DEF Keeps
  <2>2. CASE s \notin R
    BY <2>2, NameOthers, ClaimOthers, AliasOthers, Zenon DEF IInv
  <2> QED
    BY <2>1, <2>2, Zenon
<1>4. ASSUME NEW u \in Uids, Alive(u)', workloads'[u].created
      PROVE  OwnedBy(workloads[u].name, u)'
  <2>1. CASE \E r \in R : HasUid(r) /\ Uid(r) = u
    BY <1>4, <2>1, Zenon
  <2>2. CASE \A r \in R : HasUid(r) => Uid(r) # u
    BY <1>4, <2>2, ResolvesOthers, Zenon DEF IInv
  <2> QED
    BY <2>1, <2>2, Zenon
<1>5. CallInv'
  BY <1>3, Zenon DEF CallInv
<1>6. Resolves'
  BY <1>4, Zenon DEF Resolves
<1> QED
  BY <1>1, <1>2, <1>5, <1>6, Zenon DEF IInv

LEMMA SafeStep ==
  ASSUME IInv, TypeOK', StepInv', LockInv', NEW r \in Requests, Safe(r)
  PROVE  IInv'
<1>1. Frame({r})
  BY FrameOf, Zenon DEF Safe, Keeps
<1> QED
  BY <1>1, FrameStep, Zenon DEF Safe

\* The cluster deletes what nobody works on, or what has no owner.
LEMMA ClusterFrame ==
  ASSUME IInv,
         \/ \E u \in Uids : JobExpires(u)
         \/ \E n \in Names : CollectService(n)
         \/ UNCHANGED vars
  PROVE  Frame({})
<1>1. UNCHANGED <<req, fresh>> /\ fresh \subseteq Uids /\ \A u \in fresh : ~Alive(u)
  BY Zenon DEF JobExpires, CollectService, vars, IInv, TypeOK, UidInv
<1>2. WorkloadFrame({})
  BY <1>1
    , Zenon DEF JobExpires, CollectService, vars, WorkloadFrame, Alive, IInv, TypeOK
<1>3. ServiceFrame({})
  BY <1>1, Zenon DEF JobExpires, CollectService, vars, ServiceFrame, IInv, TypeOK
<1> QED
  BY <1>1, <1>2, <1>3, Zenon DEF Frame

\* What every step of a call does.
LEMMA CallSafe ==
  ASSUME OneProcess, IInv, NEW r \in Requests, Call(r) \/ RequestStep(r) \/ Abort(r)
  PROVE  Safe(r)
BY LocalSafe, CreateServiceSafe, PublishFailsSafe, RenameReservesSafe,
   RenameUnreservesSafe, RenameMarksSafe, RenameDropsStaleSafe, RmDropsServicesSafe,
   AliasDropsSafe, AliasAppliesSafe, CreateWorkloadSafe, CreateReturnsSafe,
   CreateUndoSafe, RmDeletesSafe, RenameCommitsSafe, StoreSafe
  , Zenon DEF Call, RequestStep, Local

LEMMA InvNext ==
  ASSUME OneProcess, IInv, [Next]_vars
  PROVE  IInv'
<1>1. TypeOK' /\ StepInv' /\ LockInv'
  BY TypeStep, StepStep, LockStep, Zenon DEF IInv
<1>2. CASE \E r \in Requests : Call(r) \/ RequestStep(r) \/ Abort(r)
  BY <1>1, <1>2, CallSafe, SafeStep, Zenon
<1>3. CASE \/ \E u \in Uids : JobExpires(u)
           \/ \E n \in Names : CollectService(n)
           \/ UNCHANGED vars
  BY <1>1, <1>3, ClusterFrame, FrameStep, Zenon
<1> QED
  BY <1>2, <1>3, Zenon DEF Next, AllReturned

\* Containers that exist before the calls have their names.
LEMMA InvInit ==
  ASSUME Init
  PROVE  IInv
<1>0. PICK old \in SUBSET Uids : \E name \in [old -> Names] :
         /\ \A u, v \in old : name[u] = name[v] => u = v
         /\ \E aliases \in [old -> SUBSET Names] :
               workloads = [u \in Uids |->
                  IF u \in old
                  THEN [name |-> name[u], app |-> name[u], aliases |-> aliases[u],
                        running |-> FALSE, created |-> TRUE]
                  ELSE NoWorkload]
         /\ services = [n \in Names |->
               IF \E u \in old : name[u] = n
               THEN DNSService(CHOOSE u \in old : name[u] = n, n)
               ELSE NoService]
         /\ fresh = Uids \ old
  BY Zenon DEF Init
<1>1. PICK name \in [old -> Names], aliases \in [old -> SUBSET Names] :
         /\ \A u, v \in old : name[u] = name[v] => u = v
         /\ workloads = [u \in Uids |->
               IF u \in old
               THEN [name |-> name[u], app |-> name[u], aliases |-> aliases[u],
                     running |-> FALSE, created |-> TRUE]
               ELSE NoWorkload]
         /\ services = [n \in Names |->
               IF \E u \in old : name[u] = n
               THEN DNSService(CHOOSE u \in old : name[u] = n, n)
               ELSE NoService]
         /\ fresh = Uids \ old
  BY <1>0, ZenonT(30)
<1>2. PICK process \in [Requests -> Processes] :
         req = [r \in Requests |-> Request0("idle", process[r], "none")]
  BY Zenon DEF Init
<1>3. ASSUME NEW u \in old
      PROVE  /\ workloads[u] \in Workload /\ workloads[u].name = name[u]
             /\ workloads[u].app = name[u]
             /\ services[name[u]] = DNSService(u, name[u])
  <2>1. workloads[u] = [name |-> name[u], app |-> name[u], aliases |-> aliases[u],
                        running |-> FALSE, created |-> TRUE]
    BY <1>1, Zenon
  <2>2. (CHOOSE v \in old : name[v] = name[u]) = u
    BY <1>1, Zenon
  <2> QED
    BY <1>1, <2>1, <2>2, Zenon DEF Workload
<1>4. ASSUME NEW n \in Names, services[n] # NoService
      PROVE  \E u \in old : name[u] = n
  BY <1>1, <1>4, Zenon
<1>5. \A u \in Uids : Alive(u) => u \in old
  BY <1>1, Zenon DEF Alive
<1>6. services \in [Names -> Service \cup {NoService}]
  <2>1. ASSUME NEW n \in Names PROVE services[n] \in Service \cup {NoService}
    <3>1. CASE services[n] = NoService
      BY <3>1, Zenon
    <3>2. CASE services[n] # NoService
      <4>1. PICK u \in old : name[u] = n
        BY <1>4, <3>2, Zenon
      <4>2. services[n] = DNSService(u, n) /\ u \in Uids
        BY <1>3, <4>1, Zenon
      <4> QED
        BY <4>2, SMT DEF DNSService, Service
    <3> QED
      BY <3>1, <3>2, Zenon
  <2> QED
    BY <1>1, <2>1, Zenon
<1>7. workloads \in [Uids -> Workload \cup {NoWorkload}] /\ fresh \subseteq Uids
  BY <1>1, <1>3, Zenon
<1>8. \A r \in Requests : req[r] = Request0("idle", process[r], "none") /\ Pc(r) = "idle"
                          /\ req[r].todo = {}
  BY <1>2, Zenon DEF Request0, Pc
<1>9. req \in [Requests -> Request]
  <2>1. "idle" \in Pcs
    BY Zenon DEF Pcs
  <2>2. \A p \in Processes : Request0("idle", p, "none") \in Request
    BY <2>1, Zenon DEF Request0, Request
  <2> QED
    BY <1>2, <2>2, Zenon
<1>10. TypeOK
  BY <1>6, <1>7, <1>9, Zenon DEF TypeOK
<1>11. \A r \in Requests : ~InFlight(r) /\ ~HasUid(r) /\ ~HoldsLock(r) /\ ~Works(r)
  BY <1>8, Zenon DEF InFlight, HasUid, HoldsLock, Works
<1>12. StepInv
  BY <1>8, <1>11, Zenon DEF StepInv, StepOf
<1>13. LockInv
  BY <1>11, Zenon DEF LockInv, HoldsNameMu
<1>14. \A n \in Names : services[n] # NoService =>
          /\ services[n].owner \in old /\ services[n].app = n
          /\ workloads[services[n].owner].app = n
  <2>1. ASSUME NEW n \in Names, services[n] # NoService
        PROVE  /\ services[n].owner \in old /\ services[n].app = n
               /\ workloads[services[n].owner].app = n
    <3>1. PICK u \in old : name[u] = n
      BY <1>4, <2>1, Zenon
    <3>2. services[n] = DNSService(u, n) /\ workloads[u].app = n
      BY <1>3, <3>1, Zenon
    <3>3. DNSService(u, n).owner = u /\ DNSService(u, n).app = n
      BY Zenon DEF DNSService
    <3> QED
      BY <3>2, <3>3, Zenon
  <2> QED
    BY <2>1, Zenon
<1>15. UidInv
  BY <1>1, <1>5, <1>11, <1>14, Zenon DEF UidInv
<1>16. AppInv
  BY <1>11, <1>14, Zenon DEF AppInv, AppOf
<1>17. CallInv
  BY <1>8, <1>11, Zenon DEF CallInv, NameOf, ClaimOf, AliasOf
<1>18. Resolves
  <2>1. ASSUME NEW u \in Uids, Alive(u) PROVE OwnedBy(workloads[u].name, u)
    <3>1. u \in old /\ name[u] \in Names /\ workloads[u].name = name[u]
          /\ services[name[u]] = DNSService(u, name[u])
      BY <1>3, <1>5, <2>1, Zenon
    <3> QED
      BY <1>10, <3>1, ServiceWrites, SMTT(30) DEF OwnedBy
  <2> QED
    BY <2>1, Zenon DEF Resolves
<1> QED
  BY <1>10, <1>12, <1>13, <1>15, <1>16, <1>17, <1>18, Zenon DEF IInv

\* In one process a container resolves by its name, also while calls work on
\* it, for any number of calls, containers and names (ContainerCreate,
\* ContainerRename, applyAliasServices, ContainerRm): the inductive invariant.
THEOREM NamesAreSafe == ASSUME OneProcess PROVE Spec => []IInv
<1>1. Init => IInv
  BY InvInit, Zenon
<1>2. IInv /\ [Next]_vars => IInv'
  BY InvNext, Zenon
<1> QED
  BY <1>1, <1>2, PTL DEF Spec

\* In one process the Service of a container's name is its own, after any
\* history of failed and abandoned calls (the undo of ContainerCreate, the
\* reservation and clean-up of ContainerRename, applyAliasServices).
THEOREM NamesResolve == ASSUME OneProcess PROVE Spec => []PrimaryResolves
<1>1. IInv => PrimaryResolves
  BY Zenon DEF IInv, Resolves, PrimaryResolves
<1> QED
  BY <1>1, NamesAreSafe, PTL

\* In one process names are unique, although ensureContainerNameAvailable only
\* reads: a Service has one owner.
THEOREM NamesAreUnique == ASSUME OneProcess PROVE Spec => []UniqueNames
<1>1. IInv => UniqueNames
  BY Zenon DEF IInv, Resolves, UniqueNames, OwnedBy
<1> QED
  BY <1>1, NamesAreSafe, PTL

-----------------------------------------------------------------------------
(* What a call that reports success has done.                              *)

\* The other steps of a call do not report success.
NotOk(r) ==
    \/ Local(r) \/ CreateWorkload(r) \/ CreateService(r) \/ CreatePublishFails(r)
    \/ CreateUndo(r) \/ RenameReserves(r) \/ RenameCommits(r) \/ RenameUnreserves(r)
    \/ RenameMarks(r) \/ AliasDrops(r) \/ (\E a \in Names : AliasApplies(r, a))
    \/ RmDeletes(r)

ReportsOk(r) == Pc(r)' = "done" /\ req'[r].result = "ok"

LEMMA OthersFail ==
  ASSUME IInv, NEW r \in Requests, NotOk(r)
  PROVE  ~ReportsOk(r)
<1> USE DEF Pc, MovesOn, Moves, Returns, ReportsOk
<1>1. TypeOK
  BY Zenon DEF IInv
<1>2. ASSUME NEW n \in Names, NEW A \in SUBSET Names, CallCreate(r, n, A)
      PROVE  ~ReportsOk(r)
  BY <1>1, <1>2, CallCreateMoves, Zenon
<1>3. ASSUME NEW o \in Ops, NEW u \in Uids, NEW n \in Names, CallOnContainer(r, o, u, n)
      PROVE  ~ReportsOk(r)
  BY <1>1, <1>3, CallOnContainerMoves, Zenon
<1>4. CASE \E pc : Goto(r, pc) /\ pc # "done"
  BY <1>1, <1>4, GotoMoves, Zenon
<1>5. CASE Return(r, "error")
  BY <1>1, <1>5, ReturnMoves, SMT
<1>6. CASE TakeNameMu(r) \/ AliasesApplied(r)
  BY <1>4, <1>6, SMTT(30) DEF TakeNameMu, AliasesApplied
<1>7. CASE CheckWorkloads(r) \/ CheckService(r) \/ Abort(r) \/ RmStopped(r)
  BY <1>4, <1>5, <1>7, SMTT(60) DEF CheckWorkloads, CheckService, Abort, RmStopped
<1>8. CASE ChooseObjectName(r)
  <2>1. req[r].name \in Names
    BY <1>8, Zenon DEF IInv, StepInv, StepOf, InFlight, ChooseObjectName
  <2> QED
    BY <1>1, <1>8, <2>1, ObjectMoves, Zenon
<1>9. CASE CreateWorkload(r)
  BY <1>1, <1>9, CreateMoves, Zenon DEF Creates
<1>10. CASE CreateService(r) \/ CreatePublishFails(r) \/ CreateUndo(r) \/ RenameCommits(r)
            \/ RenameUnreserves(r) \/ RenameMarks(r) \/ RmDeletes(r)
  BY <1>4, <1>5, <1>10, SMTT(30)
     DEF CreateService, CreatePublishFails, CreateUndo, RenameCommits,
     RenameUnreserves, RenameMarks, RmDeletes
<1>11. CASE RenameReserves(r)
  BY <1>1, <1>5, <1>11, ReserveMoves, Zenon DEF RenameReserves
<1>12. CASE AliasDrops(r)
  BY <1>1, <1>5, <1>12, ApplyMoves, Zenon DEF AliasDrops, DeleteServices
<1>13. ASSUME NEW a \in Names, AliasApplies(r, a) PROVE ~ReportsOk(r)
  BY <1>1, <1>5, <1>13, AppliedMoves, Zenon DEF AliasApplies
<1> QED
  BY <1>2, <1>3, <1>6, <1>7, <1>8, <1>9, <1>10, <1>11, <1>12, <1>13
    , Zenon DEF NotOk, Local

LEMMA OkStep ==
  ASSUME OneProcess, IInv, [Next]_vars, NEW r \in Requests, InFlight(r), ReportsOk(r)
  PROVE  Synced(r)
<1>1. Call(r) \/ RequestStep(r) \/ Abort(r)
  <2>1. ASSUME NEW s \in Requests \ {r}, Call(s) \/ RequestStep(s) \/ Abort(s) PROVE FALSE
    BY <2>1, CallSafe, Zenon DEF Safe, Others, InFlight, ReportsOk, Pc
  <2>2. ~UNCHANGED req
    BY Zenon DEF InFlight, ReportsOk, Pc
  <2> QED
    BY <2>1, <2>2, Zenon DEF Next, JobExpires, CollectService, AllReturned, vars
<1>2. \/ CreateReturns(r) \/ RenameDropsStale(r) \/ StoreAliases(r) \/ StartScales(r)
      \/ RmDropsServices(r)
  BY <1>1, OthersFail, Zenon DEF Call, RequestStep, NotOk, Local
<1>3. TypeOK /\ StepOf(r) /\ NameOf(r) /\ ClaimOf(r) /\ AliasOf(r)
  BY Zenon DEF IInv, StepInv, CallInv
<1>4. req[r].aliases \subseteq Names /\ ~Return(r, "error")
  BY <1>3, ReturnMoves, ZenonT(30) DEF TypeOK, Request, ReportsOk, Returns
<1>5. CASE CreateReturns(r)
  <2>1. Op(r) = "create"
    BY <1>3, <1>5, Zenon DEF StepOf, CreateReturns
  <2> QED
    BY <2>1, Zenon DEF Synced
<1>6. CASE StoreAliases(r)
  <2>1. /\ Op(r) \in {"connect", "disconnect"} /\ Pc(r) = "annotate" /\ req[r].todo = {}
        /\ Works(r) /\ UNCHANGED services
    BY <1>3, <1>4, <1>6
      , Zenon DEF StepOf, StoreAliases, Works, HasUid, HoldsLock, InFlight
  <2>2. \A n \in req[r].aliases : OwnedBy(n, Uid(r))
    BY <1>3, <2>1, Zenon DEF AliasOf
  <2>3. \A n \in Names \ {req[r].name} :
           OwnedBy(n, Uid(r)) /\ services[n].kind = "alias" => n \in req[r].aliases
    BY <1>3, <2>1, Zenon DEF AliasOf
  <2> QED
    BY <1>4, <2>1, <2>2, <2>3, Zenon DEF Synced, Owned, OwnedBy
<1>7. CASE StartScales(r)
  <2>1. /\ Op(r) = "start" /\ Pc(r) = "scale" /\ req[r].todo = {}
        /\ Works(r) /\ UNCHANGED services
    BY <1>3, <1>4, <1>7
      , Zenon DEF StepOf, StartScales, Works, HasUid, HoldsLock, InFlight
  <2>2. \A n \in req[r].aliases : OwnedBy(n, Uid(r))
    BY <1>3, <2>1, Zenon DEF AliasOf
  <2> QED
    BY <1>4, <2>1, <2>2, Zenon DEF Synced, Owned, OwnedBy
<1>8. CASE RmDropsServices(r)
  <2>1. Op(r) = "rm"
    BY <1>3, <1>8, Zenon DEF StepOf, RmDropsServices
  <2>2. services' = [n \in Names |-> IF OwnedBy(n, Uid(r)) THEN NoService ELSE services[n]]
    BY <1>4, <1>8, Zenon DEF RmDropsServices, DeleteServices
  <2> QED
    BY <2>1, <2>2, Zenon DEF Synced, Owned, OwnedBy
<1>9. CASE RenameDropsStale(r)
  <2> DEFINE N == {n \in Names \ ({req[r].name} \cup req[r].aliases) :
                      OwnedBy(n, Uid(r)) /\ services[n].kind = "primary"}
  <2>1. /\ Op(r) = "rename" /\ Pc(r) = "stale" /\ req[r].todo = {}
        /\ HasUid(r) /\ req[r].name \in Names
    BY <1>3, <1>9, Zenon DEF StepOf, RenameDropsStale, HasUid, HoldsLock, InFlight
  <2>2. services' = [n \in Names |-> IF n \in N THEN NoService ELSE services[n]]
    BY <1>4, <1>9, Zenon DEF RenameDropsStale, DeleteServices
  <2>3. ASSUME Works(r)
        PROVE  Owned(services', Uid(r)) = req[r].aliases \cup {req[r].name}
    <3>1. \A n \in req[r].aliases \cup {req[r].name} : OwnedBy(n, Uid(r)) /\ n \in Names
      BY <1>3, <1>4, <2>1, <2>3, Zenon DEF AliasOf, ClaimOf
    <3>2. \A n \in Names \ {req[r].name} :
             OwnedBy(n, Uid(r)) /\ services[n].kind = "alias" => n \in req[r].aliases
      BY <1>3, <2>1, <2>3, Zenon DEF AliasOf
    <3>3. \A n \in Names : services[n] # NoService => services[n].kind \in {"primary", "alias"}
      BY <1>3, Zenon DEF TypeOK, Service
    <3>4. ASSUME NEW n \in Names, n \notin N, OwnedBy(n, Uid(r))
          PROVE  n \in req[r].aliases \cup {req[r].name}
      BY <3>2, <3>3, <3>4, Zenon DEF OwnedBy
    <3>5. \A n \in req[r].aliases \cup {req[r].name} : n \notin N
      BY Zenon
    <3> HIDE DEF N
    <3> QED
      BY <2>2, <3>1, <3>4, <3>5, Zenon DEF Owned, OwnedBy
  <2> QED
    BY <2>1, <2>3, Zenon DEF Synced, Works
<1> QED
  BY <1>2, <1>5, <1>6, <1>7, <1>8, <1>9, Zenon

\* In one process a call that reports success has left the Services it
\* promises: the name and the aliases of a rename, the aliases of a connect,
\* disconnect or start, none after a removal (ContainerRename,
\* applyAliasServices, ContainerRm).
THEOREM SuccessIsSynced == ASSUME OneProcess PROVE Spec => OkMeansSynced
<1>1. IInv /\ [Next]_vars =>
         [\A r \in Requests :
             InFlight(r) /\ Pc(r)' = "done" /\ req'[r].result = "ok" => Synced(r)]_vars
  BY OkStep, Zenon DEF ReportsOk
<1> QED
  BY <1>1, NamesAreSafe, PTL DEF Spec, OkMeansSynced
=============================================================================
