---------------------------- MODULE BuildSessions ----------------------------
(***************************************************************************)
(* The BuildKit gateway (core/buildkit): client connections register a     *)
(* session under a UUID, bridge it to BuildKit, and Solve runs a build on  *)
(* it, with a registry credential for its own repositories that BuildKit   *)
(* reads through the bridge and dinki checks on every push                 *)
(* (core/registry/pullauth).  BuildKit itself is external.  Time is what   *)
(* is left of a build's deadline and of a credential's lifetime.           *)
(***************************************************************************)
EXTENDS Naturals, TLAPS

CONSTANTS
    Conns, Solves, Repos, None,
    Uuid,       \* Uuid[x]: the session UUID of a connection or a build
    Tenant,     \* Tenant[x]: its identity
    Names,      \* Names[s]: the repositories a build names
    Lifetime,   \* BuildCredentialLifetime
    Margin      \* how much earlier a build is cut off

VARIABLES
    sessions,   \* sessions[u]: the connection whose bridge is registered
    conn,       \* conn[c]: a handleSession and its bridge
    solve,      \* solve[s]: a Solve
    creds,      \* creds[s]: dinki's record of the credential issued for s
    touched      \* <<build, repository>>: what dinki let its credential touch

vars == <<sessions, conn, solve, creds, touched>>

Uuids == {Uuid[x] : x \in Conns \cup Solves}

NoCred == [there |-> FALSE, repos |-> {}, left |-> 0]

Init ==
    /\ sessions = [u \in Uuids |-> None]
    /\ conn = [c \in Conns |-> [pc |-> "new", live |-> TRUE, ready |-> FALSE,
                                solving |-> FALSE, cred |-> None]]
    /\ solve = [s \in Solves |-> [pc |-> "new", on |-> None, left |-> 0,
                                  knows |-> FALSE, unrevoked |-> FALSE]]
    /\ creds = [s \in Solves |-> NoCred]
    /\ touched = {}

-----------------------------------------------------------------------------
\* handleSession.

Register(c) ==
    /\ conn[c].pc = "new"
    /\ IF sessions[Uuid[c]] # None
       THEN conn' = [conn EXCEPT ![c].pc = "refused"] /\ UNCHANGED sessions
       ELSE /\ sessions' = [sessions EXCEPT ![Uuid[c]] = c]
            /\ conn' = [conn EXCEPT ![c].pc = "open"]
    /\ UNCHANGED <<solve, creds, touched>>

\* The caller is found and BuildKit dialled.
Ready(c) ==
    /\ conn[c].pc = "open" /\ conn[c].live /\ ~conn[c].ready
    /\ conn' = [conn EXCEPT ![c].ready = TRUE]
    /\ UNCHANGED <<sessions, solve, creds, touched>>

\* The client or BuildKit hangs up, either cannot be reached, or dink closes.
Cancelled(c) ==
    /\ conn[c].pc = "open" /\ conn[c].live
    /\ conn' = [conn EXCEPT ![c].live = FALSE]
    /\ UNCHANGED <<sessions, solve, creds, touched>>

Unregister(c) ==
    /\ conn[c].pc = "open" /\ ~conn[c].live
    /\ sessions' = [sessions EXCEPT ![Uuid[c]] = None]
    /\ conn' = [conn EXCEPT ![c].pc = "gone"]
    /\ UNCHANGED <<solve, creds, touched>>

-----------------------------------------------------------------------------
\* Solve.

Set(s, pc) == solve' = [solve EXCEPT ![s].pc = pc]

\* No tenant identity, no BuildKit, or a request dink does not support.
Refused(s) ==
    /\ solve[s].pc = "new" /\ Set(s, "failed")
    /\ UNCHANGED <<sessions, conn, creds, touched>>

\* getBridge polls for the session, refuses another identity's, and waits
\* until it is ready.
FindBridge(s) ==
    /\ solve[s].pc = "new" /\ sessions[Uuid[s]] # None
    /\ LET c == sessions[Uuid[s]]
       IN  IF Tenant[c] # Tenant[s] THEN Set(s, "failed")
           ELSE solve' = [solve EXCEPT ![s] = [@ EXCEPT !.pc = "wait", !.on = c]]
    /\ UNCHANGED <<sessions, conn, creds, touched>>

BridgeReady(s) ==
    /\ solve[s].pc = "wait" /\ conn[solve[s].on].ready
    /\ Set(s, IF conn[solve[s].on].live THEN "claim" ELSE "failed")
    /\ UNCHANGED <<sessions, conn, creds, touched>>

\* Ten seconds pass, or the client of the call goes away.
BridgeTimeout(s) ==
    /\ solve[s].pc \in {"new", "wait"} /\ Set(s, "failed")
    /\ UNCHANGED <<sessions, conn, creds, touched>>

\* One build per session; the deadline runs from here.
Claim_Check(s) ==
    /\ solve[s].pc = "claim"
    /\ IF conn[solve[s].on].cred # None THEN Set(s, "failed")
       ELSE solve' = [solve EXCEPT ![s] = [@ EXCEPT !.pc = "issue", !.left = Lifetime - Margin]]
    /\ UNCHANGED <<sessions, conn, creds, touched>>

Claim(s) ==
    /\ solve[s].pc = "claim"
    /\ IF conn[solve[s].on].solving
       THEN Set(s, "failed") /\ UNCHANGED conn
       ELSE /\ conn' = [conn EXCEPT ![solve[s].on].solving = TRUE]
            /\ solve' = [solve EXCEPT ![s] = [@ EXCEPT !.pc = "issue",
                                                       !.left = Lifetime - Margin]]
    /\ UNCHANGED <<sessions, creds, touched>>

\* A build without an image output, or one refused, needs no credential.
NoImage(s) ==
    /\ solve[s].pc = "issue"
    /\ \E pc \in {"run", "release"} : Set(s, pc)
    /\ UNCHANGED <<sessions, conn, creds, touched>>

NewRecord(s) == [there |-> TRUE, repos |-> Names[s], left |-> Lifetime]

\* IssueBuild: records that have expired are deleted on the way.
Issued(s) ==
    [x \in Solves |-> IF x = s
                      THEN NewRecord(s)
                      ELSE IF creds[x].left = 0 THEN NoCred ELSE creds[x]]

Issue(s) ==
    /\ solve[s].pc = "issue"
    /\ creds' = Issued(s)
    /\ conn' = [conn EXCEPT ![solve[s].on].cred = s]
    /\ Set(s, "run")
    /\ UNCHANGED <<sessions, touched>>

\* dinki does not, or its answer is lost: the client is gone, the session or
\* the deadline has ended, or dinki is out of reach.
IssueLost(s) ==
    /\ solve[s].pc = "issue"
    /\ \E issued \in BOOLEAN : creds' = IF issued THEN Issued(s) ELSE creds
    /\ Set(s, "release")
    /\ UNCHANGED <<sessions, conn, touched>>

\* control.Solve returns: done, failed, or its context ended.
SolveReturns(s) ==
    /\ solve[s].pc = "run"
    /\ Set(s, IF conn[solve[s].on].cred = s THEN "clear" ELSE "release")
    /\ UNCHANGED <<sessions, conn, creds, touched>>

ClearCredential(s) ==
    /\ solve[s].pc = "clear"
    /\ conn' = [conn EXCEPT ![solve[s].on].cred = None]
    /\ Set(s, "revoke")
    /\ UNCHANGED <<sessions, creds, touched>>

\* RevokeBuild, on a context of its own.
Revoke(s) ==
    /\ solve[s].pc = "revoke"
    /\ creds' = [creds EXCEPT ![s] = NoCred]
    /\ Set(s, "release")
    /\ UNCHANGED <<sessions, conn, touched>>

RevokeFails(s) ==
    /\ solve[s].pc = "revoke"
    /\ solve' = [solve EXCEPT ![s] = [@ EXCEPT !.pc = "release", !.unrevoked = TRUE]]
    /\ UNCHANGED <<sessions, conn, creds, touched>>

Release(s) ==
    /\ solve[s].pc = "release"
    /\ conn' = [conn EXCEPT ![solve[s].on].solving = FALSE]
    /\ Set(s, "done")
    /\ UNCHANGED <<sessions, creds, touched>>

-----------------------------------------------------------------------------
\* BuildKit asks the bridge for the registry's credential (authProxy) ...
Credentials(s) ==
    /\ solve[s].pc \in {"run", "clear"} /\ conn[solve[s].on].live
    /\ conn[solve[s].on].cred # None /\ ~solve[conn[solve[s].on].cred].knows
    /\ solve' = [solve EXCEPT ![conn[solve[s].on].cred].knows = TRUE]
    /\ UNCHANGED <<sessions, conn, creds, touched>>

\* ... and uses it, at once or later.
VerifyBuild(s) == creds[s].there /\ creds[s].left > 0

canWrite(s, r) == r \in creds[s].repos

\* A build credential reads what it may write; another one its namespace.
allowed(s, r) == canWrite(s, r)

PushBlob(s) ==
    /\ solve[s].knows /\ VerifyBuild(s)
    /\ \E r \in Repos : canWrite(s, r) /\ touched' = touched \cup {<<s, r>>}
    /\ UNCHANGED <<sessions, conn, solve, creds>>

GetBlob(s) ==
    /\ solve[s].knows /\ VerifyBuild(s)
    /\ \E r \in Repos : allowed(s, r) /\ touched' = touched \cup {<<s, r>>}
    /\ UNCHANGED <<sessions, conn, solve, creds>>

\* A mount across repositories needs the right to both.
MountBlob(s) ==
    /\ solve[s].knows /\ VerifyBuild(s)
    /\ \E from, to \in Repos :
          /\ canWrite(s, from) /\ canWrite(s, to)
          /\ touched' = touched \cup {<<s, from>>, <<s, to>>}
    /\ UNCHANGED <<sessions, conn, solve, creds>>

\* Time passes; a build whose deadline has come has its context cancelled
\* and returns first.
Tick ==
    /\ \A s \in Solves : solve[s].pc = "run" => solve[s].left > 0
    /\ \E s \in Solves : solve[s].left + creds[s].left > 0
    /\ solve' = [s \in Solves |->
                    [solve[s] EXCEPT !.left = IF @ = 0 THEN 0 ELSE @ - 1]]
    /\ creds' = [s \in Solves |->
                    [creds[s] EXCEPT !.left = IF @ = 0 THEN 0 ELSE @ - 1]]
    /\ UNCHANGED <<sessions, conn, touched>>

-----------------------------------------------------------------------------
Next ==
    \/ Tick
    \/ \E c \in Conns : Register(c) \/ Ready(c) \/ Cancelled(c) \/ Unregister(c)
    \/ \E s \in Solves :
          \/ Refused(s) \/ FindBridge(s) \/ BridgeReady(s) \/ BridgeTimeout(s)
          \/ Claim(s)
          \/ NoImage(s) \/ Issue(s) \/ IssueLost(s) \/ SolveReturns(s)
          \/ ClearCredential(s) \/ Revoke(s) \/ RevokeFails(s) \/ Release(s)
          \/ Credentials(s) \/ PushBlob(s) \/ GetBlob(s) \/ MountBlob(s)

Spec == Init /\ [][Next]_vars

\* Time passes and dinki's goroutines run; a solve whose context has expired
\* returns. Clients owe nothing.
Fairness ==
    /\ WF_vars(Tick)
    /\ \A c \in Conns : WF_vars(Unregister(c))
    /\ \A s \in Solves :
          /\ WF_vars(BridgeTimeout(s)) /\ WF_vars(Claim(s))
          /\ WF_vars(Issue(s) \/ IssueLost(s))
          /\ WF_vars(solve[s].left = 0 /\ SolveReturns(s))
          /\ WF_vars(ClearCredential(s)) /\ WF_vars(Revoke(s) \/ RevokeFails(s))
          /\ WF_vars(Release(s))

-----------------------------------------------------------------------------
\* What the records of the state may hold.
ConnPcs == {"new", "refused", "open", "gone"}
ConnRecs == [pc : ConnPcs, live : BOOLEAN, ready : BOOLEAN, solving : BOOLEAN,
             cred : Solves \cup {None}]

SolvePcs == {"new", "wait", "claim", "issue", "run", "clear", "revoke", "release",
             "done", "failed"}
SolveRecs == [pc : SolvePcs, on : Conns \cup {None}, left : 0..(Lifetime - Margin),
              knows : BOOLEAN, unrevoked : BOOLEAN]

CredRecs == [there : BOOLEAN, repos : SUBSET Repos, left : 0..Lifetime]

\* The types of the variables.
TypeOK ==
    /\ sessions \in [Uuids -> Conns \cup {None}]
    /\ conn \in [Conns -> ConnRecs]
    /\ solve \in [Solves -> SolveRecs]
    /\ creds \in [Solves -> CredRecs]
    /\ touched \subseteq Solves \X Repos

\* A session runs one build at a time, and the credential its bridge hands to
\* BuildKit is that build's own (Solve, authProxy.Credentials).
OneBuildPerSession ==
    \A c \in Conns :
       LET on == {s \in Solves : /\ solve[s].on = c
                                 /\ solve[s].pc \in {"issue", "run", "clear", "revoke", "release"}}
       IN  /\ \A s, t \in on : s = t
           /\ conn[c].cred # None => on = {conn[c].cred}

\* A registered session is a live handleSession of that UUID: returning from
\* it never takes away another connection's registration.
RegisteredIsOpen ==
    \A c \in Conns : conn[c].pc = "open" <=> sessions[Uuid[c]] = c

\* Build and session belong to one identity (getBridge).
OwnSession == \A s \in Solves : solve[s].on # None => Tenant[solve[s].on] = Tenant[s]

\* While its build runs a credential has not expired: the build's deadline
\* comes first, and no other build's credential reclaims it.
CredentialOutlivesBuild ==
    \A s \in Solves :
       solve[s].pc = "run" /\ conn[solve[s].on].cred = s => creds[s].there /\ creds[s].left > 0

\* Once a build has ended and its credential is revoked the registry serves
\* nothing more to it, and what it served are repositories the build named.
ServedWhileBuilding ==
    \A p \in touched' \ touched :
       /\ p[2] \in Names[p[1]]
       /\ solve[p[1]].pc = "done" => solve[p[1]].unrevoked

\* Every build ends, at its deadline at the latest, and frees the session.
SolveEnds == \A s \in Solves : solve[s].pc # "new" ~> solve[s].pc \in {"failed", "done"}

-----------------------------------------------------------------------------
(* Proofs, for any number of connections and builds. *)

\* What the proofs assume of the constants.
Sane ==
    /\ None \notin Conns \cup Solves
    /\ Lifetime \in Nat /\ Margin \in Nat /\ 0 < Margin /\ Margin <= Lifetime
    /\ \A s \in Solves : Names[s] \subseteq Repos

Busy(s) == solve[s].pc \in {"issue", "run", "clear", "revoke", "release"}

\* A build that has found its session, and one that has claimed it.
Claimed(s) ==
    /\ solve[s].pc \in {"wait", "claim"} \/ Busy(s) => solve[s].on # None
    /\ Busy(s) => conn[solve[s].on].solving

Exclusive(s, t) == Busy(s) /\ Busy(t) /\ solve[s].on = solve[t].on => s = t

\* The credential of a bridge is that of a build on it, until it is cleared.
Holds(c) ==
    conn[c].cred # None =>
       solve[conn[c].cred].on = c /\ solve[conn[c].cred].pc \in {"run", "clear"}

\* The credential of a running build lasts longer than what is left of it.
Lasts(s) ==
    solve[s].pc = "run" /\ conn[solve[s].on].cred = s =>
       creds[s].there /\ creds[s].left >= solve[s].left + Margin

\* BuildKit knows a credential while its build holds it, or until it is
\* revoked.
Known(s) ==
    solve[s].knows =>
       \/ solve[s].pc \in {"run", "clear"} /\ conn[solve[s].on].cred = s
       \/ solve[s].pc = "revoke"
       \/ solve[s].pc \in {"release", "done"} /\ (creds[s].there => solve[s].unrevoked)

Builds ==
    /\ OwnSession
    /\ \A s \in Solves : Claimed(s) /\ Lasts(s) /\ Known(s) /\ creds[s].repos \subseteq Names[s]
    /\ \A s, t \in Solves : Exclusive(s, t)
    /\ \A c \in Conns : Holds(c)

IInv == TypeOK /\ RegisteredIsOpen /\ Builds

\* What a step may do to a connection or a build, and leave as it is.
ConnMoves(c) == conn' \in [Conns -> ConnRecs] /\ \A d \in Conns \ {c} : conn'[d] = conn[d]
KeepsClaim(c) == conn'[c].solving = conn[c].solving /\ conn'[c].cred = conn[c].cred
SolveMoves(s) == solve' \in [Solves -> SolveRecs] /\ \A t \in Solves \ {s} : solve'[t] = solve[t]
KeepsRest(s) ==
    /\ solve'[s].on = solve[s].on /\ solve'[s].left = solve[s].left
    /\ solve'[s].knows = solve[s].knows /\ solve'[s].unrevoked = solve[s].unrevoked

LEMMA ConnUpdate ==
  ASSUME TypeOK, NEW c \in Conns, NEW q \in ConnRecs, conn' = [conn EXCEPT ![c] = q]
  PROVE  ConnMoves(c) /\ conn'[c] = q
BY Zenon DEF TypeOK, ConnMoves

LEMMA SolveUpdate ==
  ASSUME TypeOK, NEW s \in Solves, NEW q \in SolveRecs, solve' = [solve EXCEPT ![s] = q]
  PROVE  SolveMoves(s) /\ solve'[s] = q
BY Zenon DEF TypeOK, SolveMoves

LEMMA ConnPc ==
  ASSUME TypeOK, NEW c \in Conns, NEW pc \in ConnPcs, conn' = [conn EXCEPT ![c].pc = pc]
  PROVE  ConnMoves(c) /\ KeepsClaim(c) /\ conn'[c].pc = pc
<1> DEFINE q == [conn[c] EXCEPT !.pc = pc]
<1>1. conn[c] \in ConnRecs
  BY Zenon DEF TypeOK
<1>2. q \in ConnRecs /\ q.pc = pc /\ q.solving = conn[c].solving /\ q.cred = conn[c].cred
  BY <1>1, Zenon DEF ConnRecs
<1>3. conn' = [conn EXCEPT ![c] = q]
  BY Zenon
<1> HIDE DEF q
<1> QED
  BY <1>2, <1>3, ConnUpdate, Zenon DEF KeepsClaim

LEMMA ConnFlags ==
  ASSUME TypeOK, NEW c \in Conns,
         \/ conn' = [conn EXCEPT ![c].ready = TRUE]
         \/ conn' = [conn EXCEPT ![c].live = FALSE]
  PROVE  ConnMoves(c) /\ KeepsClaim(c) /\ conn'[c].pc = conn[c].pc
<1>1. conn[c] \in ConnRecs
  BY Zenon DEF TypeOK
<1>2. CASE conn' = [conn EXCEPT ![c].ready = TRUE]
  <2> DEFINE q == [conn[c] EXCEPT !.ready = TRUE]
  <2>1. q \in ConnRecs /\ q.pc = conn[c].pc /\ q.solving = conn[c].solving /\ q.cred = conn[c].cred
    BY <1>1, Zenon DEF ConnRecs
  <2>2. conn' = [conn EXCEPT ![c] = q]
    BY <1>2, Zenon
  <2> HIDE DEF q
  <2> QED
    BY <2>1, <2>2, ConnUpdate, Zenon DEF KeepsClaim
<1>3. CASE conn' = [conn EXCEPT ![c].live = FALSE]
  <2> DEFINE q == [conn[c] EXCEPT !.live = FALSE]
  <2>1. q \in ConnRecs /\ q.pc = conn[c].pc /\ q.solving = conn[c].solving /\ q.cred = conn[c].cred
    BY <1>1, Zenon DEF ConnRecs
  <2>2. conn' = [conn EXCEPT ![c] = q]
    BY <1>3, Zenon
  <2> HIDE DEF q
  <2> QED
    BY <2>1, <2>2, ConnUpdate, Zenon DEF KeepsClaim
<1> QED
  BY <1>2, <1>3, Zenon

LEMMA ConnSolving ==
  ASSUME TypeOK, NEW c \in Conns, NEW b \in BOOLEAN, conn' = [conn EXCEPT ![c].solving = b]
  PROVE  /\ ConnMoves(c) /\ conn'[c].solving = b
         /\ conn'[c].pc = conn[c].pc /\ conn'[c].cred = conn[c].cred
<1> DEFINE q == [conn[c] EXCEPT !.solving = b]
<1>1. conn[c] \in ConnRecs
  BY Zenon DEF TypeOK
<1>2. q \in ConnRecs /\ q.pc = conn[c].pc /\ q.solving = b /\ q.cred = conn[c].cred
  BY <1>1, Zenon DEF ConnRecs
<1>3. conn' = [conn EXCEPT ![c] = q]
  BY Zenon
<1> HIDE DEF q
<1> QED
  BY <1>2, <1>3, ConnUpdate, Zenon

LEMMA ConnCred ==
  ASSUME TypeOK, NEW c \in Conns, NEW x \in Solves \cup {None},
         conn' = [conn EXCEPT ![c].cred = x]
  PROVE  /\ ConnMoves(c) /\ conn'[c].cred = x
         /\ conn'[c].pc = conn[c].pc /\ conn'[c].solving = conn[c].solving
<1> DEFINE q == [conn[c] EXCEPT !.cred = x]
<1>1. conn[c] \in ConnRecs
  BY Zenon DEF TypeOK
<1>2. q \in ConnRecs /\ q.pc = conn[c].pc /\ q.solving = conn[c].solving /\ q.cred = x
  BY <1>1, Zenon DEF ConnRecs
<1>3. conn' = [conn EXCEPT ![c] = q]
  BY Zenon
<1> HIDE DEF q
<1> QED
  BY <1>2, <1>3, ConnUpdate, Zenon

LEMMA SetMoves ==
  ASSUME TypeOK, NEW s \in Solves, NEW pc \in SolvePcs, Set(s, pc)
  PROVE  SolveMoves(s) /\ KeepsRest(s) /\ solve'[s].pc = pc
<1> DEFINE q == [solve[s] EXCEPT !.pc = pc]
<1>1. solve[s] \in SolveRecs
  BY Zenon DEF TypeOK
<1>2. /\ q \in SolveRecs /\ q.pc = pc /\ q.on = solve[s].on /\ q.left = solve[s].left
      /\ q.knows = solve[s].knows /\ q.unrevoked = solve[s].unrevoked
  BY <1>1, Zenon DEF SolveRecs
<1>3. solve' = [solve EXCEPT ![s] = q]
  BY Zenon DEF Set
<1> HIDE DEF q
<1> QED
  BY <1>2, <1>3, SolveUpdate, Zenon DEF KeepsRest

LEMMA FoundMoves ==
  ASSUME TypeOK, NEW s \in Solves, NEW c \in Conns,
         solve' = [solve EXCEPT ![s] = [@ EXCEPT !.pc = "wait", !.on = c]]
  PROVE  /\ SolveMoves(s) /\ solve'[s].pc = "wait" /\ solve'[s].on = c
         /\ solve'[s].knows = solve[s].knows
<1> DEFINE q == [solve[s] EXCEPT !.pc = "wait", !.on = c]
<1>1. solve[s] \in SolveRecs /\ "wait" \in SolvePcs
  BY Zenon DEF TypeOK, SolvePcs
<1>2. q \in SolveRecs /\ q.pc = "wait" /\ q.on = c /\ q.knows = solve[s].knows
  BY <1>1, Zenon DEF SolveRecs
<1> HIDE DEF q
<1> QED
  BY <1>2, SolveUpdate, Zenon DEF q

LEMMA ClaimMoves ==
  ASSUME Sane, TypeOK, NEW s \in Solves,
         solve' = [solve EXCEPT ![s] = [@ EXCEPT !.pc = "issue", !.left = Lifetime - Margin]]
  PROVE  /\ SolveMoves(s) /\ solve'[s].pc = "issue" /\ solve'[s].on = solve[s].on
         /\ solve'[s].knows = solve[s].knows
<1> DEFINE left == Lifetime - Margin
           q == [solve[s] EXCEPT !.pc = "issue", !.left = left]
<1>1. solve[s] \in SolveRecs /\ "issue" \in SolvePcs /\ left \in 0..(Lifetime - Margin)
  BY SMT DEF TypeOK, SolvePcs, Sane
<1> HIDE DEF left
<1>2. q \in SolveRecs /\ q.pc = "issue" /\ q.on = solve[s].on /\ q.knows = solve[s].knows
  BY <1>1, Zenon DEF SolveRecs
<1> HIDE DEF q
<1> QED
  BY <1>2, SolveUpdate, Zenon DEF q, left

LEMMA UnrevokedMoves ==
  ASSUME TypeOK, NEW s \in Solves,
         solve' = [solve EXCEPT ![s] = [@ EXCEPT !.pc = "release", !.unrevoked = TRUE]]
  PROVE  /\ SolveMoves(s) /\ solve'[s].pc = "release" /\ solve'[s].on = solve[s].on
         /\ solve'[s].unrevoked
<1> DEFINE q == [solve[s] EXCEPT !.pc = "release", !.unrevoked = TRUE]
<1>1. solve[s] \in SolveRecs /\ "release" \in SolvePcs
  BY Zenon DEF TypeOK, SolvePcs
<1>2. q \in SolveRecs /\ q.pc = "release" /\ q.on = solve[s].on /\ q.unrevoked
  BY <1>1, Zenon DEF SolveRecs
<1> HIDE DEF q
<1> QED
  BY <1>2, SolveUpdate, Zenon DEF q

LEMMA KnowsMoves ==
  ASSUME TypeOK, NEW s \in Solves, solve' = [solve EXCEPT ![s].knows = TRUE]
  PROVE  /\ SolveMoves(s) /\ solve'[s].pc = solve[s].pc /\ solve'[s].on = solve[s].on
         /\ solve'[s].left = solve[s].left
<1> DEFINE q == [solve[s] EXCEPT !.knows = TRUE]
<1>1. solve[s] \in SolveRecs
  BY Zenon DEF TypeOK
<1>2. q \in SolveRecs /\ q.pc = solve[s].pc /\ q.on = solve[s].on /\ q.left = solve[s].left
  BY <1>1, Zenon DEF SolveRecs
<1>3. solve' = [solve EXCEPT ![s] = q]
  BY Zenon
<1> HIDE DEF q
<1> QED
  BY <1>2, <1>3, SolveUpdate, Zenon

\* A tick takes what is left of builds and credentials down by one.
LEMMA Ticks ==
  ASSUME Sane, TypeOK, Tick
  PROVE  /\ solve' \in [Solves -> SolveRecs] /\ creds' \in [Solves -> CredRecs]
         /\ \A s \in Solves :
               /\ solve'[s].pc = solve[s].pc /\ solve'[s].on = solve[s].on
               /\ solve'[s].knows = solve[s].knows /\ solve'[s].unrevoked = solve[s].unrevoked
               /\ solve'[s].left = IF solve[s].left = 0 THEN 0 ELSE solve[s].left - 1
               /\ creds'[s].there = creds[s].there /\ creds'[s].repos = creds[s].repos
               /\ creds'[s].left = IF creds[s].left = 0 THEN 0 ELSE creds[s].left - 1
<1> DEFINE sl(s) == IF solve[s].left = 0 THEN 0 ELSE solve[s].left - 1
           cl(s) == IF creds[s].left = 0 THEN 0 ELSE creds[s].left - 1
<1>1. ASSUME NEW s \in Solves
      PROVE  /\ [solve[s] EXCEPT !.left = sl(s)] \in SolveRecs
             /\ [creds[s] EXCEPT !.left = cl(s)] \in CredRecs
             /\ solve'[s] = [solve[s] EXCEPT !.left = sl(s)]
             /\ creds'[s] = [creds[s] EXCEPT !.left = cl(s)]
             /\ solve[s] \in SolveRecs /\ creds[s] \in CredRecs
  <2>1. solve[s] \in SolveRecs /\ creds[s] \in CredRecs
    BY Zenon DEF TypeOK
  <2>2. sl(s) \in 0..(Lifetime - Margin) /\ cl(s) \in 0..Lifetime
    BY <2>1, SMT DEF SolveRecs, CredRecs, Sane
  <2>3. solve'[s] = [solve[s] EXCEPT !.left = sl(s)] /\ creds'[s] = [creds[s] EXCEPT !.left = cl(s)]
    BY Zenon DEF Tick
  <2> HIDE DEF sl, cl
  <2> QED
    BY <2>1, <2>2, <2>3, Zenon DEF SolveRecs, CredRecs
<1>2. /\ solve' = [s \in Solves |-> [solve[s] EXCEPT !.left = sl(s)]]
      /\ creds' = [s \in Solves |-> [creds[s] EXCEPT !.left = cl(s)]]
  BY Zenon DEF Tick
<1>3. ASSUME NEW s \in Solves
      PROVE  /\ solve'[s].pc = solve[s].pc /\ solve'[s].on = solve[s].on
             /\ solve'[s].knows = solve[s].knows /\ solve'[s].unrevoked = solve[s].unrevoked
             /\ solve'[s].left = sl(s)
             /\ creds'[s].there = creds[s].there /\ creds'[s].repos = creds[s].repos
             /\ creds'[s].left = cl(s)
  <2>1. /\ solve'[s] = [solve[s] EXCEPT !.left = sl(s)] /\ solve[s] \in SolveRecs
        /\ creds'[s] = [creds[s] EXCEPT !.left = cl(s)] /\ creds[s] \in CredRecs
    BY <1>1, Zenon
  <2> HIDE DEF sl, cl
  <2>2. /\ solve'[s].pc = solve[s].pc /\ solve'[s].on = solve[s].on /\ solve'[s].left = sl(s)
        /\ solve'[s].knows = solve[s].knows /\ solve'[s].unrevoked = solve[s].unrevoked
    BY <2>1, Zenon DEF SolveRecs
  <2>3. /\ creds'[s].there = creds[s].there /\ creds'[s].repos = creds[s].repos
        /\ creds'[s].left = cl(s)
    BY <2>1, Zenon DEF CredRecs
  <2> QED
    BY <2>2, <2>3, Zenon
<1>4. solve' \in [Solves -> SolveRecs] /\ creds' \in [Solves -> CredRecs]
  <2> HIDE DEF sl, cl
  <2> QED
    BY <1>1, <1>2, Zenon
<1> QED
  BY <1>3, <1>4, Zenon

\* Issuing a credential deletes expired ones and keeps the others.
LEMMA IssuedRecords ==
  ASSUME Sane, TypeOK, NEW s \in Solves, creds' = Issued(s)
  PROVE  /\ creds' \in [Solves -> CredRecs]
         /\ creds'[s].there /\ creds'[s].repos = Names[s] /\ creds'[s].left = Lifetime
         /\ \A t \in Solves \ {s} : creds'[t] = (IF creds[t].left = 0 THEN NoCred ELSE creds[t])
<1>1. NewRecord(s) \in CredRecs /\ NoCred \in CredRecs
  BY SMT DEF NewRecord, NoCred, CredRecs, Sane
<1>2. NewRecord(s).there /\ NewRecord(s).repos = Names[s] /\ NewRecord(s).left = Lifetime
  BY Zenon DEF NewRecord
<1>3. creds'[s] = NewRecord(s)
  BY Zenon DEF Issued
<1> QED
  BY <1>1, <1>2, <1>3, Zenon DEF Issued, TypeOK

LEMMA TypeStep ==
  ASSUME Sane, IInv, [Next]_vars
  PROVE  TypeOK'
<1>t. TypeOK
  BY Zenon DEF IInv
<1>0. ASSUME NEW s \in Solves, solve[s].pc \in {"wait", "claim"} \/ Busy(s)
      PROVE  solve[s].on \in Conns
  BY <1>0, Zenon DEF IInv, Builds, TypeOK, SolveRecs, Claimed
<1>1. CASE Tick
  BY <1>1, <1>t, Ticks, Zenon DEF Tick, TypeOK
<1>2. ASSUME NEW c \in Conns, Register(c) \/ Unregister(c) PROVE TypeOK'
  <2>1. ConnMoves(c)
    BY <1>2, <1>t, ConnPc, Zenon DEF Register, Unregister, ConnPcs
  <2>2. sessions' \in [Uuids -> Conns \cup {None}]
    BY <1>2, <1>t, Zenon DEF Register, Unregister, TypeOK
  <2> QED
    BY <1>2, <1>t, <2>1, <2>2, Zenon DEF Register, Unregister, TypeOK, ConnMoves
<1>3. ASSUME NEW c \in Conns, Ready(c) \/ Cancelled(c) PROVE TypeOK'
  BY <1>3, <1>t, ConnFlags, Zenon DEF Ready, Cancelled, TypeOK, ConnMoves
<1>4. ASSUME NEW s \in Solves, Refused(s) \/ BridgeReady(s) \/ BridgeTimeout(s)
                               \/ NoImage(s) \/ SolveReturns(s)
      PROVE  TypeOK'
  <2>1. PICK pc \in SolvePcs : Set(s, pc)
    BY <1>4, Zenon DEF Refused, BridgeReady, BridgeTimeout, NoImage, SolveReturns, SolvePcs
  <2>2. solve' \in [Solves -> SolveRecs]
    BY <1>t, <2>1, SetMoves, Zenon DEF SolveMoves
  <2> QED
    BY <1>4, <1>t, <2>2, Zenon DEF Refused, BridgeReady, BridgeTimeout, NoImage,
       SolveReturns, TypeOK
<1>5. ASSUME NEW s \in Solves, FindBridge(s) PROVE TypeOK'
  <2>1. CASE Set(s, "failed")
    BY <1>5, <1>t, <2>1, SetMoves, Zenon DEF FindBridge, SolvePcs, SolveMoves, TypeOK
  <2>2. CASE ~Set(s, "failed")
    <3>1. sessions[Uuid[s]] \in Conns
      BY <1>5, <1>t, Zenon DEF FindBridge, TypeOK, Uuids
    <3> QED
      BY <1>5, <1>t, <2>2, <3>1, FoundMoves, Zenon DEF FindBridge, SolveMoves, TypeOK
  <2> QED
    BY <2>1, <2>2, Zenon
<1>6. ASSUME NEW s \in Solves, Claim(s) PROVE TypeOK'
  <2>1. solve[s].on \in Conns
    BY <1>0, <1>6, Zenon DEF Claim
  <2>2. solve' \in [Solves -> SolveRecs]
    BY <1>6, <1>t, SetMoves, ClaimMoves, Zenon DEF Claim, SolvePcs, SolveMoves
  <2>3. conn' \in [Conns -> ConnRecs]
    BY <1>6, <1>t, <2>1, ConnSolving, Zenon DEF Claim, ConnMoves, TypeOK
  <2> QED
    BY <1>6, <1>t, <2>2, <2>3, Zenon DEF Claim, TypeOK
<1>7. ASSUME NEW s \in Solves, Issue(s) PROVE TypeOK'
  <2>1. solve[s].on \in Conns
    BY <1>0, <1>7, Zenon DEF Issue, Busy
  <2>2. solve' \in [Solves -> SolveRecs]
    BY <1>7, <1>t, SetMoves, Zenon DEF Issue, SolvePcs, SolveMoves
  <2>3. conn' \in [Conns -> ConnRecs]
    BY <1>7, <1>t, <2>1, ConnCred, Zenon DEF Issue, ConnMoves
  <2>4. creds' \in [Solves -> CredRecs]
    BY <1>7, <1>t, IssuedRecords, Zenon DEF Issue
  <2> QED
    BY <1>7, <1>t, <2>2, <2>3, <2>4, Zenon DEF Issue, TypeOK
<1>8. ASSUME NEW s \in Solves, IssueLost(s) PROVE TypeOK'
  <2>1. solve' \in [Solves -> SolveRecs]
    BY <1>8, <1>t, SetMoves, Zenon DEF IssueLost, SolvePcs, SolveMoves
  <2>2. creds' \in [Solves -> CredRecs]
    BY <1>8, <1>t, IssuedRecords, Zenon DEF IssueLost, TypeOK
  <2> QED
    BY <1>8, <1>t, <2>1, <2>2, Zenon DEF IssueLost, TypeOK
<1>9. ASSUME NEW s \in Solves, ClearCredential(s) \/ Release(s) PROVE TypeOK'
  <2>1. solve[s].on \in Conns
    BY <1>0, <1>9, Zenon DEF ClearCredential, Release, Busy
  <2>2. solve' \in [Solves -> SolveRecs]
    BY <1>9, <1>t, SetMoves, Zenon DEF ClearCredential, Release, SolvePcs, SolveMoves
  <2>3. conn' \in [Conns -> ConnRecs]
    BY <1>9, <1>t, <2>1, ConnCred, ConnSolving, Zenon DEF ClearCredential, Release, ConnMoves
  <2> QED
    BY <1>9, <1>t, <2>2, <2>3, Zenon DEF ClearCredential, Release, TypeOK
<1>10. ASSUME NEW s \in Solves, Revoke(s) PROVE TypeOK'
  <2>1. NoCred \in CredRecs
    BY SMT DEF NoCred, CredRecs, Sane
  <2>2. creds' \in [Solves -> CredRecs]
    BY <1>10, <1>t, <2>1, Zenon DEF Revoke, TypeOK
  <2>3. solve' \in [Solves -> SolveRecs]
    BY <1>10, <1>t, SetMoves, Zenon DEF Revoke, SolvePcs, SolveMoves
  <2> QED
    BY <1>10, <1>t, <2>2, <2>3, Zenon DEF Revoke, TypeOK
<1>11. ASSUME NEW s \in Solves, RevokeFails(s) PROVE TypeOK'
  BY <1>11, <1>t, UnrevokedMoves, Zenon DEF RevokeFails, SolveMoves, TypeOK
<1>12. ASSUME NEW s \in Solves, Credentials(s) PROVE TypeOK'
  <2>1. conn[solve[s].on].cred \in Solves
    BY <1>0, <1>12, <1>t, Zenon DEF Credentials, Busy, TypeOK, ConnRecs
  <2> QED
    BY <1>12, <1>t, <2>1, KnowsMoves, Zenon DEF Credentials, SolveMoves, TypeOK
<1>13. ASSUME NEW s \in Solves, PushBlob(s) \/ GetBlob(s) \/ MountBlob(s) PROVE TypeOK'
  <2>1. touched' \subseteq Solves \X Repos
    BY <1>13, <1>t, SMT DEF PushBlob, GetBlob, MountBlob, TypeOK
  <2> QED
    BY <1>13, <1>t, <2>1, Zenon DEF PushBlob, GetBlob, MountBlob, TypeOK
<1>14. CASE UNCHANGED vars
  BY <1>14, <1>t, Zenon DEF vars, TypeOK
<1> QED
  BY <1>1, <1>2, <1>3, <1>4, <1>5, <1>6, <1>7, <1>8, <1>9, <1>10, <1>11, <1>12, <1>13, <1>14
    , Zenon DEF Next

\* Only handleSession opens and closes a session.
LEMMA KeepsPc ==
  ASSUME Sane, IInv, NEW s \in Solves, Claim(s) \/ Issue(s) \/ ClearCredential(s) \/ Release(s)
  PROVE  \A c \in Conns : conn'[c].pc = conn[c].pc
<1>1. TypeOK /\ solve[s].on \in Conns
  BY Zenon DEF IInv, Builds, TypeOK, SolveRecs, Claimed, Busy, Claim, Issue,
     ClearCredential, Release
<1>2. \/ ConnMoves(solve[s].on) /\ conn'[solve[s].on].pc = conn[solve[s].on].pc
      \/ conn' = conn
  BY <1>1, ConnSolving, ConnCred, Zenon DEF Claim, Issue, ClearCredential, Release
<1> QED
  BY <1>2, Zenon DEF ConnMoves

LEMMA RegisteredStep ==
  ASSUME Sane, IInv, [Next]_vars
  PROVE  RegisteredIsOpen'
<1>t. TypeOK /\ RegisteredIsOpen
  BY Zenon DEF IInv
<1>1. ASSUME NEW c \in Conns, Register(c) PROVE RegisteredIsOpen'
  <2>1. ConnMoves(c) /\ Uuid[c] \in Uuids
    BY <1>1, <1>t, ConnPc, Zenon DEF Register, ConnPcs, Uuids
  <2>2. CASE sessions[Uuid[c]] # None
    <3>1. conn'[c].pc = "refused" /\ sessions' = sessions /\ conn[c].pc = "new"
      BY <1>1, <1>t, <2>2, ConnPc, Zenon DEF Register, ConnPcs
    <3> QED
      BY <1>t, <2>1, <3>1, ZenonT(30) DEF RegisteredIsOpen, ConnMoves
  <2>3. CASE sessions[Uuid[c]] = None
    <3>1. conn'[c].pc = "open" /\ sessions' = [sessions EXCEPT ![Uuid[c]] = c]
      BY <1>1, <1>t, <2>3, ConnPc, Zenon DEF Register, ConnPcs
    <3> QED
      BY <1>t, <2>1, <2>3, <3>1, SMT DEF RegisteredIsOpen, ConnMoves, TypeOK, Sane
  <2> QED
    BY <2>2, <2>3, Zenon
<1>2. ASSUME NEW c \in Conns, Unregister(c) PROVE RegisteredIsOpen'
  <2>1. ConnMoves(c) /\ conn'[c].pc = "gone" /\ Uuid[c] \in Uuids
    BY <1>2, <1>t, ConnPc, Zenon DEF Unregister, ConnPcs, Uuids
  <2>2. sessions[Uuid[c]] = c /\ sessions' = [sessions EXCEPT ![Uuid[c]] = None]
    BY <1>2, <1>t, Zenon DEF Unregister, RegisteredIsOpen
  <2> QED
    BY <1>t, <2>1, <2>2, SMT DEF RegisteredIsOpen, ConnMoves, TypeOK, Sane
<1>3. ASSUME NEW c \in Conns, Ready(c) \/ Cancelled(c) PROVE RegisteredIsOpen'
  <2>1. ConnMoves(c) /\ conn'[c].pc = conn[c].pc /\ sessions' = sessions
    BY <1>3, <1>t, ConnFlags, Zenon DEF Ready, Cancelled
  <2> QED
    BY <1>t, <2>1, Zenon DEF RegisteredIsOpen, ConnMoves
<1>4. ASSUME NEW s \in Solves, Claim(s) \/ Issue(s) \/ ClearCredential(s) \/ Release(s)
      PROVE  RegisteredIsOpen'
  BY <1>4, <1>t, KeepsPc, Zenon DEF RegisteredIsOpen, Claim, Issue, ClearCredential, Release
<1>5. CASE UNCHANGED <<sessions, conn>>
  BY <1>5, <1>t, Zenon DEF RegisteredIsOpen
<1>6. CASE Tick
  BY <1>5, <1>6, Zenon DEF Tick
<1>7. ASSUME NEW s \in Solves, Refused(s) \/ FindBridge(s) \/ BridgeReady(s) \/ BridgeTimeout(s)
                               \/ NoImage(s) \/ IssueLost(s) \/ SolveReturns(s) \/ Revoke(s)
                               \/ RevokeFails(s) \/ Credentials(s) \/ PushBlob(s)
                               \/ GetBlob(s) \/ MountBlob(s)
      PROVE  UNCHANGED <<sessions, conn>>
  BY <1>7, Zenon DEF Refused, FindBridge, BridgeReady, BridgeTimeout, NoImage, IssueLost,
     SolveReturns, Revoke, RevokeFails, Credentials, PushBlob, GetBlob, MountBlob
<1> QED
  BY <1>1, <1>2, <1>3, <1>4, <1>5, <1>6, <1>7, Zenon DEF Next, vars

\* A step that leaves builds, credentials and claims alone.
LEMMA BuildsFrame ==
  ASSUME Builds, UNCHANGED <<solve, creds>>, TypeOK, Sane,
         \A c \in Conns : KeepsClaim(c)
  PROVE  Builds'
<1>1. OwnSession' /\ \A s, t \in Solves : Exclusive(s, t)'
  BY Zenon DEF Builds, OwnSession, Exclusive, Busy
<1>2. ASSUME NEW c \in Conns PROVE Holds(c)'
  BY Zenon DEF Builds, Holds, KeepsClaim
<1>3. ASSUME NEW s \in Solves
      PROVE  Claimed(s)' /\ Lasts(s)' /\ Known(s)' /\ (creds[s].repos \subseteq Names[s])'
  <2>1. Claimed(s) /\ Lasts(s) /\ Known(s) /\ creds[s].repos \subseteq Names[s]
    BY Zenon DEF Builds
  <2>2. CASE solve[s].on \in Conns
    BY <2>1, <2>2, Zenon DEF Claimed, Lasts, Known, Busy, KeepsClaim
  <2>3. CASE solve[s].on = None
    BY <2>1, <2>3, Zenon DEF Claimed, Lasts, Known, Busy
  <2> QED
    BY <2>2, <2>3, Zenon DEF TypeOK, SolveRecs
<1> QED
  BY <1>1, <1>2, <1>3, Zenon DEF Builds

\* A build on its way to a session, and one turned away.
LEMMA BuildsBefore ==
  ASSUME Builds, UNCHANGED <<conn, creds>>, TypeOK, Sane, NEW s \in Solves, SolveMoves(s),
         ~Busy(s), solve[s].pc # "done", ~Busy(s)', solve'[s].pc # "done",
         solve'[s].knows = solve[s].knows,
         solve'[s].pc \in {"wait", "claim"} => solve'[s].on # None,
         solve'[s].on # None => Tenant[solve'[s].on] = Tenant[s]
  PROVE  Builds'
<1>1. ~solve'[s].knows
  BY Zenon DEF Builds, Known, Busy
<1>2. OwnSession' /\ \A t, u \in Solves : Exclusive(t, u)'
  BY ZenonT(30) DEF Builds, OwnSession, Exclusive, Busy, SolveMoves
<1>3. ASSUME NEW c \in Conns PROVE Holds(c)'
  <2>1. Holds(c) /\ conn[c].cred \in Solves \cup {None}
    BY Zenon DEF Builds, TypeOK, ConnRecs
  <2> QED
    BY <2>1, Zenon DEF Holds, Busy, SolveMoves
<1>4. ASSUME NEW t \in Solves
      PROVE  Claimed(t)' /\ Lasts(t)' /\ Known(t)' /\ (creds[t].repos \subseteq Names[t])'
  <2>1. Claimed(t) /\ Lasts(t) /\ Known(t) /\ creds[t].repos \subseteq Names[t]
    BY Zenon DEF Builds
  <2>2. CASE t = s
    BY <1>1, <2>1, <2>2, Zenon DEF Claimed, Lasts, Known, Busy
  <2>3. CASE t # s
    BY <2>1, <2>3, Zenon DEF Claimed, Lasts, Known, Busy, SolveMoves
  <2> QED
    BY <2>2, <2>3, Zenon
<1> QED
  BY <1>2, <1>3, <1>4, Zenon DEF Builds

\* A step of a build that has the session, or takes it, and of its bridge:
\* what it does to the build and the bridge themselves is left to show.
Works(s) ==
    /\ SolveMoves(s) /\ solve'[s].on = solve[s].on /\ solve[s].on \in Conns
    /\ ConnMoves(solve[s].on)
    /\ \/ Busy(s) /\ conn'[solve[s].on].cred \in {s, None, conn[solve[s].on].cred}
       \/ ~conn[solve[s].on].solving /\ conn'[solve[s].on].cred = conn[solve[s].on].cred
    /\ \A t \in Solves \ {s} :
          creds'[t] = creds[t] \/ (creds[t].left = 0 /\ creds'[t] = NoCred)

LEMMA OthersWork ==
  ASSUME Sane, TypeOK, Builds, NEW s \in Solves, Works(s), NEW t \in Solves, t # s
  PROVE  Claimed(t)' /\ Lasts(t)' /\ Known(t)' /\ (creds[t].repos \subseteq Names[t])'
<1>1. Claimed(t) /\ Lasts(t) /\ Known(t) /\ creds[t].repos \subseteq Names[t]
  BY Zenon DEF Builds
<1>2. solve'[t] = solve[t]
  BY Zenon DEF Works, SolveMoves
<1>3. NoCred.repos = {} /\ ~NoCred.there
  BY Zenon DEF NoCred
<1>4. (creds[t].repos \subseteq Names[t])' /\ (creds'[t].there => creds[t].there)
  BY <1>1, <1>3, Zenon DEF Works
<1>5. CASE solve[t].on # solve[s].on
  <2>1. solve[t].on \in Conns \ {solve[s].on} \/ solve[t].on = None
    BY <1>5, Zenon DEF TypeOK, SolveRecs
  <2>2. CASE solve[t].on = None
    <3>1. ~Busy(t) /\ solve[t].pc \notin {"wait", "claim"}
      BY <1>1, <2>2, Zenon DEF Claimed
    <3> QED
      BY <1>1, <1>2, <1>4, <2>2, <3>1, Zenon DEF Claimed, Lasts, Known, Busy
  <2>3. CASE solve[t].on \in Conns \ {solve[s].on}
    <3>1. conn'[solve[t].on] = conn[solve[t].on]
      BY <2>3, Zenon DEF Works, ConnMoves
    <3>2. Claimed(t)' /\ Known(t)'
      BY <1>1, <1>2, <1>4, <3>1, Zenon DEF Claimed, Known, Busy
    <3>3. Lasts(t)'
      <4>1. creds[t].left \in Nat /\ solve[t].left \in Nat /\ Margin \in Nat /\ 0 < Margin
        BY SMT DEF TypeOK, SolveRecs, CredRecs, Sane
      <4> QED
        BY <1>1, <1>2, <3>1, <4>1, SMT DEF Lasts, Works
    <3> QED
      BY <1>4, <3>2, <3>3, Zenon
  <2> QED
    BY <2>1, <2>2, <2>3, Zenon
<1>6. CASE solve[t].on = solve[s].on
  <2>1. ~Busy(t)
    BY <1>1, <1>6, Zenon DEF Builds, Exclusive, Claimed, Works
  <2> QED
    BY <1>1, <1>2, <1>4, <2>1, Zenon DEF Claimed, Lasts, Known, Busy
<1> QED
  BY <1>5, <1>6, Zenon

LEMMA BuildsWork ==
  ASSUME Sane, TypeOK, Builds, NEW s \in Solves, Works(s),
         NEW c \in Conns, c = solve[s].on, Holds(c)', Claimed(s)', Lasts(s)', Known(s)',
         (creds[s].repos \subseteq Names[s])'
  PROVE  Builds'
<1>1. \A t \in Solves : Claimed(t)' /\ Lasts(t)' /\ Known(t)' /\ (creds[t].repos \subseteq Names[t])'
  BY OthersWork, Zenon
<1>2. OwnSession'
  BY ZenonT(30) DEF Builds, OwnSession, Works, SolveMoves
<1>3. ASSUME NEW t \in Solves, t # s PROVE Exclusive(s, t)' /\ Exclusive(t, s)'
  <2>1. Exclusive(s, t) /\ Claimed(t) /\ solve'[t] = solve[t] /\ solve'[s].on = solve[s].on
    BY <1>3, Zenon DEF Builds, Works, SolveMoves
  <2>2. Busy(s) \/ ~conn[solve[s].on].solving
    BY Zenon DEF Works
  <2>3. ~(Busy(t) /\ solve[t].on = solve[s].on)
    BY <1>3, <2>1, <2>2, Zenon DEF Exclusive, Claimed
  <2> QED
    BY <2>1, <2>3, Zenon DEF Exclusive, Busy
<1>4. ASSUME NEW t \in Solves, NEW u \in Solves, t # s, u # s PROVE Exclusive(t, u)'
  <2>1. Exclusive(t, u) /\ solve'[t] = solve[t] /\ solve'[u] = solve[u]
    BY <1>4, Zenon DEF Builds, Works, SolveMoves
  <2> QED
    BY <2>1, Zenon DEF Exclusive, Busy
<1>5. Exclusive(s, s)'
  BY Zenon DEF Exclusive
<1>6. ASSUME NEW d \in Conns, d # c PROVE Holds(d)'
  <2>1. Holds(d) /\ conn[d].cred \in Solves \cup {None} /\ conn'[d] = conn[d]
    BY <1>6, Zenon DEF Builds, TypeOK, ConnRecs, Works, ConnMoves
  <2> QED
    BY <1>6, <2>1, Zenon DEF Holds, Works, SolveMoves
<1> QED
  BY <1>1, <1>2, <1>3, <1>4, <1>5, <1>6, Zenon DEF Builds

LEMMA BuildsTick ==
  ASSUME Sane, TypeOK, Builds, Tick
  PROVE  Builds'
<1>1. conn' = conn
  BY Zenon DEF Tick
<1>2. \A s \in Solves :
               /\ solve'[s].pc = solve[s].pc /\ solve'[s].on = solve[s].on
               /\ solve'[s].knows = solve[s].knows /\ solve'[s].unrevoked = solve[s].unrevoked
               /\ creds'[s].there = creds[s].there /\ creds'[s].repos = creds[s].repos
  BY Ticks, Zenon
<1>3. OwnSession' /\ \A s, t \in Solves : Exclusive(s, t)'
  BY <1>2, SMT DEF Builds, OwnSession, Exclusive, Busy
<1>4. ASSUME NEW c \in Conns PROVE Holds(c)'
  <2>1. Holds(c) /\ conn[c].cred \in Solves \cup {None}
    BY Zenon DEF Builds, TypeOK, ConnRecs
  <2> QED
    BY <1>1, <1>2, <2>1, Zenon DEF Holds
<1>5. ASSUME NEW s \in Solves
      PROVE  Claimed(s)' /\ Lasts(s)' /\ Known(s)' /\ (creds[s].repos \subseteq Names[s])'
  <2>1. Claimed(s) /\ Lasts(s) /\ Known(s) /\ creds[s].repos \subseteq Names[s]
    BY Zenon DEF Builds
  <2>2. Claimed(s)' /\ Known(s)' /\ (creds[s].repos \subseteq Names[s])'
    BY <1>1, <1>2, <2>1, Zenon DEF Claimed, Known, Busy
  <2>3. Lasts(s)'
    <3>1. /\ creds[s].left \in Nat /\ solve[s].left \in Nat /\ Margin \in Nat
          /\ solve[s].pc = "run" => solve[s].left > 0
      BY SMT DEF TypeOK, SolveRecs, CredRecs, Sane, Tick
    <3>2. /\ solve'[s].left = IF solve[s].left = 0 THEN 0 ELSE solve[s].left - 1
          /\ creds'[s].left = IF creds[s].left = 0 THEN 0 ELSE creds[s].left - 1
      BY Ticks, Zenon
    <3> QED
      BY <1>1, <1>2, <2>1, <3>1, <3>2, SMT DEF Lasts
  <2> QED
    BY <2>2, <2>3, Zenon
<1> QED
  BY <1>3, <1>4, <1>5, Zenon DEF Builds

LEMMA BuildsStep ==
  ASSUME Sane, IInv, [Next]_vars
  PROVE  Builds'
<1>t. TypeOK /\ Builds
  BY Zenon DEF IInv
<1>0. ASSUME NEW s \in Solves
      PROVE  /\ Claimed(s) /\ Lasts(s) /\ Known(s) /\ creds[s].repos \subseteq Names[s]
             /\ solve[s].pc \in {"wait", "claim"} \/ Busy(s) => solve[s].on \in Conns
             /\ solve[s].on # None => Tenant[solve[s].on] = Tenant[s]
  BY <1>t, SMT DEF Builds, Claimed, OwnSession, TypeOK, SolveRecs
<1>1. CASE Tick
  BY <1>1, <1>t, BuildsTick, Zenon
<1>2. ASSUME NEW c \in Conns, Register(c) \/ Ready(c) \/ Cancelled(c) \/ Unregister(c)
      PROVE  Builds'
  <2>1. ConnMoves(c) /\ KeepsClaim(c)
    BY <1>2, <1>t, ConnPc, ConnFlags, Zenon DEF Register, Ready, Cancelled, Unregister,
       ConnPcs
  <2>2. \A d \in Conns : KeepsClaim(d)
    BY <2>1, Zenon DEF ConnMoves, KeepsClaim
  <2>3. UNCHANGED <<solve, creds>>
    BY <1>2, Zenon DEF Register, Ready, Cancelled, Unregister
  <2> QED
    BY <1>t, <2>2, <2>3, BuildsFrame, Zenon
<1>3. ASSUME NEW s \in Solves, PushBlob(s) \/ GetBlob(s) \/ MountBlob(s)
      PROVE  Builds'
  <2>1. UNCHANGED <<solve, creds, conn>>
    BY <1>3, Zenon DEF PushBlob, GetBlob, MountBlob
  <2> QED
    BY <1>t, <2>1, BuildsFrame, Zenon DEF KeepsClaim
<1>4. ASSUME NEW s \in Solves, NEW pc \in {"claim", "failed"}, Set(s, pc), ~Busy(s),
             solve[s].pc # "done", UNCHANGED <<conn, creds>>,
             pc = "claim" => solve[s].pc = "wait"
      PROVE  Builds'
  <2>1. SolveMoves(s) /\ KeepsRest(s) /\ solve'[s].pc = pc
    BY <1>4, <1>t, SetMoves, Zenon DEF SolvePcs
  <2>2. ~Busy(s)' /\ solve'[s].pc # "done"
    BY <2>1, Zenon DEF Busy
  <2>3. solve'[s].pc \in {"wait", "claim"} => solve'[s].on # None
    BY <1>4, <1>0, <2>1, Zenon DEF KeepsRest, Claimed
  <2>4. solve'[s].on # None => Tenant[solve'[s].on] = Tenant[s]
    BY <1>0, <2>1, Zenon DEF KeepsRest
  <2> QED
    BY <1>4, <1>t, <2>1, <2>2, <2>3, <2>4, BuildsBefore, Zenon DEF KeepsRest
<1>5. ASSUME NEW s \in Solves, Refused(s) \/ BridgeReady(s) \/ BridgeTimeout(s)
      PROVE  Builds'
  BY <1>4, <1>5, Zenon DEF Refused, BridgeReady, BridgeTimeout, Busy
<1>6. ASSUME NEW s \in Solves, FindBridge(s)
      PROVE  Builds'
  <2> DEFINE c == sessions[Uuid[s]]
  <2>1. CASE Tenant[c] # Tenant[s]
    BY <1>4, <1>6, <2>1, Zenon DEF FindBridge, Busy
  <2>2. CASE Tenant[c] = Tenant[s]
    <3>1. c \in Conns /\ c # None
      BY <1>6, <1>t, Zenon DEF FindBridge, TypeOK, Uuids, Sane
    <3>2. /\ SolveMoves(s) /\ solve'[s].pc = "wait" /\ solve'[s].on = c
          /\ solve'[s].knows = solve[s].knows
      BY <1>6, <1>t, <2>2, <3>1, FoundMoves, Zenon DEF FindBridge
    <3>3. ~Busy(s) /\ solve[s].pc # "done" /\ ~Busy(s)' /\ solve'[s].pc # "done"
          /\ UNCHANGED <<conn, creds>>
      BY <1>6, <3>2, Zenon DEF FindBridge, Busy
    <3> HIDE DEF c
    <3> QED
      BY <1>t, <2>2, <3>1, <3>2, <3>3, BuildsBefore, Zenon
  <2> QED
    BY <2>1, <2>2, Zenon
<1>7. ASSUME NEW s \in Solves, Claim(s)
      PROVE  Builds'
  <2>1. solve[s].pc = "claim" /\ solve[s].on \in Conns /\ ~solve[s].knows /\ UNCHANGED creds
    BY <1>0, <1>7, Zenon DEF Claim, Known
  <2>2. PICK c \in Conns : c = solve[s].on
    BY <2>1, Zenon
  <2>3. CASE conn[c].solving
    BY <1>4, <1>7, <2>1, <2>2, <2>3, Zenon DEF Claim, Busy
  <2>4. CASE ~conn[c].solving
    <3>1. /\ SolveMoves(s) /\ solve'[s].pc = "issue" /\ solve'[s].on = c
          /\ solve'[s].knows = solve[s].knows
      BY <1>7, <1>t, <2>2, <2>4, ClaimMoves, Zenon DEF Claim
    <3>2. ConnMoves(c) /\ conn'[c].solving /\ conn'[c].cred = conn[c].cred
      BY <1>7, <1>t, <2>2, <2>4, ConnSolving, Zenon DEF Claim
    <3>3. Works(s)
      BY <2>1, <2>2, <2>4, <3>1, <3>2, Zenon DEF Works
    <3>4. Holds(c) /\ conn[c].cred \in Solves \cup {None}
      BY <1>t, Zenon DEF Builds, TypeOK, ConnRecs
    <3>5. Holds(c)'
      BY <2>1, <3>1, <3>2, <3>4, ZenonT(30) DEF Holds, SolveMoves
    <3>6. Claimed(s)' /\ Lasts(s)' /\ Known(s)' /\ (creds[s].repos \subseteq Names[s])'
      BY <1>0, <2>1, <3>1, <3>2, Zenon DEF Claimed, Lasts, Known, Busy, Sane
    <3> QED
      BY <1>t, <2>2, <3>3, <3>5, <3>6, BuildsWork, Zenon
  <2> QED
    BY <2>3, <2>4, Zenon
\* A busy build goes on to pc; its bridge and its credential are as said.
<1>8. ASSUME NEW s \in Solves, Busy(s), NEW pc \in SolvePcs, Set(s, pc)
      PROVE  \E c \in Conns :
                /\ c = solve[s].on /\ SolveMoves(s) /\ KeepsRest(s) /\ solve'[s].pc = pc
                /\ conn[c].solving /\ Holds(c) /\ conn[c].cred \in Solves \cup {None}
                /\ conn[c].cred \in {s, None}
  <2>1. PICK c \in Conns : c = solve[s].on
    BY <1>0, <1>8, Zenon
  <2>2. conn[c].solving /\ Holds(c) /\ conn[c].cred \in Solves \cup {None}
    BY <1>0, <1>8, <1>t, <2>1, Zenon DEF Builds, TypeOK, ConnRecs, Claimed
  <2>3. conn[c].cred \in {s, None}
    BY <1>8, <1>t, <2>1, <2>2, Zenon DEF Builds, Holds, Exclusive, Busy
  <2> QED
    BY <1>8, <1>t, <2>1, <2>2, <2>3, SetMoves, Zenon
<1>9. ASSUME NEW s \in Solves, NoImage(s)
      PROVE  Builds'
  <2>1. solve[s].pc = "issue" /\ Busy(s) /\ ~solve[s].knows /\ UNCHANGED <<conn, creds>>
    BY <1>0, <1>9, Zenon DEF NoImage, Busy, Known
  <2>2. PICK pc \in {"run", "release"} : Set(s, pc)
    BY <1>9, Zenon DEF NoImage
  <2>3. PICK c \in Conns :
                /\ c = solve[s].on /\ SolveMoves(s) /\ KeepsRest(s) /\ solve'[s].pc = pc
                /\ conn[c].solving /\ Holds(c) /\ conn[c].cred \in {s, None}
    BY <1>8, <2>1, <2>2, Zenon DEF SolvePcs
  <2>4. conn[c].cred = None
    BY <2>1, <2>3, Zenon DEF Holds, Sane
  <2>5. Works(s)
    BY <1>t, <2>1, <2>3, Zenon DEF Works, KeepsRest, ConnMoves, TypeOK
  <2>6. Holds(c)' /\ Claimed(s)' /\ Lasts(s)' /\ Known(s)' /\ (creds[s].repos \subseteq Names[s])'
    BY <1>0, <2>1, <2>2, <2>3, <2>4, SMT DEF Holds, Claimed, Lasts, Known, KeepsRest, Busy,
       Sane
  <2> QED
    BY <1>t, <2>3, <2>5, <2>6, BuildsWork, Zenon
<1>10. ASSUME NEW s \in Solves, Issue(s)
       PROVE  Builds'
  <2>1. solve[s].pc = "issue" /\ Busy(s) /\ Set(s, "run") /\ creds' = Issued(s)
    BY <1>10, Zenon DEF Issue, Busy
  <2>2. PICK c \in Conns :
                /\ c = solve[s].on /\ SolveMoves(s) /\ KeepsRest(s) /\ solve'[s].pc = "run"
                /\ conn[c].solving /\ Holds(c) /\ conn[c].cred \in {s, None}
    BY <1>8, <2>1, Zenon DEF SolvePcs
  <2>3. /\ ConnMoves(c) /\ conn'[c].cred = s /\ conn'[c].solving = conn[c].solving
    BY <1>10, <1>t, <2>2, ConnCred, Zenon DEF Issue
  <2>4. /\ creds'[s].there /\ creds'[s].repos = Names[s] /\ creds'[s].left = Lifetime
        /\ \A t \in Solves \ {s} : creds'[t] = (IF creds[t].left = 0 THEN NoCred ELSE creds[t])
    BY <1>t, <2>1, IssuedRecords, Zenon
  <2>5. Works(s)
    BY <2>1, <2>2, <2>3, <2>4, Zenon DEF Works, KeepsRest
  <2>6. Lifetime >= solve[s].left + Margin
    BY <1>t, SMT DEF TypeOK, SolveRecs, Sane
  <2>7. Holds(c)' /\ Claimed(s)' /\ Known(s)' /\ (creds[s].repos \subseteq Names[s])'
    BY <2>2, <2>3, <2>4, Zenon DEF Holds, Claimed, Known, KeepsRest, Busy, Sane
  <2>8. Lasts(s)'
    BY <2>2, <2>4, <2>6, Zenon DEF Lasts, KeepsRest
  <2> QED
    BY <1>t, <2>2, <2>5, <2>7, <2>8, BuildsWork, Zenon
<1>11. ASSUME NEW s \in Solves, IssueLost(s)
       PROVE  Builds'
  <2>1. /\ solve[s].pc = "issue" /\ Busy(s) /\ Set(s, "release") /\ conn' = conn
        /\ creds' = Issued(s) \/ creds' = creds
    BY <1>11, Zenon DEF IssueLost, Busy
  <2>2. PICK c \in Conns :
                /\ c = solve[s].on /\ SolveMoves(s) /\ KeepsRest(s) /\ solve'[s].pc = "release"
                /\ conn[c].solving /\ Holds(c) /\ conn[c].cred \in {s, None}
    BY <1>8, <2>1, Zenon DEF SolvePcs
  <2>3. conn[c].cred = None /\ ~solve[s].knows
    BY <1>0, <2>1, <2>2, Zenon DEF Holds, Sane, Known
  <2>4. /\ (creds[s].repos \subseteq Names[s])'
        /\ \A t \in Solves \ {s} :
              creds'[t] = creds[t] \/ (creds[t].left = 0 /\ creds'[t] = NoCred)
    BY <1>0, <1>t, <2>1, IssuedRecords, ZenonT(30)
  <2>5. Works(s)
    BY <1>t, <2>1, <2>2, <2>4, Zenon DEF Works, KeepsRest, ConnMoves, TypeOK
  <2>6. Holds(c)' /\ Claimed(s)' /\ Lasts(s)' /\ Known(s)'
    BY <2>1, <2>2, <2>3, Zenon DEF Holds, Claimed, Lasts, Known, KeepsRest, Busy, Sane
  <2> QED
    BY <1>t, <2>2, <2>4, <2>5, <2>6, BuildsWork, Zenon
<1>12. ASSUME NEW s \in Solves, SolveReturns(s)
       PROVE  Builds'
  <2>1. /\ solve[s].pc = "run" /\ Busy(s) /\ UNCHANGED <<conn, creds>>
        /\ Set(s, IF conn[solve[s].on].cred = s THEN "clear" ELSE "release")
    BY <1>12, Zenon DEF SolveReturns, Busy
  <2>2. PICK c \in Conns :
                /\ c = solve[s].on /\ SolveMoves(s) /\ KeepsRest(s)
                /\ solve'[s].pc = IF conn[solve[s].on].cred = s THEN "clear" ELSE "release"
                /\ conn[c].solving /\ Holds(c) /\ conn[c].cred \in {s, None}
    BY <1>8, <2>1, Zenon DEF SolvePcs
  <2>3. Works(s)
    BY <1>t, <2>1, <2>2, Zenon DEF Works, KeepsRest, ConnMoves, TypeOK
  <2>4. solve[s].knows => conn[c].cred = s
    BY <1>0, <2>1, <2>2, Zenon DEF Known
  <2>5. Holds(c)' /\ Claimed(s)' /\ Lasts(s)' /\ Known(s)' /\ (creds[s].repos \subseteq Names[s])'
    <3>1. /\ UNCHANGED <<conn, creds>> /\ solve'[s].on = c /\ c # None
          /\ solve'[s].knows = solve[s].knows /\ solve'[s].unrevoked = solve[s].unrevoked
      BY <2>1, <2>2, Zenon DEF KeepsRest, Sane
    <3>2. /\ solve'[s].pc \in {"clear", "release"}
          /\ solve'[s].pc = "clear" <=> conn[c].cred = s
      BY <2>2, Zenon
    <3>3. Holds(c)'
      BY <3>1, <3>2, <2>2, Zenon DEF Holds
    <3>4. Claimed(s)' /\ Lasts(s)'
      BY <3>1, <3>2, <2>2, Zenon DEF Claimed, Lasts, Busy
    <3>5. Known(s)'
      BY <3>1, <3>2, <2>4, Zenon DEF Known
    <3>6. (creds[s].repos \subseteq Names[s])'
      BY <3>1, <1>0, Zenon
    <3> QED
      BY <3>3, <3>4, <3>5, <3>6, Zenon
  <2> QED
    BY <1>t, <2>2, <2>3, <2>5, BuildsWork, Zenon
<1>13. ASSUME NEW s \in Solves, ClearCredential(s)
       PROVE  Builds'
  <2>1. solve[s].pc = "clear" /\ Busy(s) /\ Set(s, "revoke") /\ creds' = creds
    BY <1>13, Zenon DEF ClearCredential, Busy
  <2>2. PICK c \in Conns :
                /\ c = solve[s].on /\ SolveMoves(s) /\ KeepsRest(s) /\ solve'[s].pc = "revoke"
                /\ conn[c].solving /\ Holds(c) /\ conn[c].cred \in {s, None}
    BY <1>8, <2>1, Zenon DEF SolvePcs
  <2>3. ConnMoves(c) /\ conn'[c].cred = None /\ conn'[c].solving = conn[c].solving
    BY <1>13, <1>t, <2>2, ConnCred, Zenon DEF ClearCredential
  <2>4. Works(s)
    BY <2>1, <2>2, <2>3, Zenon DEF Works, KeepsRest
  <2>5. Holds(c)' /\ Claimed(s)' /\ Lasts(s)' /\ Known(s)' /\ (creds[s].repos \subseteq Names[s])'
    BY <1>0, <2>1, <2>2, <2>3, Zenon DEF Holds, Claimed, Lasts, Known, KeepsRest, Busy, Sane
  <2> QED
    BY <1>t, <2>2, <2>4, <2>5, BuildsWork, Zenon
<1>14. ASSUME NEW s \in Solves, Revoke(s)
       PROVE  Builds'
  <2>1. solve[s].pc = "revoke" /\ Busy(s) /\ Set(s, "release") /\ conn' = conn
    BY <1>14, Zenon DEF Revoke, Busy
  <2>2. PICK c \in Conns :
                /\ c = solve[s].on /\ SolveMoves(s) /\ KeepsRest(s) /\ solve'[s].pc = "release"
                /\ conn[c].solving /\ Holds(c) /\ conn[c].cred \in {s, None}
    BY <1>8, <2>1, Zenon DEF SolvePcs
  <2>3. conn[c].cred = None
    BY <2>1, <2>2, Zenon DEF Holds, Sane
  <2>4. /\ ~creds'[s].there /\ creds'[s].repos = {}
        /\ \A t \in Solves \ {s} : creds'[t] = creds[t]
    BY <1>14, <1>t, Zenon DEF Revoke, NoCred, TypeOK
  <2>5. Works(s)
    BY <1>t, <2>1, <2>2, <2>4, Zenon DEF Works, KeepsRest, ConnMoves, TypeOK
  <2>6. Holds(c)' /\ Claimed(s)' /\ Lasts(s)' /\ Known(s)' /\ (creds[s].repos \subseteq Names[s])'
    BY <2>1, <2>2, <2>3, <2>4, Zenon DEF Holds, Claimed, Lasts, Known, KeepsRest, Busy, Sane
  <2> QED
    BY <1>t, <2>2, <2>5, <2>6, BuildsWork, Zenon
<1>15. ASSUME NEW s \in Solves, RevokeFails(s)
       PROVE  Builds'
  <2>1. solve[s].pc = "revoke" /\ Busy(s) /\ UNCHANGED <<conn, creds>>
    BY <1>15, Zenon DEF RevokeFails, Busy
  <2>2. /\ SolveMoves(s) /\ solve'[s].pc = "release" /\ solve'[s].on = solve[s].on
        /\ solve'[s].unrevoked
    BY <1>15, <1>t, UnrevokedMoves, Zenon DEF RevokeFails
  <2>3. PICK c \in Conns : c = solve[s].on
    BY <1>0, <2>1, Zenon
  <2>4. conn[c].solving /\ Holds(c) /\ conn[c].cred \in Solves \cup {None}
    BY <1>0, <1>t, <2>1, <2>3, Zenon DEF Builds, TypeOK, ConnRecs, Claimed
  <2>5. conn[c].cred = None
    BY <1>t, <2>1, <2>3, <2>4, Zenon DEF Builds, Holds, Exclusive, Busy
  <2>6. Works(s)
    BY <1>t, <2>1, <2>2, <2>3, Zenon DEF Works, ConnMoves, TypeOK
  <2>7. Holds(c)' /\ Claimed(s)' /\ Lasts(s)' /\ Known(s)' /\ (creds[s].repos \subseteq Names[s])'
    BY <1>0, <2>1, <2>2, <2>3, <2>4, <2>5, Zenon DEF Holds, Claimed, Lasts, Known, Busy, Sane
  <2> QED
    BY <1>t, <2>3, <2>6, <2>7, BuildsWork, Zenon
<1>16. ASSUME NEW s \in Solves, Release(s)
       PROVE  Builds'
  <2>1. solve[s].pc = "release" /\ Busy(s) /\ Set(s, "done") /\ creds' = creds
    BY <1>16, Zenon DEF Release, Busy
  <2>2. PICK c \in Conns :
                /\ c = solve[s].on /\ SolveMoves(s) /\ KeepsRest(s) /\ solve'[s].pc = "done"
                /\ conn[c].solving /\ Holds(c) /\ conn[c].cred \in {s, None}
    BY <1>8, <2>1, Zenon DEF SolvePcs
  <2>3. ConnMoves(c) /\ conn'[c].cred = conn[c].cred /\ conn[c].cred = None
    BY <1>16, <1>t, <2>1, <2>2, ConnSolving, Zenon DEF Release, Holds, Sane
  <2>4. Works(s)
    BY <2>1, <2>2, <2>3, Zenon DEF Works, KeepsRest
  <2>5. Holds(c)' /\ Claimed(s)' /\ Lasts(s)' /\ Known(s)' /\ (creds[s].repos \subseteq Names[s])'
    BY <1>0, <2>1, <2>2, <2>3, Zenon DEF Holds, Claimed, Lasts, Known, KeepsRest, Busy, Sane
  <2> QED
    BY <1>t, <2>2, <2>4, <2>5, BuildsWork, Zenon
<1>17. ASSUME NEW x \in Solves, Credentials(x)
       PROVE  Builds'
  <2>1. PICK c \in Conns : c = solve[x].on
    BY <1>0, <1>17, Zenon DEF Credentials, Busy
  <2>2. PICK s \in Solves : s = conn[c].cred
    BY <1>17, <1>t, <2>1, Zenon DEF Credentials, TypeOK, ConnRecs
  <2>3. Holds(c) /\ solve[s].on = c /\ solve[s].pc \in {"run", "clear"} /\ Busy(s)
    BY <1>t, <2>2, Zenon DEF Builds, Holds, Busy, Sane
  <2>4. UNCHANGED <<conn, creds>> /\ solve' = [solve EXCEPT ![s].knows = TRUE]
    BY <1>17, <2>1, <2>2, Zenon DEF Credentials
  <2>5. /\ SolveMoves(s) /\ solve'[s].pc = solve[s].pc /\ solve'[s].on = solve[s].on
        /\ solve'[s].left = solve[s].left
    BY <1>t, <2>4, KnowsMoves, Zenon
  <2>6. Works(s)
    BY <1>t, <2>2, <2>3, <2>4, <2>5, Zenon DEF Works, ConnMoves, TypeOK
  <2>7. Holds(c)' /\ Claimed(s)' /\ Lasts(s)' /\ Known(s)' /\ (creds[s].repos \subseteq Names[s])'
    BY <1>0, <2>2, <2>3, <2>4, <2>5, ZenonT(30) DEF Holds, Claimed, Lasts, Known, Busy
  <2> QED
    BY <1>t, <2>3, <2>6, <2>7, BuildsWork, Zenon
<1>18. CASE UNCHANGED vars
  BY <1>18, <1>t, BuildsFrame, Zenon DEF vars, KeepsClaim
<1> QED
  BY <1>1, <1>2, <1>3, <1>5, <1>6, <1>7, <1>9, <1>10, <1>11, <1>12, <1>13, <1>14, <1>15,
     <1>16, <1>17, <1>18, Zenon DEF Next

\* The inductive invariant of sessions, builds and their credentials.
THEOREM BuildsAreSafe ==
  ASSUME Sane
  PROVE  Spec => []IInv
<1>1. Init => IInv
  <2> SUFFICES ASSUME Init PROVE IInv
    BY Zenon
  <2>1. ASSUME NEW c \in Conns
        PROVE  conn[c] \in ConnRecs /\ conn[c].pc = "new" /\ conn[c].cred = None
    BY Zenon DEF Init, ConnRecs, ConnPcs
  <2>2. ASSUME NEW s \in Solves
        PROVE  /\ solve[s] \in SolveRecs /\ solve[s].pc = "new" /\ solve[s].on = None
               /\ ~solve[s].knows /\ creds[s] \in CredRecs /\ creds[s].repos = {}
    <3>1. 0 \in 0..(Lifetime - Margin) /\ 0 \in 0..Lifetime
      BY SMT DEF Sane
    <3>2. solve[s] = [pc |-> "new", on |-> None, left |-> 0, knows |-> FALSE, unrevoked |-> FALSE]
          /\ creds[s] = NoCred
      BY Zenon DEF Init
    <3> QED
      BY <3>1, <3>2, SMT DEF SolveRecs, SolvePcs, CredRecs, NoCred
  <2>3. TypeOK
    BY <2>1, <2>2, Zenon DEF Init, TypeOK
  <2>4. RegisteredIsOpen
    BY <2>1, Zenon DEF Init, RegisteredIsOpen, Uuids, Sane
  <2>5. Builds
    BY <2>1, <2>2, Zenon DEF Builds, OwnSession, Claimed, Lasts, Known, Exclusive, Holds, Busy
  <2> QED
    BY <2>3, <2>4, <2>5, Zenon DEF IInv
<1>2. IInv /\ [Next]_vars => IInv'
  BY TypeStep, RegisteredStep, BuildsStep, Zenon DEF IInv
<1> QED
  BY <1>1, <1>2, PTL DEF Spec

\* However many clients connect and build at once, a session runs one build at
\* a time and hands BuildKit that build's credential (Solve, authProxy).
THEOREM OneBuild ==
  ASSUME Sane
  PROVE  Spec => []OneBuildPerSession
<1>1. IInv => OneBuildPerSession
  BY SMT DEF IInv, Builds, OneBuildPerSession, Exclusive, Holds, Busy, TypeOK, ConnRecs
<1> QED
  BY <1>1, BuildsAreSafe, PTL

\* For every lifetime and margin the code may be given, a build's deadline
\* comes before its credential's (BuildCredentialLifetime).
THEOREM CredentialLasts ==
  ASSUME Sane
  PROVE  Spec => []CredentialOutlivesBuild
<1>1. IInv => CredentialOutlivesBuild
  <2> SUFFICES ASSUME IInv, NEW s \in Solves, solve[s].pc = "run", conn[solve[s].on].cred = s
               PROVE  creds[s].there /\ creds[s].left > 0
    BY Zenon DEF CredentialOutlivesBuild
  <2>1. creds[s].there /\ creds[s].left >= solve[s].left + Margin
    BY Zenon DEF IInv, Builds, Lasts
  <2>2. creds[s].left \in Nat /\ solve[s].left \in Nat
    BY SMT DEF IInv, TypeOK, CredRecs, SolveRecs, Sane
  <2> QED
    BY <2>1, <2>2, SMT DEF Sane
<1> QED
  BY <1>1, BuildsAreSafe, PTL

\* A build is on a session of its own tenant, and a registered session is an
\* open one (getBridge, handleSession).
THEOREM SessionsAreOwn ==
  ASSUME Sane
  PROVE  Spec => [](OwnSession /\ RegisteredIsOpen)
<1>1. IInv => OwnSession /\ RegisteredIsOpen
  BY Zenon DEF IInv, Builds
<1> QED
  BY <1>1, BuildsAreSafe, PTL

\* The registry serves a build's credential the repositories the build named
\* and, once it is revoked, nothing (VerifyBuild, RevokeBuild).
THEOREM ServesNamed ==
  ASSUME Sane
  PROVE  Spec => [][ServedWhileBuilding]_vars
<1>1. IInv /\ [Next]_vars => [ServedWhileBuilding]_vars
  <2> SUFFICES ASSUME IInv, Next, NEW p \in touched' \ touched
               PROVE  p[2] \in Names[p[1]] /\ (solve[p[1]].pc = "done" => solve[p[1]].unrevoked)
    BY Zenon DEF vars, ServedWhileBuilding
  <2>1. PICK s \in Solves : PushBlob(s) \/ GetBlob(s) \/ MountBlob(s)
    BY Zenon DEF Next, Tick, Register, Ready, Cancelled, Unregister, Refused, FindBridge,
       BridgeReady, BridgeTimeout, Claim, NoImage, Issue, IssueLost, SolveReturns,
       ClearCredential, Revoke, RevokeFails, Release, Credentials
  <2>2. solve[s].knows /\ creds[s].there /\ \E r \in creds[s].repos : p = <<s, r>>
    BY <2>1, Zenon DEF PushBlob, GetBlob, MountBlob, VerifyBuild, canWrite, allowed
  <2>3. Known(s) /\ creds[s].repos \subseteq Names[s]
    BY Zenon DEF IInv, Builds
  <2> QED
    BY <2>2, <2>3, SMT DEF Known
<1> QED
  BY <1>1, BuildsAreSafe, PTL DEF Spec
=============================================================================
