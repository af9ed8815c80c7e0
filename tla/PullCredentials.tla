--------------------------- MODULE PullCredentials ---------------------------
(***************************************************************************)
(* The pull credential of a namespace: dinki keeps its hash                *)
(* (core/registry/pullauth), nodes read the password from the dinki-pull   *)
(* Secret, and every container or service creation runs ensurePullSecret   *)
(* (container_create.go), serialised by a mutex within a dink process.     *)
(* A password is a number; 0 is none.                                      *)
(***************************************************************************)
EXTENDS Naturals

CONSTANTS
    Callers,
    ProcessOf,     \* ProcessOf[c]: the dink process that serves caller c
    MaxFaults,     \* bound on replaced storage, lost Secrets and failed calls
    MaxIssues      \* bound on passwords

VARIABLES
    stored,    \* the password whose hash dinki holds
    secret,    \* the Secret: its password (0: none for our scope), version, or absent
    call,      \* call[c]: progress of an ensurePullSecret
    mu,        \* mu[p]: the caller that holds process p's pullSecretMu
    issued, faults,
    ensured    \* a call succeeded, and nothing outside dink happened since

vars == <<stored, secret, call, mu, issued, faults, ensured>>

Nobody == "nobody"
Processes == {ProcessOf[c] : c \in Callers}
Idle == [pc |-> "idle", had |-> 0, old |-> 0, new |-> 0, clean |-> TRUE]

Init ==
    /\ stored = 0 /\ secret = [there |-> FALSE, password |-> 0, version |-> 0]
    /\ call = [c \in Callers |-> Idle] /\ mu = [p \in Processes |-> Nobody]
    /\ issued = 0 /\ faults = 0 /\ ensured = FALSE

Step(c, pc) == call' = [call EXCEPT ![c].pc = pc]
Ensured(c) == ensured' = (ensured \/ call[c].clean)
Unlock(c) == mu' = [mu EXCEPT ![ProcessOf[c]] = Nobody]

-----------------------------------------------------------------------------
\* A container or service is created.
Call(c) ==
    /\ call[c].pc \in {"idle", "ok", "error"}
    /\ call' = [call EXCEPT ![c] = [Idle EXCEPT !.pc = "lock"]]
    /\ UNCHANGED <<stored, secret, mu, issued, faults, ensured>>

\* pullSecretMu.
Lock(c) ==
    /\ call[c].pc = "lock" /\ mu[ProcessOf[c]] = Nobody
    /\ mu' = [mu EXCEPT ![ProcessOf[c]] = c]
    /\ Step(c, "get")
    /\ UNCHANGED <<stored, secret, issued, faults, ensured>>

\* The Secret, and the password it holds for this namespace's scope.
Get(c) ==
    /\ call[c].pc = "get"
    /\ call' = [call EXCEPT ![c] = [@ EXCEPT !.pc = "verify",
                   !.had = IF secret.there THEN secret.version ELSE 0,
                   !.old = IF secret.there THEN secret.password ELSE 0]]
    /\ UNCHANGED <<stored, secret, mu, issued, faults, ensured>>

\* IssuePullCredential: an existing password that verifies is handed back.
Verify_Trust(c) ==
    /\ call[c].pc = "verify"
    /\ IF call[c].old # 0
       THEN Step(c, "ok") /\ Unlock(c) /\ Ensured(c)
       ELSE Step(c, "issue") /\ UNCHANGED <<mu, ensured>>
    /\ UNCHANGED <<stored, secret, issued, faults>>

Verify(c) ==
    /\ call[c].pc = "verify"
    /\ IF call[c].old # 0 /\ call[c].old = stored
       THEN Step(c, "ok") /\ Unlock(c) /\ Ensured(c)
       ELSE Step(c, "issue") /\ UNCHANGED <<mu, ensured>>
    /\ UNCHANGED <<stored, secret, issued, faults>>

Issue(c) ==
    /\ call[c].pc = "issue" /\ issued < MaxIssues
    /\ issued' = issued + 1 /\ stored' = issued'
    /\ call' = [call EXCEPT ![c] = [@ EXCEPT !.pc = "write", !.new = issued']]
    /\ UNCHANGED <<secret, mu, faults, ensured>>

\* dinki issues it and the answer is lost.
IssueLost(c) ==
    /\ call[c].pc = "issue" /\ issued < MaxIssues /\ faults < MaxFaults
    /\ issued' = issued + 1 /\ stored' = issued' /\ faults' = faults + 1
    /\ Step(c, "error") /\ Unlock(c)
    /\ UNCHANGED <<secret, ensured>>

\* Update, refused when the Secret changed since it was read, or Create,
\* refused when there is one.
Write(c) ==
    /\ call[c].pc = "write"
    /\ LET fits == IF secret.there THEN call[c].had = secret.version
                   ELSE call[c].had = 0
       IN  IF fits
           THEN /\ secret' = [there |-> TRUE, password |-> call[c].new,
                              version |-> secret.version + 1]
                /\ Step(c, "ok") /\ Ensured(c)
           ELSE Step(c, "error") /\ UNCHANGED <<secret, ensured>>
    /\ Unlock(c) /\ UNCHANGED <<stored, issued, faults>>

\* A call to dinki or to the API server fails, and with it the creation.
Fails(c) ==
    /\ call[c].pc \in {"get", "verify", "issue", "write"} /\ faults < MaxFaults
    /\ faults' = faults + 1
    /\ Step(c, "error") /\ Unlock(c)
    /\ UNCHANGED <<stored, secret, issued, ensured>>

\* What a call under way promised is off.
Disturbed ==
    /\ ensured' = FALSE
    /\ call' = [c \in Callers |-> [call[c] EXCEPT !.clean = FALSE]]

\* The registry's storage is replaced, or the credential revoked.
Revoked ==
    /\ faults < MaxFaults /\ faults' = faults + 1
    /\ stored' = 0 /\ Disturbed
    /\ UNCHANGED <<secret, mu, issued>>

\* The Secret is deleted, or replaced by one of another type or scope.
SecretLost ==
    /\ faults < MaxFaults /\ faults' = faults + 1
    /\ \E there \in BOOLEAN :
          secret' = [there |-> there, password |-> 0, version |-> secret.version + 1]
    /\ Disturbed
    /\ UNCHANGED <<stored, mu, issued>>

Next ==
    \/ Revoked \/ SecretLost
    \/ \E c \in Callers : Call(c) \/ Lock(c) \/ Get(c) \/ Verify(c) \/ Issue(c)
                         \/ IssueLost(c) \/ Write(c) \/ Fails(c)

Spec == Init /\ [][Next]_vars

\* A waiting Lock is served and a caller's requests are answered, by an error
\* at worst.
Fairness ==
    /\ \A c \in Callers :
          /\ SF_vars(Lock(c))
          /\ WF_vars(Get(c) \/ Verify(c) \/ Issue(c) \/ Write(c))

-----------------------------------------------------------------------------
\* What the records of the state may hold.
Pcs == {"idle", "lock", "get", "verify", "issue", "write", "ok", "error"}
Calls == [pc : Pcs, had : Nat, old : Nat, new : Nat, clean : BOOLEAN]

\* The types of the variables.
TypeOK ==
    /\ stored \in Nat /\ issued \in Nat /\ faults \in Nat /\ ensured \in BOOLEAN
    /\ secret \in [there : BOOLEAN, password : Nat, version : Nat]
    /\ mu \in [Processes -> Callers \cup {Nobody}]
    /\ call \in [Callers -> Calls]

\* Once a creation has gone on, and until storage or Secret are lost, no later
\* creation, successful or not, leaves workloads with stale auth: when no call
\* is under way nodes have a password dinki accepts (ensurePullSecret).
AuthStays ==
    ensured /\ (\A c \in Callers : call[c].pc \in {"idle", "ok", "error"}) =>
       secret.there /\ secret.password = stored /\ stored # 0

\* A credential the Secret holds and dinki accepts is reused, never replaced
\* (IssuePullCredential).
ValidReused ==
    issued' # issued => ~(secret.there /\ secret.password = stored /\ stored # 0)

\* Every call ends and lets the next one in.
CallEnds ==
    \A c \in Callers :
       call[c].pc = "lock" ~> (call[c].pc \in {"ok", "error"} \/ issued = MaxIssues)

-----------------------------------------------------------------------------
(* The inductive invariant, for any number of callers, faults and passwords,  *)
(* in one process.                                                            *)

\* The callers are those of one dink process.
OneProcess == Nobody \notin Callers /\ \A c, d \in Callers : ProcessOf[c] = ProcessOf[d]

Working(c) == call[c].pc \in {"get", "verify", "issue", "write"}

\* The Secret holds a password that dinki accepts.
Valid == secret.there /\ secret.password = stored /\ stored # 0

\* pullSecretMu is held by the call that works.
Held == \A c \in Callers : Working(c) <=> mu[ProcessOf[c]] = c

\* What a call has read still holds, unless something outside dink changed it;
\* and even then it does not replace a password that is good.
Seen(c) ==
    /\ call[c].pc = "verify" /\ secret.there => secret.password \in {call[c].old, 0}
    /\ call[c].pc = "verify" /\ call[c].clean
          => call[c].old = (IF secret.there THEN secret.password ELSE 0)
    /\ call[c].pc = "issue" => ~Valid
    /\ call[c].pc = "write" => ~ensured /\ (call[c].clean => stored = call[c].new /\ stored # 0)

IInv ==
    /\ TypeOK /\ Held /\ (ensured => Valid)
    /\ \A c \in Callers : Seen(c)

\* A step of one call, to q.
Moves(c, q) ==
    /\ \A d \in Callers \ {c} : call'[d] = call[d]
    /\ call'[c] = q /\ q \in Calls /\ call' \in [Callers -> Calls]
=============================================================================
