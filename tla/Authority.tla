------------------------------ MODULE Authority ------------------------------
(***************************************************************************)
(* dinkle's certificate authority and installation (cmd/dinkle/command     *)
(* service.go, install.go, store/file.go, store/secret.go).  Every host    *)
(* caches the CA in two files; the cluster holds it in one Secret.  Hosts  *)
(* run commands that read one, the other or both, mint a CA when they find *)
(* none, sign server certificates with it and write it back.  A command    *)
(* may stop, or be stopped, between any two of its writes.                 *)
(***************************************************************************)
EXTENDS Integers, Sequences, FiniteSets

CONSTANTS Hosts,     \* hosts that run dinkle, each with a certsDir
          Services,  \* a sequence: the services that need a certificate
          Ops,       \* the commands run
          Together,  \* whether two hosts run commands at the same time
          Faults,    \* whether writes are torn, the CA Secret lost, the cluster out of reach
          MaxCA,     \* bound: CAs minted
          MaxStops   \* bound: commands that stop

VARIABLES file,      \* the CA files of each host: [cert, key]
          secret,    \* the CA Secret: [cert, key]
          tls,       \* the certificate Secret of each service: [ca, by]
          deployed,  \* whether the dink Deployment exists
          cmd,       \* the command each host runs
          minted, stops

vars == <<file, secret, tls, deployed, cmd, minted, stops>>

None == 0
Torn == -1
NoPair == [cert |-> None, key |-> None]
NoCert == [ca |-> None, by |-> None]
Idle == [op |-> "none", pc |-> "idle", ca |-> NoPair, has |-> FALSE, todo |-> <<>>, missing |-> <<>>, ret |-> "idle"]
Running(c) == c.pc \notin {"idle", "ok", "failed"}

Go(h, c) == cmd' = [cmd EXCEPT ![h] = c]

To(c, pc) == [c EXCEPT !.pc = pc]

\* The file store finds no authority unless both files are there.
LoadCA(f) == IF f.cert = None \/ f.key = None THEN NoPair ELSE f

\* pki.LoadAuthority refuses a certificate with another's key.
Loads(p) == p.cert = p.key /\ p.cert \notin {None, Torn}

-----------------------------------------------------------------------------
(* Commands. *)

First(op) ==
    CASE op = "install" -> "readCA" [] op = "upgrade" -> "readCA" [] op = "generate" -> "load"
      [] op = "rotate" -> "load" [] op = "issue" -> "existing" [] op = "pull" -> "pull" [] op = "push" -> "push"

Start(h) ==
    /\ \A g \in Hosts : Running(cmd[g]) => Together /\ g # h
    /\ \E op \in Ops : \E s \in {Services[i] : i \in DOMAIN Services} :
        cmd' = [g \in Hosts |->
                  IF g = h THEN [Idle EXCEPT !.op = op, !.pc = First(op), !.todo = IF op = "issue" THEN <<s>> ELSE Services,
                                             !.missing = IF op = "issue" THEN <<s>> ELSE <<>>]
                  ELSE IF Running(cmd[g]) THEN cmd[g] ELSE Idle]
    /\ UNCHANGED <<file, secret, tls, deployed, minted, stops>>

\* Mutant: an installation that has a CA counts as done.
Refused_exists(c) ==
    \/ c.op = "install" /\ c.has
    \/ ~c.has /\ deployed

\* prepareInstallation's first checks, before it writes anything.
Refused(c) ==
    \/ c.op = "upgrade" /\ ~c.has
    \/ ~c.has /\ deployed
    \/ c.has /\ ~Loads(secret)

ReadCA(h) ==
    LET c == [cmd[h] EXCEPT !.has = secret # NoPair, !.ca = secret]
    IN  /\ cmd[h].pc = "readCA"
        /\ Go(h, To(c, IF Refused(c) THEN "failed" ELSE "readTLS"))
        /\ UNCHANGED <<file, secret, tls, deployed, minted, stops>>

\* Mutant: without a CA there is nothing to compare a certificate with.
Valid_noCA(c, s) == c.has => tls[s].ca = c.ca.cert /\ tls[s].by = c.ca.cert

\* validateInstallationCertificate; without the CA there is no valid one.
Valid(c, s) == c.has /\ tls[s].ca = c.ca.cert /\ tls[s].by = c.ca.cert

Missing(s) == tls[s] = NoCert

ReadTLS(h) ==
    LET c == cmd[h]
        s == Head(c.todo)
    IN  /\ c.pc = "readTLS" /\ c.todo # <<>>
        /\ Go(h, CASE Missing(s) /\ c.op = "upgrade" -> To(c, "failed")
                   [] Missing(s) /\ c.op = "install" -> [c EXCEPT !.todo = Tail(@), !.missing = Append(@, s)]
                   [] ~Missing(s) /\ Valid(c, s) -> [c EXCEPT !.todo = Tail(@)]
                   [] OTHER -> To(c, "failed"))
        /\ UNCHANGED <<file, secret, tls, deployed, minted, stops>>

\* "local and cluster CAs differ".
Conflict(c, local) == c.has /\ local # NoPair /\ local.cert # c.ca.cert

ReadLocal(h) ==
    LET c == cmd[h]
        local == LoadCA(file[h])
    IN  /\ c.pc = "readTLS" /\ c.todo = <<>>
        /\ Go(h, CASE c.op = "upgrade" -> To(c, "apply")
                   [] c.op = "install" /\ local # NoPair /\ ~Loads(local) -> To(c, "failed")
                   [] c.op = "install" /\ (local = NoPair \/ Loads(local)) ->
                        IF Conflict(c, local) THEN To(c, "failed")
                        ELSE IF c.has THEN [c EXCEPT !.pc = "cert", !.ret = "load"]
                        ELSE To(c, "load"))
        /\ UNCHANGED <<file, secret, tls, deployed, minted, stops>>

\* loadOrCreateCA: the local cache, then the cluster, then a new CA.  Without a
\* client for the cluster a new CA is cached before the command fails.
Load(h) ==
    LET c == cmd[h]
        local == LoadCA(file[h])
        With(p, ret) == [c EXCEPT !.ca = p, !.pc = IF Loads(p) THEN "cert" ELSE "failed", !.ret = ret]
        New == [cert |-> minted + 1, key |-> minted + 1]
    IN  /\ c.pc = "load"
        /\ \/ /\ c.op # "rotate" /\ local # NoPair
              /\ Go(h, With(local, "put"))
              /\ UNCHANGED minted
           \/ /\ c.op # "rotate" /\ local = NoPair /\ secret # NoPair
              /\ Go(h, With(secret, "put"))
              /\ UNCHANGED minted
           \/ /\ c.op = "rotate" \/ (local = NoPair /\ secret = NoPair)
              /\ minted' = minted + 1
              /\ Go(h, With(New, "put"))
           \/ /\ Faults /\ c.op = "generate" /\ local = NoPair
              /\ minted' = minted + 1
              /\ Go(h, With(New, "failed"))
        /\ minted' <= MaxCA
        /\ UNCHANGED <<file, secret, tls, deployed, stops>>

\* saveFiles writes the certificate, then the key.
WriteCert(h) ==
    /\ cmd[h].pc = "cert"
    /\ file' = [file EXCEPT ![h].cert = cmd[h].ca.cert]
    /\ Go(h, To(cmd[h], "key"))
    /\ UNCHANGED <<secret, tls, deployed, minted, stops>>

WriteKey(h) ==
    /\ cmd[h].pc = "key"
    /\ file' = [file EXCEPT ![h].key = cmd[h].ca.key]
    /\ Go(h, To(cmd[h], cmd[h].ret))
    /\ UNCHANGED <<secret, tls, deployed, minted, stops>>

AfterPut(c) == IF c.op = "install" THEN "issuing" ELSE "ok"

PutCA(h) ==
    /\ cmd[h].pc = "put"
    /\ secret' = cmd[h].ca
    /\ Go(h, To(cmd[h], AfterPut(cmd[h])))
    /\ UNCHANGED <<file, tls, deployed, minted, stops>>

\* The certificates an installation lacks, one IssueServer each.
Issuing(h) ==
    /\ cmd[h].pc = "issuing"
    /\ Go(h, To(cmd[h], IF cmd[h].missing = <<>> THEN "apply" ELSE "existing"))
    /\ UNCHANGED <<file, secret, tls, deployed, minted, stops>>

\* loadExistingCA: the local cache, then the cluster.
Existing(h) ==
    LET c == cmd[h]
        local == LoadCA(file[h])
        With(p, pc) == [c EXCEPT !.ca = p, !.pc = pc, !.ret = "issue"]
    IN  /\ c.pc = "existing"
        /\ Go(h, IF local # NoPair THEN With(local, IF Loads(local) THEN "issue" ELSE "failed")
                 ELSE IF secret # NoPair THEN With(secret, "cert")
                 ELSE To(c, "failed"))
        /\ UNCHANGED <<file, secret, tls, deployed, minted, stops>>

Issue(h) ==
    LET c == cmd[h]
    IN  /\ c.pc = "issue"
        /\ IF Loads(c.ca)
           THEN /\ tls' = [tls EXCEPT ![Head(c.missing)] = [ca |-> c.ca.cert, by |-> c.ca.key]]
                /\ Go(h, [c EXCEPT !.missing = Tail(@), !.pc = IF c.op = "issue" THEN "ok" ELSE "issuing"])
           ELSE UNCHANGED tls /\ Go(h, To(c, "failed"))
        /\ UNCHANGED <<file, secret, deployed, minted, stops>>

\* applyInstallation.
Apply(h) ==
    /\ cmd[h].pc = "apply"
    /\ deployed' = TRUE
    /\ Go(h, To(cmd[h], "ok"))
    /\ UNCHANGED <<file, secret, tls, minted, stops>>

\* SyncCA, which moves a pair without loading it.
Pull(h) ==
    /\ cmd[h].pc = "pull"
    /\ Go(h, IF secret = NoPair THEN To(cmd[h], "failed")
             ELSE [cmd[h] EXCEPT !.ca = secret, !.pc = "cert", !.ret = "ok"])
    /\ UNCHANGED <<file, secret, tls, deployed, minted, stops>>

Push(h) ==
    /\ cmd[h].pc = "push"
    /\ Go(h, IF LoadCA(file[h]) = NoPair THEN To(cmd[h], "failed")
             ELSE [cmd[h] EXCEPT !.ca = file[h], !.pc = "put"])
    /\ UNCHANGED <<file, secret, tls, deployed, minted, stops>>

\* An error of the API server or the disk, a timeout, or the operator.  What is
\* stopped in the middle of writing a file leaves part of it.
Stop(h) ==
    /\ Running(cmd[h]) /\ stops < MaxStops
    /\ stops' = stops + 1
    /\ Go(h, To(cmd[h], "failed"))
    /\ \/ UNCHANGED file
       \/ Faults /\ cmd[h].pc = "cert" /\ file' = [file EXCEPT ![h].cert = Torn]
       \/ Faults /\ cmd[h].pc = "key" /\ file' = [file EXCEPT ![h].key = Torn]
    /\ UNCHANGED <<secret, tls, deployed, minted>>

\* The cluster loses the CA Secret, as a namespace restored without it does.
LoseCA ==
    /\ Faults /\ secret # NoPair /\ \A h \in Hosts : ~Running(cmd[h])
    /\ secret' = NoPair
    /\ cmd' = [h \in Hosts |-> Idle]
    /\ UNCHANGED <<file, tls, deployed, minted, stops>>

-----------------------------------------------------------------------------
Init ==
    /\ file = [h \in Hosts |-> NoPair]
    /\ secret = NoPair
    /\ tls = [s \in {Services[i] : i \in DOMAIN Services} |-> NoCert]
    /\ deployed = FALSE
    /\ cmd = [h \in Hosts |-> Idle]
    /\ minted = 0
    /\ stops = 0

Step(h) ==
    \/ ReadCA(h) \/ ReadTLS(h) \/ ReadLocal(h) \/ Load(h) \/ WriteCert(h) \/ WriteKey(h) \/ PutCA(h)
    \/ Issuing(h) \/ Existing(h) \/ Issue(h) \/ Apply(h) \/ Pull(h) \/ Push(h)

Next == LoseCA \/ \E h \in Hosts : Start(h) \/ Step(h) \/ Stop(h)

Spec == Init /\ [][Next]_vars

\* Commands run to their end, and an operator whose command failed runs it again
\* once nobody else's is running.
Retried(h) == cmd[h].pc \in {"idle", "failed"} /\ Start(h)

Fairness == \A h \in Hosts : WF_vars(Step(h)) /\ SF_vars(Retried(h))

-----------------------------------------------------------------------------
(* Properties. *)

Pairs == [cert : Torn..MaxCA, key : Torn..MaxCA]

\* The shape of the stores; a command is at a place of its own.
TypeOK ==
    /\ file \in [Hosts -> Pairs] /\ secret \in Pairs
    /\ \A s \in DOMAIN tls : tls[s] = NoCert \/ tls[s].by \in 1..MaxCA
    /\ \A h \in Hosts : cmd[h].pc = "issue" => cmd[h].missing # <<>>

Succeeded(ops) == \E h \in Hosts : cmd[h].op \in ops /\ cmd[h].pc = "ok"

\* An install or upgrade that says the release is ready leaves every service a
\* certificate that the cluster's CA issued, whatever earlier commands were
\* stopped at (prepareInstallation).
ReadyIsTrusted ==
    Succeeded({"install", "upgrade"}) =>
        /\ Loads(secret)
        /\ \A s \in DOMAIN tls : tls[s] = [ca |-> secret.cert, by |-> secret.cert]

\* "Rerunning installation preserves valid existing certificates and rejects a
\* conflicting local CA": an install never replaces a CA or a certificate.
InstallPreserves ==
    \A h \in Hosts : cmd[h].op \in {"install", "upgrade"} /\ Running(cmd[h]) /\ cmd[h] # cmd'[h] =>
       /\ secret # NoPair => secret' = secret
       /\ \A s \in DOMAIN tls : tls[s] # NoCert => tls'[s] = tls[s]

\* An install never gives the cluster a CA that did not issue the certificates
\* already there: a lost CA has to be restored (prepareInstallation).
NoSecondCA ==
    \A h \in Hosts : cmd[h].op = "install" /\ secret = NoPair /\ secret' # NoPair =>
       ~deployed /\ \A s \in DOMAIN tls : tls[s] = NoCert

\* An installation that was interrupted is completed by running it again.
RerunCompletes == <>Succeeded({"install"})
=============================================================================
