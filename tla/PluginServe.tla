---------------------------- MODULE PluginServe ----------------------------
(***************************************************************************)
(* A plugin's servers (serveAll, sdk/plugin/plugin.go): each listens and   *)
(* serves in a goroutine that sends how it ended; the first one to end, or *)
(* the cancelled context, shuts all of them down.                          *)
(***************************************************************************)
EXTENDS Integers, Sequences, FiniteSets, FiniteSetTheorems, TLAPS

CONSTANT N            \* servers: Serve has the plugin's and, if asked for, the health one

VARIABLES
    main,             \* [pc, next, err, shutdownErr, remaining]: serveAll
    server,           \* of each server: none, started, serving, closed or failed
    sent,             \* servers whose goroutine has sent how it ended
    closing,          \* servers whose Shutdown was called
    errc,             \* the channel
    cancelled

vars == <<main, server, sent, closing, errc, cancelled>>

Nil == "nil"
Servers == 1..N
Returned == main.pc = "returned"

Capacity == N

-----------------------------------------------------------------------------
(* serveAll. *)

\* The next server listens and its goroutine is started; if it cannot listen
\* the ones that run are shut down.
Listen ==
    /\ main.pc = "listen"
    /\ \/ /\ main.next <= N
          /\ main' = [main EXCEPT !.next = @ + 1] /\ server' = [server EXCEPT ![main.next] = "started"]
       \/ /\ main.next <= N
          /\ main' = [main EXCEPT !.pc = "shutdown", !.err = "listen", !.next = 1, !.remaining = 0]
          /\ UNCHANGED server
       \/ /\ main.next > N
          /\ main' = [main EXCEPT !.pc = "select", !.remaining = N] /\ UNCHANGED server
    /\ UNCHANGED <<sent, closing, errc, cancelled>>

SelectError ==
    /\ main.pc = "select" /\ errc # <<>>
    /\ main' = [main EXCEPT !.pc = "shutdown", !.err = Head(errc), !.remaining = @ - 1, !.next = 1]
    /\ errc' = Tail(errc) /\ UNCHANGED <<server, sent, closing, cancelled>>

SelectDone ==
    /\ main.pc = "select" /\ cancelled
    /\ main' = [main EXCEPT !.pc = "shutdown", !.next = 1]
    /\ UNCHANGED <<server, sent, closing, errc, cancelled>>

IsRunning(i) == i \in Servers /\ server[i] # "none"

\* shutdown: a server's listener is closed...
CloseListener ==
    /\ main.pc = "shutdown" /\ IsRunning(main.next) /\ main.next \notin closing
    /\ closing' = closing \cup {main.next}
    /\ UNCHANGED <<main, server, sent, errc, cancelled>>

\* Mutant: the servers after one that ran out of time are left.
Shutdown_UntilTimeout ==
    /\ main.pc = "shutdown"
    /\ \/ main.next \in closing /\ main' = [main EXCEPT !.next = @ + 1]
       \/ main.next \in closing /\ main' = [main EXCEPT !.pc = "drain", !.shutdownErr = "timeout"]
       \/ ~IsRunning(main.next) /\ main' = [main EXCEPT !.pc = IF main.err = "listen" THEN "returned" ELSE "drain"]
    /\ UNCHANGED <<server, sent, closing, errc, cancelled>>

\* ...and its connections are waited for until the time that all of them share
\* is over.
Shutdown ==
    /\ main.pc = "shutdown"
    /\ \/ /\ main.next \in closing
          /\ \E timeout \in BOOLEAN :
                main' = [main EXCEPT !.next = @ + 1, !.shutdownErr = IF timeout THEN "timeout" ELSE @]
       \/ ~IsRunning(main.next) /\ main' = [main EXCEPT !.pc = IF main.err = "listen" THEN "returned" ELSE "drain"]
    /\ UNCHANGED <<server, sent, closing, errc, cancelled>>

\* The first error that is not of the shutdown.
Kept(err, serveErr) == IF err = Nil /\ serveErr # "closed" THEN serveErr ELSE err

\* Mutant: one server is not waited for.
IsDrained_Early == main.remaining <= 1

IsDrained == main.remaining = 0

Drain ==
    /\ main.pc = "drain" /\ ~IsDrained /\ errc # <<>>
    /\ main' = [main EXCEPT !.remaining = @ - 1, !.err = Kept(@, Head(errc))]
    /\ errc' = Tail(errc) /\ UNCHANGED <<server, sent, closing, cancelled>>

Return ==
    /\ main.pc = "drain" /\ IsDrained
    /\ main' = [main EXCEPT !.pc = "returned", !.err = IF @ # Nil THEN @ ELSE main.shutdownErr]
    /\ UNCHANGED <<server, sent, closing, errc, cancelled>>

-----------------------------------------------------------------------------
(* A server's goroutine. *)

\* Serve returns at once if Shutdown came first.
Serve(i) ==
    /\ server[i] = "started"
    /\ server' = [server EXCEPT ![i] = IF i \in closing THEN "closed" ELSE "serving"]
    /\ UNCHANGED <<main, sent, closing, errc, cancelled>>

Closed(i) ==
    /\ server[i] = "serving" /\ i \in closing
    /\ server' = [server EXCEPT ![i] = "closed"] /\ UNCHANGED <<main, sent, closing, errc, cancelled>>

Send(i) ==
    /\ server[i] \in {"closed", "failed"} /\ i \notin sent /\ Len(errc) < Capacity
    /\ errc' = Append(errc, server[i]) /\ sent' = sent \cup {i}
    /\ UNCHANGED <<main, server, closing, cancelled>>

-----------------------------------------------------------------------------
(* The environment. *)

Fail(i) ==
    /\ server[i] \in {"started", "serving"} /\ i \notin closing
    /\ server' = [server EXCEPT ![i] = "failed"] /\ UNCHANGED <<main, sent, closing, errc, cancelled>>

Cancel ==
    /\ ~cancelled /\ cancelled' = TRUE /\ UNCHANGED <<main, server, sent, closing, errc>>

Init ==
    /\ main = [pc |-> "listen", next |-> 1, err |-> Nil, shutdownErr |-> Nil, remaining |-> 0]
    /\ server = [i \in Servers |-> "none"] /\ sent = {} /\ closing = {} /\ errc = <<>> /\ cancelled = FALSE

ServeAll == Listen \/ SelectError \/ SelectDone \/ CloseListener \/ Shutdown \/ Drain \/ Return
Goroutine(i) == Serve(i) \/ Closed(i) \/ Send(i)

Next == ServeAll \/ Cancel \/ \E i \in Servers : Goroutine(i) \/ Fail(i)

Spec == Init /\ [][Next]_vars

\* The goroutines run, and Shutdown returns by its timeout; servers need not
\* fail and the context need not be cancelled.
Fairness == WF_vars(ServeAll) /\ \A i \in Servers : WF_vars(Goroutine(i))

-----------------------------------------------------------------------------
\* The type invariant.
TypeOK ==
    /\ main.pc \in {"listen", "select", "shutdown", "drain", "returned"}
    /\ main.next \in 1..(N + 1) /\ main.remaining \in 0..N
    /\ main.err \in {Nil, "listen", "failed", "closed", "timeout"}
    /\ server \in [Servers -> {"none", "started", "serving", "closed", "failed"}]
    /\ Len(errc) <= N /\ \A i \in closing : server[i] # "none"

\* "A server that stops before shutdown always reports why, so its error wins":
\* over the cancelled context it races, the shutdown's own error and the end of
\* the others (serveAll).
FailureIsReported ==
    Returned /\ (\E i \in Servers : server[i] = "failed") => main.err \in {"failed", "listen"}

\* A plugin that is cancelled, and whose connections end in time, has no error
\* to report (serveAll).
CleanStopIsNil ==
    Returned /\ (\A i \in Servers : server[i] = "closed") => main.err = main.shutdownErr

\* No server serves once Serve has returned, unless it could not listen
\* (serveAll's drain).
StoppedWhenReturned ==
    Returned /\ main.err # "listen" => \A i \in Servers : i \in sent

\* A cancelled plugin returns, and so does one a server of which failed: it is
\* restarted rather than left without one (serveAll).
Stops ==
    (cancelled \/ \E i \in Servers : server[i] = "failed") ~> Returned

\* Every goroutine ends after Serve has returned, also the ones nobody receives
\* from when a later server cannot listen (the capacity of errc).
GoroutinesEnd ==
    Returned ~> \A i \in Servers : server[i] = "none" \/ i \in sent

-----------------------------------------------------------------------------
(* What the properties rest on, for any number of servers: every answer is   *)
(* in the channel or was received, so that a drained serveAll has them all.  *)

NAssumption == N \in Nat

MainRecs == [pc : {"listen", "select", "shutdown", "drain", "returned"}, next : 1..(N + 1),
             err : {Nil, "listen", "failed", "timeout"}, shutdownErr : {Nil, "timeout"},
             remaining : 0..N]
ServerStates == {"none", "started", "serving", "closed", "failed"}

Typed ==
    /\ main \in MainRecs /\ server \in [Servers -> ServerStates]
    /\ sent \subseteq Servers /\ closing \subseteq Servers /\ errc \in Seq({"closed", "failed"})

Began == main.pc # "listen" /\ main.err # "listen"

\* Answers that serveAll has received; the others that were sent are in errc.
Received == IF Began THEN N - main.remaining ELSE 0

\* Where serveAll is.
MainAt ==
    /\ main.pc = "listen" => /\ main.err = Nil
                             /\ \A i \in Servers : server[i] # "none" <=> i < main.next
    /\ main.pc \in {"listen", "select"} => main.err = Nil /\ main.shutdownErr = Nil /\ closing = {}
    /\ Began => \A i \in Servers : server[i] # "none"
    /\ main.err = "listen" => /\ main.pc \in {"shutdown", "returned"}
                              /\ \E i \in Servers : server[i] = "none"
    /\ main.pc = "returned" /\ main.err # "listen" => main.remaining = 0
    /\ main.err = "timeout" => main.pc = "returned" /\ main.shutdownErr = "timeout"
    /\ main.pc = "returned" /\ main.err = Nil => main.shutdownErr = Nil

\* Where the servers are.
ServerAt ==
    /\ \A i \in closing : server[i] # "none"
    /\ \A i \in Servers : server[i] = "closed" => i \in closing
    /\ \A i \in sent : server[i] \in {"closed", "failed"}

\* What an answer in the channel says, and that no failure gets lost.
Answers ==
    /\ \A k \in 1..Len(errc) : \E i \in sent : server[i] = errc[k]
    /\ main.err = "failed" => \E i \in sent : server[i] = "failed"
    /\ main.err # "listen" /\ (\E i \in sent : server[i] = "failed")
           => main.err = "failed" \/ \E k \in 1..Len(errc) : errc[k] = "failed"

\* Every answer that was sent is in the channel or was received.
Counted == Cardinality(sent) = Len(errc) + Received

IInv == Typed /\ Counted /\ MainAt /\ ServerAt /\ Answers

-----------------------------------------------------------------------------
\* The channel after a receive and after a send.
LEMMA ServeReceives ==
  ASSUME Typed, errc # <<>>, errc' = Tail(errc)
  PROVE  /\ errc' \in Seq({"closed", "failed"}) /\ Len(errc) \in Nat /\ Len(errc') = Len(errc) - 1
         /\ Head(errc) = errc[1] /\ Head(errc) \in {"closed", "failed"} /\ 1 \in 1..Len(errc)
         /\ \A k \in 1..Len(errc') : k + 1 \in 1..Len(errc) /\ errc'[k] = errc[k + 1]
         /\ \A k \in 1..Len(errc) : k = 1 \/ (k - 1 \in 1..Len(errc') /\ errc'[k - 1] = errc[k])
<1>1. errc \in Seq({"closed", "failed"})
  BY Zenon DEF Typed
<1> QED
  BY <1>1, SMT

LEMMA ServeSends ==
  ASSUME Typed, NEW x \in {"closed", "failed"}, errc' = Append(errc, x)
  PROVE  /\ errc' \in Seq({"closed", "failed"}) /\ Len(errc) \in Nat /\ Len(errc') = Len(errc) + 1
         /\ \A k \in 1..Len(errc) : k \in 1..Len(errc') /\ errc'[k] = errc[k]
         /\ \A k \in 1..Len(errc') : k \in 1..Len(errc) \/ errc'[k] = x
         /\ Len(errc') \in 1..Len(errc') /\ errc'[Len(errc')] = x
<1>1. errc \in Seq({"closed", "failed"})
  BY Zenon DEF Typed
<1> QED
  BY <1>1, SMT

LEMMA ServeSizes ==
  ASSUME NAssumption, Typed
  PROVE  /\ IsFiniteSet(sent) /\ Cardinality(sent) \in 0..N /\ Len(errc) \in Nat
         /\ Cardinality(sent) = N => sent = Servers
<1>1. IsFiniteSet(Servers) /\ Cardinality(Servers) = N
  <2>1. IsFiniteSet(1..N) /\ Cardinality(1..N) = IF 1 > N THEN 0 ELSE N - 1 + 1
    BY FS_Interval, SMT DEF NAssumption
  <2>2. IsFiniteSet(1..N) /\ Cardinality(1..N) = N
    BY <2>1, SMT DEF NAssumption
  <2> QED
    BY <2>2, Zenon DEF Servers
<1>2. sent \subseteq Servers /\ errc \in Seq({"closed", "failed"})
  BY Zenon DEF Typed
<1>3. /\ IsFiniteSet(sent) /\ Cardinality(sent) <= Cardinality(Servers)
      /\ Cardinality(sent) = Cardinality(Servers) => sent = Servers
  BY <1>1, <1>2, FS_Subset, Zenon
<1>4. Cardinality(sent) \in Nat
  BY <1>3, FS_CardinalityType, Zenon
<1>5. Len(errc) \in Nat
  BY <1>2, SMT
<1>6. Cardinality(sent) \in 0..N
  BY <1>1, <1>3, <1>4, SMT DEF NAssumption
<1> QED
  BY <1>1, <1>3, <1>5, <1>6, Zenon

\* A drained serveAll has heard from every server.
LEMMA ServeDrained ==
  ASSUME NAssumption, IInv, Began, main.remaining = 0
  PROVE  sent = Servers /\ Len(errc) = 0
<1>1. Cardinality(sent) = Len(errc) + N
  <2>1. Received = N - main.remaining /\ Cardinality(sent) = Len(errc) + Received
    BY Zenon DEF IInv, Counted, Received
  <2>2. N - main.remaining = N
    BY SMT DEF NAssumption
  <2> QED
    BY <2>1, <2>2, Zenon
<1>2. Typed
  BY Zenon DEF IInv
<1>3. Cardinality(sent) = N /\ Len(errc) = 0
  BY <1>1, <1>2, ServeSizes, SMT DEF NAssumption
<1> QED
  BY <1>2, <1>3, ServeSizes, Zenon

LEMMA ServeInit == ASSUME NAssumption, Init PROVE IInv
<1>1. /\ 1 \in 1..(N + 1) /\ 0 \in 0..N /\ \A i \in 1..N : ~(i < 1)
      /\ <<>> \in Seq({"closed", "failed"}) /\ Len(<<>>) = 0 /\ 1..0 = {} /\ 0 + 0 = 0
  BY SMT DEF NAssumption
<1>2. main \in MainRecs /\ main.pc = "listen" /\ main.next = 1 /\ main.err = Nil
      /\ main.shutdownErr = Nil
  BY <1>1, Zenon DEF Init, MainRecs
<1>3. Typed /\ \A i \in Servers : server[i] = "none"
  BY <1>1, <1>2, Zenon DEF Init, Typed, ServerStates
<1>4. Counted
  <2>1. Cardinality(sent) = 0
    BY FS_EmptySet, Zenon DEF Init
  <2>2. Received = 0 /\ Len(errc) = 0
    BY <1>1, <1>2, Zenon DEF Received, Began, Init
  <2> QED
    BY <2>1, <2>2, <1>1, Zenon DEF Counted
<1>5. MainAt
  BY <1>1, <1>2, <1>3, Zenon DEF MainAt, Began, Nil, Servers, Init
<1>6. ServerAt /\ Answers
  BY <1>1, <1>2, <1>3, Zenon DEF ServerAt, Answers, Init, Nil
<1> QED
  BY <1>3, <1>4, <1>5, <1>6, Zenon DEF IInv

\* The answers stay what they are as long as the servers that sent them do.
LEMMA ServeKept ==
  ASSUME Answers, UNCHANGED <<sent, errc>>, \A j \in sent : server'[j] = server[j],
         main'.err = main.err
  PROVE  Answers'
<1>1. \A k \in 1..Len(errc) : \E j \in sent : server'[j] = errc[k]
  <2> TAKE k \in 1..Len(errc)
  <2>1. PICK j \in sent : server[j] = errc[k]
    BY Zenon DEF Answers
  <2> QED
    BY <2>1, Zenon
<1>2. (\E j \in sent : server'[j] = "failed") <=> (\E j \in sent : server[j] = "failed")
  BY Zenon
<1> QED
  BY <1>1, <1>2, Zenon DEF Answers

\* A server's goroutine goes on; it has sent nothing yet.
LEMMA ServeGoes ==
  ASSUME IInv, NEW i \in Servers, NEW x \in {"serving", "closed", "failed"},
         server[i] \in {"started", "serving"}, server' = [server EXCEPT ![i] = x],
         x = "closed" => i \in closing, UNCHANGED <<main, sent, closing, errc>>
  PROVE  IInv'
<1>1. /\ \A j \in Servers : server'[j] = IF j = i THEN x ELSE server[j]
      /\ i \notin sent /\ sent \subseteq Servers /\ closing \subseteq Servers
  BY Zenon DEF IInv, Typed, ServerAt
<1>2. Typed'
  BY Zenon DEF IInv, Typed, ServerStates
<1>3. \A j \in Servers : (server'[j] = "none" <=> server[j] = "none") /\ (j \in sent => server'[j] = server[j])
  BY <1>1, Zenon
<1>4. Counted'
  BY Zenon DEF IInv, Counted, Received, Began
<1>5. MainAt'
  BY <1>3, Zenon DEF IInv, MainAt, Began
<1>6. ServerAt'
  BY <1>1, <1>3, Zenon DEF IInv, ServerAt
<1>7. Answers'
  BY <1>1, <1>3, ServeKept, Zenon DEF IInv
<1> QED
  BY <1>2, <1>4, <1>5, <1>6, <1>7, Zenon DEF IInv

LEMMA ServeAnswers ==
  ASSUME NAssumption, IInv, NEW i \in Servers, Send(i)
  PROVE  IInv'
<1>1. /\ server[i] \in {"closed", "failed"} /\ i \notin sent /\ errc' = Append(errc, server[i])
      /\ sent' = sent \cup {i} /\ UNCHANGED <<main, server, closing>> /\ Typed
  BY Zenon DEF Send, IInv
<1>2. /\ errc' \in Seq({"closed", "failed"}) /\ Len(errc) \in Nat /\ Len(errc') = Len(errc) + 1
      /\ \A k \in 1..Len(errc) : k \in 1..Len(errc') /\ errc'[k] = errc[k]
      /\ \A k \in 1..Len(errc') : k \in 1..Len(errc) \/ errc'[k] = server[i]
      /\ Len(errc') \in 1..Len(errc') /\ errc'[Len(errc')] = server[i]
  BY <1>1, ServeSends, Zenon
<1>3. Typed'
  BY <1>1, <1>2, Zenon DEF Typed
<1>4. Counted'
  <2>1. Received' = Received /\ Cardinality(sent) = Len(errc) + Received
    BY <1>1, Zenon DEF IInv, Counted, Received, Began
  <2>2. Cardinality(sent') = Cardinality(sent) + 1
    BY <1>1, ServeSizes, FS_AddElement, Zenon
  <2>3. Received \in Int
    <3>1. main.remaining \in 0..N
      BY <1>1, Zenon DEF Typed, MainRecs
    <3>2. N - main.remaining \in Int /\ 0 \in Int
      BY <3>1, SMT DEF NAssumption
    <3> QED
      BY <3>2, Zenon DEF Received
  <2> QED
    BY <2>1, <2>2, <2>3, <1>2, SMT DEF Counted
<1>5. MainAt'
  BY <1>1, Zenon DEF IInv, MainAt, Began
<1>6. ServerAt'
  BY <1>1, Zenon DEF IInv, ServerAt
<1>7. Answers'
  <2>1. \A k \in 1..Len(errc') : \E j \in sent' : server[j] = errc'[k]
    <3> SUFFICES ASSUME NEW k \in 1..Len(errc') PROVE \E j \in sent' : server[j] = errc'[k]
      BY Zenon
    <3>1. CASE k \in 1..Len(errc)
      <4>1. PICK j \in sent : server[j] = errc[k]
        BY <3>1, Zenon DEF IInv, Answers
      <4> QED
        BY <4>1, <3>1, <1>1, <1>2, Zenon
    <3>2. CASE errc'[k] = server[i]
      BY <3>2, <1>1, Zenon
    <3> QED
      BY <3>1, <3>2, <1>2, Zenon
  <2>2. main.err = "failed" => \E j \in sent' : server[j] = "failed"
    BY <1>1, Zenon DEF IInv, Answers
  <2>3. main.err # "listen" /\ (\E j \in sent' : server[j] = "failed")
           => main.err = "failed" \/ \E k \in 1..Len(errc') : errc'[k] = "failed"
    BY <1>1, <1>2, Zenon DEF IInv, Answers
  <2> QED
    BY <2>1, <2>2, <2>3, <1>1, Zenon DEF Answers
<1> QED
  BY <1>3, <1>4, <1>5, <1>6, <1>7, Zenon DEF IInv

LEMMA ServeListens ==
  ASSUME NAssumption, IInv, Listen
  PROVE  IInv'
<1>1. /\ main \in MainRecs /\ main.pc = "listen" /\ main.err = Nil /\ main.shutdownErr = Nil
      /\ closing = {} /\ UNCHANGED <<sent, closing, errc>> /\ main.next \in 1..(N + 1)
      /\ \A i \in Servers : server[i] # "none" <=> i < main.next
  BY Zenon DEF Listen, IInv, MainAt, Typed, MainRecs
<1>2. CASE /\ main.next <= N /\ main' = [main EXCEPT !.next = @ + 1]
           /\ server' = [server EXCEPT ![main.next] = "started"]
  <2>1. /\ main.next + 1 \in 1..(N + 1) /\ main.next \in 1..N
        /\ \A i \in 1..N : i < main.next + 1 <=> i = main.next \/ i < main.next
    BY <1>1, <1>2, SMT DEF NAssumption
  <2>2. /\ main' \in MainRecs /\ main'.pc = "listen" /\ main'.next = main.next + 1
        /\ main'.err = main.err /\ main'.shutdownErr = main.shutdownErr
    BY <2>1, <1>1, <1>2, Zenon DEF MainRecs
  <2>3. /\ Typed' /\ main.next \in Servers
        /\ \A i \in Servers : server'[i] = IF i = main.next THEN "started" ELSE server[i]
    BY <2>1, <2>2, <1>1, <1>2, Zenon DEF IInv, Typed, ServerStates, Servers
  <2>4. Counted'
    BY <2>2, <1>1, Zenon DEF IInv, Counted, Received, Began
  <2>5. server[main.next] = "none" /\ main.next \notin sent
    <3>1. ~(main.next < main.next)
      BY <1>1, SMT
    <3>2. server[main.next] = "none"
      BY <3>1, <2>3, <1>1, Zenon
    <3> QED
      BY <3>2, Zenon DEF IInv, ServerAt
  <2>6. MainAt'
    BY <2>1, <2>2, <2>3, <1>1, Zenon DEF MainAt, Began, Servers, Nil
  <2>7. \A j \in sent : server'[j] = server[j]
    BY <2>3, <2>5, Zenon DEF IInv, Typed
  <2>8. Answers'
    BY <2>2, <2>7, <1>1, ServeKept, Zenon DEF IInv
  <2>9. ServerAt'
    BY <2>2, <2>3, <2>5, <2>7, <1>1, Zenon DEF IInv, ServerAt
  <2> QED
    BY <2>3, <2>4, <2>6, <2>8, <2>9, Zenon DEF IInv
<1>3. CASE /\ main.next <= N /\ UNCHANGED server
           /\ main' = [main EXCEPT !.pc = "shutdown", !.err = "listen", !.next = 1, !.remaining = 0]
  <2>1. 1 \in 1..(N + 1) /\ 0 \in 0..N /\ main.next \in 1..N /\ ~(main.next < main.next)
    BY <1>1, <1>3, SMT DEF NAssumption
  <2>2. /\ main' \in MainRecs /\ main'.pc = "shutdown" /\ main'.err = "listen"
        /\ main'.shutdownErr = main.shutdownErr
    BY <2>1, <1>1, <1>3, Zenon DEF MainRecs
  <2>3. Typed' /\ server[main.next] = "none" /\ main.next \in Servers
    BY <2>1, <2>2, <1>1, <1>3, Zenon DEF IInv, Typed, Servers
  <2>4. Counted'
    BY <2>2, <1>1, Zenon DEF IInv, Counted, Received, Began
  <2>5. MainAt'
    BY <2>2, <2>3, <1>1, <1>3, Zenon DEF MainAt, Began, Nil
  <2>6. ServerAt' /\ Answers'
    BY <2>2, <1>1, <1>3, Zenon DEF IInv, ServerAt, Answers
  <2> QED
    BY <2>3, <2>4, <2>5, <2>6, Zenon DEF IInv
<1>4. CASE main.next > N /\ main' = [main EXCEPT !.pc = "select", !.remaining = N] /\ UNCHANGED server
  <2>1. N \in 0..N /\ N - N = 0 /\ \A i \in 1..N : i < main.next
    BY <1>1, <1>4, SMT DEF NAssumption
  <2>2. /\ main' \in MainRecs /\ main'.pc = "select" /\ main'.err = main.err
        /\ main'.shutdownErr = main.shutdownErr /\ main'.remaining = N
    BY <2>1, <1>1, <1>4, Zenon DEF MainRecs
  <2>3. Typed'
    BY <2>2, <1>1, <1>4, Zenon DEF IInv, Typed
  <2>4. Counted'
    <3>1. Received = 0 /\ Received' = 0
      BY <2>1, <2>2, <1>1, Zenon DEF Received, Began
    <3> QED
      BY <3>1, <1>1, Zenon DEF IInv, Counted
  <2>5. MainAt'
    BY <2>1, <2>2, <1>1, <1>4, Zenon DEF MainAt, Began, Nil, Servers
  <2>6. ServerAt' /\ Answers'
    BY <2>2, <1>1, <1>4, Zenon DEF IInv, ServerAt, Answers
  <2> QED
    BY <2>3, <2>4, <2>5, <2>6, Zenon DEF IInv
<1> QED
  BY <1>2, <1>3, <1>4, Zenon DEF Listen

\* serveAll receives an answer: one more is counted, and a failure is kept.
LEMMA ServeTakes ==
  ASSUME NAssumption, IInv, Began, errc # <<>>, errc' = Tail(errc),
         UNCHANGED <<server, sent, closing>>, main' \in MainRecs, Began',
         main'.remaining = main.remaining - 1,
         Head(errc) = "failed" => main'.err = "failed",
         Head(errc) = "closed" => main'.err = main.err,
         main.err \in {Nil, "failed"}
  PROVE  Typed' /\ Counted' /\ Answers'
<1>1. Typed /\ Answers /\ Counted
  BY Zenon DEF IInv
<1>2. /\ errc' \in Seq({"closed", "failed"}) /\ Len(errc) \in Nat /\ Len(errc') = Len(errc) - 1
      /\ Head(errc) = errc[1] /\ Head(errc) \in {"closed", "failed"} /\ 1 \in 1..Len(errc)
      /\ \A k \in 1..Len(errc') : k + 1 \in 1..Len(errc) /\ errc'[k] = errc[k + 1]
      /\ \A k \in 1..Len(errc) : k = 1 \/ (k - 1 \in 1..Len(errc') /\ errc'[k - 1] = errc[k])
  BY <1>1, ServeReceives, Zenon
<1>3. Typed'
  BY <1>1, <1>2, Zenon DEF Typed
<1>4. Counted'
  <2>1. /\ Received = N - main.remaining /\ Received' = N - (main.remaining - 1)
        /\ Cardinality(sent) = Len(errc) + Received /\ main.remaining \in 0..N
    BY <1>1, Zenon DEF Counted, Received, Typed, MainRecs
  <2> QED
    BY <2>1, <1>2, SMT DEF Counted, NAssumption
<1>5. ASSUME NEW k \in 1..Len(errc') PROVE \E j \in sent : server[j] = errc'[k]
  <2>1. PICK j \in sent : server[j] = errc[k + 1]
    BY <1>1, <1>2, Zenon DEF Answers
  <2> QED
    BY <2>1, <1>2, Zenon
<1>6. main'.err = "failed" => \E j \in sent : server[j] = "failed"
  BY <1>1, <1>2, Zenon DEF Answers
<1>7. ASSUME \E j \in sent : server[j] = "failed"
      PROVE  main'.err = "failed" \/ \E k \in 1..Len(errc') : errc'[k] = "failed"
  <2>1. main.err # "listen"
    BY Zenon DEF Nil
  <2>2. CASE main.err = "failed"
    BY <2>2, <1>2, Zenon
  <2>3. CASE \E k \in 1..Len(errc) : errc[k] = "failed"
    BY <2>3, <1>2, Zenon
  <2> QED
    BY <2>1, <2>2, <2>3, <1>1, <1>7, Zenon DEF Answers
<1> QED
  BY <1>3, <1>4, <1>5, <1>6, <1>7, Zenon DEF Answers

\* Where an answer can be received, fewer than all were.
LEMMA ServeRemains ==
  ASSUME NAssumption, IInv, Began, errc # <<>>
  PROVE  main.remaining - 1 \in 0..N
<1>1. /\ Cardinality(sent) = Len(errc) + (N - main.remaining) /\ main.remaining \in 0..N
      /\ errc \in Seq({"closed", "failed"}) /\ Typed
  BY Zenon DEF IInv, Counted, Received, Typed, MainRecs
<1>2. Cardinality(sent) \in 0..N
  BY <1>1, ServeSizes, Zenon
<1>3. Len(errc) >= 1 /\ Len(errc) \in Nat
  BY <1>1, SMT
<1> QED
  BY <1>1, <1>2, <1>3, SMT DEF NAssumption

LEMMA ServeSelects ==
  ASSUME NAssumption, IInv, SelectError \/ SelectDone
  PROVE  IInv'
<1>1. /\ main \in MainRecs /\ main.pc = "select" /\ main.err = Nil
      /\ main.shutdownErr = Nil /\ closing = {} /\ Typed /\ ServerAt
      /\ UNCHANGED <<server, sent, closing>> /\ \A i \in Servers : server[i] # "none"
      /\ Began
  BY Zenon DEF SelectError, SelectDone, IInv, MainAt, Typed,
               Began, Nil
<1>2. 1 \in 1..(N + 1)
  BY SMT DEF NAssumption
<1>3. ServerAt'
  BY <1>1, Zenon DEF ServerAt
<1>4. CASE SelectError
  <2>1. errc # <<>> /\ errc' = Tail(errc) /\ main.remaining - 1 \in 0..N
        /\ main' = [main EXCEPT !.pc = "shutdown", !.err = Head(errc), !.remaining = @ - 1, !.next = 1]
    BY <1>1, <1>4, ServeRemains, Zenon DEF SelectError
  <2>2. Head(errc) = "failed"
    <3>1. Head(errc) = errc[1] /\ Head(errc) \in {"closed", "failed"} /\ 1 \in 1..Len(errc)
      BY <1>1, <2>1, ServeReceives, Zenon
    <3>2. PICK j \in sent : server[j] = errc[1]
      BY <3>1, Zenon DEF IInv, Answers
    <3> QED
      BY <3>1, <3>2, <1>1, Zenon DEF ServerAt, Typed
  <2>3. /\ main' \in MainRecs /\ main'.pc = "shutdown" /\ main'.err = "failed"
        /\ main'.shutdownErr = main.shutdownErr /\ main'.remaining = main.remaining - 1
    BY <2>1, <2>2, <1>1, <1>2, Zenon DEF MainRecs
  <2>4. Began'
    BY <2>3, Zenon DEF Began
  <2>5. Typed' /\ Counted' /\ Answers'
    BY <2>1, <2>2, <2>3, <2>4, <1>1, ServeTakes, Zenon
  <2>6. MainAt'
    BY <2>3, <1>1, Zenon DEF MainAt, Nil
  <2> QED
    BY <2>5, <2>6, <1>3, Zenon DEF IInv
<1>5. CASE SelectDone
  <2>1. UNCHANGED errc /\ main' = [main EXCEPT !.pc = "shutdown", !.next = 1]
    BY <1>5, Zenon DEF SelectDone
  <2>2. /\ main' \in MainRecs /\ main'.pc = "shutdown" /\ main'.err = main.err
        /\ main'.shutdownErr = main.shutdownErr /\ main'.remaining = main.remaining
    BY <2>1, <1>1, <1>2, Zenon DEF MainRecs
  <2>3. Typed' /\ Answers'
    BY <2>1, <2>2, <1>1, ServeKept, Zenon DEF IInv, Typed
  <2>4. Counted'
    BY <2>1, <2>2, <1>1, Zenon DEF IInv, Counted, Received, Began
  <2>5. MainAt'
    BY <2>2, <1>1, Zenon DEF MainAt, Nil
  <2> QED
    BY <2>3, <2>4, <2>5, <1>3, Zenon DEF IInv
<1> QED
  BY <1>4, <1>5, Zenon

LEMMA ServeShuts ==
  ASSUME NAssumption, IInv, CloseListener \/ Shutdown
  PROVE  IInv'
<1>1. /\ main \in MainRecs /\ main.pc = "shutdown" /\ UNCHANGED <<server, sent, errc>>
      /\ Typed /\ MainAt /\ main.err # "timeout"
  BY Zenon DEF CloseListener, Shutdown, IInv, Typed, MainAt
<1>2. CASE CloseListener
  <2>1. /\ UNCHANGED main /\ closing' = closing \cup {main.next} /\ main.next \in Servers
        /\ server[main.next] # "none"
    BY <1>2, Zenon DEF CloseListener, IsRunning
  <2>2. Typed' /\ ServerAt' /\ Counted' /\ Answers'
    BY <2>1, <1>1, Zenon DEF IInv, Typed, ServerAt, Counted,
                             Received, Began, Answers
  <2>3. MainAt'
    BY <2>1, <1>1, Zenon DEF MainAt, Began
  <2> QED
    BY <2>2, <2>3, Zenon DEF IInv
<1>3. CASE Shutdown
  <2>1. UNCHANGED closing
    BY <1>3, Zenon DEF Shutdown
  <2>2. /\ main' \in MainRecs /\ main'.err = main.err /\ main'.remaining = main.remaining
        /\ \/ main'.pc = "shutdown"
           \/ main'.pc = "drain" /\ main.err # "listen"
           \/ main'.pc = "returned" /\ main.err = "listen"
    <3>1. CASE /\ main.next \in closing
               /\ \E timeout \in BOOLEAN :
                    main' = [main EXCEPT !.next = @ + 1, !.shutdownErr = IF timeout THEN "timeout" ELSE @]
      <4>1. main.next \in 1..N
        BY <3>1, <1>1, Zenon DEF Typed, Servers
      <4>2. main.next + 1 \in 1..(N + 1)
        BY <4>1, SMT DEF NAssumption
      <4>3. PICK x \in {Nil, "timeout"} : main' = [main EXCEPT !.next = @ + 1, !.shutdownErr = x]
        BY <3>1, <1>1, Zenon DEF MainRecs
      <4> QED
        BY <4>2, <4>3, <1>1, Zenon DEF MainRecs
    <3>2. CASE main' = [main EXCEPT !.pc = IF main.err = "listen" THEN "returned" ELSE "drain"]
      <4>1. CASE main.err = "listen"
        BY <3>2, <4>1, <1>1, Zenon DEF MainRecs
      <4>2. CASE main.err # "listen"
        BY <3>2, <4>2, <1>1, Zenon DEF MainRecs
      <4> QED
        BY <4>1, <4>2, Zenon
    <3> QED
      BY <3>1, <3>2, <1>3, Zenon DEF Shutdown
  <2>3. Typed' /\ ServerAt'
    BY <2>1, <2>2, <1>1, Zenon DEF IInv, Typed, ServerAt
  <2>4. Began' <=> Began
    BY <2>2, <1>1, Zenon DEF Began
  <2>5. Counted' /\ Answers'
    BY <2>2, <2>4, <1>1, ServeKept, Zenon DEF IInv, Counted, Received
  <2>6. MainAt'
    BY <2>1, <2>2, <2>4, <1>1, Zenon DEF MainAt, Nil
  <2> QED
    BY <2>3, <2>5, <2>6, Zenon DEF IInv
<1> QED
  BY <1>2, <1>3, Zenon

LEMMA ServeDrains ==
  ASSUME NAssumption, IInv, Drain \/ Return
  PROVE  IInv'
<1>1. /\ main \in MainRecs /\ main.pc = "drain" /\ UNCHANGED <<server, sent, closing>>
      /\ Typed /\ MainAt /\ main.err \notin {"timeout", "listen"}
  BY Zenon DEF Drain, Return, IInv, Typed, MainAt
<1>2. /\ main.err \in {Nil, "failed"} /\ Began
      /\ \A i \in Servers : server[i] # "none"
  BY <1>1, Zenon DEF MainRecs, Began, MainAt
<1>3. ServerAt'
  BY <1>1, Zenon DEF IInv, ServerAt
<1>4. CASE Drain
  <2>1. errc # <<>> /\ errc' = Tail(errc) /\ main.remaining - 1 \in 0..N
        /\ main' = [main EXCEPT !.remaining = @ - 1, !.err = Kept(@, Head(errc))]
    BY <1>2, <1>4, ServeRemains, Zenon DEF Drain
  <2> DEFINE err == Kept(main.err, Head(errc))
  <2>2. /\ Head(errc) = "failed" => err = "failed"
        /\ Head(errc) = "closed" => err = main.err
        /\ Head(errc) \in {"closed", "failed"} /\ err \in {Nil, "failed"}
    <3>1. Head(errc) \in {"closed", "failed"}
      BY <1>1, <2>1, ServeReceives, Zenon
    <3> QED
      BY <3>1, <1>2, Zenon DEF Kept
  <2>3. main' = [main EXCEPT !.remaining = @ - 1, !.err = err]
    BY <2>1, Zenon
  <2> HIDE DEF err
  <2>4. /\ main' \in MainRecs /\ main'.pc = "drain" /\ main'.err = err
        /\ main'.shutdownErr = main.shutdownErr /\ main'.remaining = main.remaining - 1
    BY <2>1, <2>2, <2>3, <1>1, Zenon DEF MainRecs
  <2>5. Began'
    BY <2>2, <2>4, Zenon DEF Began, Nil
  <2>6. Typed' /\ Counted' /\ Answers'
    BY <2>1, <2>2, <2>4, <2>5, <1>1, <1>2, ServeTakes, Zenon
  <2>7. MainAt'
    BY <2>2, <2>4, <1>1, <1>2, Zenon DEF MainAt, Nil
  <2> QED
    BY <2>6, <2>7, <1>3, Zenon DEF IInv
<1>5. CASE Return
  <2>1. UNCHANGED errc /\ main.remaining = 0
        /\ main' = [main EXCEPT !.pc = "returned", !.err = IF @ # Nil THEN @ ELSE main.shutdownErr]
    BY <1>5, Zenon DEF Return, IsDrained
  <2>2. sent = Servers /\ Len(errc) = 0 /\ 1..0 = {}
    <3>1. 1..0 = {}
      BY SMT
    <3> QED
      BY <3>1, <2>1, <1>2, ServeDrained, Zenon
  <2> DEFINE err == IF main.err # Nil THEN main.err ELSE main.shutdownErr
  <2>3. /\ err \in {Nil, "failed", "timeout"} /\ (err = "failed" <=> main.err = "failed")
        /\ err = "timeout" => main.shutdownErr = "timeout"
        /\ err = Nil => main.shutdownErr = Nil
    BY <1>1, <1>2, Zenon DEF MainRecs, Nil
  <2>4. main' = [main EXCEPT !.pc = "returned", !.err = err]
    BY <2>1, Zenon
  <2> HIDE DEF err
  <2>5. /\ main' \in MainRecs /\ main'.pc = "returned" /\ main'.err = err
        /\ main'.shutdownErr = main.shutdownErr /\ main'.remaining = 0
    BY <2>1, <2>3, <2>4, <1>1, Zenon DEF MainRecs
  <2>6. Typed' /\ Began'
    BY <2>1, <2>3, <2>5, <1>1, Zenon DEF Typed, Began, Nil
  <2>7. Counted'
    BY <2>1, <2>5, <2>6, <1>1, <1>2, Zenon DEF IInv, Counted, Received
  <2>8. Answers'
    <3>1. (\E j \in sent : server[j] = "failed") <=> main.err = "failed"
      BY <2>2, <1>1, Zenon DEF IInv, Answers
    <3> QED
      BY <3>1, <2>1, <2>2, <2>3, <2>5, <1>1, Zenon DEF Answers
  <2>9. MainAt'
    BY <2>3, <2>5, <1>1, <1>2, Zenon DEF MainAt, Nil
  <2> QED
    BY <2>6, <2>7, <2>8, <2>9, <1>3, Zenon DEF IInv
<1> QED
  BY <1>4, <1>5, Zenon

LEMMA ServeStep ==
  ASSUME NAssumption
  PROVE  IInv /\ [Next]_(vars) => IInv'
<1> SUFFICES ASSUME IInv, [Next]_(vars) PROVE IInv'
  OBVIOUS
<1>1. ASSUME NEW i \in Servers, Serve(i) \/ Closed(i) \/ Fail(i) PROVE IInv'
  <2>1. CASE Serve(i)
    <3>1. CASE i \in closing
      BY <2>1, <3>1, ServeGoes, Zenon DEF Serve
    <3>2. CASE i \notin closing
      BY <2>1, <3>2, ServeGoes, Zenon DEF Serve
    <3> QED
      BY <3>1, <3>2, Zenon
  <2>2. CASE Closed(i)
    BY <2>2, ServeGoes, Zenon DEF Closed
  <2>3. CASE Fail(i)
    BY <2>3, ServeGoes, Zenon DEF Fail
  <2> QED
    BY <1>1, <2>1, <2>2, <2>3, Zenon
<1>2. CASE Cancel \/ UNCHANGED vars
  <2>1. UNCHANGED <<main, server, sent, closing, errc>>
    BY <1>2, Zenon DEF Cancel, vars
  <2> QED
    BY <2>1, Zenon
    DEF IInv, Typed, Counted, Received, Began, MainAt,
        ServerAt, Answers
<1> QED
  BY <1>1, <1>2, ServeAnswers, ServeListens, ServeSelects, ServeShuts, ServeDrains, Zenon
  DEF Next, ServeAll, Goroutine

\* However many servers a plugin has: a server that failed is why Serve
\* returns, a plugin that was cancelled and ends in time has no error, and
\* every server is over when Serve returns (serveAll).
THEOREM ServeIsSafe ==
  ASSUME NAssumption
  PROVE  Spec => [](/\ TypeOK /\ FailureIsReported /\ CleanStopIsNil
                          /\ StoppedWhenReturned)
<1>1. ASSUME IInv
      PROVE  /\ TypeOK /\ FailureIsReported /\ CleanStopIsNil
             /\ StoppedWhenReturned
  <2>1. Typed /\ MainAt /\ ServerAt /\ Answers /\ main \in MainRecs
    BY <1>1, Zenon DEF IInv, Typed
  <2>2. TypeOK
    <3>1. Len(errc) <= N
      <4>1. Received >= 0 /\ Received \in Int
        <5>1. main.remaining \in 0..N
          BY <2>1, Zenon DEF MainRecs
        <5>2. N - main.remaining >= 0 /\ N - main.remaining \in Int /\ 0 >= 0 /\ 0 \in Int
          BY <5>1, SMT DEF NAssumption
        <5> QED
          BY <5>2, Zenon DEF Received
      <4>2. Cardinality(sent) \in 0..N /\ Len(errc) \in Nat
        BY <2>1, ServeSizes, Zenon
      <4>3. Cardinality(sent) = Len(errc) + Received
        BY <1>1, Zenon DEF IInv, Counted
      <4> QED
        BY <4>1, <4>2, <4>3, SMT DEF NAssumption
    <3> QED
      BY <3>1, <2>1, Zenon
      DEF TypeOK, Typed, MainRecs, ServerStates, ServerAt
  <2>3. ASSUME main.pc = "returned", main.err # "listen"
        PROVE  sent = Servers /\ Len(errc) = 0 /\ 1..0 = {}
    <3>1. 1..0 = {}
      BY SMT
    <3>2. main.remaining = 0 /\ Began
      BY <2>1, <2>3, Zenon DEF MainAt, Began
    <3> QED
      BY <3>1, <3>2, <1>1, ServeDrained, Zenon
  <2>4. FailureIsReported /\ StoppedWhenReturned
    BY <2>1, <2>3, Zenon
    DEF FailureIsReported, StoppedWhenReturned, Returned, Answers
  <2>5. CleanStopIsNil
    <3> SUFFICES ASSUME main.pc = "returned", \A i \in Servers : server[i] = "closed"
                 PROVE  main.err = main.shutdownErr
      BY Zenon DEF CleanStopIsNil, Returned
    <3>1. main.err # "listen" /\ main.err # "failed"
      BY <2>1, Zenon DEF MainAt, Answers, Typed
    <3> QED
      BY <3>1, <2>1, Zenon DEF MainAt, MainRecs
  <2> QED
    BY <2>2, <2>4, <2>5, Zenon
<1> QED
  BY <1>1, ServeInit, ServeStep, PTL DEF Spec
=============================================================================
