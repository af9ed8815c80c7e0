--------------------------- MODULE ComponentProofs ---------------------------
(***************************************************************************)
(* Proofs about components of the daemon and of the cluster, one after the *)
(* other, each component an instance of its module: the plugins, the       *)
(* credential that nodes pull with, the commands that write a tenant's     *)
(* values, the exec sessions, the node's registry configuration and the    *)
(* registry process.                                                       *)
(* The inductive invariants are defined in the components' modules.        *)
(***************************************************************************)
EXTENDS Integers, Sequences, FiniteSets, TLAPS

-----------------------------------------------------------------------------
(* PluginHealth: a plugin registration, its health and its use. *)

CONSTANTS Clients, MaxUid, MaxGeneration, MaxAborts, None
VARIABLES object, uids, seen, current, plugin, uses, up, aborts

Plug == INSTANCE PluginHealth WITH Requests <- Clients, call <- uses

LEMMA HealthTypes ==
  ASSUME Plug!Sane, Plug!Typed
  PROVE  /\ uses \in [Plug!Callers -> Plug!Calls]
              /\ \A c \in Plug!Callers : uses[c] \in Plug!Calls
         /\ plugin \in [Plug!Versions -> Plug!Plugins]
              /\ \A v \in Plug!Versions : plugin[v] \in Plug!Plugins
         /\ object # None => object \in Plug!Objects /\ object.version \in Plug!Versions
         /\ Plug!NoStatus \in Plug!Statuses /\ Plug!Idle \in Plug!Calls
              /\ Plug!Idle.pc = "idle" /\ Plug!Idle.on = None
         /\ None \notin Plug!Versions
<1>1. uses \in [Plug!Callers -> Plug!Calls] /\ plugin \in [Plug!Versions -> Plug!Plugins]
        /\ object \in Plug!Objects \cup {None}
  BY Zenon DEF Plug!Typed
<1>2. Plug!NoStatus \in Plug!Statuses
  BY Zenon DEF Plug!NoStatus, Plug!Statuses
<1>3. Plug!Idle \in Plug!Calls /\ Plug!Idle.pc = "idle" /\ Plug!Idle.on = None
  BY <1>2, Zenon DEF Plug!Idle, Plug!Calls
<1>4. object # None => object \in Plug!Objects /\ object.version \in Plug!Versions
  BY <1>1, Zenon DEF Plug!Objects
<1> QED
  BY <1>1, <1>2, <1>3, <1>4, Zenon DEF Plug!Sane

LEMMA HealthNumbers ==
  ASSUME Plug!Sane, NEW v \in Plug!Versions
  PROVE  v[1] \in 1..MaxUid /\ v[2] \in 1..MaxGeneration /\ v = <<v[1], v[2]>>
BY SMT DEF Plug!Versions

\* One call goes on.
LEMMA HealthMoves ==
  ASSUME Plug!Sane, Plug!Typed, NEW c \in Plug!Callers, NEW q \in Plug!Calls,
         uses' = [uses EXCEPT ![c] = q]
  PROVE  /\ uses' \in [Plug!Callers -> Plug!Calls] /\ uses'[c] = q
         /\ \A d \in Plug!Callers \ {c} : uses'[d] = uses[d]
BY HealthTypes, Zenon

LEMMA HealthGoes ==
  ASSUME Plug!Sane, Plug!Typed, NEW c \in Plug!Callers,
         NEW step \in {"idle", "ensure", "handshake", "use", "observe", "health", "patch"},
         Plug!Go(c, step)
  PROVE  /\ uses' \in [Plug!Callers -> Plug!Calls] /\ uses'[c].pc = step
         /\ (step # "idle" => uses'[c].on = uses[c].on)
         /\ \A d \in Plug!Callers \ {c} : uses'[d] = uses[d]
<1> DEFINE q == [uses[c] EXCEPT !.pc = step]
<1>1. uses[c] \in Plug!Calls
  BY HealthTypes, Zenon
<1>2. q \in Plug!Calls /\ q.pc = step /\ q.on = uses[c].on
  BY <1>1, Zenon DEF Plug!Calls
<1>3. CASE step = "idle"
  <2>1. uses' = [uses EXCEPT ![c] = Plug!Idle]
    BY <1>3, Zenon DEF Plug!Go
  <2> QED
    BY <2>1, <1>3, HealthMoves, HealthTypes, Zenon
<1>4. CASE step # "idle"
  <2>1. uses' = [uses EXCEPT ![c] = q]
    BY <1>4, Zenon DEF Plug!Go
  <2> HIDE DEF q
  <2> QED
    BY <2>1, <1>2, HealthMoves, Zenon
<1> QED
  BY <1>3, <1>4, Zenon

\* One Plugin changes.
LEMMA HealthChanges ==
  ASSUME Plug!Sane, Plug!Typed, NEW v \in Plug!Versions, NEW q \in Plug!Plugins,
         plugin' = [plugin EXCEPT ![v] = q]
  PROVE  /\ plugin' \in [Plug!Versions -> Plug!Plugins] /\ plugin'[v] = q
         /\ \A w \in Plug!Versions \ {v} : plugin'[w] = plugin[w]
BY HealthTypes, Zenon

\* A step of one call.
LEMMA HealthKeeps ==
  ASSUME Plug!Sane, Plug!IInv, NEW c \in Plug!Callers,
         UNCHANGED <<object, uids, seen, current>>,
         plugin' \in [Plug!Versions -> Plug!Plugins], uses' \in [Plug!Callers -> Plug!Calls],
         \A d \in Plug!Callers \ {c} : uses'[d] = uses[d],
         uses'[c].pc # "idle" => Plug!Delivered(uses'[c].on),
         uses'[c].pc = "handshake" =>
            LET p == plugin'[uses'[c].on] IN p.holder = c /\ p.valid /\ p.failures = 0,
         \A v \in Plug!Versions : \/ plugin'[v] = plugin[v]
                                  \/ Plug!PluginAt(v)' /\ plugin[v].holder \in {None, c}
  PROVE  Plug!IInv'
<1>1. Plug!Typed'
  BY Zenon DEF Plug!IInv, Plug!Typed
<1>2. \A v : Plug!Delivered(v) => Plug!Delivered(v)'
  BY Zenon DEF Plug!Delivered
<1>3. \A v \in Plug!Versions : Plug!PluginAt(v)'
  BY Zenon DEF Plug!IInv, Plug!PluginAt
<1>4. Plug!CallAt(c)'
  BY <1>2, Zenon DEF Plug!CallAt
<1>5. ASSUME NEW d \in Plug!Callers \ {c} PROVE Plug!CallAt(d)'
  <2>1. Plug!CallAt(d) /\ uses'[d] = uses[d] /\ d # c /\ d # None
    <3>1. None \notin Plug!Callers
      BY Zenon DEF Plug!Sane, Plug!Callers
    <3> QED
      BY <3>1, <1>5, Zenon DEF Plug!IInv
  <2>2. CASE uses[d].pc = "handshake"
    <3>1. uses[d].on \in Plug!Versions /\ plugin[uses[d].on].holder = d
      BY <2>1, <2>2, Zenon DEF Plug!CallAt, Plug!Delivered
    <3>2. plugin'[uses[d].on] = plugin[uses[d].on]
      BY <3>1, <2>1, Zenon
    <3> QED
      BY <3>2, <2>1, <1>2, Zenon DEF Plug!CallAt
  <2>3. CASE uses[d].pc # "handshake"
    BY <2>1, <2>3, <1>2, Zenon DEF Plug!CallAt
  <2> QED
    BY <2>2, <2>3, Zenon
<1>6. seen' = current' /\ (current' # None => Plug!Delivered(current)')
  BY <1>2, Zenon DEF Plug!IInv
<1>7. object' # None => object'.version[1] = uids' /\ object'.status.of \in {None, uids'}
  BY Zenon DEF Plug!IInv
<1> QED
  BY <1>1, <1>3, <1>4, <1>5, <1>6, <1>7, Zenon DEF Plug!IInv

LEMMA HealthInit == ASSUME Plug!Sane, Plug!Init PROVE Plug!IInv
<1>1. Plug!Unmade \in Plug!Plugins /\ Plug!Unmade.ready = FALSE /\ Plug!Unmade.failures = 0
  BY SMT DEF Plug!Unmade, Plug!Plugins
<1>2. Plug!NoStatus \in Plug!Statuses
  BY Zenon DEF Plug!NoStatus, Plug!Statuses
<1>3. Plug!Idle \in Plug!Calls /\ Plug!Idle.pc = "idle"
  BY <1>2, Zenon DEF Plug!Idle, Plug!Calls
<1>4. uids \in 0..MaxUid
  BY SMT DEF Plug!Init, Plug!Sane
<1>5. Plug!Typed
  BY <1>1, <1>3, <1>4, Zenon DEF Plug!Init, Plug!Typed
<1>6. /\ \A v \in Plug!Versions : plugin[v] = Plug!Unmade
      /\ \A c \in Plug!Callers : uses[c] = Plug!Idle
      /\ seen = None /\ current = None /\ object = None
  BY Zenon DEF Plug!Init
<1>7. \A v \in Plug!Versions : Plug!PluginAt(v)
  BY <1>1, <1>6, SMT DEF Plug!PluginAt
<1>8. \A c \in Plug!Callers : Plug!CallAt(c)
  BY <1>3, <1>6, Zenon DEF Plug!CallAt
<1> QED
  BY <1>5, <1>6, <1>7, <1>8, Zenon DEF Plug!IInv

-----------------------------------------------------------------------------
\* A step that leaves the Plugins and the calls alone.
LEMMA HealthObject ==
  ASSUME Plug!Sane, Plug!IInv, Plug!Typed', UNCHANGED <<plugin, uses>>, seen' = current',
         \A v \in Plug!Versions : Plug!Delivered(v) => Plug!Delivered(v)',
         current' # None => Plug!Delivered(current)',
         object' # None => object'.version[1] = uids' /\ object'.status.of \in {None, uids'}
  PROVE  Plug!IInv'
<1>1. \A c \in Plug!Callers : Plug!CallAt(c)'
  BY Zenon DEF Plug!IInv, Plug!CallAt, Plug!Delivered
<1>2. \A v \in Plug!Versions : Plug!PluginAt(v)'
  BY Zenon DEF Plug!IInv, Plug!PluginAt
<1> QED
  BY <1>1, <1>2, Zenon DEF Plug!IInv

LEMMA HealthAdds ==
  ASSUME Plug!Sane, Plug!IInv, NEW valid \in BOOLEAN, Plug!AddPlugin(valid)
  PROVE  Plug!IInv'
<1>1. /\ Plug!Typed /\ seen = current /\ (current # None => Plug!Delivered(current))
           /\ uids \in 0..MaxUid
      /\ seen \in Plug!Versions \cup {None} /\ current \in Plug!Versions \cup {None}
      /\ plugin \in [Plug!Versions -> Plug!Plugins] /\ uses \in [Plug!Callers -> Plug!Calls]
      /\ object # None => object.version[1] = uids /\ object.status.of \in {None, uids}
  BY Zenon DEF Plug!IInv, Plug!Typed
<1>2. UNCHANGED <<seen, current, plugin, uses>>
  BY Zenon DEF Plug!AddPlugin, Plug!registryVars
<1>3. CASE object = None
  <2>1. uids < MaxUid /\ uids' = uids + 1
    BY <1>3, Zenon DEF Plug!AddPlugin
  <2> DEFINE o == [version |-> <<uids + 1, 1>>, valid |-> valid, status |-> Plug!NoStatus]
  <2>2. object' = o
    BY <1>3, Zenon DEF Plug!AddPlugin
  <2>3. <<uids + 1, 1>> \in Plug!Versions /\ uids' \in 0..MaxUid
    BY <2>1, <1>1, SMT DEF Plug!Versions, Plug!Sane
  <2>4. Plug!NoStatus \in Plug!Statuses /\ Plug!NoStatus.of = None
    BY Zenon DEF Plug!NoStatus, Plug!Statuses
  <2>5. o \in Plug!Objects /\ o.version = <<uids + 1, 1>> /\ o.status = Plug!NoStatus
    BY <2>3, <2>4, Zenon DEF Plug!Objects
  <2> HIDE DEF o
  <2>6. Plug!Typed'
    BY <2>2, <2>3, <2>5, <1>1, <1>2, Zenon DEF Plug!Typed
  <2>7. object'.version[1] = uids'
    BY <2>1, <2>2, <2>5, SMT
  <2>8. ASSUME NEW v \in Plug!Versions, Plug!Delivered(v) PROVE Plug!Delivered(v)'
    <3>1. v[1] <= uids /\ v[1] \in Nat /\ uids \in Nat
      BY <2>8, <1>1, HealthNumbers, SMT DEF Plug!Delivered
    <3>2. v[1] <= uids' /\ v[1] # uids'
      BY <3>1, <2>1, SMT
    <3> QED
      BY <3>2, <2>7, Zenon DEF Plug!Delivered
  <2> QED
    BY <2>2, <2>4, <2>5, <2>6, <2>7, <2>8, <1>1, <1>2, HealthObject, Zenon
<1>4. CASE object # None
  <2>1. object.version[2] < MaxGeneration /\ uids' = uids
    BY <1>4, Zenon DEF Plug!AddPlugin, Plug!Version
  <2> DEFINE w == [object.version EXCEPT ![2] = object.version[2] + 1]
             o == [object EXCEPT !.version = w, !.valid = valid]
  <2>2. object' = o
    BY <1>4, Zenon DEF Plug!AddPlugin
  <2>3. object \in Plug!Objects /\ object.version \in Plug!Versions
    BY <1>1, <1>4, HealthTypes, Zenon
  <2>4. w \in Plug!Versions /\ w[1] = object.version[1] /\ w[2] = object.version[2] + 1
    BY <2>1, <2>3, SMT DEF Plug!Versions, Plug!Sane
  <2> HIDE DEF w
  <2>5. o \in Plug!Objects /\ o.version = w /\ o.status = object.status
    BY <2>3, <2>4, Zenon DEF Plug!Objects
  <2> HIDE DEF o
  <2>6. Plug!Typed'
    BY <2>1, <2>2, <2>5, <1>1, <1>2, Zenon DEF Plug!Typed
  <2>7. ASSUME NEW v \in Plug!Versions, Plug!Delivered(v) PROVE Plug!Delivered(v)'
    <3>1. v[1] <= uids /\ (v[1] = uids => v[2] <= object.version[2])
      BY <2>7, <1>4, Zenon DEF Plug!Delivered
    <3>2. v[1] = uids => v[2] <= w[2] /\ v # w
      BY <3>1, <2>3, <2>4, HealthNumbers, SMT
    <3>3. v[1] # uids => v # w
      BY <2>4, <1>1, <1>4, Zenon
    <3> QED
      BY <3>1, <3>2, <3>3, <2>1, <2>2, <2>5, Zenon DEF Plug!Delivered
  <2> QED
    BY <2>1, <2>2, <2>4, <2>5, <2>6, <2>7, <1>1, <1>2, <1>4, HealthObject, Zenon
<1> QED
  BY <1>3, <1>4, Zenon

LEMMA HealthRemoves ==
  ASSUME Plug!Sane, Plug!IInv, Plug!RemovePlugin \/ Plug!UpOrDown \/ Plug!remove
  PROVE  Plug!IInv'
<1>1. /\ Plug!Typed /\ seen = current /\ (current # None => Plug!Delivered(current))
      /\ object # None => object.version[1] = uids /\ object.status.of \in {None, uids}
  BY Zenon DEF Plug!IInv
<1>2. CASE Plug!RemovePlugin
  <2>1. object' = None /\ UNCHANGED <<uids, seen, current, plugin, uses>>
    BY <1>2, Zenon DEF Plug!RemovePlugin, Plug!registryVars
  <2>2. Plug!Typed' /\ \A v \in Plug!Versions : Plug!Delivered(v) => Plug!Delivered(v)'
    BY <2>1, <1>1, Zenon DEF Plug!Typed, Plug!Delivered
  <2> QED
    BY <2>1, <2>2, <1>1, HealthObject, Zenon DEF Plug!Delivered
<1>3. CASE Plug!UpOrDown
  <2>1. UNCHANGED <<object, uids, seen, current, plugin, uses>>
    BY <1>3, Zenon DEF Plug!UpOrDown, Plug!registryVars, Plug!objectVars
  <2>2. Plug!Typed' /\ \A v : Plug!Delivered(v) => Plug!Delivered(v)'
    BY <2>1, <1>1, Zenon DEF Plug!Typed, Plug!Delivered
  <2> QED
    BY <2>1, <2>2, <1>1, HealthObject, Zenon
<1>4. CASE Plug!remove
  <2>1. seen' = None /\ current' = None /\ object = None
          /\ UNCHANGED <<object, uids, plugin, uses>>
    BY <1>4, Zenon DEF Plug!remove, Plug!objectVars
  <2>2. Plug!Typed' /\ \A v \in Plug!Versions : Plug!Delivered(v) => Plug!Delivered(v)'
    BY <2>1, <1>1, Zenon DEF Plug!Typed, Plug!Delivered
  <2> QED
    BY <2>1, <2>2, <1>1, HealthObject, Zenon
<1> QED
  BY <1>2, <1>3, <1>4, Zenon

\* A version is delivered to the registry, for the first time.
LEMMA HealthUpsert ==
  ASSUME Plug!Sane, Plug!IInv, Plug!upsert
  PROVE  Plug!IInv'
<1>1. /\ Plug!Typed /\ seen = current /\ (current # None => Plug!Delivered(current))
      /\ object.version[1] = uids /\ object.status.of \in {None, uids} /\ object # None
      /\ Plug!Version = object.version
  BY Zenon DEF Plug!IInv, Plug!upsert, Plug!Version
<1>2. /\ object.version \in Plug!Versions /\ object.valid \in BOOLEAN
           /\ seen' = object.version
      /\ UNCHANGED <<object, uids>>
  <2>1. object \in Plug!Objects
    BY <1>1, HealthTypes, Zenon
  <2> QED
    BY <2>1, <1>1, Zenon DEF Plug!Objects, Plug!upsert, Plug!objectVars
<1> DEFINE v == object.version
<1>3. v \in Plug!Versions /\ v # current /\ v # None
  BY <1>1, <1>2, HealthTypes, Zenon DEF Plug!upsert
<1> DEFINE p == [Plug!Unmade EXCEPT !.valid = object.valid]
           s == IF object.valid THEN "ensure" ELSE "health"
           q == [Plug!Idle EXCEPT !.on = v, !.pc = s]
<1>4. current' = v /\ plugin' = [plugin EXCEPT ![v] = p] /\ uses' = [uses EXCEPT ![v] = q]
  BY <1>1, <1>3, Zenon DEF Plug!upsert, Plug!SameVersion
<1>5. s \in {"ensure", "health"} /\ v \in Plug!Callers
  BY <1>3, Zenon DEF Plug!Callers
<1>6. Plug!Unmade \in Plug!Plugins /\ Plug!Unmade.ready = FALSE /\ Plug!Unmade.failures = 0
  BY SMT DEF Plug!Unmade, Plug!Plugins
<1>7. p \in Plug!Plugins /\ p.ready = FALSE /\ p.failures = 0
  BY <1>2, <1>6, Zenon DEF Plug!Plugins
<1> HIDE DEF s
<1>8. q \in Plug!Calls /\ q.pc = s /\ q.on = v
  BY <1>1, <1>3, <1>5, HealthTypes, Zenon DEF Plug!Calls
<1>9. Plug!Delivered(v)' /\ Plug!Delivered(current)'
  <2>1. v[1] <= uids /\ v[2] <= v[2]
    BY <1>1, <1>3, HealthNumbers, SMT
  <2> QED
    BY <2>1, <1>2, <1>3, <1>4, Zenon DEF Plug!Delivered
<1> HIDE DEF p, q
<1>10. /\ plugin' \in [Plug!Versions -> Plug!Plugins] /\ plugin'[v] = p
       /\ \A w \in Plug!Versions \ {v} : plugin'[w] = plugin[w]
  BY <1>1, <1>3, <1>4, <1>7, HealthChanges, Zenon
<1>11. /\ uses' \in [Plug!Callers -> Plug!Calls] /\ uses'[v] = q
       /\ \A d \in Plug!Callers \ {v} : uses'[d] = uses[d]
  BY <1>1, <1>4, <1>5, <1>8, HealthMoves, Zenon
<1>12. Plug!Typed'
  BY <1>1, <1>2, <1>3, <1>4, <1>10, <1>11, Zenon DEF Plug!Typed
<1>13. \A w \in Plug!Versions : Plug!PluginAt(w)'
  BY <1>7, <1>10, SMT DEF Plug!IInv, Plug!PluginAt
<1>14. ASSUME NEW d \in Plug!Callers PROVE Plug!CallAt(d)'
  <2>1. CASE d = v
    <3>1. uses'[d].pc \in {"ensure", "health"} /\ uses'[d].on = v
      BY <2>1, <1>5, <1>8, <1>11, Zenon
    <3> QED
      BY <3>1, <1>2, <1>9, Zenon DEF Plug!CallAt
  <2>2. CASE d # v
    <3>1. Plug!CallAt(d) /\ uses'[d] = uses[d]
      BY <2>2, <1>11, Zenon DEF Plug!IInv
    <3>2. uses[d].pc # "idle" => Plug!Delivered(uses[d].on) /\ uses[d].on # v
      BY <3>1, <1>1, <1>3, Zenon DEF Plug!CallAt, Plug!Delivered
    <3>3. uses[d].pc # "idle" => Plug!Delivered(uses[d].on)'
      BY <3>1, <3>2, <1>2, <1>4, Zenon DEF Plug!Delivered
    <3>4. uses[d].pc # "idle" => plugin'[uses[d].on] = plugin[uses[d].on]
      BY <3>2, <1>10, Zenon DEF Plug!Delivered
    <3> QED
      BY <3>1, <3>3, <3>4, Zenon DEF Plug!CallAt
  <2> QED
    BY <2>1, <2>2, Zenon
<1> QED
  BY <1>1, <1>2, <1>4, <1>9, <1>12, <1>13, <1>14, Zenon DEF Plug!IInv

-----------------------------------------------------------------------------
LEMMA HealthLooksUp ==
  ASSUME Plug!Sane, Plug!IInv, NEW r \in Clients, Plug!Lookup(r)
  PROVE  Plug!IInv'
<1> DEFINE q == [Plug!Idle EXCEPT !.pc = "ensure", !.on = current]
<1>1. /\ Plug!Typed /\ r \in Plug!Callers /\ current # None /\ Plug!Delivered(current)
           /\ current \in Plug!Versions
      /\ UNCHANGED <<object, uids, seen, current, plugin>> /\ uses' = [uses EXCEPT ![r] = q]
      /\ plugin \in [Plug!Versions -> Plug!Plugins]
  BY Zenon DEF Plug!IInv, Plug!Typed, Plug!Lookup, Plug!Callers, Plug!objectVars,
     Plug!registryVars
<1>2. q \in Plug!Calls /\ q.pc = "ensure" /\ q.on = current
  BY <1>1, HealthTypes, Zenon DEF Plug!Calls
<1> HIDE DEF q
<1>3. /\ uses' \in [Plug!Callers -> Plug!Calls] /\ uses'[r] = q
      /\ \A d \in Plug!Callers \ {r} : uses'[d] = uses[d]
  BY <1>1, <1>2, HealthMoves, Zenon
<1> QED
  BY <1>1, <1>2, <1>3, HealthKeeps, Zenon

\* ensureReady takes the mutex for a handshake, or goes on.
LEMMA HealthEnsures ==
  ASSUME Plug!Sane, Plug!IInv, NEW c \in Plug!Callers, Plug!ensureReady(c)
  PROVE  Plug!IInv'
<1> SUFFICES ASSUME NEW v, v = uses[c].on PROVE Plug!IInv'
  OBVIOUS
<1>1. /\ Plug!Typed /\ UNCHANGED <<object, uids, seen, current>> /\ uses[c].pc = "ensure"
      /\ plugin[v].holder = None /\ plugin \in [Plug!Versions -> Plug!Plugins]
  BY Zenon DEF Plug!IInv, Plug!Typed, Plug!ensureReady, Plug!objectVars, Plug!registryVars
<1>2. Plug!Delivered(v) /\ v \in Plug!Versions
  BY <1>1, Zenon DEF Plug!IInv, Plug!CallAt, Plug!Delivered
<1>3. plugin[v] \in Plug!Plugins /\ Plug!PluginAt(v)
  BY <1>1, <1>2, HealthTypes, Zenon DEF Plug!IInv
<1>4. CASE plugin[v].valid /\ ~plugin[v].ready
             /\ (plugin[v].lastErr = "none" \/ ~plugin[v].recent)
  <2> DEFINE p == [plugin[v] EXCEPT !.holder = c]
  <2>1. Plug!Go(c, "handshake") /\ plugin' = [plugin EXCEPT ![v] = p]
    BY <1>4, Zenon DEF Plug!ensureReady
  <2>2. /\ p \in Plug!Plugins /\ p.holder = c /\ p.valid = plugin[v].valid
             /\ p.failures = plugin[v].failures
        /\ p.ready = plugin[v].ready /\ p.lastErr = plugin[v].lastErr
             /\ p.recent = plugin[v].recent
    BY <1>3, Zenon DEF Plug!Plugins
  <2>3. plugin[v].failures \in 0..1
    BY <1>3, Zenon DEF Plug!Plugins
  <2>4. plugin[v].failures = 0
    BY <2>3, <1>3, <1>4, SMT DEF Plug!PluginAt
  <2> HIDE DEF p
  <2>5. /\ plugin' \in [Plug!Versions -> Plug!Plugins] /\ plugin'[v] = p
        /\ \A w \in Plug!Versions \ {v} : plugin'[w] = plugin[w]
    BY <1>1, <1>2, <2>1, <2>2, HealthChanges, Zenon
  <2>6. /\ uses' \in [Plug!Callers -> Plug!Calls] /\ uses'[c].pc = "handshake"
             /\ uses'[c].on = v
        /\ \A d \in Plug!Callers \ {c} : uses'[d] = uses[d]
    BY <1>1, <2>1, HealthGoes, Zenon
  <2>7. Plug!PluginAt(v)'
    BY <1>3, <2>2, <2>5, Zenon DEF Plug!PluginAt
  <2>8. plugin'[v].holder = c /\ plugin'[v].valid /\ plugin'[v].failures = 0
    BY <1>4, <2>2, <2>4, <2>5, Zenon
  <2>9. /\ Plug!Delivered(uses'[c].on)
        /\ LET q == plugin'[uses'[c].on] IN q.holder = c /\ q.valid /\ q.failures = 0
    BY <1>2, <2>6, <2>8, Zenon
  <2>10. \A w \in Plug!Versions : \/ plugin'[w] = plugin[w]
                                  \/ Plug!PluginAt(w)' /\ plugin[w].holder \in {None, c}
    BY <1>1, <2>5, <2>7, Zenon
  <2> QED
    BY <1>1, <2>5, <2>6, <2>9, <2>10, HealthKeeps, Zenon
<1>5. CASE ~(plugin[v].valid /\ ~plugin[v].ready
             /\ (plugin[v].lastErr = "none" \/ ~plugin[v].recent))
  <2> DEFINE s == IF plugin[v].valid /\ plugin[v].ready THEN Plug!Ready(c) ELSE "idle"
  <2>1. Plug!Go(c, s) /\ UNCHANGED plugin
    BY <1>5, Zenon DEF Plug!ensureReady
  <2>2. s \in {"idle", "use"}
    BY Zenon DEF Plug!Ready
  <2> HIDE DEF s
  <2>3. /\ uses' \in [Plug!Callers -> Plug!Calls] /\ uses'[c].pc = s
             /\ (s # "idle" => uses'[c].on = v)
        /\ \A d \in Plug!Callers \ {c} : uses'[d] = uses[d]
    BY <1>1, <2>1, <2>2, HealthGoes, Zenon
  <2> QED
    BY <1>1, <1>2, <2>1, <2>2, <2>3, HealthKeeps, Zenon
<1> QED
  BY <1>4, <1>5, Zenon

\* The handshake's outcome; a failure is the first since retryAfter began.
LEMMA HealthHandshakes ==
  ASSUME Plug!Sane, Plug!IInv, NEW c \in Plug!Callers, NEW ok \in BOOLEAN,
         Plug!Handshaken(c, ok)
  PROVE  Plug!IInv'
<1> SUFFICES ASSUME NEW v, v = uses[c].on PROVE Plug!IInv'
  OBVIOUS
<1> DEFINE err == IF ok THEN "none" ELSE "handshake"
           after == IF ok THEN Plug!Ready(c) ELSE "idle"
           n == IF ok THEN 0 ELSE plugin[v].failures + 1
           p == [plugin[v] EXCEPT !.ready = ok, !.lastErr = err, !.checked = TRUE,
                                  !.recent = TRUE, !.holder = None, !.failures = n]
<1>1. /\ Plug!Typed /\ UNCHANGED <<object, uids, seen, current>> /\ uses[c].pc = "handshake"
      /\ plugin' = [plugin EXCEPT ![v] = p]
  BY Zenon DEF Plug!IInv, Plug!Handshaken, Plug!objectVars, Plug!registryVars
<1>2. /\ Plug!Delivered(v) /\ v \in Plug!Versions /\ plugin[v].holder = c /\ plugin[v].valid
      /\ plugin[v].failures = 0
  BY <1>1, Zenon DEF Plug!IInv, Plug!CallAt, Plug!Delivered
<1>3. /\ n \in 0..1 /\ (n = 1 => ~ok) /\ err \in {"none", "handshake"}
      /\ (ok => err = "none") /\ (~ok => err # "none") /\ after \in {"idle", "use"}
  <2>1. after \in {"idle", "use"}
    BY Zenon DEF Plug!Ready
  <2> QED
    BY <2>1, <1>2, SMT
<1>4. \/ uses' = [uses EXCEPT ![c].pc = "health", ![c].then = after]
      \/ Plug!Go(c, after)
  BY Zenon DEF Plug!Handshaken
<1> HIDE DEF n, err, after
<1>5. plugin[v] \in Plug!Plugins /\ uses[c] \in Plug!Calls
  BY <1>1, <1>2, HealthTypes, Zenon
<1>6. /\ p \in Plug!Plugins /\ p.ready = ok /\ p.lastErr = err /\ p.recent = TRUE
      /\ p.valid = plugin[v].valid /\ p.failures = n
  BY <1>3, <1>5, Zenon DEF Plug!Plugins
<1> HIDE DEF p
<1>7. /\ plugin' \in [Plug!Versions -> Plug!Plugins] /\ plugin'[v] = p
      /\ \A w \in Plug!Versions \ {v} : plugin'[w] = plugin[w]
  BY <1>1, <1>2, <1>6, HealthChanges, Zenon
<1>8. Plug!PluginAt(v)'
  BY <1>2, <1>3, <1>6, <1>7, Zenon DEF Plug!PluginAt
<1>9. /\ uses' \in [Plug!Callers -> Plug!Calls] /\ (uses'[c].pc # "idle" => uses'[c].on = v)
      /\ uses'[c].pc # "handshake" /\ \A d \in Plug!Callers \ {c} : uses'[d] = uses[d]
  <2>1. CASE uses' = [uses EXCEPT ![c].pc = "health", ![c].then = after]
    <3> DEFINE q == [uses[c] EXCEPT !.pc = "health", !.then = after]
    <3>1. uses' = [uses EXCEPT ![c] = q]
      BY <2>1, Zenon
    <3>2. q \in Plug!Calls /\ q.pc = "health" /\ q.on = v
      BY <1>3, <1>5, Zenon DEF Plug!Calls
    <3> HIDE DEF q
    <3> QED
      BY <1>1, <3>1, <3>2, HealthMoves, Zenon
  <2>2. CASE Plug!Go(c, after)
    <3>1. /\ uses' \in [Plug!Callers -> Plug!Calls] /\ uses'[c].pc = after
               /\ (after # "idle" => uses'[c].on = v)
          /\ \A d \in Plug!Callers \ {c} : uses'[d] = uses[d]
      BY <1>1, <1>3, <2>2, HealthGoes, Zenon
    <3> QED
      BY <3>1, <1>3, Zenon
  <2> QED
    BY <1>4, <2>1, <2>2, Zenon
<1>10. uses'[c].pc # "idle" => Plug!Delivered(uses'[c].on)
  BY <1>2, <1>9, Zenon
<1>11. \A w \in Plug!Versions : \/ plugin'[w] = plugin[w]
                                \/ Plug!PluginAt(w)' /\ plugin[w].holder \in {None, c}
  BY <1>2, <1>7, <1>8, Zenon
<1> QED
  BY <1>1, <1>7, <1>9, <1>10, <1>11, HealthKeeps, Zenon

\* Time passes; nobody's handshake is of a version that has failed.
LEMMA HealthElapses ==
  ASSUME Plug!Sane, Plug!IInv, NEW v \in Plug!Versions, Plug!Elapse(v)
  PROVE  Plug!IInv'
<1> DEFINE p == [plugin[v] EXCEPT !.recent = FALSE, !.failures = 0]
<1>1. /\ Plug!Typed /\ UNCHANGED <<object, uids, seen, current, uses>>
           /\ plugin' = [plugin EXCEPT ![v] = p]
      /\ Plug!PluginAt(v) /\ seen = current /\ (current # None => Plug!Delivered(current))
      /\ object # None => object.version[1] = uids /\ object.status.of \in {None, uids}
  BY Zenon DEF Plug!IInv, Plug!Elapse, Plug!objectVars, Plug!registryVars
<1>2. /\ p \in Plug!Plugins /\ p.ready = plugin[v].ready /\ p.lastErr = plugin[v].lastErr
      /\ p.valid = plugin[v].valid /\ p.failures = 0 /\ p.holder = plugin[v].holder
  <2>1. plugin[v] \in Plug!Plugins /\ 0 \in 0..1
    BY <1>1, HealthTypes, SMT
  <2> QED
    BY <2>1, Zenon DEF Plug!Plugins
<1> HIDE DEF p
<1>3. /\ plugin' \in [Plug!Versions -> Plug!Plugins] /\ plugin'[v] = p
      /\ \A w \in Plug!Versions \ {v} : plugin'[w] = plugin[w]
  BY <1>1, <1>2, HealthChanges, Zenon
<1>4. Plug!Typed'
  BY <1>1, <1>3, Zenon DEF Plug!Typed
<1>5. \A w \in Plug!Versions : Plug!PluginAt(w)'
  BY <1>1, <1>2, <1>3, SMT DEF Plug!IInv, Plug!PluginAt
<1>6. \A w : Plug!Delivered(w) => Plug!Delivered(w)'
  BY <1>1, Zenon DEF Plug!Delivered
<1>7. ASSUME NEW d \in Plug!Callers PROVE Plug!CallAt(d)'
  <2>1. Plug!CallAt(d) /\ uses'[d] = uses[d]
    BY <1>1, Zenon DEF Plug!IInv
  <2>2. uses[d].pc = "handshake" =>
           /\ plugin'[uses[d].on].holder = d /\ plugin'[uses[d].on].valid
           /\ plugin'[uses[d].on].failures = 0
    BY <2>1, <1>2, <1>3, Zenon DEF Plug!CallAt, Plug!Delivered
  <2> QED
    BY <2>1, <2>2, <1>6, Zenon DEF Plug!CallAt
<1> QED
  BY <1>1, <1>4, <1>5, <1>6, <1>7, Zenon DEF Plug!IInv

\* The call of the plugin, and its outcome some time later.
LEMMA HealthUses ==
  ASSUME Plug!Sane, Plug!IInv, NEW r \in Clients, Plug!Use(r) \/ Plug!Observe(r)
  PROVE  Plug!IInv'
<1> SUFFICES ASSUME NEW v, v = uses[r].on PROVE Plug!IInv'
  OBVIOUS
<1>1. /\ Plug!Typed /\ UNCHANGED <<object, uids, seen, current>> /\ r \in Plug!Callers
      /\ uses[r].pc \in {"use", "observe"} /\ plugin \in [Plug!Versions -> Plug!Plugins]
  BY Zenon DEF Plug!IInv, Plug!Typed, Plug!Use, Plug!Observe, Plug!Callers, Plug!objectVars,
     Plug!registryVars
<1>2. Plug!Delivered(v) /\ v \in Plug!Versions
  BY <1>1, Zenon DEF Plug!IInv, Plug!CallAt, Plug!Delivered
<1>3. ASSUME NEW s \in {"idle", "observe", "health"}, Plug!Go(r, s)
      PROVE  /\ uses' \in [Plug!Callers -> Plug!Calls]
                  /\ \A d \in Plug!Callers \ {r} : uses'[d] = uses[d]
             /\ (uses'[r].pc # "idle" => Plug!Delivered(uses'[r].on))
                  /\ uses'[r].pc # "handshake"
  <2>1. /\ uses' \in [Plug!Callers -> Plug!Calls] /\ uses'[r].pc = s
             /\ (s # "idle" => uses'[r].on = v)
        /\ \A d \in Plug!Callers \ {r} : uses'[d] = uses[d]
    BY <1>1, <1>3, HealthGoes, Zenon
  <2> QED
    BY <2>1, <1>2, Zenon
<1>4. CASE Plug!Use(r)
  <2>1. UNCHANGED plugin /\ (Plug!Go(r, "idle") \/ Plug!Go(r, "observe"))
    BY <1>4, Zenon DEF Plug!Use
  <2> QED
    BY <2>1, <1>1, <1>3, HealthKeeps, Zenon
<1>5. CASE Plug!Observe(r)
  <2> DEFINE p == [plugin[v] EXCEPT !.ready = FALSE, !.lastErr = "call", !.recent = TRUE]
  <2>1. /\ plugin' = [plugin EXCEPT ![v] = p] /\ plugin[v].holder = None
        /\ Plug!Go(r, "health") \/ Plug!Go(r, "idle")
    BY <1>5, Zenon DEF Plug!Observe
  <2>2. p \in Plug!Plugins /\ p.ready = FALSE /\ p.lastErr = "call" /\ p.recent = TRUE
    <3>1. plugin[v] \in Plug!Plugins
      BY <1>1, <1>2, HealthTypes, Zenon
    <3> QED
      BY <3>1, Zenon DEF Plug!Plugins
  <2> HIDE DEF p
  <2>3. /\ plugin' \in [Plug!Versions -> Plug!Plugins] /\ plugin'[v] = p
        /\ \A w \in Plug!Versions \ {v} : plugin'[w] = plugin[w]
    BY <1>1, <1>2, <2>1, <2>2, HealthChanges, Zenon
  <2>4. Plug!PluginAt(v)'
    BY <2>2, <2>3, Zenon DEF Plug!PluginAt
  <2> QED
    BY <2>1, <2>3, <2>4, <1>1, <1>3, HealthKeeps, Zenon
<1> QED
  BY <1>4, <1>5, Zenon

\* The health is read, and written to the object if it is still the one.
LEMMA HealthWrites ==
  ASSUME Plug!Sane, Plug!IInv, NEW c \in Plug!Callers, Plug!Health(c) \/ Plug!writeStatus(c)
  PROVE  Plug!IInv'
<1> DEFINE v == uses[c].on
<1>1. /\ Plug!Typed /\ UNCHANGED <<uids, seen, current, plugin>>
           /\ uses[c].pc \in {"health", "patch"}
      /\ plugin \in [Plug!Versions -> Plug!Plugins]
  BY Zenon DEF Plug!IInv, Plug!Typed, Plug!Health, Plug!writeStatus, Plug!objectVars,
     Plug!registryVars
<1>2. Plug!Delivered(v) /\ v \in Plug!Versions /\ uses[c] \in Plug!Calls
  BY <1>1, HealthTypes, Zenon DEF Plug!IInv, Plug!CallAt, Plug!Delivered
<1>3. CASE Plug!Health(c)
  <2> DEFINE m == IF plugin[v].valid THEN plugin[v].lastErr ELSE "invalid"
             t == [of |-> v[1], ready |-> plugin[v].ready, message |-> m]
             q == [uses[c] EXCEPT !.pc = "patch", !.snap = t]
  <2>1. UNCHANGED object /\ uses' = [uses EXCEPT ![c] = q]
    BY <1>3, Zenon DEF Plug!Health, Plug!objectVars
  <2>2. v[1] \in 1..MaxUid
    BY <1>2, HealthNumbers, Zenon
  <2>3. plugin[v].ready \in BOOLEAN /\ m \in {"none", "handshake", "call", "invalid"}
    <3>1. plugin[v] \in Plug!Plugins
      BY <1>1, <1>2, HealthTypes, Zenon
    <3> QED
      BY <3>1, Zenon DEF Plug!Plugins
  <2> HIDE DEF m
  <2>4. t \in Plug!Statuses
    BY <2>2, <2>3, Zenon DEF Plug!Statuses
  <2> HIDE DEF t
  <2>5. q \in Plug!Calls /\ q.pc = "patch" /\ q.on = v
    BY <2>4, <1>2, Zenon DEF Plug!Calls
  <2> HIDE DEF q
  <2>6. /\ uses' \in [Plug!Callers -> Plug!Calls] /\ uses'[c] = q
        /\ \A d \in Plug!Callers \ {c} : uses'[d] = uses[d]
    BY <1>1, <2>1, <2>5, HealthMoves, Zenon
  <2> HIDE DEF v
  <2> QED
    BY <1>1, <1>2, <2>1, <2>5, <2>6, HealthKeeps, Zenon
<1>4. CASE Plug!writeStatus(c)
  <2> DEFINE r == [Plug!Idle EXCEPT !.pc = uses[c].then, !.on = v]
  <2>1. /\ uses' \in [Plug!Callers -> Plug!Calls] /\ (uses'[c].pc # "idle" => uses'[c].on = v)
        /\ uses'[c].pc \in {"idle", "use"} /\ \A d \in Plug!Callers \ {c} : uses'[d] = uses[d]
    <3>1. uses[c].then \in {"idle", "use"}
      BY <1>2, Zenon DEF Plug!Calls
    <3>2. CASE uses[c].then = "idle"
      <4>1. Plug!Go(c, "idle")
        BY <1>4, <3>2, Zenon DEF Plug!writeStatus
      <4> QED
        BY <4>1, <1>1, HealthGoes, Zenon
    <3>3. CASE uses[c].then # "idle"
      <4>1. uses' = [uses EXCEPT ![c] = r]
        BY <1>4, <3>3, Zenon DEF Plug!writeStatus
      <4>2. r \in Plug!Calls /\ r.pc = uses[c].then /\ r.on = v
        BY <3>1, <1>1, <1>2, HealthTypes, Zenon DEF Plug!Calls
      <4> HIDE DEF r
      <4> QED
        BY <4>1, <4>2, <3>1, <1>1, HealthMoves, Zenon
    <3> QED
      BY <3>2, <3>3, Zenon
  <2>2. /\ (object' = None <=> object = None) /\ object' \in Plug!Objects \cup {None}
        /\ object # None => /\ object'.version = object.version
                            /\ object'.status.of \in {None, uids}
    <3>1. CASE object # None /\ Plug!Version[1] = uses[c].snap.of
      <4> DEFINE t == Plug!Merge(object.status, uses[c].snap)
      <4>1. object' = [object EXCEPT !.status = t]
        BY <1>4, <3>1, Zenon DEF Plug!writeStatus
      <4>2. /\ object \in Plug!Objects /\ object.status \in Plug!Statuses
                 /\ uses[c].snap \in Plug!Statuses
            /\ object.version[1] = uids
        <5>1. object \in Plug!Objects
          BY <1>1, <3>1, HealthTypes, Zenon
        <5> QED
          BY <5>1, <3>1, <1>2, Zenon DEF Plug!Objects, Plug!Calls, Plug!IInv
      <4>3. t \in Plug!Statuses /\ t.of = uses[c].snap.of
        <5> DEFINE m == IF uses[c].snap.message = "none" THEN object.status.message
                        ELSE uses[c].snap.message
        <5>1. t = [uses[c].snap EXCEPT !.message = m]
          BY Zenon DEF Plug!Merge
        <5>2. m \in {"none", "handshake", "call", "invalid"}
          BY <4>2, Zenon DEF Plug!Statuses
        <5> HIDE DEF m, t
        <5> QED
          BY <5>1, <5>2, <4>2, Zenon DEF Plug!Statuses
      <4> HIDE DEF t
      <4>4. object' \in Plug!Objects /\ object'.version = object.version /\ object'.status = t
        BY <4>1, <4>2, <4>3, Zenon DEF Plug!Objects
      <4>5. t.of = uids
        BY <4>2, <4>3, <3>1, Zenon DEF Plug!Version
      <4> QED
        BY <4>4, <4>5, <3>1, Zenon DEF Plug!Sane
    <3>2. CASE ~(object # None /\ Plug!Version[1] = uses[c].snap.of)
      <4>1. object' = object
        BY <1>4, <3>2, Zenon DEF Plug!writeStatus
      <4> QED
        BY <4>1, <1>1, Zenon DEF Plug!IInv, Plug!Typed
    <3> QED
      BY <3>1, <3>2, Zenon
  <2>3. \A w : Plug!Delivered(w) => Plug!Delivered(w)'
    BY <2>2, <1>1, Zenon DEF Plug!Delivered
  <2>4. Plug!Typed'
    BY <2>1, <2>2, <1>1, Zenon DEF Plug!Typed
  <2>5. ASSUME NEW d \in Plug!Callers PROVE Plug!CallAt(d)'
    <3>1. CASE d = c
      BY <3>1, <2>1, <2>3, <1>2, Zenon DEF Plug!CallAt
    <3>2. CASE d # c
      <4>1. Plug!CallAt(d) /\ uses'[d] = uses[d]
        BY <3>2, <2>1, Zenon DEF Plug!IInv
      <4> QED
        BY <4>1, <2>3, <1>1, Zenon DEF Plug!CallAt
    <3> QED
      BY <3>1, <3>2, Zenon
  <2>6. \A w \in Plug!Versions : Plug!PluginAt(w)'
    BY <1>1, Zenon DEF Plug!IInv, Plug!PluginAt
  <2>7. seen' = current' /\ (current' # None => Plug!Delivered(current)')
    BY <2>3, <1>1, Zenon DEF Plug!IInv
  <2>8. object' # None => object'.version[1] = uids' /\ object'.status.of \in {None, uids'}
    BY <2>2, <1>1, Zenon DEF Plug!IInv
  <2> QED
    BY <2>4, <2>5, <2>6, <2>7, <2>8, Zenon DEF Plug!IInv
<1> QED
  BY <1>3, <1>4, Zenon

-----------------------------------------------------------------------------
LEMMA HealthStep == ASSUME Plug!Sane, Plug!IInv, up \in BOOLEAN, [Plug!Next]_(Plug!vars)
  PROVE Plug!IInv' /\ up' \in BOOLEAN
<1>1. CASE \E valid \in BOOLEAN : Plug!AddPlugin(valid)
  BY <1>1, HealthAdds, Zenon DEF Plug!AddPlugin
<1>2. CASE Plug!RemovePlugin \/ Plug!UpOrDown \/ Plug!remove
  BY <1>2, HealthRemoves, Zenon DEF Plug!RemovePlugin, Plug!UpOrDown, Plug!remove
<1>3. CASE Plug!upsert
  BY <1>3, HealthUpsert, Zenon DEF Plug!upsert
<1>4. CASE \E r \in Clients : Plug!Lookup(r) \/ Plug!Abort(r) \/ Plug!Use(r)
             \/ Plug!Observe(r)
  <2>1. PICK r \in Clients : Plug!Lookup(r) \/ Plug!Abort(r) \/ Plug!Use(r) \/ Plug!Observe(r)
    BY <1>4, Zenon
  <2>2. r \in Plug!Callers
    BY Zenon DEF Plug!Callers
  <2>3. UNCHANGED up
    BY <2>1, Zenon DEF Plug!Lookup, Plug!Abort, Plug!Handshaken, Plug!Use, Plug!Observe
  <2> QED
    BY <2>1, <2>2, <2>3, HealthLooksUp, HealthUses, HealthHandshakes, Zenon DEF Plug!Abort
<1>5. CASE \E c \in Plug!Callers : Plug!ensureReady(c) \/ Plug!handshake(c) \/ Plug!Health(c)
             \/ Plug!writeStatus(c)
  <2>1. PICK c \in Plug!Callers : Plug!ensureReady(c) \/ Plug!handshake(c) \/ Plug!Health(c)
               \/ Plug!writeStatus(c)
    BY <1>5, Zenon
  <2>2. UNCHANGED up
    BY <2>1, Zenon DEF Plug!ensureReady, Plug!handshake, Plug!Handshaken, Plug!Health,
       Plug!writeStatus
  <2> QED
    BY <2>1, <2>2, HealthEnsures, HealthWrites, HealthHandshakes, Zenon DEF Plug!handshake
<1>6. CASE \E v \in Plug!Versions : Plug!Elapse(v)
  BY <1>6, HealthElapses, Zenon DEF Plug!Elapse
<1>7. CASE UNCHANGED Plug!vars
  <2>1. UNCHANGED <<object, uids, seen, current, plugin, uses, up>>
    BY <1>7, Zenon DEF Plug!vars, Plug!objectVars, Plug!registryVars
  <2>2. Plug!Typed' /\ \A v : Plug!Delivered(v) => Plug!Delivered(v)'
    BY <2>1, Zenon DEF Plug!IInv, Plug!Typed, Plug!Delivered
  <2>3. /\ seen = current /\ (current # None => Plug!Delivered(current))
        /\ object # None => object.version[1] = uids /\ object.status.of \in {None, uids}
    BY Zenon DEF Plug!IInv
  <2> QED
    BY <2>1, <2>2, <2>3, HealthObject, Zenon
<1> QED
  BY <1>1, <1>2, <1>3, <1>4, <1>5, <1>6, <1>7, Zenon DEF Plug!Next

\* For any number of requests, of objects of the name and of changes to them:
\* the registry holds the version it was told of last (upsert, remove), a
\* status is only ever written to the object it describes (writeStatus), and a
\* plugin that cannot be reached is tried once in every retryAfter
\* (ensureReady).
THEOREM HealthIsSafe ==
  ASSUME Plug!Sane
  PROVE  Plug!Spec => [](Plug!TypeOK /\ Plug!RegistryFollows /\ Plug!StatusOfItsObject
           /\ Plug!OneTryPerBackoff)
<1>1. Plug!Init => Plug!IInv /\ up \in BOOLEAN
  BY HealthInit, Zenon DEF Plug!Init
<1>2. Plug!IInv /\ up \in BOOLEAN /\ [Plug!Next]_(Plug!vars) => Plug!IInv'
        /\ (up \in BOOLEAN)'
  BY HealthStep
<1>3. ASSUME Plug!IInv PROVE Plug!TypeOK /\ Plug!RegistryFollows /\ Plug!StatusOfItsObject
             /\ Plug!OneTryPerBackoff
  <2>1. /\ Plug!Typed /\ \A v \in Plug!Versions : plugin[v] \in Plug!Plugins
             /\ Plug!PluginAt(v)
        /\ \A c \in Plug!Callers : uses[c] \in Plug!Calls
    BY <1>3, HealthTypes, Zenon DEF Plug!IInv
  <2>2. Plug!TypeOK
    BY <2>1, Zenon DEF Plug!TypeOK, Plug!Typed, Plug!PluginAt, Plug!Plugins, Plug!Calls
  <2>3. Plug!RegistryFollows /\ Plug!StatusOfItsObject
    BY <1>3, Zenon DEF Plug!IInv, Plug!RegistryFollows, Plug!StatusOfItsObject, Plug!Version
  <2>4. Plug!OneTryPerBackoff
    <3>1. \A v \in Plug!Versions : plugin[v].failures \in 0..1
      BY <2>1, Zenon DEF Plug!Plugins
    <3> QED
      BY <3>1, SMT DEF Plug!OneTryPerBackoff
  <2> QED
    BY <2>2, <2>3, <2>4, Zenon
<1> QED
  BY <1>1, <1>2, <1>3, PTL DEF Plug!Spec

-----------------------------------------------------------------------------
(* PullCredentials: the credential that the nodes pull with. *)

CONSTANTS Callers, ProcessOf, MaxDisturbances, MaxIssues
VARIABLES stored, secret, call, mu, issued, disturbances, ensured

Creds == INSTANCE PullCredentials WITH faults <- disturbances, MaxFaults <- MaxDisturbances

LEMMA CredsStepMoves ==
  ASSUME Creds!TypeOK, NEW c \in Callers, NEW pc \in Creds!Pcs, Creds!Step(c, pc)
  PROVE  \E q \in Creds!Calls : Creds!Moves(c, q) /\ q.pc = pc /\ q.old = call[c].old
           /\ q.clean = call[c].clean
<1> DEFINE q == [call[c] EXCEPT !.pc = pc]
<1>1. call[c] \in Creds!Calls
  BY Zenon DEF Creds!TypeOK
<1>2. q \in Creds!Calls /\ q.pc = pc /\ q.old = call[c].old /\ q.clean = call[c].clean
  BY <1>1, Zenon DEF Creds!Calls
<1>3. call' = [call EXCEPT ![c] = q]
  BY Zenon DEF Creds!Step
<1> HIDE DEF q
<1> QED
  BY <1>2, <1>3, Zenon DEF Creds!Moves, Creds!TypeOK

LEMMA CredsCallMoves ==
  ASSUME Creds!TypeOK, NEW c \in Callers, Creds!Call(c)
  PROVE  \E q \in Creds!Calls : Creds!Moves(c, q) /\ q.pc = "lock"
<1> DEFINE q == [Creds!Idle EXCEPT !.pc = "lock"]
<1>1. q \in Creds!Calls /\ q.pc = "lock"
  BY Zenon DEF Creds!Calls, Creds!Idle, Creds!Pcs
<1>2. call' = [call EXCEPT ![c] = q]
  BY Zenon DEF Creds!Call
<1> HIDE DEF q
<1> QED
  BY <1>1, <1>2, Zenon DEF Creds!Moves, Creds!TypeOK

LEMMA CredsGetMoves ==
  ASSUME Creds!TypeOK, NEW c \in Callers, Creds!Get(c)
  PROVE  \E q \in Creds!Calls :
            /\ Creds!Moves(c, q) /\ q.pc = "verify"
            /\ q.old = (IF secret.there THEN secret.password ELSE 0)
<1> DEFINE had == IF secret.there THEN secret.version ELSE 0
           old == IF secret.there THEN secret.password ELSE 0
           q == [call[c] EXCEPT !.pc = "verify", !.had = had, !.old = old]
<1>1. had \in Nat /\ old \in Nat /\ call[c] \in Creds!Calls /\ "verify" \in Creds!Pcs
  BY Zenon DEF Creds!TypeOK, Creds!Pcs
<1>2. call' = [call EXCEPT ![c] = q]
  BY Zenon DEF Creds!Get
<1> HIDE DEF had, old
<1>3. q \in Creds!Calls /\ q.pc = "verify" /\ q.old = old
  BY <1>1, Zenon DEF Creds!Calls
<1> HIDE DEF q
<1> QED
  BY <1>2, <1>3, Zenon DEF Creds!Moves, Creds!TypeOK, old

LEMMA CredsIssueMoves ==
  ASSUME Creds!TypeOK, NEW c \in Callers, Creds!Issue(c)
  PROVE  \E q \in Creds!Calls :
            /\ Creds!Moves(c, q) /\ q.pc = "write" /\ q.new = issued + 1
            /\ q.clean = call[c].clean
<1> DEFINE q == [call[c] EXCEPT !.pc = "write", !.new = issued']
<1>1. issued' = issued + 1 /\ issued' \in Nat /\ call[c] \in Creds!Calls
        /\ "write" \in Creds!Pcs
  BY SMT DEF Creds!TypeOK, Creds!Pcs, Creds!Issue
<1>2. call' = [call EXCEPT ![c] = q]
  BY Zenon DEF Creds!Issue
<1>3. q \in Creds!Calls /\ q.pc = "write" /\ q.new = issued' /\ q.clean = call[c].clean
  BY <1>1, Zenon DEF Creds!Calls
<1> HIDE DEF q
<1> QED
  BY <1>1, <1>2, <1>3, Zenon DEF Creds!Moves, Creds!TypeOK

LEMMA CredsDisturbedMoves ==
  ASSUME Creds!TypeOK, Creds!Disturbed
  PROVE  /\ call' \in [Callers -> Creds!Calls] /\ ensured' = FALSE
         /\ \A c \in Callers : /\ call'[c].pc = call[c].pc /\ call'[c].old = call[c].old
                               /\ ~call'[c].clean
<1>1. ASSUME NEW c \in Callers
      PROVE  /\ [call[c] EXCEPT !.clean = FALSE] \in Creds!Calls
             /\ call'[c].pc = call[c].pc /\ call'[c].old = call[c].old /\ ~call'[c].clean
  <2>1. call[c] \in Creds!Calls /\ call'[c] = [call[c] EXCEPT !.clean = FALSE]
    BY Zenon DEF Creds!TypeOK, Creds!Disturbed
  <2> QED
    BY <2>1, Zenon DEF Creds!Calls
<1> QED
  BY <1>1, Zenon DEF Creds!Disturbed

LEMMA CredsUnlocked ==
  ASSUME Creds!TypeOK, NEW c \in Callers
  PROVE  /\ Creds!Unlock(c) => mu' \in [Creds!Processes -> Callers \cup {Creds!Nobody}]
         /\ ProcessOf[c] \in Creds!Processes
BY Zenon DEF Creds!TypeOK, Creds!Unlock, Creds!Processes

LEMMA CredsEnsuredType ==
  ASSUME NEW c \in Callers, Creds!Ensured(c)
  PROVE  ensured' \in BOOLEAN
BY Zenon DEF Creds!Ensured

LEMMA CredsTypeStep ==
  ASSUME Creds!TypeOK, [Creds!Next]_(Creds!vars)
  PROVE  Creds!TypeOK'
<1>1. CASE Creds!Revoked
  <2>1. ensured' \in BOOLEAN /\ call' \in [Callers -> Creds!Calls]
    BY <1>1, CredsDisturbedMoves, Zenon DEF Creds!Revoked
  <2> QED
    BY <1>1, <2>1, SMT DEF Creds!Revoked, Creds!TypeOK
<1>2. CASE Creds!SecretLost
  <2>1. ensured' \in BOOLEAN /\ call' \in [Callers -> Creds!Calls]
    BY <1>2, CredsDisturbedMoves, Zenon DEF Creds!SecretLost
  <2> QED
    BY <1>2, <2>1, SMT DEF Creds!SecretLost, Creds!TypeOK
<1>3. ASSUME NEW c \in Callers, Creds!Call(c) PROVE Creds!TypeOK'
  BY <1>3, CredsCallMoves, Zenon DEF Creds!Call, Creds!TypeOK, Creds!Moves
<1>4. ASSUME NEW c \in Callers, Creds!Lock(c) PROVE Creds!TypeOK'
  BY <1>4, CredsStepMoves, CredsUnlocked, Zenon DEF Creds!Lock, Creds!Pcs, Creds!TypeOK,
     Creds!Moves
<1>5. ASSUME NEW c \in Callers, Creds!Get(c) PROVE Creds!TypeOK'
  BY <1>5, CredsGetMoves, Zenon DEF Creds!Get, Creds!TypeOK, Creds!Moves
<1>6. ASSUME NEW c \in Callers, Creds!Verify(c) PROVE Creds!TypeOK'
  <2>1. ensured' \in BOOLEAN
    BY <1>6, CredsEnsuredType, Zenon DEF Creds!Verify, Creds!TypeOK
  <2> QED
    BY <1>6, <2>1, CredsStepMoves, CredsUnlocked, Zenon DEF Creds!Verify, Creds!Pcs,
       Creds!TypeOK, Creds!Moves
<1>7. ASSUME NEW c \in Callers, Creds!Issue(c) PROVE Creds!TypeOK'
  <2>1. call' \in [Callers -> Creds!Calls]
    BY <1>7, CredsIssueMoves, Zenon DEF Creds!Moves
  <2>2. issued' \in Nat /\ stored' \in Nat
    BY <1>7, SMT DEF Creds!Issue, Creds!TypeOK
  <2> QED
    BY <1>7, <2>1, <2>2, Zenon DEF Creds!Issue, Creds!TypeOK
<1>8. ASSUME NEW c \in Callers, Creds!IssueLost(c) PROVE Creds!TypeOK'
  BY <1>8, CredsStepMoves, CredsUnlocked, SMT DEF Creds!IssueLost, Creds!Pcs, Creds!TypeOK,
     Creds!Moves
<1>9. ASSUME NEW c \in Callers, Creds!Write(c) PROVE Creds!TypeOK'
  <2>1. call[c].new \in Nat
    BY Zenon DEF Creds!TypeOK, Creds!Calls
  <2>2. ensured' \in BOOLEAN
    BY <1>9, CredsEnsuredType, Zenon DEF Creds!Write, Creds!TypeOK
  <2>3. secret' \in [there : BOOLEAN, password : Nat, version : Nat]
    <3>1. CASE secret' = secret
      BY <3>1, Zenon DEF Creds!TypeOK
    <3>2. CASE secret' = [there |-> TRUE, password |-> call[c].new,
                          version |-> secret.version + 1]
      <4>1. secret.version + 1 \in Nat
        BY SMT DEF Creds!TypeOK
      <4> QED
        BY <2>1, <3>2, <4>1, Zenon
    <3> QED
      BY <1>9, <3>1, <3>2, Zenon DEF Creds!Write
  <2>4. call' \in [Callers -> Creds!Calls]
    BY <1>9, CredsStepMoves, Zenon DEF Creds!Write, Creds!Pcs, Creds!Moves
  <2> QED
    BY <1>9, <2>2, <2>3, <2>4, CredsUnlocked, Zenon DEF Creds!Write, Creds!TypeOK
<1>10. ASSUME NEW c \in Callers, Creds!Fails(c) PROVE Creds!TypeOK'
  BY <1>10, CredsStepMoves, CredsUnlocked, SMT DEF Creds!Fails, Creds!Pcs, Creds!TypeOK,
     Creds!Moves
<1>11. CASE UNCHANGED Creds!vars
  BY <1>11, Zenon DEF Creds!vars, Creds!TypeOK
<1> QED
  BY <1>1, <1>2, <1>3, <1>4, <1>5, <1>6, <1>7, <1>8, <1>9, <1>10, <1>11, Zenon DEF Creds!Next

\* pullSecretMu is taken by one call at a time and left when it ends.
LEMMA CredsHeldStep ==
  ASSUME Creds!OneProcess, Creds!TypeOK, Creds!Held, [Creds!Next]_(Creds!vars)
  PROVE  Creds!Held'
<1>1. CASE Creds!Revoked \/ Creds!SecretLost
  BY <1>1, CredsDisturbedMoves, Zenon DEF Creds!Revoked, Creds!SecretLost, Creds!Held,
     Creds!Working
<1>2. ASSUME NEW c \in Callers, Creds!Call(c) PROVE Creds!Held'
  <2>1. PICK q \in Creds!Calls : Creds!Moves(c, q) /\ q.pc = "lock"
    BY <1>2, CredsCallMoves, Zenon
  <2>2. ~Creds!Working(c) /\ ~Creds!Working(c)' /\ mu' = mu
    BY <1>2, <2>1, Zenon DEF Creds!Call, Creds!Working, Creds!Moves
  <2> QED
    BY <2>1, <2>2, Zenon DEF Creds!Held, Creds!Working, Creds!Moves
<1>3. ASSUME NEW c \in Callers, Creds!Lock(c) PROVE Creds!Held'
  <2>1. mu'[ProcessOf[c]] = c
    BY <1>3, CredsUnlocked, Zenon DEF Creds!Lock, Creds!TypeOK
  <2> QED
    BY <1>3, <2>1, CredsStepMoves, SMT DEF Creds!Lock, Creds!Pcs, Creds!Held, Creds!Working,
       Creds!Moves, Creds!OneProcess
<1>4. ASSUME NEW c \in Callers, Creds!Get(c) PROVE Creds!Held'
  <2>1. PICK q \in Creds!Calls : Creds!Moves(c, q) /\ q.pc = "verify"
    BY <1>4, CredsGetMoves, Zenon
  <2>2. Creds!Working(c) /\ Creds!Working(c)' /\ mu' = mu
    BY <1>4, <2>1, Zenon DEF Creds!Get, Creds!Working, Creds!Moves
  <2> QED
    BY <2>1, <2>2, Zenon DEF Creds!Held, Creds!Working, Creds!Moves
<1>5. ASSUME NEW c \in Callers, Creds!Issue(c) PROVE Creds!Held'
  <2>1. PICK q \in Creds!Calls : Creds!Moves(c, q) /\ q.pc = "write"
    BY <1>5, CredsIssueMoves, Zenon
  <2>2. Creds!Working(c) /\ Creds!Working(c)' /\ mu' = mu
    BY <1>5, <2>1, Zenon DEF Creds!Issue, Creds!Working, Creds!Moves
  <2> QED
    BY <2>1, <2>2, Zenon DEF Creds!Held, Creds!Working, Creds!Moves
<1>6. ASSUME NEW c \in Callers, Creds!Working(c), Creds!Unlock(c), NEW pc \in {"ok", "error"},
             Creds!Step(c, pc)
      PROVE  Creds!Held'
  <2>1. mu'[ProcessOf[c]] = Creds!Nobody /\ mu[ProcessOf[c]] = c
    BY <1>6, CredsUnlocked, Zenon DEF Creds!Unlock, Creds!TypeOK, Creds!Held
  <2> QED
    BY <1>6, <2>1, CredsStepMoves, SMT DEF Creds!Pcs, Creds!Held, Creds!Working,
       Creds!Moves, Creds!OneProcess
<1>7. ASSUME NEW c \in Callers, Creds!Verify(c), Creds!Step(c, "issue"), UNCHANGED mu
      PROVE Creds!Held'
  BY <1>7, CredsStepMoves, SMT DEF Creds!Verify, Creds!Pcs, Creds!Held, Creds!Working,
     Creds!Moves
<1>8. ASSUME NEW c \in Callers, Creds!Verify(c) \/ Creds!IssueLost(c) \/ Creds!Write(c)
             \/ Creds!Fails(c) PROVE Creds!Held'
  BY <1>6, <1>7, <1>8, Zenon DEF Creds!Verify, Creds!IssueLost, Creds!Write, Creds!Fails,
     Creds!Working
<1>9. CASE UNCHANGED Creds!vars
  BY <1>9, Zenon DEF Creds!vars, Creds!Held, Creds!Working
<1> QED
  BY <1>1, <1>2, <1>3, <1>4, <1>5, <1>8, <1>9, Zenon DEF Creds!Next

\* While one call works, the others have nothing under way.
LEMMA CredsAlone ==
  ASSUME Creds!OneProcess, Creds!Held, NEW c \in Callers, NEW d \in Callers, Creds!Working(c),
         Creds!Working(d)
  PROVE  c = d
BY Zenon DEF Creds!OneProcess, Creds!Held

\* A call that does not work has seen nothing.
LEMMA CredsSeesNothing ==
  ASSUME NEW c \in Callers
  PROVE  /\ ~Creds!Working(c) => Creds!Seen(c)
         /\ ~Creds!Working(c)' => Creds!Seen(c)'
BY Zenon DEF Creds!Working, Creds!Seen

\* The password nodes have stays good and what calls have read stays so.
LEMMA CredsSeenStep ==
  ASSUME Creds!OneProcess, Creds!IInv, [Creds!Next]_(Creds!vars)
  PROVE  (ensured => Creds!Valid)' /\ \A d \in Callers : Creds!Seen(d)'
<1>t. Creds!TypeOK /\ Creds!Held /\ \A d \in Callers : Creds!Seen(d)
  BY Zenon DEF Creds!IInv
<1>1. CASE Creds!Revoked
  <2>1. stored' = 0 /\ secret' = secret /\ ~ensured' /\ Creds!Disturbed
    BY <1>1, Zenon DEF Creds!Revoked, Creds!Disturbed
  <2>2. ASSUME NEW d \in Callers PROVE Creds!Seen(d)'
    <3>1. call'[d].pc = call[d].pc /\ call'[d].old = call[d].old /\ ~call'[d].clean
      BY <1>t, <2>1, CredsDisturbedMoves, Zenon
    <3> QED
      BY <1>t, <2>1, <3>1, Zenon DEF Creds!Seen, Creds!Valid
  <2> QED
    BY <2>1, <2>2, Zenon
<1>2. CASE Creds!SecretLost
  <2>1. secret'.password = 0 /\ stored' = stored /\ Creds!Disturbed
    BY <1>2, SMT DEF Creds!SecretLost
  <2>2. ~ensured'
    BY <2>1, Zenon DEF Creds!Disturbed
  <2>3. ASSUME NEW d \in Callers PROVE Creds!Seen(d)'
    <3>1. call'[d].pc = call[d].pc /\ call'[d].old = call[d].old /\ ~call'[d].clean
      BY <1>t, <2>1, CredsDisturbedMoves, Zenon
    <3> QED
      BY <1>t, <2>1, <2>2, <3>1, Zenon DEF Creds!Seen, Creds!Valid
  <2> QED
    BY <2>2, <2>3, Zenon
<1>3. ASSUME NEW c \in Callers, Creds!Call(c) \/ Creds!Lock(c)
      PROVE  (ensured => Creds!Valid)' /\ \A d \in Callers : Creds!Seen(d)'
  <2>1. PICK q \in Creds!Calls : Creds!Moves(c, q) /\ q.pc \in {"lock", "get"}
    BY <1>3, <1>t, CredsCallMoves, CredsStepMoves, SMT DEF Creds!Lock, Creds!Pcs
  <2>2. UNCHANGED <<stored, secret, ensured>>
    BY <1>3, Zenon DEF Creds!Call, Creds!Lock
  <2> QED
    BY <1>t, <2>1, <2>2, Zenon DEF Creds!IInv, Creds!Moves, Creds!Seen, Creds!Valid
<1>4. ASSUME NEW c \in Callers, Creds!Get(c)
      PROVE  (ensured => Creds!Valid)' /\ \A d \in Callers : Creds!Seen(d)'
  <2>1. PICK q \in Creds!Calls :
            /\ Creds!Moves(c, q) /\ q.pc = "verify"
            /\ q.old = (IF secret.there THEN secret.password ELSE 0)
    BY <1>4, <1>t, CredsGetMoves, Zenon
  <2>2. UNCHANGED <<stored, secret, ensured>>
    BY <1>4, Zenon DEF Creds!Get
  <2> QED
    BY <1>t, <2>1, <2>2, Zenon DEF Creds!IInv, Creds!Moves, Creds!Seen, Creds!Valid
<1>5. ASSUME NEW c \in Callers, Creds!Verify(c)
      PROVE  (ensured => Creds!Valid)' /\ \A d \in Callers : Creds!Seen(d)'
  <2>1. call[c].pc = "verify" /\ UNCHANGED <<stored, secret>>
    BY <1>5, Zenon DEF Creds!Verify
  <2>2. CASE call[c].old # 0 /\ call[c].old = stored
    <3>1. Creds!Step(c, "ok") /\ Creds!Ensured(c)
      BY <1>5, <2>2, Zenon DEF Creds!Verify
    <3>2. PICK q \in Creds!Calls : Creds!Moves(c, q) /\ q.pc = "ok"
      BY <1>t, <3>1, CredsStepMoves, ZenonT(30) DEF Creds!Pcs
    <3>3. \A d \in Callers : Creds!Seen(d)'
      BY <1>t, <2>1, <3>2, CredsSeesNothing, CredsAlone, Zenon DEF Creds!Moves, Creds!Working
    <3>4. ensured \/ call[c].clean => Creds!Valid
      BY <1>t, <2>1, <2>2, Zenon DEF Creds!IInv, Creds!Seen, Creds!Valid, Creds!TypeOK
    <3> QED
      BY <2>1, <3>1, <3>3, <3>4, Zenon DEF Creds!Ensured, Creds!Valid
  <2>3. CASE ~(call[c].old # 0 /\ call[c].old = stored)
    <3>1. Creds!Step(c, "issue") /\ ensured' = ensured
      BY <1>5, <2>3, Zenon DEF Creds!Verify
    <3>2. PICK q \in Creds!Calls : Creds!Moves(c, q) /\ q.pc = "issue"
      BY <1>t, <3>1, CredsStepMoves, ZenonT(30) DEF Creds!Pcs
    <3>3. ~Creds!Valid
      BY <1>t, <2>1, <2>3, Zenon DEF Creds!Seen, Creds!Valid, Creds!TypeOK
    <3> QED
      BY <1>t, <2>1, <3>1, <3>2, <3>3, Zenon DEF Creds!IInv, Creds!Moves, Creds!Seen,
         Creds!Valid
  <2> QED
    BY <2>2, <2>3, Zenon
<1>6. ASSUME NEW c \in Callers, Creds!Issue(c)
      PROVE  (ensured => Creds!Valid)' /\ \A d \in Callers : Creds!Seen(d)'
  <2>1. PICK q \in Creds!Calls :
            /\ Creds!Moves(c, q) /\ q.pc = "write" /\ q.new = issued + 1
            /\ q.clean = call[c].clean
    BY <1>6, <1>t, CredsIssueMoves, Zenon
  <2>2. Creds!Working(c) /\ ~ensured /\ ensured' = ensured /\ stored' = issued + 1
          /\ stored' # 0
    BY <1>6, <1>t, SMT DEF Creds!Issue, Creds!IInv, Creds!Seen, Creds!Working, Creds!TypeOK
  <2>3. ASSUME NEW d \in Callers PROVE Creds!Seen(d)'
    <3>1. CASE d = c
      BY <2>1, <2>2, <3>1, Zenon DEF Creds!Seen, Creds!Moves
    <3>2. CASE d # c
      BY <1>t, <2>1, <2>2, <3>2, CredsSeesNothing, CredsAlone, Zenon DEF Creds!Moves,
         Creds!Working
    <3> QED
      BY <3>1, <3>2, Zenon
  <2> QED
    BY <2>2, <2>3, Zenon
<1>7. ASSUME NEW c \in Callers, Creds!Write(c)
      PROVE  (ensured => Creds!Valid)' /\ \A d \in Callers : Creds!Seen(d)'
  <2>1. PICK q \in Creds!Calls : Creds!Moves(c, q) /\ q.pc \in {"ok", "error"}
    BY <1>7, <1>t, CredsStepMoves, ZenonT(30) DEF Creds!Write, Creds!Pcs
  <2>2. call[c].pc = "write" /\ UNCHANGED stored /\ ~ensured
    BY <1>7, <1>t, Zenon DEF Creds!Write, Creds!Seen
  <2>3. \A d \in Callers : Creds!Seen(d)'
    BY <1>t, <2>1, <2>2, CredsSeesNothing, CredsAlone, Zenon DEF Creds!Moves, Creds!Working
  <2>4. CASE UNCHANGED ensured
    BY <2>2, <2>3, <2>4, Zenon
  <2>5. CASE secret' = [there |-> TRUE, password |-> call[c].new,
                        version |-> secret.version + 1] /\ Creds!Ensured(c)
    <3>1. secret'.there /\ secret'.password = call[c].new
      BY <2>5, Zenon
    <3>2. call[c].clean => stored = call[c].new /\ stored # 0
      BY <1>t, <2>2, Zenon DEF Creds!Seen
    <3> QED
      BY <2>2, <2>3, <2>5, <3>1, <3>2, Zenon DEF Creds!Ensured, Creds!Valid
  <2> QED
    BY <1>7, <2>4, <2>5, Zenon DEF Creds!Write
<1>8. ASSUME NEW c \in Callers, Creds!IssueLost(c) \/ Creds!Fails(c)
      PROVE  (ensured => Creds!Valid)' /\ \A d \in Callers : Creds!Seen(d)'
  <2>1. PICK q \in Creds!Calls : Creds!Moves(c, q) /\ q.pc = "error"
    BY <1>8, <1>t, CredsStepMoves, ZenonT(30) DEF Creds!IssueLost, Creds!Fails, Creds!Pcs
  <2>2. Creds!Working(c) /\ UNCHANGED <<secret, ensured>>
    BY <1>8, Zenon DEF Creds!IssueLost, Creds!Fails, Creds!Working
  <2>3. \A d \in Callers : Creds!Seen(d)'
    BY <1>t, <2>1, <2>2, CredsSeesNothing, CredsAlone, Zenon DEF Creds!Moves, Creds!Working
  <2>4. stored' = stored \/ ~ensured
    BY <1>8, <1>t, Zenon DEF Creds!IssueLost, Creds!Fails, Creds!IInv, Creds!Seen
  <2> QED
    BY <2>2, <2>3, <2>4, Zenon DEF Creds!IInv, Creds!Valid
<1>9. CASE UNCHANGED Creds!vars
  BY <1>9, <1>t, Zenon DEF Creds!vars, Creds!IInv, Creds!Seen, Creds!Valid
<1> QED
  BY <1>1, <1>2, <1>3, <1>4, <1>5, <1>6, <1>7, <1>8, <1>9, Zenon DEF Creds!Next

\* The inductive invariant of ensurePullSecret.
THEOREM CredentialIsSafe ==
  ASSUME Creds!OneProcess
  PROVE  Creds!Spec => []Creds!IInv
<1>1. Creds!Init => Creds!IInv
  <2>1. Creds!Init => Creds!TypeOK
    <3>1. Creds!Idle \in Creds!Calls
      BY Zenon DEF Creds!Idle, Creds!Calls, Creds!Pcs
    <3>2. Creds!Init => ensured \in BOOLEAN
      BY Zenon DEF Creds!Init
    <3> QED
      BY <3>1, <3>2, SMT DEF Creds!Init, Creds!TypeOK
  <2> QED
    BY <2>1, SMT DEF Creds!Init, Creds!IInv, Creds!Held, Creds!Working, Creds!Idle,
       Creds!Seen, Creds!Valid, Creds!OneProcess, Creds!Processes
<1>2. Creds!IInv /\ [Creds!Next]_(Creds!vars) => Creds!IInv'
  BY CredsTypeStep, CredsHeldStep, CredsSeenStep, Zenon DEF Creds!IInv
<1> QED
  BY <1>1, <1>2, PTL DEF Creds!Spec

\* Whatever calls of one process interleave and whichever fail, once a creation
\* has gone on nodes keep a password dinki accepts (ensurePullSecret).
THEOREM AuthIsKept ==
  ASSUME Creds!OneProcess
  PROVE  Creds!Spec => []Creds!AuthStays
<1>1. Creds!IInv => Creds!AuthStays
  BY Zenon DEF Creds!IInv, Creds!AuthStays, Creds!Valid
<1> QED
  BY <1>1, CredentialIsSafe, PTL

\* A password that the Secret holds and dinki accepts is never replaced by one
\* of this process (IssuePullCredential).
THEOREM ValidIsReused ==
  ASSUME Creds!OneProcess
  PROVE  Creds!Spec => [][Creds!ValidReused]_(Creds!vars)
<1>1. Creds!IInv /\ [Creds!Next]_(Creds!vars) => [Creds!ValidReused]_(Creds!vars)
  <2> SUFFICES ASSUME Creds!IInv, Creds!Next, issued' # issued
               PROVE  ~Creds!Valid
    BY Zenon DEF Creds!vars, Creds!ValidReused, Creds!Valid
  <2>1. PICK c \in Callers : Creds!Issue(c) \/ Creds!IssueLost(c)
    BY Zenon DEF Creds!Next, Creds!Revoked, Creds!SecretLost, Creds!Call, Creds!Lock,
       Creds!Get, Creds!Verify, Creds!Write, Creds!Fails
  <2> QED
    BY <2>1, Zenon DEF Creds!Issue, Creds!IssueLost, Creds!IInv, Creds!Seen
<1> QED
  BY <1>1, CredentialIsSafe, PTL DEF Creds!Spec

-----------------------------------------------------------------------------
(* TenantValues: the values of a tenant, and who may write them. *)

CONSTANTS Operators, Keys, Values, MaxVersion
VARIABLES tenant, store, version, acked, cmd

Vals == INSTANCE TenantValues

\* A command goes on, and the Secret stays as it is.
LEMMA ValuesGoOn ==
  ASSUME Vals!IInv, NEW o \in Operators, NEW q \in Vals!Commands,
         q.pc # "idle" => q.key \in Keys, Vals!ReadIsUsable(q),
         Vals!Go(o, q), UNCHANGED <<tenant, store, version, acked>>
  PROVE  Vals!IInv'
<1>1. Vals!Typed'
  BY Zenon DEF Vals!IInv, Vals!Typed, Vals!Go
<1>2. \A p \in Operators : cmd'[p] = IF p = o THEN q ELSE cmd[p]
  BY Zenon DEF Vals!IInv, Vals!Typed, Vals!Go
<1>3. \A p \in Operators : Vals!ReadIsUsable(cmd[p])'
  BY <1>2, Zenon DEF Vals!IInv, Vals!ReadIsUsable, Vals!Numbered
<1>4. (Vals!Numbered(store) /\ Vals!AckedStays /\ (tenant = "none" => store = Vals!NoStore))'
  BY Zenon DEF Vals!IInv, Vals!Numbered, Vals!AckedStays
<1> QED
  BY <1>1, <1>3, <1>4, Zenon DEF Vals!IInv

LEMMA ValuesInit == Vals!Init => Vals!IInv
<1> SUFFICES ASSUME Vals!Init PROVE Vals!IInv
  OBVIOUS
<1>1. Vals!NoStore \in Vals!Stores /\ Vals!NoStore.rv = 0 /\ Vals!NoStore.data = Vals!Empty
      /\ Vals!Empty \in Vals!Contents
  BY SMT DEF Vals!NoStore, Vals!Stores, Vals!Empty, Vals!Contents
<1>2. Vals!Idle \in Vals!Commands /\ Vals!Idle.pc = "idle"
  BY <1>1, SMT DEF Vals!Idle, Vals!Commands
<1>3. Vals!Typed
  BY <1>1, <1>2, SMT DEF Vals!Init, Vals!Typed
<1> QED
  BY <1>1, <1>2, <1>3, SMT
  DEF Vals!IInv, Vals!Init, Vals!Numbered, Vals!AckedStays, Vals!ReadIsUsable

\* A new version of the Secret, for a command that has read the last one.
LEMMA ValuesWrite ==
  ASSUME Vals!IInv, NEW o \in Operators, Vals!SetSecret(o), Vals!Current(cmd[o])
  PROVE  Vals!IInv' /\ Vals!ForeignKept
<1> DEFINE c == cmd[o]
           data == [c.read.data EXCEPT ![c.key] = c.value]
<1>1. /\ c \in Vals!Commands /\ c.pc = "write" /\ c.key \in Keys /\ c.read = store
      /\ store \in Vals!Stores /\ Vals!Usable(store) /\ version \in Nat
      /\ acked \in Vals!Contents
  BY Zenon DEF Vals!IInv, Vals!Typed, Vals!SetSecret, Vals!Current, Vals!ReadIsUsable
<1>2. c.value \in Values \cup {Vals!None} /\ store.data \in Vals!Contents /\ store.rv \in Nat
      /\ store.ours \in BOOLEAN
  BY <1>1, Zenon DEF Vals!Commands, Vals!Stores
<1>3. data \in Vals!Contents
  BY <1>1, <1>2, Zenon DEF Vals!Contents
<1>4. /\ version' = version + 1 /\ UNCHANGED tenant /\ Vals!Go(o, Vals!Idle)
      /\ store' = [rv |-> version', ours |-> c.read.rv = 0 \/ c.read.ours, data |-> data]
      /\ acked' = [acked EXCEPT ![c.key] = c.value]
  BY Zenon DEF Vals!SetSecret, Vals!Write
<1>5. store.data = acked /\ (store.rv = 0 \/ store.ours)
  BY <1>1, <1>2, Zenon DEF Vals!IInv, Vals!AckedStays, Vals!Usable
<1> HIDE DEF c
<1>6. acked' = data /\ acked' \in Vals!Contents
  BY <1>1, <1>3, <1>4, <1>5, Zenon
<1> HIDE DEF data
<1>7. store'.rv = version + 1 /\ store'.ours = TRUE /\ store'.data = data
        /\ store' \in Vals!Stores
  <2>1. version + 1 \in Nat
    BY <1>1, SMT
  <2>2. (c.read.rv = 0 \/ c.read.ours) = TRUE
    BY <1>1, <1>2, <1>5, Zenon
  <2>3. store' = [rv |-> version + 1, ours |-> TRUE, data |-> data]
    BY <2>2, <1>4, Zenon
  <2> QED
    BY <2>1, <2>3, <1>3, Zenon DEF Vals!Stores
<1>8. Vals!Idle \in Vals!Commands /\ Vals!Idle.pc = "idle"
  BY SMT DEF Vals!Idle, Vals!Commands, Vals!NoStore, Vals!Stores, Vals!Empty,
             Vals!Contents
<1>9. Vals!Typed' /\ version' \in Nat /\ version + 1 > version
  <2>1. cmd' \in [Operators -> Vals!Commands]
        /\ \A p \in Operators : cmd'[p].pc # "idle" => cmd'[p].key \in Keys
    BY <1>4, <1>8, Zenon DEF Vals!Go, Vals!IInv, Vals!Typed
  <2>2. version' \in Nat /\ version + 1 > version
    BY <1>1, <1>4, SMT
  <2> QED
    BY <2>1, <2>2, <1>4, <1>6, <1>7, Zenon DEF Vals!IInv, Vals!Typed
<1>10. \A p \in Operators : Vals!ReadIsUsable(cmd[p])'
  <2> SUFFICES ASSUME NEW p \in Operators, cmd'[p].pc = "write"
               PROVE  /\ Vals!Numbered(cmd[p].read)' /\ Vals!Usable(cmd'[p].read)
                      /\ cmd'[p].read.rv # store'.rv
    BY Zenon DEF Vals!ReadIsUsable, Vals!Usable
  <2>1. p # o /\ cmd'[p] = cmd[p]
    BY <1>4, <1>8, Zenon DEF Vals!Go, Vals!IInv, Vals!Typed
  <2>2. Vals!Numbered(cmd[p].read) /\ Vals!Usable(cmd[p].read)
    BY <2>1, Zenon DEF Vals!IInv, Vals!ReadIsUsable
  <2>3. cmd[p].read.rv \in Nat
    BY Zenon DEF Vals!IInv, Vals!Typed, Vals!Commands, Vals!Stores
  <2> QED
    BY <2>1, <2>2, <2>3, <1>1, <1>4, <1>7, SMT DEF Vals!Numbered
<1>11. (Vals!Numbered(store) /\ Vals!AckedStays /\ (tenant = "none" => store = Vals!NoStore))'
  <2>1. tenant # "none"
    BY Zenon DEF Vals!Current
  <2> QED
    BY <2>1, <1>1, <1>4, <1>6, <1>7, SMT DEF Vals!Numbered, Vals!AckedStays
<1>12. Vals!ForeignKept
  BY <1>5, Zenon DEF Vals!ForeignKept
<1> QED
  BY <1>9, <1>10, <1>11, <1>12, Zenon DEF Vals!IInv

\* The namespace comes and goes; a tenant makes a Secret of its own.
LEMMA ValuesCluster == ASSUME Vals!IInv, Vals!Cluster PROVE Vals!IInv' /\ Vals!ForeignKept
<1>1. /\ version \in Nat /\ UNCHANGED cmd /\ store \in Vals!Stores /\ Vals!Numbered(store)
      /\ \A o \in Operators : cmd[o] \in Vals!Commands /\ Vals!ReadIsUsable(cmd[o])
  BY Zenon DEF Vals!IInv, Vals!Typed, Vals!Cluster
<1>2. CASE tenant' \in {"active", "going"} /\ UNCHANGED <<store, version, acked>>
  <2>1. Vals!Typed'
    BY <1>1, <1>2, Zenon DEF Vals!IInv, Vals!Typed
  <2> QED
    BY <2>1, <1>1, <1>2, Zenon
    DEF Vals!IInv, Vals!Numbered, Vals!AckedStays, Vals!ReadIsUsable, Vals!ForeignKept
<1>3. CASE tenant' = "none" /\ store' = Vals!NoStore /\ acked' = Vals!Empty
             /\ UNCHANGED version
  <2>1. /\ Vals!NoStore \in Vals!Stores /\ Vals!NoStore.rv = 0
        /\ Vals!NoStore.data = Vals!Empty /\ Vals!Empty \in Vals!Contents
    BY SMT DEF Vals!NoStore, Vals!Stores, Vals!Empty, Vals!Contents
  <2>2. Vals!Typed'
    BY <2>1, <1>1, <1>3, Zenon DEF Vals!IInv, Vals!Typed
  <2>3. \A o \in Operators : Vals!ReadIsUsable(cmd[o])'
    BY <2>1, <1>1, <1>3, Zenon DEF Vals!ReadIsUsable, Vals!Numbered
  <2>4. Vals!Numbered(store)'
    BY <2>1, <1>1, <1>3, SMT DEF Vals!Numbered
  <2> QED
    BY <2>1, <2>2, <2>3, <2>4, <1>3, Zenon DEF Vals!IInv, Vals!AckedStays, Vals!ForeignKept
<1>4. CASE /\ tenant = "active" /\ store.rv = 0
           /\ \E v \in Values :
                 store' = [rv |-> version + 1, ours |-> FALSE, data |-> [k \in Keys |-> v]]
           /\ version' = version + 1 /\ UNCHANGED <<tenant, acked>>
  <2>1. PICK v \in Values :
           store' = [rv |-> version + 1, ours |-> FALSE, data |-> [k \in Keys |-> v]]
    BY <1>4, Zenon
  <2>2. [k \in Keys |-> v] \in Vals!Contents /\ version' \in Nat /\ version + 1 # 0
    BY <1>1, <1>4, SMT DEF Vals!Contents
  <2>3. store' \in Vals!Stores /\ store'.rv = version + 1 /\ store'.ours = FALSE
    BY <2>1, <2>2, <1>4, SMT DEF Vals!Stores
  <2>4. Vals!Typed'
    BY <2>2, <2>3, <1>1, <1>4, Zenon DEF Vals!IInv, Vals!Typed
  <2>5. \A o \in Operators : Vals!ReadIsUsable(cmd[o])'
    <3> SUFFICES ASSUME NEW o \in Operators, cmd[o].pc = "write"
                 PROVE  Vals!Numbered(cmd[o].read)' /\ cmd[o].read.rv # store'.rv
      BY <1>1, Zenon DEF Vals!ReadIsUsable, Vals!Usable
    <3>1. Vals!Numbered(cmd[o].read) /\ cmd[o].read.rv \in Nat
      BY <1>1, Zenon DEF Vals!ReadIsUsable, Vals!Commands, Vals!Stores
    <3> QED
      BY <3>1, <2>3, <1>1, <1>4, SMT DEF Vals!Numbered
  <2>6. Vals!Numbered(store)' /\ Vals!AckedStays'
    BY <2>2, <2>3, <1>1, <1>4, SMT DEF Vals!Numbered, Vals!AckedStays
  <2> QED
    BY <2>4, <2>5, <2>6, <1>4, Zenon DEF Vals!IInv, Vals!ForeignKept
<1> QED
  BY <1>2, <1>3, <1>4, Zenon DEF Vals!Cluster, Vals!Namespace

LEMMA ValuesStep == Vals!IInv /\ [Vals!Next]_(Vals!vars) => Vals!IInv' /\ Vals!ForeignKept
<1> SUFFICES ASSUME Vals!IInv, [Vals!Next]_(Vals!vars) PROVE Vals!IInv' /\ Vals!ForeignKept
  OBVIOUS
<1>1. Vals!Idle \in Vals!Commands /\ Vals!Idle.pc = "idle"
  BY SMT DEF Vals!Idle, Vals!Commands, Vals!NoStore, Vals!Stores, Vals!Empty, Vals!Contents
<1>2. Vals!ReadIsUsable(Vals!Idle)
  BY <1>1, Zenon DEF Vals!ReadIsUsable
<1>3. ASSUME NEW o \in Operators, Vals!Start(o) PROVE Vals!IInv' /\ Vals!ForeignKept
  <2>1. PICK k \in Keys, v \in Values \cup {Vals!None} :
           Vals!Go(o, [Vals!Idle EXCEPT !.op = IF v = Vals!None THEN "remove" ELSE "set",
                                        !.pc = "get", !.key = k, !.value = v])
    BY <1>3, Zenon DEF Vals!Start
  <2> DEFINE q == [Vals!Idle EXCEPT !.op = IF v = Vals!None THEN "remove" ELSE "set",
                                    !.pc = "get", !.key = k, !.value = v]
  <2>2. q \in Vals!Commands /\ q.pc = "get" /\ q.key = k
    BY <1>1, Zenon DEF Vals!Commands
  <2>3. UNCHANGED <<tenant, store, version, acked>> /\ Vals!Go(o, q)
    BY <1>3, <2>1, Zenon DEF Vals!Start
  <2> HIDE DEF q
  <2>4. Vals!ReadIsUsable(q) /\ q.key \in Keys
    BY <2>2, Zenon DEF Vals!ReadIsUsable
  <2> QED
    BY <2>2, <2>3, <2>4, ValuesGoOn, Zenon DEF Vals!ForeignKept
<1>4. ASSUME NEW o \in Operators, Vals!SecretStore(o) PROVE Vals!IInv' /\ Vals!ForeignKept
  <2>1. cmd[o] \in Vals!Commands /\ cmd[o].pc = "get" /\ cmd[o].key \in Keys
        /\ store \in Vals!Stores /\ Vals!Numbered(store)
        /\ UNCHANGED <<tenant, store, version, acked>>
    BY <1>4, Zenon DEF Vals!IInv, Vals!Typed, Vals!SecretStore
  <2>2. CASE Vals!Go(o, Vals!Idle)
    BY <2>1, <2>2, <1>1, <1>2, ValuesGoOn, Zenon DEF Vals!ForeignKept
  <2>3. CASE Vals!Usable(store) /\ Vals!Go(o, [cmd[o] EXCEPT !.read = store, !.pc = "write"])
    <3> DEFINE q == [cmd[o] EXCEPT !.read = store, !.pc = "write"]
    <3>1. q \in Vals!Commands /\ q.pc = "write" /\ q.key = cmd[o].key /\ q.read = store
      BY <2>1, Zenon DEF Vals!Commands
    <3>2. Vals!Go(o, q)
      BY <2>3, Zenon
    <3> HIDE DEF q
    <3>3. Vals!ReadIsUsable(q)
      BY <2>1, <2>3, <3>1, Zenon DEF Vals!ReadIsUsable
    <3> QED
      BY <2>1, <3>1, <3>2, <3>3, ValuesGoOn, Zenon DEF Vals!ForeignKept
  <2> QED
    BY <1>4, <2>2, <2>3, Zenon DEF Vals!SecretStore
<1>5. ASSUME NEW o \in Operators, Vals!SetSecret(o) PROVE Vals!IInv' /\ Vals!ForeignKept
  <2>1. CASE Vals!Current(cmd[o])
    BY <1>5, <2>1, ValuesWrite, Zenon
  <2>2. CASE ~Vals!Current(cmd[o])
    <3>1. UNCHANGED <<tenant, store, version, acked>> /\ Vals!Go(o, Vals!Idle)
      BY <1>5, <2>2, Zenon DEF Vals!SetSecret
    <3> QED
      BY <3>1, <1>1, <1>2, ValuesGoOn, Zenon DEF Vals!ForeignKept
  <2> QED
    BY <2>1, <2>2, Zenon
<1>6. CASE UNCHANGED Vals!vars
  <2>1. UNCHANGED <<tenant, store, version, acked, cmd>>
    BY <1>6, Zenon DEF Vals!vars
  <2> QED
    BY <2>1, Zenon
    DEF Vals!IInv, Vals!Typed, Vals!Numbered, Vals!AckedStays, Vals!ReadIsUsable,
        Vals!ForeignKept
<1> QED
  BY <1>3, <1>4, <1>5, <1>6, ValuesCluster, Zenon DEF Vals!Next

\* A value an operator was told is set stays so while others change other keys
\* of the same Secret (SetSecret), for any number of operators and versions.
THEOREM ValuesStay == Vals!Spec => [](Vals!TypeOK /\ Vals!AckedStays)
<1>1. Vals!IInv => Vals!TypeOK /\ Vals!AckedStays
  BY SMT DEF Vals!IInv, Vals!Typed, Vals!TypeOK, Vals!Numbered, Vals!Stores
<1> QED
  BY <1>1, ValuesInit, ValuesStep, PTL DEF Vals!Spec

\* A Secret of the store's name that dinkle did not make is never written
\* (secretStore's label, and the version the update carries).
THEOREM ForeignSecretsKept == Vals!Spec => [][Vals!ForeignKept]_(Vals!vars)
BY ValuesInit, ValuesStep, PTL DEF Vals!Spec

-----------------------------------------------------------------------------
(* ExecSessions: an exec runs once, and its exit code stays. *)

CONSTANTS Creators, Starters, Resizers, Pods, ExitCodes
VARIABLES phase, removed, entry, create, start, queue, resize

Exec == INSTANCE ExecSessions

\* A start goes to another step.
LEMMA ExecMoves ==
  ASSUME Exec!Typed, NEW s \in Starters,
         NEW pc \in {"refused", "pod", "stream", "finish", "done"},
         NEW code \in ExitCodes \cup {None},
         \/ start' = [start EXCEPT ![s].pc = pc]
         \/ start' = [start EXCEPT ![s].pc = pc, ![s].code = code]
  PROVE  /\ start' \in [Starters -> Exec!StartRecs] /\ start'[s].pc = pc
         /\ \A t \in Starters \ {s} : start'[t] = start[t]
<1>1. start[s] \in Exec!StartRecs /\ start \in [Starters -> Exec!StartRecs]
  BY Zenon DEF Exec!Typed
<1>2. /\ [start[s] EXCEPT !.pc = pc] \in Exec!StartRecs
      /\ [start[s] EXCEPT !.pc = pc].pc = pc
  BY <1>1, Zenon DEF Exec!StartRecs
<1>3. /\ [start[s] EXCEPT !.pc = pc, !.code = code] \in Exec!StartRecs
      /\ [start[s] EXCEPT !.pc = pc, !.code = code].pc = pc
  BY <1>1, Zenon DEF Exec!StartRecs
<1>4. PICK q \in Exec!StartRecs : q.pc = pc /\ start' = [start EXCEPT ![s] = q]
  BY <1>2, <1>3, Zenon
<1> QED
  BY <1>1, <1>4, Zenon

LEMMA ExecInit == ASSUME Exec!Sane, Exec!Init PROVE Exec!IInv
<1>1. Exec!Typed
  BY Zenon DEF Exec!Init, Exec!Typed, Exec!CreateRecs, Exec!StartRecs, Exec!ResizeRecs
<1>2. \A s \in Starters : ~Exec!Marked(s)
  BY Zenon DEF Exec!Init, Exec!Marked
<1> QED
  BY <1>1, <1>2, Zenon
  DEF Exec!Init, Exec!IInv, Exec!InsertedOnce, Exec!MarkedIsRunning, Exec!NoStaleTerminal

LEMMA ExecCreates ==
  ASSUME Exec!Sane, Exec!IInv, NEW c \in Creators, Exec!FindPod(c) \/ Exec!Insert(c)
  PROVE  Exec!IInv' /\ Exec!ExitCodeFinal
<1>1. CASE Exec!FindPod(c)
  <2>1. PICK p \in Pods : create' = [create EXCEPT ![c] = [pc |-> "insert", pod |-> p]]
    BY <1>1, Zenon DEF Exec!FindPod
  <2>2. [pc |-> "insert", pod |-> p] \in Exec!CreateRecs
    BY Zenon DEF Exec!CreateRecs
  <2>3. UNCHANGED <<phase, entry, start, queue, resize>> /\ create[c].pc = "idle"
    BY <1>1, Zenon DEF Exec!FindPod
  <2>4. Exec!Typed'
    BY <2>1, <2>2, <2>3, Zenon DEF Exec!IInv, Exec!Typed
  <2>5. entry = None /\ \A s \in Starters : ~Exec!Marked(s)
    BY <2>3, Zenon DEF Exec!IInv, Exec!InsertedOnce
  <2> QED
    BY <2>3, <2>4, <2>5, Zenon
    DEF Exec!IInv, Exec!InsertedOnce, Exec!MarkedIsRunning, Exec!Marked, Exec!InStream,
        Exec!NoStaleTerminal, Exec!ExitCodeFinal
<1>2. CASE Exec!Insert(c)
  <2> DEFINE e == [pod |-> create[c].pod, running |-> FALSE, exit |-> None, resize |-> None]
             q == [create[c] EXCEPT !.pc = "done"]
  <2>1. /\ create[c].pc = "insert" /\ create[c].pod \in Pods /\ create[c] \in Exec!CreateRecs
        /\ entry = None /\ entry' = e /\ create' = [create EXCEPT ![c] = q]
        /\ UNCHANGED <<phase, start, queue, resize>>
    BY <1>2, Zenon DEF Exec!Insert, Exec!IInv, Exec!Typed
  <2>2. e \in Exec!Entries /\ e.running = FALSE /\ e.exit = None /\ e.resize = None
    BY <2>1, Zenon DEF Exec!Entries
  <2>3. q \in Exec!CreateRecs /\ q.pc = "done" /\ q.pod = create[c].pod
    BY <2>1, Zenon DEF Exec!CreateRecs
  <2> HIDE DEF e, q
  <2>4. Exec!Typed'
    BY <2>1, <2>2, <2>3, Zenon DEF Exec!IInv, Exec!Typed
  <2>5. \A s \in Starters : ~Exec!Marked(s)
    BY <2>1, Zenon DEF Exec!IInv, Exec!InsertedOnce
  <2>6. \A d \in Creators : create'[d].pc = "done"
    BY <2>1, <2>3, Zenon DEF Exec!Sane, Exec!IInv, Exec!Typed
  <2> QED
    BY <2>1, <2>2, <2>4, <2>5, <2>6, Zenon
    DEF Exec!IInv, Exec!InsertedOnce, Exec!MarkedIsRunning, Exec!Marked, Exec!InStream,
        Exec!NoStaleTerminal, Exec!ExitCodeFinal
<1> QED
  BY <1>1, <1>2, Zenon

LEMMA ExecPods ==
  ASSUME Exec!Sane, Exec!IInv, Exec!Purge \/ \E p \in Pods : Exec!PodExits(p)
  PROVE  Exec!IInv' /\ Exec!ExitCodeFinal
<1>1. /\ UNCHANGED <<create, start, queue, resize>> /\ entry' \in {entry, None}
      /\ phase' \in [Pods -> {"Running", "Exited"}]
  BY Zenon DEF Exec!Purge, Exec!PodExits, Exec!IInv, Exec!Typed
<1>2. Exec!Typed'
  BY <1>1, Zenon DEF Exec!IInv, Exec!Typed
<1> QED
  BY <1>1, <1>2, Zenon
  DEF Exec!IInv, Exec!InsertedOnce, Exec!MarkedIsRunning, Exec!Marked, Exec!InStream,
      Exec!NoStaleTerminal, Exec!ExitCodeFinal

\* One client is let through, when the record is neither running nor over.
LEMMA ExecBegins ==
  ASSUME Exec!Sane, Exec!IInv, NEW s \in Starters, Exec!Begin(s)
  PROVE  Exec!IInv' /\ Exec!ExitCodeFinal
<1>1. start[s].pc = "idle" /\ entry # None /\ entry \in Exec!Entries /\ Exec!Typed
  BY Zenon DEF Exec!Begin, Exec!IInv, Exec!Typed
<1>2. CASE Exec!Refuse(s)
  <2>1. UNCHANGED <<phase, entry, create, queue, resize>>
        /\ start' = [start EXCEPT ![s].pc = "refused"]
    BY <1>2, Zenon DEF Exec!Refuse
  <2>2. /\ start' \in [Starters -> Exec!StartRecs] /\ start'[s].pc = "refused"
        /\ \A t \in Starters \ {s} : start'[t] = start[t]
    BY <2>1, <1>1, ExecMoves, Zenon
  <2>3. Exec!Typed'
    BY <2>1, <2>2, <1>1, Zenon DEF Exec!Typed
  <2>4. \A t \in Starters : /\ Exec!Marked(t)' => Exec!Marked(t)
                            /\ Exec!InStream(t)' => Exec!InStream(t)
                            /\ start'[t].pc = "pod" => start[t].pc = "pod"
    BY <2>2, Zenon DEF Exec!Marked, Exec!InStream
  <2> QED
    BY <2>1, <2>3, <2>4, Zenon
    DEF Exec!IInv, Exec!InsertedOnce, Exec!MarkedIsRunning, Exec!NoStaleTerminal,
        Exec!ExitCodeFinal
<1>3. CASE /\ ~entry.running /\ entry.exit = None
           /\ entry' = [entry EXCEPT !.running = TRUE]
           /\ start' = [start EXCEPT ![s].pc = "pod"]
           /\ UNCHANGED <<phase, removed, create, queue, resize>>
  <2>1. entry' \in Exec!Entries /\ entry'.running = TRUE /\ entry'.exit = None
        /\ entry'.resize = entry.resize
    BY <1>1, <1>3, Zenon DEF Exec!Entries
  <2>2. /\ start' \in [Starters -> Exec!StartRecs] /\ start'[s].pc = "pod"
        /\ \A t \in Starters \ {s} : start'[t] = start[t]
    BY <1>1, <1>3, ExecMoves, Zenon
  <2>3. Exec!Typed'
    BY <2>1, <2>2, <1>1, <1>3, Zenon DEF Exec!Typed
  <2>4. \A t \in Starters : ~Exec!Marked(t)
    BY <1>1, <1>3, Zenon DEF Exec!IInv, Exec!MarkedIsRunning
  <2>5. \A t \in Starters : Exec!Marked(t)' => t = s
    BY <2>2, <2>4, Zenon DEF Exec!Marked
  <2>6. \A c \in Creators : create'[c].pc = "done"
    BY <1>1, <1>3, Zenon DEF Exec!IInv, Exec!InsertedOnce
  <2> QED
    BY <2>1, <2>3, <2>5, <2>6, <1>3, Zenon
    DEF Exec!IInv, Exec!InsertedOnce, Exec!MarkedIsRunning, Exec!NoStaleTerminal,
        Exec!ExitCodeFinal
<1> QED
  BY <1>2, <1>3, Zenon DEF Exec!Begin

\* A start that was let through goes on: it stays the only one, or ends.
LEMMA ExecGoesOn ==
  ASSUME Exec!Sane, Exec!IInv, NEW s \in Starters, Exec!Marked(s), Exec!Typed',
         UNCHANGED create, entry' = None <=> entry = None,
         \A t \in Starters \ {s} : start'[t] = start[t],
         Exec!Marked(s)' /\ entry' # None => entry'.running,
         Exec!InStream(s)' => Exec!InStream(s) /\ (entry' # None => entry'.exit = entry.exit),
         entry' # None => /\ entry.exit # None => entry'.exit = entry.exit
                          /\ ~entry'.running => entry'.resize = None
  PROVE  Exec!IInv' /\ Exec!ExitCodeFinal
<1>1. \A t \in Starters \ {s} : ~Exec!Marked(t) /\ ~Exec!Marked(t)' /\ ~Exec!InStream(t)'
  BY Zenon DEF Exec!IInv, Exec!MarkedIsRunning, Exec!Marked, Exec!InStream
<1>2. Exec!InsertedOnce'
  BY <1>1, Zenon DEF Exec!IInv, Exec!InsertedOnce
<1>3. Exec!MarkedIsRunning'
  BY <1>1, Zenon DEF Exec!IInv, Exec!MarkedIsRunning
<1>4. Exec!NoStaleTerminal'
  BY Zenon DEF Exec!NoStaleTerminal
<1>5. \A t \in Starters : start[t].pc = "idle" => start'[t].pc # "pod"
  BY Zenon DEF Exec!Marked
<1> QED
  BY <1>2, <1>3, <1>4, <1>5, Zenon DEF Exec!IInv, Exec!ExitCodeFinal

LEMMA ExecRuns ==
  ASSUME Exec!Sane, Exec!IInv, NEW s \in Starters,
         Exec!StartStep(s) \/ Exec!StreamEnds(s) \/ Exec!StreamCut(s)
  PROVE  Exec!IInv' /\ Exec!ExitCodeFinal
<1>1. /\ Exec!Typed /\ Exec!Marked(s) /\ UNCHANGED <<phase, create, resize>>
      /\ entry # None => entry \in Exec!Entries /\ entry.running
  BY Zenon DEF Exec!IInv, Exec!Typed, Exec!MarkedIsRunning, Exec!Marked, Exec!StartStep,
     Exec!CheckPod, Exec!ReadSize, Exec!Finish, Exec!StreamEnds, Exec!StreamCut
<1>2. Exec!NoStaleTerminal /\ None \notin Exec!Entries
  BY Zenon DEF Exec!IInv, Exec!Sane
<1>3. CASE Exec!CheckPod(s)
  <2>1. CASE entry # None /\ phase[entry.pod] = "Running"
    <3>1. /\ entry' = [entry EXCEPT !.resize = s]
               /\ start' = [start EXCEPT ![s].pc = "stream"]
          /\ start[s].pc = "pod" /\ \E n \in {0, 1} : queue' = [queue EXCEPT ![s] = n]
      BY <1>3, <2>1, Zenon DEF Exec!CheckPod
    <3>2. /\ entry' \in Exec!Entries /\ entry'.running = entry.running
          /\ entry'.exit = entry.exit
      BY <3>1, <2>1, <1>1, Zenon DEF Exec!Entries
    <3>3. /\ start' \in [Starters -> Exec!StartRecs] /\ start'[s].pc = "stream"
          /\ \A t \in Starters \ {s} : start'[t] = start[t]
      BY <3>1, <1>1, ExecMoves, Zenon
    <3>4. Exec!Typed'
      BY <3>1, <3>2, <3>3, <1>1, Zenon DEF Exec!Typed
    <3>5. Exec!InStream(s)
      BY <3>1, Zenon DEF Exec!InStream
    <3> QED
      BY <3>2, <3>3, <3>4, <3>5, <2>1, <1>1, <1>2, ExecGoesOn, Zenon
  <2>2. CASE ~(entry # None /\ phase[entry.pod] = "Running")
    <3>1. start' = [start EXCEPT ![s].pc = "finish"] /\ UNCHANGED <<entry, queue>>
      BY <1>3, <2>2, Zenon DEF Exec!CheckPod
    <3>2. /\ start' \in [Starters -> Exec!StartRecs] /\ start'[s].pc = "finish"
          /\ \A t \in Starters \ {s} : start'[t] = start[t]
      BY <3>1, <1>1, ExecMoves, Zenon
    <3>3. Exec!Typed' /\ ~Exec!InStream(s)'
      BY <3>1, <3>2, <1>1, Zenon DEF Exec!Typed, Exec!InStream
    <3> QED
      BY <3>1, <3>2, <3>3, <1>1, <1>2, ExecGoesOn, Zenon DEF Exec!NoStaleTerminal
  <2> QED
    BY <2>1, <2>2, Zenon
<1>4. CASE Exec!ReadSize(s)
  <2>1. /\ queue \in [Starters -> {0, 1}] /\ queue[s] > 0
        /\ queue' = [queue EXCEPT ![s] = queue[s] - 1] /\ UNCHANGED <<entry, start>>
    BY <1>4, <1>1, Zenon DEF Exec!ReadSize, Exec!Typed
  <2>2. queue[s] - 1 \in {0, 1}
    BY <2>1, SMT
  <2>3. Exec!Typed'
    BY <2>1, <2>2, <1>1, Zenon DEF Exec!Typed
  <2> QED
    BY <2>1, <2>3, <1>1, <1>2, ExecGoesOn, Zenon DEF Exec!InStream, Exec!NoStaleTerminal
<1>5. CASE Exec!StreamEnds(s)
  <2>1. PICK code \in ExitCodes :
           /\ start' = [start EXCEPT ![s].pc = "finish", ![s].code = code]
           /\ entry' = IF entry = None THEN None ELSE [entry EXCEPT !.exit = code]
    BY <1>5, Zenon DEF Exec!StreamEnds, Exec!Write
  <2>2. entry # None => /\ entry' \in Exec!Entries /\ entry'.running = entry.running
                        /\ entry'.resize = entry.resize /\ entry.exit = None
    <3>1. Exec!InStream(s)
      BY <1>5, Zenon DEF Exec!StreamEnds, Exec!InStream
    <3> QED
      BY <3>1, <2>1, <1>1, Zenon DEF Exec!Entries, Exec!IInv, Exec!MarkedIsRunning
  <2>3. /\ start' \in [Starters -> Exec!StartRecs] /\ start'[s].pc = "finish"
        /\ \A t \in Starters \ {s} : start'[t] = start[t]
    BY <2>1, <1>1, ExecMoves, Zenon
  <2>4. Exec!Typed' /\ ~Exec!InStream(s)'
    BY <2>1, <2>2, <2>3, <1>1, <1>5, Zenon DEF Exec!Typed, Exec!InStream, Exec!StreamEnds
  <2>5. entry' = None <=> entry = None
    BY <2>1, <2>2, <1>2, Zenon
  <2> QED
    BY <2>2, <2>3, <2>4, <2>5, <1>1, <1>2, ExecGoesOn, Zenon
<1>6. CASE Exec!StreamCut(s)
  <2>1. start' = [start EXCEPT ![s].pc = "finish"] /\ UNCHANGED <<entry, queue>>
    BY <1>6, Zenon DEF Exec!StreamCut
  <2>2. /\ start' \in [Starters -> Exec!StartRecs] /\ start'[s].pc = "finish"
        /\ \A t \in Starters \ {s} : start'[t] = start[t]
    BY <2>1, <1>1, ExecMoves, Zenon
  <2>3. Exec!Typed' /\ ~Exec!InStream(s)'
    BY <2>1, <2>2, <1>1, Zenon DEF Exec!Typed, Exec!InStream
  <2> QED
    BY <2>1, <2>2, <2>3, <1>1, <1>2, ExecGoesOn, Zenon DEF Exec!NoStaleTerminal
<1>7. CASE Exec!Finish(s)
  <2>1. /\ start' = [start EXCEPT ![s].pc = "done"] /\ UNCHANGED queue
        /\ entry' = IF entry = None THEN None
                    ELSE [entry EXCEPT !.running = FALSE, !.resize = None]
    BY <1>7, Zenon DEF Exec!Finish, Exec!Write
  <2>2. entry # None => /\ entry' \in Exec!Entries /\ entry'.resize = None
                        /\ entry'.exit = entry.exit
    BY <2>1, <1>1, Zenon DEF Exec!Entries
  <2>3. /\ start' \in [Starters -> Exec!StartRecs] /\ start'[s].pc = "done"
        /\ \A t \in Starters \ {s} : start'[t] = start[t]
    BY <2>1, <1>1, ExecMoves, Zenon
  <2>4. Exec!Typed' /\ ~Exec!InStream(s)' /\ ~Exec!Marked(s)'
    BY <2>1, <2>2, <2>3, <1>1, Zenon DEF Exec!Typed, Exec!InStream, Exec!Marked
  <2>5. entry' = None <=> entry = None
    BY <2>1, <2>2, <1>2, Zenon
  <2> QED
    BY <2>2, <2>3, <2>4, <2>5, <1>1, <1>2, ExecGoesOn, Zenon
<1> QED
  BY <1>3, <1>4, <1>5, <1>6, <1>7, Zenon DEF Exec!StartStep

LEMMA ExecResizes ==
  ASSUME Exec!Sane, Exec!IInv, NEW z \in Resizers,
         Exec!TakeQueue(z) \/ Exec!Send(z) \/ Exec!SendCancelled(z)
  PROVE  Exec!IInv' /\ Exec!ExitCodeFinal
<1>1. UNCHANGED <<phase, entry, create, start>> /\ Exec!Typed /\ resize[z] \in Exec!ResizeRecs
  BY Zenon DEF Exec!IInv, Exec!Typed, Exec!TakeQueue, Exec!Send, Exec!SendCancelled
<1>2. Exec!Typed'
  <2>1. CASE Exec!TakeQueue(z)
    <3>1. entry \in Exec!Entries
      BY <1>1, <2>1, Zenon DEF Exec!TakeQueue, Exec!Typed
    <3>2. PICK q \in Exec!ResizeRecs : /\ resize' = [resize EXCEPT ![z] = q]
                                       /\ q.pc = "send" => q.to \in Starters
      <4>1. CASE entry.running /\ entry.resize # None
        <5> DEFINE q == [pc |-> "send", to |-> entry.resize]
        <5>1. entry.resize \in Starters
          BY <3>1, <4>1, Zenon DEF Exec!Entries
        <5>2. q \in Exec!ResizeRecs /\ q.to \in Starters
          BY <5>1, Zenon DEF Exec!ResizeRecs
        <5>3. resize' = [resize EXCEPT ![z] = q]
          BY <2>1, <4>1, Zenon DEF Exec!TakeQueue
        <5> HIDE DEF q
        <5> QED
          BY <5>2, <5>3, Zenon
      <4>2. CASE ~(entry.running /\ entry.resize # None)
        <5>1. [pc |-> "conflict", to |-> None] \in Exec!ResizeRecs
          BY Zenon DEF Exec!ResizeRecs
        <5> QED
          BY <2>1, <4>2, <5>1, Zenon DEF Exec!TakeQueue
      <4> QED
        BY <4>1, <4>2, Zenon
    <3> QED
      BY <1>1, <2>1, <3>2, Zenon DEF Exec!Typed, Exec!TakeQueue
  <2>2. CASE Exec!Send(z)
    <3> DEFINE q == [resize[z] EXCEPT !.pc = "ok"]
    <3>1. q \in Exec!ResizeRecs /\ q.pc = "ok" /\ resize' = [resize EXCEPT ![z] = q]
          /\ queue' = [queue EXCEPT ![resize[z].to] = 1]
      BY <1>1, <2>2, Zenon DEF Exec!Send, Exec!ResizeRecs
    <3> HIDE DEF q
    <3> QED
      BY <1>1, <3>1, Zenon DEF Exec!Typed
  <2>3. CASE Exec!SendCancelled(z)
    <3> DEFINE q == [resize[z] EXCEPT !.pc = "cancelled"]
    <3>1. q \in Exec!ResizeRecs /\ q.pc = "cancelled" /\ resize' = [resize EXCEPT ![z] = q]
          /\ UNCHANGED queue
      BY <1>1, <2>3, Zenon DEF Exec!SendCancelled, Exec!ResizeRecs
    <3> HIDE DEF q
    <3> QED
      BY <1>1, <3>1, Zenon DEF Exec!Typed
  <2> QED
    BY <2>1, <2>2, <2>3, Zenon
<1> QED
  BY <1>1, <1>2, Zenon
  DEF Exec!IInv, Exec!InsertedOnce, Exec!MarkedIsRunning, Exec!Marked, Exec!InStream,
      Exec!NoStaleTerminal, Exec!ExitCodeFinal

LEMMA ExecStep ==
  ASSUME Exec!Sane
  PROVE  Exec!IInv /\ [Exec!Next]_(Exec!vars) => Exec!IInv' /\ Exec!ExitCodeFinal
<1> SUFFICES ASSUME Exec!IInv, [Exec!Next]_(Exec!vars) PROVE Exec!IInv' /\ Exec!ExitCodeFinal
  OBVIOUS
<1>1. CASE UNCHANGED Exec!vars
  BY <1>1, Zenon
  DEF Exec!vars, Exec!IInv, Exec!Typed, Exec!InsertedOnce, Exec!MarkedIsRunning,
      Exec!Marked, Exec!InStream, Exec!NoStaleTerminal, Exec!ExitCodeFinal
<1> QED
  BY <1>1, ExecCreates, ExecPods, ExecBegins, ExecRuns, ExecResizes, Zenon DEF Exec!Next

\* However many clients start and resize one exec, one of them runs its
\* command, and no terminal is offered that is not being read
\* (ContainerExecStart, ContainerExecResize under execMu).
THEOREM ExecRunsOnce ==
  ASSUME Exec!Sane
  PROVE  Exec!Spec => [](Exec!TypeOK /\ Exec!OneAtATime /\ Exec!NoStaleTerminal)
<1>1. Exec!IInv => Exec!TypeOK /\ Exec!OneAtATime /\ Exec!NoStaleTerminal
  <2>1. 0..1 = {0, 1}
    BY SMT
  <2> QED
    BY <2>1, Zenon
    DEF Exec!IInv, Exec!Typed, Exec!Entries, Exec!TypeOK, Exec!OneAtATime, Exec!InStream,
        Exec!MarkedIsRunning, Exec!Marked
<1> QED
  BY <1>1, ExecInit, ExecStep, PTL DEF Exec!Spec

\* The exit code ContainerExecInspect reports is final, and nobody starts an
\* exec that has one (ContainerExecStart).
THEOREM ExecCodeStays ==
  ASSUME Exec!Sane
  PROVE  Exec!Spec => [][Exec!ExitCodeFinal]_(Exec!vars)
BY ExecInit, ExecStep, PTL DEF Exec!Spec

-----------------------------------------------------------------------------
(* NodeHosts: what the container runtime reads of the registry. *)

CONSTANTS MaxRotations, MaxFaults, MaxKills, Addresses
VARIABLES bundle, address, files, temps, proc, faults, kills

Node == INSTANCE NodeHosts

\* Proceed, field by field.
LEMMA NodeProceeds ==
    ASSUME NEW p \in Node!Procs, NEW file \in {"none", "ca", "hosts"}
    PROVE  /\ Node!Proceed(p, file) \in Node!Procs
           /\ Node!Proceed(p, file).ca = p.ca /\ Node!Proceed(p, file).listening = p.listening
           /\ Node!Proceed(p, file).file = file
           /\ Node!Proceed(p, file).pc = IF file # "none" THEN "compare"
                                    ELSE IF p.listening THEN "idle" ELSE "listen"
  BY Zenon DEF Node!Proceed, Node!Procs, Node!Quiet, Node!Writing

LEMMA NodeInit == ASSUME Node!ConstantsOK PROVE Node!Init => Node!IInv
  BY SMT DEF Node!ConstantsOK, Node!Init, Node!IInv, Node!Typed, Node!Progressed,
     Node!NamedCAExists, Node!ListensAsConfigured, Node!TempsAreRemoved, Node!Stopped,
     Node!Absent, Node!Versions, Node!Procs, Node!Quiet, Node!Writing

\* A file is done with, because it was as it should be or by the rename: the
\* next one has its turn.  temps is what is left after it.
LEMMA NodeWritten ==
    ASSUME Node!ConstantsOK, Node!IInv, proc.file \in {"ca", "hosts"},
           proc' = Node!Proceed(proc, Node!NextFile(proc.file)),
           bundle' = bundle, address' = address, faults' = faults, kills' = kills,
           files' \in [ca : Node!Versions, hosts : Addresses \cup {Node!Absent}],
           proc.file = "ca" => files'.ca # Node!Absent /\ files'.hosts = files.hosts,
           proc.file = "hosts" => files'.hosts = address /\ files'.ca = files.ca,
           temps' = IF proc.pc = "rename" THEN temps - 1 ELSE temps
    PROVE  Node!IInv'
<1>1. /\ proc' \in Node!Procs /\ proc'.ca = proc.ca /\ proc'.listening = proc.listening
      /\ proc'.file = Node!NextFile(proc.file)
      /\ proc.file = "ca" => proc'.file = "hosts" /\ proc'.pc = "compare"
      /\ proc.file = "hosts" => proc'.file = "none"
           /\ proc'.pc = IF proc.listening THEN "idle" ELSE "listen"
  BY NodeProceeds, Zenon DEF Node!IInv, Node!Typed, Node!NextFile
<1>2. Node!Typed'
  BY <1>1, SMT DEF Node!IInv, Node!Typed, Node!Progressed
<1>3. Node!Progressed'
  BY <1>1, SMT DEF Node!IInv, Node!Progressed, Node!Typed, Node!Quiet, Node!Writing,
     Node!Absent, Node!Procs
<1>4. Node!NamedCAExists' /\ Node!ListensAsConfigured'
  BY <1>1, Zenon DEF Node!IInv, Node!Progressed, Node!NamedCAExists,
     Node!ListensAsConfigured, Node!Absent
<1>5. Node!TempsAreRemoved'
  BY <1>1, SMT DEF Node!IInv, Node!Typed, Node!TempsAreRemoved
<1> QED
  BY <1>2, <1>3, <1>4, <1>5, Zenon DEF Node!IInv

LEMMA NodeStep == ASSUME Node!ConstantsOK
  PROVE Node!IInv /\ [Node!Next]_(Node!vars) => Node!IInv'
<1> SUFFICES ASSUME Node!IInv, [Node!Next]_(Node!vars) PROVE Node!IInv'
  BY Zenon
<1> USE DEF Node!ConstantsOK, Node!IInv, Node!Absent
<1>1. CASE Node!ReadBundle
  <2> DEFINE p == [proc EXCEPT !.ca = bundle]
  <2>1. p \in Node!Procs /\ p.ca = bundle /\ p.listening = proc.listening
    BY Zenon DEF Node!Typed, Node!Procs
  <2>2. proc' = Node!Proceed(p, "ca")
    BY <1>1, Zenon DEF Node!ReadBundle, Node!NextFile
  <2>3. proc' \in Node!Procs /\ proc'.pc = "compare" /\ proc'.file = "ca"
          /\ proc'.ca = bundle /\ proc'.listening = proc.listening
    BY <2>1, <2>2, NodeProceeds, Zenon
  <2>4. Node!Typed'
    BY <1>1, <2>3, Zenon DEF Node!ReadBundle, Node!Typed, Node!Versions
  <2>5. Node!Progressed'
    BY <1>1, <2>3, SMT DEF Node!ReadBundle, Node!Progressed, Node!Typed, Node!Quiet,
       Node!Writing
  <2> QED
    BY <1>1, <2>3, <2>4, <2>5, Zenon DEF Node!ReadBundle, Node!NamedCAExists,
       Node!ListensAsConfigured, Node!TempsAreRemoved
<1>2. CASE Node!Compare
  <2>1. CASE files[proc.file] # Node!Data
    <3>1. proc' \in Node!Procs /\ proc'.pc = "create" /\ proc'.file = proc.file
          /\ proc'.ca = proc.ca /\ proc'.listening = proc.listening
      BY <1>2, <2>1, Zenon DEF Node!Compare, Node!Typed, Node!Procs, Node!Quiet, Node!Writing
    <3>2. Node!Typed'
      BY <1>2, <3>1, Zenon DEF Node!Compare, Node!Typed
    <3>3. Node!Progressed'
      BY <1>2, <3>1, SMT DEF Node!Compare, Node!Progressed, Node!Quiet, Node!Writing
    <3> QED
      BY <1>2, <3>1, <3>2, <3>3, Zenon DEF Node!Compare, Node!NamedCAExists,
         Node!ListensAsConfigured, Node!TempsAreRemoved
  <2>2. CASE files[proc.file] = Node!Data
    <3>1. proc.file \in {"ca", "hosts"}
      BY <1>2, Zenon DEF Node!Compare, Node!Typed, Node!Progressed, Node!Procs, Node!Quiet
    <3>2. files' = files /\ address' = address
      BY <1>2, Zenon DEF Node!Compare
    <3>3. proc.file = "ca" => files.ca # 0
      BY <1>2, <2>2, Zenon DEF Node!Compare, Node!Data, Node!Progressed, Node!Writing
    <3>4. proc.file = "hosts" => files.hosts = address
      BY <2>2, Zenon DEF Node!Data
    <3>5. proc' = Node!Proceed(proc, Node!NextFile(proc.file)) /\ temps' = temps
            /\ faults' = faults /\ kills' = kills /\ bundle' = bundle
      BY <1>2, <2>2, Zenon DEF Node!Compare
    <3>6. proc.pc # "rename"
      BY <1>2, Zenon DEF Node!Compare
    <3> QED
      BY <3>1, <3>2, <3>3, <3>4, <3>5, <3>6, NodeWritten, Zenon DEF Node!Typed
  <2> QED
    BY <2>1, <2>2, Zenon
<1>3. CASE Node!Create
  <2>1. proc' \in Node!Procs /\ proc'.pc = "rename" /\ proc'.file = proc.file
        /\ proc'.ca = proc.ca /\ proc'.listening = proc.listening
    BY <1>3, Zenon DEF Node!Create, Node!Typed, Node!Procs, Node!Quiet, Node!Writing
  <2>2. Node!Typed'
    BY <1>3, <2>1, SMT DEF Node!Create, Node!Typed
  <2>3. Node!Progressed'
    BY <1>3, <2>1, SMT DEF Node!Create, Node!Progressed, Node!Typed, Node!Quiet, Node!Writing
  <2>4. Node!TempsAreRemoved'
    BY <1>3, <2>1, SMT DEF Node!Create, Node!TempsAreRemoved, Node!Typed
  <2> QED
    BY <1>3, <2>1, <2>2, <2>3, <2>4, Zenon DEF Node!Create, Node!NamedCAExists,
       Node!ListensAsConfigured
<1>4. CASE Node!Rename
  <2>1. proc.file \in {"ca", "hosts"} /\ proc.ca # 0 /\ proc.ca \in Node!Versions
          /\ address \in Addresses
    BY <1>4, Zenon DEF Node!Rename, Node!Typed, Node!Progressed, Node!Procs, Node!Quiet,
       Node!Writing
  <2>2. files' \in [ca : Node!Versions, hosts : Addresses \cup {Node!Absent}]
    BY <1>4, <2>1, Zenon DEF Node!Rename, Node!Data, Node!Typed
  <2>3. proc.file = "ca" => files'.ca # Node!Absent /\ files'.hosts = files.hosts
    BY <1>4, <2>1, Zenon DEF Node!Rename, Node!Data, Node!Typed
  <2>4. proc.file = "hosts" => files'.hosts = address /\ files'.ca = files.ca
    BY <1>4, Zenon DEF Node!Rename, Node!Data, Node!Typed
  <2>5. proc' = Node!Proceed(proc, Node!NextFile(proc.file))
          /\ temps' = IF proc.pc = "rename" THEN temps - 1 ELSE temps
    BY <1>4, Zenon DEF Node!Rename
  <2> QED
    BY <1>4, <2>1, <2>2, <2>3, <2>4, <2>5, NodeWritten, Zenon DEF Node!Rename
<1>5. CASE Node!Fails
  <2>1. /\ proc' \in Node!Procs /\ proc'.file = "none"
        /\ proc'.pc = IF proc.listening THEN "idle" ELSE "stopped"
        /\ proc'.listening = proc.listening
    <3>1. CASE proc.listening
      BY <1>5, <3>1, Zenon DEF Node!Fails, Node!AfterFailure, Node!Typed, Node!Procs,
         Node!Quiet, Node!Writing
    <3>2. CASE ~proc.listening
      <4>1. proc.listening = FALSE
        BY <3>2, Zenon DEF Node!Typed, Node!Procs
      <4>2. proc' = Node!Stopped
        BY <1>5, <3>2, Zenon DEF Node!Fails, Node!AfterFailure
      <4>3. Node!Stopped \in Node!Procs /\ Node!Stopped.file = "none"
              /\ Node!Stopped.pc = "stopped" /\ Node!Stopped.listening = FALSE
        BY SMT DEF Node!Stopped, Node!Procs, Node!Quiet, Node!Writing, Node!Versions
      <4> QED
        BY <3>2, <4>1, <4>2, <4>3, Zenon
    <3> QED
      BY <3>1, <3>2, Zenon
  <2>2. temps' \in Nat /\ faults' \in 0..MaxFaults
    BY <1>5, SMT DEF Node!Fails, Node!RemoveFails, Node!Typed, Node!Progressed
  <2>3. Node!TempsAreRemoved'
    <3>1. CASE proc.pc = "rename"
      BY <1>5, <2>1, <3>1, SMT DEF Node!Fails, Node!RemoveFails, Node!TempsAreRemoved,
         Node!Typed
    <3>2. CASE proc.pc # "rename"
      BY <1>5, <2>1, <3>2, SMT DEF Node!Fails, Node!TempsAreRemoved, Node!Typed
    <3> QED
      BY <3>1, <3>2, Zenon
  <2>4. Node!Typed' /\ Node!Progressed'
    BY <1>5, <2>1, <2>2, Zenon DEF Node!Fails, Node!Typed, Node!Progressed, Node!Quiet,
       Node!Writing
  <2> QED
    BY <1>5, <2>1, <2>3, <2>4, Zenon DEF Node!Fails, Node!NamedCAExists,
       Node!ListensAsConfigured
<1>6. CASE Node!Start
  <2>1. proc' \in Node!Procs /\ proc'.pc = "read" /\ proc'.file = proc.file
        /\ proc'.ca = proc.ca /\ proc'.listening = proc.listening
    BY <1>6, Zenon DEF Node!Start, Node!Typed, Node!Procs, Node!Quiet, Node!Writing
  <2> QED
    BY <1>6, <2>1, Zenon DEF Node!Start, Node!Typed, Node!Progressed, Node!NamedCAExists,
       Node!ListensAsConfigured, Node!TempsAreRemoved, Node!Quiet, Node!Writing
<1>7. CASE Node!Listen
  <2>1. proc' \in Node!Procs /\ proc'.pc = "idle" /\ proc'.file = proc.file
        /\ proc'.ca = proc.ca /\ proc'.listening = TRUE
    BY <1>7, Zenon DEF Node!Listen, Node!Typed, Node!Procs, Node!Quiet, Node!Writing
  <2> QED
    BY <1>7, <2>1, Zenon DEF Node!Listen, Node!Typed, Node!Progressed, Node!NamedCAExists,
       Node!ListensAsConfigured, Node!TempsAreRemoved, Node!Quiet, Node!Writing
<1>8. CASE Node!Tick
  <2>1. proc' \in Node!Procs /\ proc'.pc = "read" /\ proc'.file = proc.file
        /\ proc'.ca = proc.ca /\ proc'.listening = proc.listening
    BY <1>8, Zenon DEF Node!Tick, Node!Typed, Node!Procs, Node!Quiet, Node!Writing
  <2> QED
    BY <1>8, <2>1, Zenon DEF Node!Tick, Node!Typed, Node!Progressed, Node!NamedCAExists,
       Node!ListensAsConfigured, Node!TempsAreRemoved, Node!Quiet, Node!Writing
<1>9. CASE Node!Rotate
  <2>1. Node!Typed'
    BY <1>9, SMT DEF Node!Rotate, Node!Typed, Node!Versions
  <2> QED
    BY <1>9, <2>1, Zenon DEF Node!Rotate, Node!Progressed, Node!NamedCAExists,
       Node!ListensAsConfigured, Node!TempsAreRemoved
<1>10. CASE Node!Kill
  <2>1. /\ proc' \in Node!Procs /\ proc'.file = "none" /\ proc'.pc = "stopped"
        /\ proc'.listening = FALSE
    BY <1>10, SMT DEF Node!Kill, Node!Stopped, Node!Procs, Node!Quiet, Node!Writing,
       Node!Versions
  <2>2. Node!Typed' /\ Node!Progressed'
    BY <1>10, <2>1, SMT DEF Node!Kill, Node!Typed, Node!Progressed, Node!Quiet, Node!Writing
  <2>3. Node!TempsAreRemoved'
    BY <1>10, <2>1, SMT DEF Node!Kill, Node!TempsAreRemoved, Node!Typed
  <2> QED
    BY <1>10, <2>1, <2>2, <2>3, Zenon DEF Node!Kill, Node!NamedCAExists,
       Node!ListensAsConfigured
<1>11. CASE UNCHANGED Node!vars
  BY <1>11, Zenon DEF Node!vars, Node!Typed, Node!Progressed, Node!NamedCAExists,
     Node!ListensAsConfigured, Node!TempsAreRemoved
<1> QED
  BY <1>1, <1>2, <1>3, <1>4, <1>5, <1>6, <1>7, <1>8, <1>9, <1>10, <1>11, Zenon DEF Node!Next,
     Node!Process
\* Whatever fails and whenever the process is killed, and with any number of
\* rotations: the runtime reads whole files, hosts.toml only beside the CA it
\* names, the node listens only where the runtime is sent, and what is left
\* of temporary files is accounted for by kills and pairs of failures.
THEOREM ConfigurationIsSafe ==
    ASSUME Node!ConstantsOK
    PROVE  Node!Spec => [](Node!TypeOK /\ Node!WholeFiles /\ Node!NamedCAExists
             /\ Node!ListensAsConfigured /\ Node!TempsAreRemoved)
<1>1. Node!IInv => Node!TypeOK /\ Node!WholeFiles
  BY SMT DEF Node!ConstantsOK, Node!IInv, Node!Typed, Node!Progressed, Node!TypeOK,
     Node!WholeFiles, Node!TempsAreRemoved, Node!Procs, Node!Quiet, Node!Writing,
     Node!Versions, Node!Absent
<1> QED
  BY <1>1, NodeInit, NodeStep, PTL DEF Node!Spec, Node!IInv

-----------------------------------------------------------------------------
(* RegistryProcess: the stores stay open while somebody uses them. *)

CONSTANT Requests
VARIABLES serving, ctx, open, collector, cancelled, listening, results, expired, aborted,
          failed, request

Registry == INSTANCE RegistryProcess WITH pc <- serving

LEMMA RegistryInit == Registry!Init => Registry!IInv
  BY Zenon DEF Registry!Init, Registry!IInv, Registry!TypeOK, Registry!OpenAt,
     Registry!CollectorAt, Registry!ServersAt, Registry!RequestsAt, Registry!ReasonAt,
     Registry!Begins, Registry!Running, Registry!Stopping, Registry!Stores,
     Registry!Servers, Registry!Busy

\* The process's own steps.
LEMMA RegistryServes == Registry!IInv /\ Registry!Process => Registry!IInv'
<1> SUFFICES ASSUME Registry!IInv, Registry!Process PROVE Registry!IInv'
  BY Zenon
<1> USE DEF Registry!IInv, Registry!Begins, Registry!Running, Registry!Stopping,
            Registry!Stores, Registry!Servers, Registry!Serving, Registry!Collecting
<1>1. CASE Registry!OpenContent
  <2>1. Registry!Busy' = Registry!Busy
    BY <1>1, Zenon DEF Registry!OpenContent, Registry!Busy
  <2> QED
    BY <1>1, <2>1, Zenon DEF Registry!OpenContent, Registry!TypeOK, Registry!OpenAt,
       Registry!CollectorAt, Registry!ServersAt, Registry!RequestsAt, Registry!ReasonAt
<1>2. CASE Registry!OpenMetadata
  <2>1. Registry!Busy' = Registry!Busy
    BY <1>2, Zenon DEF Registry!OpenMetadata, Registry!Busy
  <2> QED
    BY <1>2, <2>1, Zenon DEF Registry!OpenMetadata, Registry!Discard, Registry!TypeOK,
       Registry!OpenAt, Registry!CollectorAt, Registry!ServersAt, Registry!RequestsAt,
       Registry!ReasonAt
<1>3. CASE Registry!StartCollector
  <2>1. Registry!Busy' = Registry!Busy
    BY <1>3, Zenon DEF Registry!StartCollector, Registry!Busy
  <2> QED
    BY <1>3, <2>1, Zenon DEF Registry!StartCollector, Registry!TypeOK, Registry!OpenAt,
       Registry!CollectorAt, Registry!ServersAt, Registry!RequestsAt, Registry!ReasonAt
<1>4. CASE Registry!Prepare
  <2>1. Registry!Busy' = Registry!Busy
    BY <1>4, Zenon DEF Registry!Prepare, Registry!Busy
  <2>2. Registry!TypeOK' /\ Registry!OpenAt' /\ Registry!CollectorAt'
    BY <1>4, Zenon DEF Registry!Prepare, Registry!TypeOK, Registry!OpenAt,
       Registry!CollectorAt
  <2>3. Registry!ServersAt'
    BY <1>4, Zenon DEF Registry!Prepare, Registry!ServersAt
  <2>4. Registry!RequestsAt' /\ Registry!ReasonAt'
    BY <1>4, <2>1, Zenon DEF Registry!Prepare, Registry!RequestsAt, Registry!ReasonAt
  <2> QED
    BY <2>2, <2>3, <2>4, Zenon
<1>5. CASE Registry!Select
  <2>1. Registry!Busy' = Registry!Busy
    BY <1>5, Zenon DEF Registry!Select, Registry!Busy
  <2>2. Registry!TypeOK' /\ Registry!OpenAt' /\ Registry!CollectorAt'
    BY <1>5, Zenon DEF Registry!Select, Registry!Reported, Registry!TypeOK,
       Registry!OpenAt, Registry!CollectorAt
  <2>3. Registry!ServersAt'
    BY <1>5, Zenon DEF Registry!Select, Registry!Reported, Registry!ServersAt
  <2>4. Registry!RequestsAt' /\ Registry!ReasonAt'
    BY <1>5, <2>1, Zenon DEF Registry!Select, Registry!Reported, Registry!TypeOK,
       Registry!RequestsAt, Registry!ReasonAt
  <2> QED
    BY <2>2, <2>3, <2>4, Zenon
<1>6. CASE Registry!Drain
  <2>1. Registry!Busy' = Registry!Busy
    BY <1>6, Zenon DEF Registry!Drain, Registry!Busy
  <2> QED
    BY <1>6, <2>1, Zenon DEF Registry!Drain, Registry!Idle, Registry!TypeOK,
       Registry!OpenAt, Registry!CollectorAt, Registry!ServersAt, Registry!RequestsAt,
       Registry!ReasonAt
<1>7. CASE Registry!Close
  <2>1. Registry!Busy' = Registry!Busy
    BY <1>7, Zenon DEF Registry!Close, Registry!Busy
  <2> QED
    BY <1>7, <2>1, Zenon DEF Registry!Close, Registry!TypeOK, Registry!OpenAt,
       Registry!CollectorAt, Registry!ServersAt, Registry!RequestsAt, Registry!ReasonAt
<1>8. CASE Registry!StopCollector
  <2>1. Registry!Busy' = Registry!Busy
    BY <1>8, Zenon DEF Registry!StopCollector, Registry!Busy
  <2> QED
    BY <1>8, <2>1, Zenon DEF Registry!StopCollector, Registry!TypeOK, Registry!OpenAt,
       Registry!CollectorAt, Registry!ServersAt, Registry!RequestsAt, Registry!ReasonAt
<1>9. CASE Registry!AwaitCollector
  <2>1. Registry!Busy' = Registry!Busy
    BY <1>9, Zenon DEF Registry!AwaitCollector, Registry!Busy
  <2> QED
    BY <1>9, <2>1, Zenon DEF Registry!AwaitCollector, Registry!CollectorDone,
       Registry!TypeOK, Registry!OpenAt, Registry!CollectorAt, Registry!ServersAt,
       Registry!RequestsAt, Registry!ReasonAt
<1>10. CASE Registry!CloseBackend
  <2>1. Registry!Busy' = Registry!Busy
    BY <1>10, Zenon DEF Registry!CloseBackend, Registry!Busy
  <2> QED
    BY <1>10, <2>1, Zenon DEF Registry!CloseBackend, Registry!TypeOK, Registry!OpenAt,
       Registry!CollectorAt, Registry!ServersAt, Registry!RequestsAt, Registry!ReasonAt
<1>11. ASSUME NEW s \in Registry!Servers, Registry!Listen(s) PROVE Registry!IInv'
  <2>1. Registry!Busy' = Registry!Busy
    BY <1>11, Zenon DEF Registry!Listen, Registry!Busy
  <2>2. CASE s = "registry"
    BY <1>11, <2>1, <2>2, ZenonT(30) DEF Registry!Listen, Registry!TypeOK, Registry!OpenAt,
       Registry!CollectorAt, Registry!ServersAt, Registry!RequestsAt, Registry!ReasonAt
  <2>3. CASE s = "health"
    <3>1. Registry!TypeOK'
      BY <1>11, <2>3, Zenon DEF Registry!Listen, Registry!TypeOK, Registry!ServersAt
    <3>2. Registry!OpenAt' /\ Registry!CollectorAt' /\ Registry!ServersAt'
            /\ Registry!ReasonAt'
      BY <1>11, <2>3, Zenon DEF Registry!Listen, Registry!TypeOK, Registry!OpenAt,
         Registry!CollectorAt, Registry!ServersAt, Registry!ReasonAt
    <3>3. Registry!RequestsAt'
      BY <1>11, <2>1, <2>3, Zenon DEF Registry!Listen, Registry!RequestsAt
    <3> QED
      BY <3>1, <3>2, <3>3, Zenon
  <2> QED
    BY <2>2, <2>3, Zenon
<1>12. ASSUME NEW s \in Registry!Servers, Registry!StopListening(s) PROVE Registry!IInv'
  <2>1. Registry!Busy' = Registry!Busy
    BY <1>12, Zenon DEF Registry!StopListening, Registry!Busy
  <2> QED
    BY <1>12, <2>1, ZenonT(30) DEF Registry!StopListening, Registry!TypeOK, Registry!OpenAt,
       Registry!CollectorAt, Registry!ServersAt, Registry!RequestsAt, Registry!ReasonAt
<1> QED
  BY <1>1, <1>2, <1>3, <1>4, <1>5, <1>6, <1>7, <1>8, <1>9, <1>10, <1>11, <1>12, Zenon DEF
     Registry!Process

LEMMA RegistryStep == Registry!IInv /\ [Registry!Next]_(Registry!vars) => Registry!IInv'
<1> SUFFICES ASSUME Registry!IInv, [Registry!Next]_(Registry!vars) PROVE Registry!IInv'
  BY Zenon
<1> USE DEF Registry!IInv, Registry!Begins, Registry!Running, Registry!Stopping,
            Registry!Stores, Registry!Servers, Registry!Serving, Registry!Collecting
<1>1. CASE Registry!Process
  BY <1>1, RegistryServes, Zenon
<1>2. CASE Registry!Expire
  <2>1. Registry!TypeOK'
    BY <1>2, Zenon DEF Registry!Expire, Registry!TypeOK
  <2>2. Registry!OpenAt' /\ Registry!CollectorAt' /\ Registry!ServersAt' /\ Registry!ReasonAt'
    BY <1>2, Zenon DEF Registry!Expire, Registry!OpenAt, Registry!CollectorAt,
       Registry!ServersAt, Registry!ReasonAt, Registry!TypeOK
  <2>3. Registry!RequestsAt'
    <3>1. Registry!Busy' = Registry!Busy
      BY <1>2, Zenon DEF Registry!Expire, Registry!Busy
    <3> QED
      BY <1>2, <3>1, Zenon DEF Registry!Expire, Registry!RequestsAt
  <2> QED
    BY <2>1, <2>2, <2>3, Zenon
<1>3. CASE Registry!PassEnds
  <2>1. Registry!TypeOK'
    BY <1>3, Zenon DEF Registry!PassEnds, Registry!TypeOK
  <2>2. Registry!OpenAt' /\ Registry!CollectorAt' /\ Registry!ServersAt' /\ Registry!ReasonAt'
    BY <1>3, Zenon DEF Registry!PassEnds, Registry!OpenAt, Registry!CollectorAt,
       Registry!ServersAt, Registry!ReasonAt, Registry!TypeOK
  <2>3. Registry!RequestsAt'
    <3>1. Registry!Busy' = Registry!Busy
      BY <1>3, Zenon DEF Registry!PassEnds, Registry!Busy
    <3> QED
      BY <1>3, <3>1, Zenon DEF Registry!PassEnds, Registry!RequestsAt
  <2> QED
    BY <2>1, <2>2, <2>3, Zenon
<1>4. CASE Registry!Tick
  <2>1. Registry!TypeOK'
    BY <1>4, Zenon DEF Registry!Tick, Registry!TypeOK
  <2>2. Registry!OpenAt' /\ Registry!CollectorAt' /\ Registry!ServersAt' /\ Registry!ReasonAt'
    BY <1>4, Zenon DEF Registry!Tick, Registry!OpenAt, Registry!CollectorAt,
       Registry!ServersAt, Registry!ReasonAt, Registry!TypeOK
  <2>3. Registry!RequestsAt'
    <3>1. Registry!Busy' = Registry!Busy
      BY <1>4, Zenon DEF Registry!Tick, Registry!Busy
    <3> QED
      BY <1>4, <3>1, Zenon DEF Registry!Tick, Registry!RequestsAt
  <2> QED
    BY <2>1, <2>2, <2>3, Zenon
<1>5. CASE Registry!CollectorEnds
  <2>1. Registry!TypeOK'
    BY <1>5, Zenon DEF Registry!CollectorEnds, Registry!TypeOK
  <2>2. Registry!OpenAt' /\ Registry!CollectorAt' /\ Registry!ServersAt' /\ Registry!ReasonAt'
    BY <1>5, Zenon DEF Registry!CollectorEnds, Registry!OpenAt, Registry!CollectorAt,
       Registry!ServersAt, Registry!ReasonAt, Registry!TypeOK
  <2>3. Registry!RequestsAt'
    <3>1. Registry!Busy' = Registry!Busy
      BY <1>5, Zenon DEF Registry!CollectorEnds, Registry!Busy
    <3> QED
      BY <1>5, <3>1, Zenon DEF Registry!CollectorEnds, Registry!RequestsAt
  <2> QED
    BY <2>1, <2>2, <2>3, Zenon
<1>6. CASE Registry!Terminate
  <2>1. Registry!TypeOK'
    BY <1>6, Zenon DEF Registry!Terminate, Registry!TypeOK
  <2>2. Registry!OpenAt' /\ Registry!CollectorAt' /\ Registry!ServersAt' /\ Registry!ReasonAt'
    BY <1>6, Zenon DEF Registry!Terminate, Registry!OpenAt, Registry!CollectorAt,
       Registry!ServersAt, Registry!ReasonAt, Registry!TypeOK
  <2>3. Registry!RequestsAt'
    <3>1. Registry!Busy' = Registry!Busy
      BY <1>6, Zenon DEF Registry!Terminate, Registry!Busy
    <3> QED
      BY <1>6, <3>1, Zenon DEF Registry!Terminate, Registry!RequestsAt
  <2> QED
    BY <2>1, <2>2, <2>3, Zenon
<1>7. ASSUME NEW s \in Registry!Servers, Registry!ServeFails(s) PROVE Registry!IInv'
  <2>1. Registry!TypeOK'
    BY <1>7, Zenon DEF Registry!ServeFails, Registry!Stopped, Registry!TypeOK
  <2>2. Registry!OpenAt' /\ Registry!CollectorAt' /\ Registry!ServersAt' /\ Registry!ReasonAt'
    BY <1>7, Zenon DEF Registry!ServeFails, Registry!Stopped, Registry!OpenAt,
       Registry!CollectorAt, Registry!ServersAt, Registry!ReasonAt, Registry!TypeOK
  <2>3. Registry!RequestsAt'
    <3>1. Registry!Busy' = Registry!Busy
      BY <1>7, Zenon DEF Registry!ServeFails, Registry!Stopped, Registry!Busy
    <3> QED
      BY <1>7, <3>1, Zenon DEF Registry!ServeFails, Registry!Stopped, Registry!RequestsAt
  <2> QED
    BY <2>1, <2>2, <2>3, Zenon
<1>8. ASSUME NEW r \in Requests, Registry!RequestStarts(r) PROVE Registry!IInv'
  <2>1. Registry!TypeOK'
    BY <1>8, Zenon DEF Registry!RequestStarts, Registry!TypeOK
  <2>2. Registry!OpenAt' /\ Registry!CollectorAt' /\ Registry!ServersAt' /\ Registry!ReasonAt'
    BY <1>8, ZenonT(30) DEF Registry!RequestStarts, Registry!OpenAt, Registry!CollectorAt,
       Registry!ServersAt, Registry!ReasonAt, Registry!TypeOK
  <2>3. Registry!RequestsAt'
    BY <1>8, Zenon DEF Registry!RequestStarts, Registry!RequestsAt, Registry!ServersAt,
       Registry!TypeOK, Registry!Busy
  <2> QED
    BY <2>1, <2>2, <2>3, Zenon
<1>9. ASSUME NEW r \in Requests, Registry!RequestEnds(r) PROVE Registry!IInv'
  <2>1. Registry!TypeOK'
    BY <1>9, Zenon DEF Registry!RequestEnds, Registry!TypeOK
  <2>2. Registry!OpenAt' /\ Registry!CollectorAt' /\ Registry!ServersAt' /\ Registry!ReasonAt'
    BY <1>9, ZenonT(30) DEF Registry!RequestEnds, Registry!OpenAt, Registry!CollectorAt,
       Registry!ServersAt, Registry!ReasonAt, Registry!TypeOK
  <2>3. Registry!RequestsAt'
    BY <1>9, Zenon DEF Registry!RequestEnds, Registry!RequestsAt, Registry!ServersAt,
       Registry!TypeOK, Registry!Busy
  <2> QED
    BY <2>1, <2>2, <2>3, Zenon
<1>10. CASE UNCHANGED Registry!vars
  <2>1. Registry!TypeOK'
    BY <1>10, Zenon DEF Registry!vars, Registry!TypeOK
  <2>2. Registry!OpenAt' /\ Registry!CollectorAt' /\ Registry!ServersAt' /\ Registry!ReasonAt'
    BY <1>10, ZenonT(30) DEF Registry!vars, Registry!OpenAt, Registry!CollectorAt,
       Registry!ServersAt, Registry!ReasonAt, Registry!TypeOK
  <2>3. Registry!RequestsAt'
    <3>1. Registry!Busy' = Registry!Busy
      BY <1>10, Zenon DEF Registry!vars, Registry!Busy
    <3> QED
      BY <1>10, <3>1, Zenon DEF Registry!vars, Registry!RequestsAt
  <2> QED
    BY <2>1, <2>2, <2>3, Zenon
<1> QED
  BY <1>1, <1>2, <1>3, <1>4, <1>5, <1>6, <1>7, <1>8, <1>9, <1>10, Zenon DEF Registry!Next

\* Stores outlive their users and nothing outlives serve: whatever fails, is
\* told to stop or does not end, a pass of the collector and a request in time
\* have both stores, and the process ends with everything closed and a reason.
THEOREM StoresOutliveUsers ==
    Registry!Spec => [](Registry!CollectorHasStores /\ Registry!RequestHasStores
      /\ Registry!EndsClean /\ Registry!EndsForAReason)
<1>1. Registry!IInv => Registry!CollectorHasStores /\ Registry!RequestHasStores
        /\ Registry!EndsClean /\ Registry!EndsForAReason
  BY Zenon DEF Registry!IInv, Registry!TypeOK, Registry!OpenAt, Registry!CollectorAt,
     Registry!ServersAt, Registry!RequestsAt, Registry!ReasonAt, Registry!Begins,
     Registry!Running, Registry!Stopping, Registry!CollectorHasStores,
     Registry!RequestHasStores, Registry!EndsClean, Registry!EndsForAReason
<1> QED
  BY <1>1, RegistryInit, RegistryStep, PTL DEF Registry!Spec
=============================================================================
