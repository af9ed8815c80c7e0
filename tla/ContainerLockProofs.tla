------------------------ MODULE ContainerLockProofs ------------------------
(***************************************************************************)
(* Proofs about ContainerLock, for any finite set of requests and any sets *)
(* of workloads and references.                                            *)
(***************************************************************************)
EXTENDS ContainerLock, FiniteSetTheorems, TLAPS

\* The induction hypothesis: types and the lock table invariant together,
\* because users stays in Nat only if it counts the registered requests.
IInv == TypeOK /\ LockInv

\* The users of a workload form a finite set: they are API calls in flight.
LEMMA UsersFinite ==
    ASSUME NEW w
    PROVE  IsFiniteSet(UsersOf(w)) /\ Cardinality(UsersOf(w)) \in Nat
  <1>1. UsersOf(w) \in SUBSET Requests
    BY Zenon DEF UsersOf
  <1>2. IsFiniteSet(UsersOf(w))
    BY <1>1, FS_Subset, LockAssumption, Zenon
  <1> QED
    BY <1>2, FS_CardinalityType, Zenon

\* Before any call the lock table is empty and nobody uses it.
LEMMA InitIInv == Init => IInv
  <1> SUFFICES ASSUME Init PROVE IInv
    BY Zenon
  <1> USE LockAssumption
  <1>1. TypeOK
    BY Zenon DEF Init, TypeOK
  <1>2. \A r \in Requests : ~Registered(r) /\ ~HasToken(r)
    BY Zenon DEF Init, Registered, HasToken
  <1>3. \A w \in Workloads : UsersOf(w) = {}
    BY <1>2, Zenon DEF UsersOf
  <1>4. LocksExact
    BY <1>3, Zenon DEF Init, LocksExact
  <1>5. KeysFound /\ ObjectsShared /\ TokenHeld /\ TokenExclusive
    BY <1>2, Zenon DEF Init, KeysFound, ObjectsShared, TokenHeld, TokenExclusive
  <1>6. ObjectsDistinct /\ ObjectsFresh /\ TokenOwned
    BY Zenon DEF Init, ObjectsDistinct, ObjectsFresh, TokenOwned
  <1>7. LockInv
    BY <1>4, <1>5, <1>6, Zenon DEF LockInv
  <1> QED
    BY <1>1, <1>7, Zenon DEF IInv

\* A step that leaves the lock table, the pointers and the set of registered
\* requests alone, and that neither takes nor gives back a token, preserves
\* the invariant: it covers the steps of the cluster and the request steps
\* that only branch.
LEMMA QuietStep ==
    ASSUME IInv, TypeOK',
           UNCHANGED <<tableVars, lock>>,
           \A r \in Requests : Registered(r)' <=> Registered(r),
           \A r \in Requests : Registered(r) \/ pc'[r] = "found" =>
                                  key'[r] \in Workloads,
           \A r \in Requests : Registered(r) => key'[r] = key[r],
           \A r \in Requests : HasToken(r)' <=> HasToken(r),
           \A r \in Requests : pc'[r] \in {"idle", "found"} =>
                                  pc[r] \in {"idle", "found"}
    PROVE  IInv'
  <1> USE DEF IInv, LockInv, tableVars
  <1>1. \A w \in Workloads : UsersOf(w)' = UsersOf(w)
    BY Zenon DEF UsersOf
  <1>2. LocksExact'
    BY <1>1, Zenon DEF LocksExact
  <1>3. KeysFound' /\ ObjectsShared'
    BY Zenon DEF KeysFound, ObjectsShared
  <1>4. ObjectsDistinct' /\ ObjectsFresh'
    BY Zenon DEF ObjectsDistinct, ObjectsFresh
  <1>5. \A r \in Requests : HasToken(r) => Registered(r)
    BY Zenon DEF HasToken, Registered
  <1>6. TokenHeld' /\ TokenExclusive'
    BY <1>5, Zenon DEF TokenHeld, TokenExclusive
  <1>7. TokenOwned'
    <2> SUFFICES ASSUME NEW w \in Workloads,
                        containerLocks[w] # NoLock, token[containerLocks[w]]
                 PROVE  \E r \in UsersOf(w)' : HasToken(r)'
      BY Zenon DEF TokenOwned
    <2>1. PICK r \in UsersOf(w) : HasToken(r)
      BY Zenon DEF TokenOwned
    <2>2. r \in UsersOf(w)' /\ HasToken(r)'
      BY <1>1, <2>1, Zenon DEF UsersOf
    <2> QED
      BY <2>2, Zenon
  <1> QED
    BY <1>2, <1>3, <1>4, <1>6, <1>7, Zenon

\* The cluster's own steps do not touch the lock table.
LEMMA ClusterKeepsIInv ==
    ASSUME IInv, ClusterStep
    PROVE  IInv'
  <1>1. UNCHANGED <<tableVars, pc, ref, key, lock>>
    BY Zenon DEF ClusterStep, WorkloadAppears, WorkloadDisappears, ReferencesMove
  <1>2. Live' \subseteq Workloads
    BY Zenon DEF Live
  <1>3. TypeOK'
    BY <1>1, <1>2, Zenon DEF ClusterStep, WorkloadAppears, WorkloadDisappears,
       ReferencesMove, Rebind, IInv, TypeOK, tableVars
  <1> QED
    BY <1>1, <1>3, QuietStep, Zenon DEF Registered, HasToken, IInv, LockInv, KeysFound

\* Steps of a call that only branch: the lookups, giving up, and the start
\* and the end of the operation.
LEMMA BranchKeepsIInv ==
    ASSUME IInv, NEW r \in Requests,
           \/ Find(r) \/ FindFails(r) \/ Cancel(r)
           \/ Recheck(r) \/ RecheckFails(r) \/ Finish(r)
    PROVE  IInv'
  <1> USE DEF IInv, Step, clusterVars
  <1>1. CASE Find(r)
    <2>1. TypeOK' /\ key'[r] \in Workloads
      BY <1>1, Zenon DEF Find, TypeOK, tableVars
    <2>2. /\ pc[r] = "idle" /\ UNCHANGED <<tableVars, lock>> /\ pc'[r] = "found"
          /\ \A s \in Requests \ {r} : pc'[s] = pc[s] /\ key'[s] = key[s]
      BY <1>1, Zenon DEF Find, TypeOK
    <2>3. ~Registered(r) /\ ~Registered(r)' /\ ~HasToken(r) /\ ~HasToken(r)'
      BY <2>2, Zenon DEF Registered, HasToken
    <2>4. \A s \in Requests \ {r} : /\ Registered(s)' <=> Registered(s)
                                    /\ HasToken(s)' <=> HasToken(s)
      BY <2>2, Zenon DEF Registered, HasToken
    <2>5. \A s \in Requests : Registered(s) \/ pc'[s] = "found" => key'[s] \in Workloads
      BY <2>1, <2>2, <2>3, Zenon DEF LockInv, KeysFound
    <2>6. \A s \in Requests : /\ Registered(s) => key'[s] = key[s]
                              /\ pc'[s] \in {"idle", "found"} => pc[s] \in {"idle", "found"}
      BY <2>2, <2>3, Zenon
    <2> QED
      BY <2>1, <2>2, <2>3, <2>4, <2>5, <2>6, QuietStep, Zenon
  <1>2. CASE \/ FindFails(r) \/ Cancel(r) \/ Recheck(r)
             \/ RecheckFails(r) \/ Finish(r)
    <2>1. TypeOK'
      BY <1>2, Zenon DEF FindFails, Cancel, Recheck, RecheckFails, Finish, TypeOK,
         tableVars
    <2> QED
      BY <1>2, <2>1, QuietStep
        , SMT DEF FindFails, Cancel, Recheck, RecheckFails, Finish, TypeOK,
         Registered, HasToken, LockInv, KeysFound
  <1> QED
    BY <1>1, <1>2, Zenon

\* users++ on the object of the workload, found or allocated.
LEMMA RegisterKeepsIInv ==
    ASSUME IInv, NEW r \in Requests, Register(r)
    PROVE  IInv'
  <1> USE LockAssumption DEF IInv, LockInv
  <1> DEFINE w == key[r]
             o == IF containerLocks[w] = NoLock THEN r ELSE containerLocks[w]
  <1>1. /\ pc[r] = "found" /\ pc' = [pc EXCEPT ![r] = "wait"]
        /\ containerLocks' = [containerLocks EXCEPT ![w] = o]
        /\ users' = [users EXCEPT ![o] = @ + 1]
        /\ lock' = [lock EXCEPT ![r] = o]
        /\ UNCHANGED <<cluster, binding, token, ref, key>>
    BY Zenon DEF Register, Step, clusterVars
  <1>2. w \in Workloads /\ o \in Requests
    BY <1>1, Zenon DEF KeysFound, TypeOK
  <1>3. TypeOK'
    BY <1>1, <1>2, SMT DEF TypeOK
  <1> HIDE DEF o
  <1>4. /\ UsersOf(w)' = UsersOf(w) \cup {r}
        /\ r \notin UsersOf(w)
        /\ \A v \in Workloads \ {w} : UsersOf(v)' = UsersOf(v)
    BY <1>1, <1>2, SMT DEF UsersOf, Registered, TypeOK
  <1>5. \A v \in Workloads \ {w} : /\ containerLocks'[v] = containerLocks[v]
                                   /\ containerLocks[v] # o
    BY <1>1, <1>2, Zenon DEF TypeOK, ObjectsDistinct, ObjectsFresh, o
  <1>6. LocksExact'
    <2> SUFFICES ASSUME NEW v \in Workloads
                 PROVE  IF UsersOf(v)' = {}
                        THEN containerLocks'[v] = NoLock
                        ELSE /\ containerLocks'[v] # NoLock
                             /\ users'[containerLocks'[v]]
                                   = Cardinality(UsersOf(v)')
      BY Zenon DEF LocksExact
    <2>1. CASE v # w
      <3>1. users'[containerLocks[v]] = users[containerLocks[v]]
            \/ containerLocks[v] = NoLock
        BY <1>1, <1>2, <1>5, <2>1, Zenon DEF TypeOK
      <3> QED
        <4>1. /\ UsersOf(v)' = UsersOf(v) /\ containerLocks'[v] = containerLocks[v]
          BY <1>4, <1>5, <2>1, Zenon
        <4>2. IF UsersOf(v) = {} THEN containerLocks[v] = NoLock
              ELSE /\ containerLocks[v] # NoLock
                   /\ users[containerLocks[v]] = Cardinality(UsersOf(v))
          BY Zenon DEF LocksExact
        <4> QED
          BY <4>1, <4>2, <3>1, Zenon
    <2>2. CASE v = w
      <3>1. Cardinality(UsersOf(w)') = Cardinality(UsersOf(w)) + 1
        <4>1. IsFiniteSet(UsersOf(w))
          BY UsersFinite, Zenon
        <4>2. Cardinality(UsersOf(w) \cup {r}) = Cardinality(UsersOf(w)) + 1
          BY <4>1, <1>4, FS_AddElement, Zenon
        <4> QED
          BY <4>2, <1>4, Zenon
      <3>2. users[o] = Cardinality(UsersOf(w))
        BY <1>1, <1>2, FS_EmptySet, Zenon DEF LocksExact, ObjectsFresh, o
      <3>3. users'[o] = users[o] + 1 /\ containerLocks'[w] = o
        BY <1>1, <1>2, Zenon DEF TypeOK
      <3> QED
        BY <1>1, <1>2, <1>4, <2>2, <3>1, <3>2, <3>3, Zenon
    <2> QED
      BY <2>1, <2>2, Zenon
  <1>7. KeysFound'
    BY <1>1, <1>2, Zenon DEF KeysFound, Registered, TypeOK
  <1>8. ObjectsShared'
    <2> SUFFICES ASSUME NEW s \in Requests, Registered(s)'
                 PROVE  lock'[s] = containerLocks'[key[s]]
      BY <1>1, Zenon DEF ObjectsShared
    <2>1. CASE s = r
      BY <1>1, <1>2, <2>1, Zenon DEF TypeOK
    <2>2. CASE s # r
      <3>1. Registered(s) /\ s \in UsersOf(key[s]) /\ key[s] \in Workloads
        BY <1>1, <2>2, Zenon DEF UsersOf, KeysFound, Registered, TypeOK
      <3>2. containerLocks[key[s]] # NoLock
        BY <3>1, Zenon DEF LocksExact
      <3> QED
        BY <1>1, <1>2, <1>5, <2>2, <3>1, <3>2, Zenon DEF ObjectsShared, TypeOK, o
    <2> QED
      BY <2>1, <2>2, Zenon
  <1>9. ObjectsDistinct'
    BY <1>1, <1>2, <1>5, Zenon DEF ObjectsDistinct, TypeOK
  <1>10. ObjectsFresh'
    BY <1>1, <1>2, <1>5, Zenon DEF ObjectsFresh, TypeOK, o
  <1>11. TokenHeld' /\ TokenExclusive'
    BY <1>1, Zenon DEF TokenHeld, TokenExclusive, HasToken, TypeOK
  <1>12. TokenOwned'
    <2> SUFFICES ASSUME NEW v \in Workloads, containerLocks'[v] # NoLock,
                        token[containerLocks'[v]]
                 PROVE  \E s \in UsersOf(v)' : HasToken(s)'
      BY <1>1, Zenon DEF TokenOwned
    <2>1. containerLocks[v] = containerLocks'[v]
      BY <1>1, <1>2, <1>5, Zenon DEF ObjectsFresh, TypeOK, o
    <2>2. PICK s \in UsersOf(v) : HasToken(s)
      BY <2>1, Zenon DEF TokenOwned
    <2>3. s \in UsersOf(v)' /\ HasToken(s)'
      BY <1>1, <1>4, <2>2, SMT DEF UsersOf, HasToken, TypeOK
    <2> QED
      BY <2>3, Zenon
  <1> QED
    BY <1>3, <1>6, <1>7, <1>8, <1>9, <1>10, <1>11, <1>12, Zenon

\* The send on the token channel.
LEMMA AcquireKeepsIInv ==
    ASSUME IInv, NEW r \in Requests, Acquire(r)
    PROVE  IInv'
  <1> USE LockAssumption DEF IInv, LockInv
  <1> DEFINE w == key[r]
  <1>1. /\ pc[r] = "wait" /\ pc' = [pc EXCEPT ![r] = "recheck"]
        /\ ~token[lock[r]] /\ token' = [token EXCEPT ![lock[r]] = TRUE]
        /\ UNCHANGED <<cluster, binding, containerLocks, users, ref, key, lock>>
    BY Zenon DEF Acquire, Step, clusterVars
  <1>2. TypeOK'
    BY <1>1, Zenon DEF TypeOK
  <1>3. \A v \in Workloads : UsersOf(v)' = UsersOf(v)
    BY <1>1, Zenon DEF UsersOf, Registered, TypeOK
  <1>4. w \in Workloads /\ r \in UsersOf(w) /\ lock[r] = containerLocks[w]
    BY <1>1, Zenon DEF KeysFound, ObjectsShared, UsersOf, Registered
  <1>5. lock[r] \in Requests
    BY <1>4, Zenon DEF LocksExact, TypeOK
  <1>6. LocksExact'
    BY <1>1, <1>3, Zenon DEF LocksExact
  <1>7. KeysFound' /\ ObjectsShared' /\ ObjectsDistinct'
    BY <1>1, Zenon DEF KeysFound, ObjectsShared, ObjectsDistinct, Registered, TypeOK
  <1>8. ObjectsFresh'
    BY <1>1, <1>4, <1>5, Zenon DEF ObjectsFresh, TypeOK
  <1>9. TokenHeld'
    BY <1>1, <1>5, SMT DEF TokenHeld, HasToken, TypeOK
  <1>10. \A s \in Requests : HasToken(s) => key[s] # w
    BY <1>1, <1>4, SMT DEF TokenHeld, ObjectsShared, HasToken, Registered
  <1>11. TokenExclusive'
    BY <1>1, <1>10, Zenon DEF TokenExclusive, HasToken, TypeOK
  <1>12. TokenOwned'
    <2> SUFFICES ASSUME NEW v \in Workloads, containerLocks[v] # NoLock,
                        token'[containerLocks[v]]
                 PROVE  \E s \in UsersOf(v)' : HasToken(s)'
      BY <1>1, Zenon DEF TokenOwned
    <2>1. CASE v = w
      <3>1. r \in UsersOf(v)'
        BY <1>3, <1>4, <2>1, Zenon
      <3>2. HasToken(r)'
        BY <1>1, Zenon DEF HasToken, TypeOK
      <3> QED
        BY <3>1, <3>2, Zenon
    <2>2. CASE v # w
      <3>1. token[containerLocks[v]]
        BY <1>1, <1>4, <1>5, <2>2, Zenon DEF ObjectsDistinct, TypeOK
      <3>2. PICK s \in UsersOf(v) : HasToken(s)
        BY <3>1, Zenon DEF TokenOwned
      <3>3. s \in UsersOf(v)' /\ HasToken(s)'
        BY <1>1, <1>3, <3>2, Zenon DEF UsersOf, HasToken, TypeOK
      <3> QED
        BY <3>3, Zenon
    <2> QED
      BY <2>1, <2>2, Zenon
  <1> QED
    BY <1>2, <1>6, <1>7, <1>8, <1>9, <1>11, <1>12, Zenon

\* The receive from the token channel.
LEMMA UnlockKeepsIInv ==
    ASSUME IInv, NEW r \in Requests, Unlock(r)
    PROVE  IInv'
  <1> USE LockAssumption DEF IInv, LockInv
  <1> DEFINE w == key[r]
  <1>1. /\ pc[r] = "unlock" /\ pc' = [pc EXCEPT ![r] = "release"]
        /\ token' = [token EXCEPT ![lock[r]] = FALSE]
        /\ UNCHANGED <<cluster, binding, containerLocks, users, ref, key, lock>>
    BY Zenon DEF Unlock, Step, clusterVars
  <1>2. TypeOK'
    BY <1>1, Zenon DEF TypeOK
  <1>3. \A v \in Workloads : UsersOf(v)' = UsersOf(v)
    BY <1>1, Zenon DEF UsersOf, Registered, TypeOK
  <1>4. w \in Workloads /\ r \in UsersOf(w) /\ lock[r] = containerLocks[w]
    BY <1>1, Zenon DEF KeysFound, ObjectsShared, UsersOf, Registered
  <1>5. lock[r] \in Requests
    BY <1>4, Zenon DEF LocksExact, TypeOK
  <1>6. LocksExact'
    BY <1>1, <1>3, Zenon DEF LocksExact
  <1>7. KeysFound' /\ ObjectsShared' /\ ObjectsDistinct'
    BY <1>1, Zenon DEF KeysFound, ObjectsShared, ObjectsDistinct, Registered, TypeOK
  <1>8. ObjectsFresh' /\ TokenExclusive'
    BY <1>1, Zenon DEF ObjectsFresh, TokenExclusive, HasToken, TypeOK
  <1>9. TokenHeld'
    <2> SUFFICES ASSUME NEW s \in Requests, HasToken(s)'
                 PROVE  token'[lock[s]]
      BY <1>1, Zenon DEF TokenHeld
    <2>1. HasToken(s) /\ Registered(s) /\ HasToken(r) /\ s # r
      BY <1>1, Zenon DEF HasToken, Registered, TypeOK
    <2>2. key[s] # w /\ key[s] \in Workloads /\ s \in UsersOf(key[s])
      BY <2>1, Zenon DEF TokenExclusive, KeysFound, UsersOf
    <2>3. lock[s] = containerLocks[key[s]] /\ lock[s] # NoLock
      BY <2>1, <2>2, Zenon DEF ObjectsShared, LocksExact
    <2>4. lock[s] # lock[r]
      BY <1>4, <2>2, <2>3, Zenon DEF ObjectsDistinct
    <2> QED
      BY <1>1, <2>1, <2>3, <2>4, Zenon DEF TokenHeld, TypeOK
  <1>10. TokenOwned'
    <2> SUFFICES ASSUME NEW v \in Workloads, containerLocks[v] # NoLock,
                        token'[containerLocks[v]]
                 PROVE  \E s \in UsersOf(v)' : HasToken(s)'
      BY <1>1, Zenon DEF TokenOwned
    <2>1. token[containerLocks[v]] /\ v # w
      BY <1>1, <1>4, <1>5, Zenon DEF TypeOK
    <2>2. PICK s \in UsersOf(v) : HasToken(s)
      BY <2>1, Zenon DEF TokenOwned
    <2>3. s \in UsersOf(v)' /\ HasToken(s)'
      BY <1>1, <1>3, <2>1, <2>2, Zenon DEF UsersOf, HasToken, TypeOK
    <2> QED
      BY <2>3, Zenon
  <1> QED
    BY <1>2, <1>6, <1>7, <1>8, <1>9, <1>10, Zenon

\* releaseUser: users--, and the last user deletes the entry.
LEMMA ReleaseKeepsIInv ==
    ASSUME IInv, NEW r \in Requests, Release(r)
    PROVE  IInv'
  <1> USE LockAssumption DEF IInv, LockInv
  <1> DEFINE w == key[r]
             o == lock[r]
  <1>1. /\ pc[r] = "release" /\ pc' = [pc EXCEPT ![r] = "done"]
        /\ users' = [users EXCEPT ![o] = @ - 1]
        /\ containerLocks' = IF users[o] = 1
                             THEN [containerLocks EXCEPT ![w] = NoLock]
                             ELSE containerLocks
        /\ UNCHANGED <<cluster, binding, token, ref, key, lock>>
    BY Zenon DEF Release, Step, clusterVars
  <1>2. w \in Workloads /\ r \in UsersOf(w) /\ o = containerLocks[w]
    BY <1>1, Zenon DEF KeysFound, ObjectsShared, UsersOf, Registered
  <1>3. o \in Requests /\ users[o] = Cardinality(UsersOf(w))
    BY <1>2, Zenon DEF LocksExact, TypeOK
  <1>4. /\ Cardinality(UsersOf(w) \ {r}) = users[o] - 1
        /\ IsFiniteSet(UsersOf(w) \ {r})
        /\ users[o] - 1 \in Nat
    <2>1. IsFiniteSet(UsersOf(w)) /\ IsFiniteSet(UsersOf(w) \ {r})
      BY UsersFinite, FS_RemoveElement, Zenon
    <2>2. Cardinality(UsersOf(w) \ {r}) = Cardinality(UsersOf(w)) - 1
      BY <1>2, <2>1, FS_RemoveElement, Zenon
    <2> QED
      BY <1>3, <2>1, <2>2, FS_CardinalityType, Zenon
  <1>5. TypeOK'
    BY <1>1, <1>2, <1>3, <1>4, Zenon DEF TypeOK
  <1>6. /\ UsersOf(w)' = UsersOf(w) \ {r}
        /\ \A v \in Workloads \ {w} : UsersOf(v)' = UsersOf(v)
    BY <1>1, <1>2, Zenon DEF UsersOf, Registered, TypeOK
  <1>7. \A v \in Workloads \ {w} :
           /\ containerLocks'[v] = containerLocks[v]
           /\ containerLocks[v] # o
    BY <1>1, <1>2, <1>3, ZenonT(30) DEF TypeOK, ObjectsDistinct
  <1>8. UsersOf(w)' = {} <=> users[o] = 1
    <2>1. UsersOf(w) \ {r} = {} <=> Cardinality(UsersOf(w) \ {r}) = 0
      BY <1>4, FS_EmptySet, Zenon
    <2>2. users[o] \in Nat
      BY <1>3, Zenon DEF TypeOK
    <2> QED
      BY <1>4, <1>6, <2>1, <2>2, SMT
  <1>9. LocksExact'
    <2> SUFFICES ASSUME NEW v \in Workloads
                 PROVE  IF UsersOf(v)' = {}
                        THEN containerLocks'[v] = NoLock
                        ELSE /\ containerLocks'[v] # NoLock
                             /\ users'[containerLocks'[v]]
                                   = Cardinality(UsersOf(v)')
      BY Zenon DEF LocksExact
    <2>1. CASE v # w
      <3>1. users'[containerLocks[v]] = users[containerLocks[v]]
            \/ containerLocks[v] = NoLock
        BY <1>1, <1>3, <1>7, <2>1, Zenon DEF TypeOK
      <3> QED
        BY <1>6, <1>7, <2>1, <3>1, Zenon DEF LocksExact
    <2>2. CASE v = w
      <3>1. users'[o] = users[o] - 1
        BY <1>1, <1>3, Zenon DEF TypeOK
      <3>2. UsersOf(v)' = UsersOf(w) \ {r}
        BY <1>1, <1>6, <2>2, Zenon
      <3>3. containerLocks'[w] = IF users[o] = 1 THEN NoLock ELSE o
        BY <1>1, <1>2, Zenon DEF TypeOK
      <3>4. UsersOf(w) \ {r} = {} <=> users[o] = 1
        BY <1>6, <1>8, Zenon
      <3> QED
        BY <1>3, <1>4, <2>2, <3>1, <3>2, <3>3, <3>4, Zenon
    <2> QED
      BY <2>1, <2>2, Zenon
  <1>10. KeysFound'
    BY <1>1, Zenon DEF KeysFound, Registered, TypeOK
  <1>11. ObjectsShared'
    <2> SUFFICES ASSUME NEW s \in Requests, Registered(s)'
                 PROVE  lock[s] = containerLocks'[key[s]]
      BY <1>1, Zenon DEF ObjectsShared
    <2>1. s # r /\ Registered(s) /\ key[s] \in Workloads
      BY <1>1, Zenon DEF Registered, KeysFound, TypeOK
    <2>2. s \in UsersOf(w) \ {r} \/ key[s] # w
      BY <2>1, Zenon DEF UsersOf
    <2>3. containerLocks'[key[s]] = containerLocks[key[s]]
      BY <1>1, <1>6, <1>7, <1>8, <2>1, <2>2, Zenon
    <2> QED
      BY <2>1, <2>3, Zenon DEF ObjectsShared
  <1>12. ObjectsDistinct'
    BY <1>1, <1>2, <1>7, Zenon DEF ObjectsDistinct, TypeOK
  <1>13. ObjectsFresh'
    BY <1>1, <1>2, <1>3, Zenon DEF ObjectsFresh, TypeOK
  <1>14. TokenHeld' /\ TokenExclusive'
    BY <1>1, Zenon DEF TokenHeld, TokenExclusive, HasToken, TypeOK
  <1>15. TokenOwned'
    <2> SUFFICES ASSUME NEW v \in Workloads, containerLocks'[v] # NoLock,
                        token[containerLocks'[v]]
                 PROVE  \E s \in UsersOf(v)' : HasToken(s)'
      BY <1>1, Zenon DEF TokenOwned
    <2>1. containerLocks[v] = containerLocks'[v]
      BY <1>1, <1>2, <1>7, Zenon DEF TypeOK
    <2>2. PICK s \in UsersOf(v) : HasToken(s)
      BY <2>1, Zenon DEF TokenOwned
    <2>3. s \in UsersOf(v)' /\ HasToken(s)'
      BY <1>1, <2>2, Zenon DEF UsersOf, HasToken, Registered, TypeOK
    <2> QED
      BY <2>3, Zenon
  <1> QED
    BY <1>5, <1>9, <1>10, <1>11, <1>12, <1>13, <1>14, <1>15, Zenon

\* A restart empties the table and ends every call that had registered.
LEMMA RestartKeepsIInv ==
    ASSUME IInv, ProcessRestarts
    PROVE  IInv'
  <1> USE LockAssumption DEF IInv, LockInv
  <1>1. /\ pc' = [r \in Requests |-> IF pc[r] = "idle" THEN "idle" ELSE "done"]
        /\ containerLocks' = [w \in Workloads |-> NoLock]
        /\ UNCHANGED <<cluster, binding, token, users, ref, key, lock>>
    BY Zenon DEF ProcessRestarts, clusterVars
  <1>2. TypeOK'
    BY <1>1, Zenon DEF TypeOK
  <1>3. \A r \in Requests : ~Registered(r)' /\ ~HasToken(r)'
    BY <1>1, Zenon DEF Registered, HasToken
  <1>4. \A w \in Workloads : UsersOf(w)' = {}
    BY <1>3, Zenon DEF UsersOf
  <1>5. LocksExact'
    BY <1>1, <1>4, Zenon DEF LocksExact
  <1>6. KeysFound' /\ ObjectsShared' /\ TokenHeld' /\ TokenExclusive'
    BY <1>1, <1>3, Zenon DEF KeysFound, ObjectsShared, TokenHeld, TokenExclusive
  <1>7. ObjectsDistinct' /\ ObjectsFresh' /\ TokenOwned'
    BY <1>1, Zenon DEF ObjectsDistinct, ObjectsFresh, TokenOwned
  <1> QED
    BY <1>2, <1>5, <1>6, <1>7, Zenon

\* Every step of the specification preserves the invariant.
LEMMA NextKeepsIInv == IInv /\ [Next]_vars => IInv'
  <1> SUFFICES ASSUME IInv, [Next]_vars PROVE IInv'
    BY Zenon
  <1>1. CASE \E r \in Requests : RequestStep(r)
    BY <1>1, BranchKeepsIInv, RegisterKeepsIInv, AcquireKeepsIInv,
       UnlockKeepsIInv, ReleaseKeepsIInv, Zenon DEF RequestStep
  <1>2. CASE ClusterStep
    BY <1>2, ClusterKeepsIInv, Zenon
  <1>3. CASE ProcessRestarts
    BY <1>3, RestartKeepsIInv, Zenon
  <1>4. CASE UNCHANGED vars
    <2>1. TypeOK'
      BY <1>4, Zenon DEF vars, IInv, TypeOK
    <2> QED
      BY <1>4, <2>1, QuietStep
        , Zenon DEF vars, tableVars, Registered, HasToken, IInv, LockInv, KeysFound
  <1> QED
    BY <1>1, <1>2, <1>3, <1>4, Zenon DEF Next, AllReturned

\* The lock table invariant holds for every number of calls, workloads and
\* references: lockContainer keeps its counts, its map and its tokens exact.
THEOREM LockTable == Spec => [](TypeOK /\ LockInv)
  <1>1. Spec => []IInv
    BY InitIInv, NextKeepsIInv, PTL DEF Spec
  <1> QED
    BY <1>1, PTL DEF IInv

\* Types hold for every instance: no users count ever goes negative.
THEOREM Typing == Spec => []TypeOK
  BY LockTable, PTL

\* No two operations ever run on one workload at the same time.
THEOREM Exclusion == Spec => []MutualExclusion
  <1>1. LockInv => MutualExclusion
    BY Zenon DEF LockInv, TokenExclusive, MutualExclusion, HasToken
  <1> QED
    BY <1>1, LockTable, PTL

\* No operation, finished, failed or cancelled, leaks a lock entry, and no
\* entry is dropped while a request uses it.
THEOREM NoLeaks == Spec => []LocksExact
  <1>1. LockInv => LocksExact
    BY Zenon DEF LockInv
  <1> QED
    BY <1>1, LockTable, PTL

\* What findContainer returns is live when it returns it.
BoundLive == \A n \in Refs : binding[n] # NoWorkload => binding[n] \in Live

\* References follow the cluster.
LEMMA BindingsLive == Spec => []BoundLive
  <1>1. Init => BoundLive
    BY Zenon DEF Init, BoundLive
  <1>2. BoundLive /\ [Next]_vars => BoundLive'
    <2> SUFFICES ASSUME BoundLive, [Next]_vars PROVE BoundLive'
      BY Zenon
    <2>1. CASE ClusterStep
      BY <2>1, Zenon DEF ClusterStep, WorkloadAppears, WorkloadDisappears,
         ReferencesMove, Rebind, BoundLive
    <2>2. CASE UNCHANGED clusterVars
      BY <2>2, Zenon DEF clusterVars, BoundLive, Live
    <2>3. ClusterStep \/ UNCHANGED clusterVars
      BY Zenon DEF Next, RequestStep, Find, FindFails, Register, Acquire, Cancel,
         Recheck, RecheckFails, Finish, Unlock, Release, ProcessRestarts,
         AllReturned, vars, clusterVars
    <2> QED
      BY <2>1, <2>2, <2>3, Zenon
  <1> QED
    BY <1>1, <1>2, PTL DEF Spec

\* The only step that starts an operation is a successful second lookup.
LEMMA OperationStarts ==
    ASSUME TypeOK, [Next]_vars, NEW r \in Requests,
           pc[r] # "operate", pc'[r] = "operate"
    PROVE  Recheck(r)
  <1>1. PICK s \in Requests : RequestStep(s)
    BY Zenon DEF Next, ClusterStep, WorkloadAppears, WorkloadDisappears,
       ReferencesMove, ProcessRestarts, AllReturned, vars, TypeOK
  <1>2. \E from, to : pc[s] = from /\ pc' = [pc EXCEPT ![s] = to]
    BY <1>1, Zenon DEF RequestStep, Find, FindFails, Register, Acquire, Cancel,
       Recheck, RecheckFails, Finish, Unlock, Release, Step
  <1>3. s = r
    BY <1>2, Zenon DEF TypeOK
  <1> QED
    BY <1>1, <1>3, Zenon DEF RequestStep, Find, FindFails, Register, Acquire, Cancel,
       RecheckFails, Finish, Unlock, Release, Step, TypeOK

\* An operation starts only on the live workload its reference names then.
THEOREM StartsOnCurrent == Spec => EnterCurrent
  <1>1. TypeOK /\ LockInv /\ BoundLive /\ [Next]_vars =>
           [\A r \in Requests :
               pc[r] # "operate" /\ pc'[r] = "operate" =>
                  /\ cluster[key[r]] = "live"
                  /\ binding[ref[r]] = key[r]]_vars
    <2> SUFFICES ASSUME TypeOK, LockInv, BoundLive, [Next]_vars,
                        NEW r \in Requests,
                        pc[r] # "operate", pc'[r] = "operate"
                 PROVE  /\ cluster[key[r]] = "live"
                        /\ binding[ref[r]] = key[r]
      BY Zenon
    <2>1. Recheck(r)
      BY OperationStarts, Zenon
    <2>2. binding[ref[r]] = key[r] /\ ref[r] \in Refs
      BY <2>1, Zenon DEF Recheck, TypeOK
    <2>3. key[r] # NoWorkload
      BY <2>1, LockAssumption
        , Zenon DEF Recheck, Step, LockInv, KeysFound, Registered
    <2> QED
      BY <2>2, <2>3, Zenon DEF BoundLive, Live
  <1> QED
    BY <1>1, LockTable, BindingsLive, PTL DEF Spec, EnterCurrent

\* The lock table implements the mutex that ContainerMutex specifies: what
\* the container operations may rely on, for every instance.
THEOREM Refinement == Spec => ImplementsMutex
  <1> USE LockAssumption
  <1>1. Init => Mutex!MutexInit
    BY Zenon DEF Init, Mutex!MutexInit, Critical
  <1>2. TypeOK /\ LockInv /\ [Next]_vars => [Mutex!MutexNext]_Critical
    <2> SUFFICES ASSUME TypeOK, LockInv, [Next]_vars
                 PROVE  Mutex!MutexNext \/ UNCHANGED Critical
      BY Zenon DEF Mutex!MutexNext
    <2>1. ASSUME NEW r \in Requests, Recheck(r)
          PROVE  Mutex!Enter(r, key[r]) /\ key[r] \in Workloads
      <3>1. /\ pc[r] = "recheck" /\ pc' = [pc EXCEPT ![r] = "operate"]
            /\ key' = key
        BY <2>1, Zenon DEF Recheck, Step
      <3>2. key[r] \in Workloads
        BY <3>1, Zenon DEF LockInv, KeysFound, Registered
      <3>3. Critical[r] = NoWorkload
        BY <3>1, Zenon DEF Critical
      <3>4. \A s \in Requests : Critical[s] # key[r]
        BY <3>1, <3>2, Zenon DEF LockInv, TokenExclusive, HasToken, Critical
      <3>5. Critical' = [Critical EXCEPT ![r] = key[r]]
        BY <3>1, Zenon DEF Critical, TypeOK
      <3> QED
        BY <3>2, <3>3, <3>4, <3>5, Zenon DEF Mutex!Enter
    <2>2. ASSUME NEW r \in Requests, Finish(r)
          PROVE  Mutex!Leave(r)
      <3>1. /\ pc[r] = "operate" /\ pc' = [pc EXCEPT ![r] = "unlock"]
            /\ key' = key
        BY <2>2, Zenon DEF Finish, Step
      <3>2. Critical[r] # NoWorkload
        BY <3>1, Zenon DEF Critical, LockInv, KeysFound, Registered
      <3>3. Critical' = [Critical EXCEPT ![r] = NoWorkload]
        BY <3>1, Zenon DEF Critical, TypeOK
      <3> QED
        BY <3>2, <3>3, Zenon DEF Mutex!Leave
    <2>3. ASSUME NEW r \in Requests,
                 \/ Find(r) \/ FindFails(r) \/ Register(r) \/ Acquire(r)
                 \/ Cancel(r) \/ RecheckFails(r) \/ Unlock(r) \/ Release(r)
          PROVE  UNCHANGED Critical
      BY <2>3, Zenon DEF Find, FindFails, Register, Acquire, Cancel, RecheckFails,
         Unlock, Release, Step, Critical, TypeOK
    <2>4. ASSUME ProcessRestarts PROVE Mutex!LeaveAll
      BY <2>4, Zenon DEF ProcessRestarts, Mutex!LeaveAll, Critical
    <2>5. ASSUME ClusterStep \/ UNCHANGED vars PROVE UNCHANGED Critical
      BY <2>5, Zenon DEF ClusterStep, WorkloadAppears, WorkloadDisappears,
         ReferencesMove, vars, Critical
    <2> QED
      BY <2>1, <2>2, <2>3, <2>4, <2>5
        , Zenon DEF Next, RequestStep, AllReturned, Mutex!MutexNext
  <1> QED
    BY <1>1, <1>2, LockTable, PTL DEF Spec, ImplementsMutex, Mutex!MutexSpec

=============================================================================
