--------------------- MODULE ContainerLifecycleProofs ---------------------
(***************************************************************************)
(* Proofs about ContainerLifecycle, for any sets of requests, workloads    *)
(* and operations and any number of evictions.                             *)
(***************************************************************************)
EXTENDS ContainerLifecycle, FiniteSetTheorems, TLAPS

\* A set whose members are all equal has at most one.
LEMMA AtMostOne ==
    ASSUME NEW S, \A p, q \in S : p = q
    PROVE  Cardinality(S) \in 0..1
  <1>1. CASE S = {}
    BY <1>1, FS_EmptySet, SMT
  <1>2. CASE S # {}
    <2>1. PICK p : p \in S
      BY <1>2, Zenon
    <2>2. S = {p}
      BY <2>1, Zenon
    <2> QED
      BY <2>2, FS_Singleton, SMT
  <1> QED
    BY <1>1, <1>2, Zenon

\* Active Pods of a workload are Pods, active and its own.
LEMMA OwnedPods ==
    ASSUME NEW u, NEW p
    PROVE  p \in Owned(u) <=> /\ p \in pods /\ p.uid = u
                              /\ p.phase \in {"Pending", "Running"}
  BY Zenon DEF Owned, ActivePods, Active

\* The same, of the next state.
LEMMA OwnedPodsNext ==
    ASSUME NEW u, NEW p
    PROVE  p \in Owned(u)' <=> /\ p \in pods' /\ p.uid = u
                               /\ p.phase \in {"Pending", "Running"}
  BY Zenon DEF Owned, ActivePods, Active

\* A step of the cluster that changes Pods alone preserves the invariant if
\* no workload gets a second Pod, one its ReplicaSet does not want, or one of
\* a later template.
LEMMA PodsOnly ==
    ASSUME IInv,
           UNCHANGED <<deployment, replicaSet, fresh, requestVars>>,
           \A u \in Uids :
              /\ \A p, q \in Owned(u)' : p = q
              /\ replicaSet[u] # NoReplicaSet /\ replicaSet[u].want = 1 =>
                    \A p \in Owned(u)' :
                        ~p.deleting /\ p.template = replicaSet[u].template
              /\ Settled(u) /\ Owned(u) = {} => Owned(u)' = {}
              /\ /\ replicaSet[u] # NoReplicaSet
                 /\ \A p \in Owned(u) : p.template <= replicaSet[u].template
                 => \A p \in Owned(u)' : p.template <= replicaSet[u].template
    PROVE  LifecycleInv'
  <1> USE DEF requestVars
  <1>1. OnePodEach'
    BY Zenon DEF OnePodEach
  <1>2. ScaleFollows'
    <2> SUFFICES ASSUME deployment # NoDeployment
                 PROVE  ScaleFollows'
      BY Zenon DEF ScaleFollows
    <2> DEFINE u == deployment.uid
    <2>1. u \in Uids
      BY Zenon DEF IInv, TypeOK, Deployments
    <2>2. Settled(u) /\ Owned(u) = {} => Owned(u)' = {}
      BY <2>1, Zenon
    <2>3. /\ replicaSet[u] # NoReplicaSet
          /\ \A p \in Owned(u) : p.template <= replicaSet[u].template
          => \A p \in Owned(u)' : p.template <= replicaSet[u].template
      BY <2>1, Zenon
    <2> QED
      BY <2>2, <2>3, Zenon DEF IInv, LifecycleInv, ScaleFollows, Settled
  <1>3. ObservedIsDone' /\ LocksHeld' /\ NoStaleSignal'
    BY Zenon DEF IInv, LifecycleInv, ObservedIsDone, Settled, LocksHeld,
           NoStaleSignal
  <1>4. FreshUnused'
    <2>1. \A u \in fresh : u \in Uids /\ Settled(u) /\ Owned(u) = {}
      BY Zenon DEF IInv, TypeOK, LifecycleInv, FreshUnused, Settled
    <2>2. \A u \in fresh : Owned(u)' = {}
      BY <2>1, Zenon
    <2> QED
      BY <2>2, Zenon DEF IInv, LifecycleInv, FreshUnused, Exists
  <1>5. ReadsHold'
    <2>1. ASSUME NEW r \in Requests, Exists(critical[r])
          PROVE  critical[r] \in Uids
      BY <2>1, Zenon DEF IInv, TypeOK, Exists, Deployments
    <2>2. ASSUME NEW r \in Requests, Exists(critical[r]),
                 Settled(critical[r]), Owned(critical[r]) = {}
          PROVE  Owned(critical[r])' = {}
      BY <2>1, <2>2, Zenon
    <2> QED
      BY <2>2, Zenon DEF IInv, LifecycleInv, ReadsHold, Exists, Settled
  <1> QED
    BY <1>1, <1>2, <1>3, <1>4, <1>5, Zenon DEF LifecycleInv

\* The ReplicaSet controller: a ReplicaSet that wants a Pod keeps the one it
\* has or creates the only one, any other deletes without creating.
LEMMA ReplicaSetIInv ==
    ASSUME IInv, NEW v \in Uids, ReplicaSetSync(v)
    PROVE  IInv'
  <1> DEFINE rs == replicaSet[v]
             keep == {p \in Kept(v) : rs.want = 1 /\ p.template = rs.template}
             drop == Kept(v) \ keep
             fresher == [uid |-> v, template |-> rs.template,
                         phase |-> "Pending", deleting |-> FALSE]
             dropped == {[p EXCEPT !.deleting = TRUE] : p \in drop}
             new == IF rs.want = 1 /\ keep = {} THEN {fresher} ELSE {}
  <1>0. /\ rs \in ReplicaSets /\ rs.template \in Nat /\ rs.want \in 0..1
        /\ pods \subseteq Pods
    BY Zenon DEF IInv, TypeOK, ReplicaSetSync, ReplicaSets
  <1>1. /\ pods' = (pods \ drop) \cup new \cup dropped
        /\ UNCHANGED <<deployment, replicaSet, fresh, evictions, requestVars>>
    BY Zenon DEF ReplicaSetSync
  <1>2. fresher \in Pods
    BY <1>0, Zenon DEF Pods
  <1>3. \A p \in drop : /\ [p EXCEPT !.deleting = TRUE] \in Pods
                        /\ [p EXCEPT !.deleting = TRUE].uid = v
                        /\ [p EXCEPT !.deleting = TRUE].template = p.template
                        /\ p \in Owned(v)
    BY <1>0, Zenon DEF Pods, Kept, Owned, ActivePods
  <1>4. TypeOK'
    <2>1. pods' \subseteq Pods
      BY <1>0, <1>1, <1>2, <1>3, Zenon
    <2> QED
      BY <2>1, <1>1, Zenon DEF IInv, TypeOK, requestVars
  <1>5. \A p, q \in Owned(v) : p = q
    BY Zenon DEF IInv, LifecycleInv, OnePodEach
  <1>6. ASSUME NEW u \in Uids, u # v
        PROVE  Owned(u)' = Owned(u)
    <2>1. /\ \A p \in new : p.uid = v
          /\ \A p \in drop : p.uid = v
      BY SMT DEF Kept, Owned
    <2>2. \A p \in dropped : p.uid = v
      BY <1>3, Zenon
    <2>3. \A p : p \in Owned(u)' <=> p \in Owned(u)
      BY <1>6, <1>1, <2>1, <2>2, OwnedPods, OwnedPodsNext, SMT
    <2> QED
      BY <2>3, Zenon
  <1>7. CASE rs.want = 1
    <2>1. \A p \in Owned(v) : ~p.deleting /\ p.template = rs.template
      BY <1>7, Zenon DEF IInv, LifecycleInv, OnePodEach, ReplicaSetSync
    <2>2. keep = Owned(v) /\ drop = {} /\ dropped = {}
      BY <1>7, <2>1, Zenon DEF Kept
    <2>3. CASE Owned(v) = {}
      <3>1. pods' = pods \cup {fresher}
        BY <1>1, <1>7, <2>2, <2>3, Zenon
      <3>2. \A p : p \in Owned(v)' <=> p = fresher
        BY <3>1, <2>3, OwnedPods, OwnedPodsNext, SMT
      <3>3. /\ \A p, q \in Owned(v)' : p = q
            /\ \A p \in Owned(v)' : ~p.deleting /\ p.template = rs.template
        <4>1. ~fresher.deleting /\ fresher.template = rs.template
          BY Zenon
        <4> HIDE DEF fresher
        <4> QED
          BY <4>1, <3>2, SMT
      <3>4. ~Settled(v)
        BY <1>0, <1>7, SMT DEF Settled, ReplicaSetSync
      <3>5. \A p \in Owned(v)' : p.template <= rs.template
        BY <3>3, <1>0, SMT
      <3> QED
        BY <3>3, <3>4, <3>5, <1>1, <1>4, <1>6, PodsOnly
          , ZenonT(30) DEF IInv, LifecycleInv, OnePodEach
    <2>4. CASE Owned(v) # {}
      <3>1. pods' = pods
        BY <1>1, <1>7, <2>2, <2>4, Zenon
      <3>2. Owned(v)' = Owned(v)
        BY <3>1, Zenon DEF Owned, ActivePods
      <3> QED
        BY <3>2, <1>1, <1>4, <1>6, PodsOnly, SMT DEF IInv, LifecycleInv, OnePodEach
    <2> QED
      BY <2>3, <2>4, Zenon
  <1>8. CASE rs.want # 1
    <2>1. drop = Kept(v) /\ new = {}
      BY <1>8, Zenon
    <2>2. \A q \in Owned(v)' : \/ q \in Owned(v)
                               \/ \E p \in Owned(v) : q = [p EXCEPT !.deleting = TRUE]
      BY <1>1, <1>3, <2>1, OwnedPods, OwnedPodsNext, SMT
    <2>3. \A q \in Owned(v)' : \E p \in Owned(v) : q.template = p.template
      BY <2>2, <1>0, OwnedPods, SMT DEF Pods
    <2>4. ASSUME NEW p \in Owned(v)', NEW q \in Owned(v)'
          PROVE  p = q
      <3>1. PICK o \in Owned(v) : TRUE
        BY <2>2, Zenon
      <3>2. Owned(v) = {o}
        BY <3>1, <1>5, Zenon
      <3>3. CASE o.deleting
        <4>1. Kept(v) = {}
          BY <3>2, <3>3, Zenon DEF Kept
        <4> QED
          BY <4>1, <2>1, <1>1, <3>2, OwnedPods, OwnedPodsNext, SMT
      <3>4. CASE ~o.deleting
        <4>1. Kept(v) = {o}
          BY <3>2, <3>4, Zenon DEF Kept
        <4>2. \A x \in Owned(v)' : x = [o EXCEPT !.deleting = TRUE]
          BY <4>1, <2>1, <1>1, <3>2, OwnedPods, OwnedPodsNext, SMT
        <4> QED
          BY <4>2, Zenon
      <3> QED
        BY <3>3, <3>4, Zenon
    <2> QED
      BY <2>3, <2>4, <1>0, <1>1, <1>4, <1>6, <1>8, PodsOnly
        , SMT DEF IInv, LifecycleInv, OnePodEach, Settled
  <1> QED
    BY <1>7, <1>8, Zenon

\* A step that ends Pods, or moves one on without changing its workload, its
\* template or its deletion, preserves the invariant.
LEMMA PodsMove ==
    ASSUME IInv, NEW p \in pods, NEW q \in Pods,
           q.uid = p.uid, q.template = p.template, q.deleting = p.deleting,
           q.phase \in {"Pending", "Running"} => Active(p),
           \/ pods' = (pods \ {p}) \cup {q}
           \/ pods' = pods \ {p},
           UNCHANGED <<deployment, replicaSet, fresh, requestVars>>,
           evictions' \in 0..MaxEvictions
    PROVE  IInv'
  <1>1. TypeOK'
    BY Zenon DEF IInv, TypeOK, requestVars
  <1>2. ASSUME NEW u \in Uids, NEW x \in Owned(u)'
        PROVE  \/ x \in Owned(u) /\ x # p
               \/ x = q /\ p \in Owned(u)
    BY <1>2, OwnedPods, OwnedPodsNext, Zenon DEF Active
  <1>3. ASSUME NEW u \in Uids, NEW x \in Owned(u)', NEW y \in Owned(u)'
        PROVE  x = y
    <2>1. \A a, b \in Owned(u) : a = b
      BY Zenon DEF IInv, LifecycleInv, OnePodEach
    <2> QED
      BY <2>1, <1>2, Zenon
  <1>4. ASSUME NEW u \in Uids, NEW x \in Owned(u)'
        PROVE  \E y \in Owned(u) : x.template = y.template /\ x.deleting = y.deleting
    BY <1>2, Zenon
  <1>5. ASSUME NEW u \in Uids
        PROVE  /\ replicaSet[u] # NoReplicaSet /\ replicaSet[u].want = 1 =>
                     \A x \in Owned(u)' :
                         ~x.deleting /\ x.template = replicaSet[u].template
               /\ Owned(u) = {} => Owned(u)' = {}
               /\ (\A x \in Owned(u) : x.template <= replicaSet[u].template)
                     => \A x \in Owned(u)' : x.template <= replicaSet[u].template
    BY <1>4, Zenon DEF IInv, LifecycleInv, OnePodEach
  <1>6. LifecycleInv'
    BY <1>3, <1>5, PodsOnly, Zenon
  <1> QED
    BY <1>1, <1>6, Zenon DEF IInv

\* The kubelet's steps.
LEMMA KubeletIInv ==
    ASSUME IInv, NEW p \in pods, PodRuns(p) \/ PodEnds(p) \/ PodEvicted(p)
    PROVE  IInv'
  <1>1. /\ p \in Pods /\ evictions \in 0..MaxEvictions /\ MaxEvictions \in Nat
    BY LifecycleAssumption, Zenon DEF IInv, TypeOK
  <1>2. CASE PodRuns(p)
    <2> DEFINE q == [p EXCEPT !.phase = "Running"]
    <2>1. /\ q \in Pods
          /\ q.uid = p.uid /\ q.template = p.template /\ q.deleting = p.deleting
      BY <1>1, Zenon DEF Pods
    <2>2. /\ Active(p) /\ pods' = (pods \ {p}) \cup {q}
          /\ UNCHANGED <<deployment, replicaSet, fresh, evictions, requestVars>>
      BY <1>2, Zenon DEF PodRuns, Active
    <2> HIDE DEF q
    <2> QED
      BY <1>1, <2>1, <2>2, PodsMove, Zenon
  <1>3. CASE PodEnds(p)
    <2>1. /\ pods' = pods \ {p}
          /\ UNCHANGED <<deployment, replicaSet, fresh, evictions, requestVars>>
      BY <1>3, Zenon DEF PodEnds
    <2> QED
      BY <1>1, <2>1, PodsMove, Zenon DEF Active
  <1>4. CASE PodEvicted(p)
    <2> DEFINE q == [p EXCEPT !.phase = "Failed"]
    <2>1. /\ q \in Pods /\ q.phase = "Failed"
          /\ q.uid = p.uid /\ q.template = p.template /\ q.deleting = p.deleting
      BY <1>1, Zenon DEF Pods
    <2>2. /\ pods' = (pods \ {p}) \cup {q}
          /\ evictions' \in 0..MaxEvictions
          /\ UNCHANGED <<deployment, replicaSet, fresh, requestVars>>
      BY <1>1, <1>4, SMT DEF PodEvicted
    <2> HIDE DEF q
    <2> QED
      BY <2>1, <2>2, PodsMove, Zenon
  <1> QED
    BY <1>2, <1>3, <1>4, Zenon

\* The collector marks the Pods of a workload without a ReplicaSet.
LEMMA CollectPodsIInv ==
    ASSUME IInv, NEW v \in Uids, CollectPods(v)
    PROVE  IInv'
  <1> DEFINE mark(p) == [p EXCEPT !.deleting = TRUE]
  <1>1. /\ pods' = (pods \ Kept(v)) \cup {mark(p) : p \in Kept(v)}
        /\ UNCHANGED <<deployment, replicaSet, fresh, evictions, requestVars>>
        /\ replicaSet[v] = NoReplicaSet /\ Kept(v) # {}
    BY Zenon DEF CollectPods
  <1>2. \A p \in Kept(v) : p \in Owned(v) /\ mark(p) \in Pods /\ mark(p).uid = v
    BY Zenon DEF IInv, TypeOK, Pods, Kept, Owned, ActivePods
  <1>3. PICK o : Owned(v) = {o} /\ Kept(v) = {o}
    <2>1. PICK o : o \in Kept(v)
      BY <1>1, Zenon
    <2>2. \A p, q \in Owned(v) : p = q
      BY Zenon DEF IInv, LifecycleInv, OnePodEach
    <2>3. Owned(v) = {o}
      BY <2>1, <2>2, <1>2, Zenon
    <2> QED
      BY <2>1, <2>3, <1>2, Zenon
  <1>4. pods' = (pods \ {o}) \cup {mark(o)}
    BY <1>1, <1>3, Zenon
  <1>5. TypeOK'
    <2>1. pods' \subseteq Pods
      BY <1>2, <1>3, <1>4, Zenon DEF IInv, TypeOK
    <2> QED
      BY <2>1, <1>1, Zenon DEF IInv, TypeOK, requestVars
  <1> HIDE DEF mark
  <1>6. ASSUME NEW u \in Uids, u # v
        PROVE  Owned(u)' = Owned(u)
    <2>1. o.uid = v /\ mark(o).uid = v
      BY <1>2, <1>3, Zenon DEF Owned
    <2>2. \A p : p \in Owned(u)' <=> p \in Owned(u)
      BY <1>6, <1>4, <2>1, OwnedPods, OwnedPodsNext, SMT
    <2> QED
      BY <2>2, Zenon
  <1>7. \A p \in Owned(v)' : p = mark(o)
    <2>1. ASSUME NEW p \in Owned(v)', p # mark(o)
          PROVE  FALSE
      <3>1. p \in pods /\ p # o /\ p \in Owned(v)
        <4>1. p \in pods' /\ p.uid = v /\ p.phase \in {"Pending", "Running"}
          BY <2>1, OwnedPodsNext, Zenon
        <4>2. p \in pods /\ p # o
          BY <4>1, <2>1, <1>4, Zenon
        <4> QED
          BY <4>1, <4>2, OwnedPods, Zenon
      <3> QED
        BY <3>1, <1>3, Zenon
    <2> QED
      BY <2>1, Zenon
  <1> QED
    BY <1>1, <1>3, <1>5, <1>6, <1>7, PodsOnly
      , SMT DEF IInv, LifecycleInv, OnePodEach

\* The Deployment controller: a ReplicaSet is brought up only when the
\* workload has no Pod, or the one Pod that is wanted.
LEMMA DeploymentIInv ==
    ASSUME IInv, DeploymentSync
    PROVE  IInv'
  <1> DEFINE u == deployment.uid
             rs == replicaSet[u]
             d == deployment
             target == [template |-> d.template, want |-> d.replicas]
             old == {p \in Owned(u) : p.template # d.template}
             up == \/ rs = NoReplicaSet
                   \/ rs.template = target.template
                   \/ d.strategy = "RollingUpdate"
                   \/ rs.want = 0 /\ old = {}
             next == IF up THEN target ELSE [rs EXCEPT !.want = 0]
             n == Cardinality(Kept(u))
  <1>1. /\ d # NoDeployment /\ d \in Deployments /\ u \in Uids
        /\ d.template \in Nat /\ d.replicas \in 0..1
        /\ d.generation \in Nat /\ d.observedGeneration \in Nat
        /\ replicaSet \in [Uids -> {NoReplicaSet} \cup ReplicaSets]
        /\ pods \subseteq Pods
    BY Zenon DEF IInv, TypeOK, DeploymentSync, Deployments
  <1>2. /\ deployment' = [d EXCEPT !.observedGeneration = d.generation,
                                   !.statusReplicas = n]
        /\ replicaSet' = [replicaSet EXCEPT ![u] = next]
        /\ UNCHANGED <<pods, fresh, evictions, requestVars>>
    BY Zenon DEF DeploymentSync
  <1>3. n \in 0..1
    BY <1>1, AtMostOne, Zenon DEF IInv, LifecycleInv, OnePodEach, Kept
  <1>4. /\ deployment' \in Deployments
        /\ deployment'.uid = u /\ deployment'.replicas = d.replicas
        /\ deployment'.template = d.template /\ deployment'.strategy = d.strategy
        /\ deployment'.signalled = d.signalled
        /\ deployment'.generation = d.generation
        /\ deployment'.observedGeneration = d.generation
    BY <1>1, <1>2, <1>3, Zenon DEF Deployments
  <1>5. /\ target \in ReplicaSets
        /\ target.template = d.template /\ target.want = d.replicas
    BY <1>1, Zenon DEF ReplicaSets
  <1>6. ASSUME ~up
        PROVE  /\ next \in ReplicaSets /\ next.template = rs.template
               /\ next.want = 0 /\ rs \in ReplicaSets
    <2>1. rs \in ReplicaSets
      BY <1>1, <1>6, Zenon
    <2> QED
      BY <1>6, <2>1, SMT DEF ReplicaSets
  <1>7. next \in ReplicaSets /\ next # NoReplicaSet
    <2>1. next \in ReplicaSets
      BY <1>5, <1>6, Zenon
    <2> QED
      BY <2>1, LifecycleAssumption, Zenon DEF ReplicaSets
  <1>8. /\ replicaSet'[u] = next
        /\ \A v \in Uids : v # u => replicaSet'[v] = replicaSet[v]
    BY <1>1, <1>2, Zenon
  <1>9. TypeOK'
    BY <1>1, <1>2, <1>4, <1>7, Zenon DEF IInv, TypeOK, requestVars
  <1>10. \A v : Owned(v)' = Owned(v)
    BY <1>2, Zenon DEF Owned, ActivePods
  <1>11. ScaleFollows
    BY Zenon DEF IInv, LifecycleInv
  <1>12. /\ rs = NoReplicaSet => Owned(u) = {}
         /\ rs # NoReplicaSet =>
               /\ rs \in ReplicaSets /\ rs.template <= d.template
               /\ \A p \in Owned(u) : p.template <= rs.template
               /\ d.replicas = 1 /\ rs.want = 0 /\ rs.template = d.template
                  => Owned(u) = {}
         /\ d.strategy = "RollingUpdate" =>
               rs # NoReplicaSet /\ rs.template = d.template
    BY <1>1, <1>11, Zenon DEF ScaleFollows
  <1>13. ASSUME up, d.replicas = 1, NEW p \in Owned(u)
         PROVE  ~p.deleting /\ p.template = d.template
    <2>1. rs # NoReplicaSet /\ rs \in ReplicaSets
      BY <1>12, <1>13, Zenon
    <2>2. CASE rs.template = d.template
      <3>1. rs.want = 1
        BY <2>1, <2>2, <1>12, <1>13, SMT DEF ReplicaSets
      <3> QED
        BY <3>1, <2>1, <2>2, <1>1, Zenon DEF IInv, LifecycleInv, OnePodEach
    <2>3. CASE rs.template # d.template
      <3>1. p.template = d.template
        BY <1>12, <1>13, <2>1, <2>3, Zenon
      <3>2. p.template <= rs.template /\ rs.template <= d.template
        BY <1>12, <2>1, Zenon
      <3> QED
        BY <3>1, <3>2, <2>1, <2>3, <1>1, SMT DEF ReplicaSets
    <2> QED
      BY <2>2, <2>3, Zenon
  <1>14. next.want = 1 => up /\ d.replicas = 1 /\ next = target
    BY <1>5, <1>6, SMT
  <1>15. OnePodEach'
    <2>1. \A p \in Owned(u) :
             next.want = 1 => ~p.deleting /\ p.template = next.template
      BY <1>13, <1>14, <1>5, Zenon
    <2> HIDE DEF next
    <2> QED
      BY <2>1, <1>1, <1>8, <1>10, Zenon DEF IInv, LifecycleInv, OnePodEach
  <1>16. \A p \in Owned(u) : p.template \in Nat
    BY <1>1, OwnedPods, SMT DEF Pods
  <1>17. /\ next.template <= d.template
         /\ \A p \in Owned(u) : p.template <= next.template
         /\ d.replicas = 1 /\ next.want = 0 /\ next.template = d.template
            => Owned(u) = {}
         /\ d.strategy = "RollingUpdate" => next.template = d.template
    <2>1. CASE up
      <3>1. next = target
        BY <2>1, Zenon
      <3>2. \A p \in Owned(u) : p.template <= d.template
        <4>1. CASE rs = NoReplicaSet
          BY <4>1, <1>12, Zenon
        <4>2. CASE rs # NoReplicaSet
          BY <4>2, <1>12, <1>16, <1>1, SMT DEF ReplicaSets
        <4> QED
          BY <4>1, <4>2, Zenon
      <3> QED
        BY <3>1, <3>2, <1>1, <1>5, SMT
    <2>2. CASE ~up
      <3>1. rs # NoReplicaSet /\ rs.template # d.template
        BY <2>2, <1>5, Zenon
      <3> QED
        BY <3>1, <2>2, <1>6, <1>12, Zenon
    <2> QED
      BY <2>1, <2>2, Zenon
  <1>18. d.replicas = 0 => next.want = 0
    BY <1>5, <1>6, Zenon
  <1> HIDE DEF next, up, old, n, target
  <1>19. ScaleFollows'
    BY <1>4, <1>7, <1>8, <1>10, <1>17, Zenon DEF ScaleFollows
  <1>20. ObservedIsDone'
    BY <1>1, <1>4, <1>8, <1>18, SMT DEF ObservedIsDone, Settled
  <1>21. FreshUnused'
    <2>1. \A v \in fresh : v \in Uids /\ v # u
      BY <1>1, Zenon DEF IInv, TypeOK, LifecycleInv, FreshUnused, Exists
    <2> QED
      BY <2>1, <1>2, <1>4, <1>8, <1>10
        , Zenon DEF IInv, LifecycleInv, FreshUnused, Exists, requestVars
  <1>22. LocksHeld'
    BY <1>2, Zenon DEF IInv, LifecycleInv, LocksHeld, requestVars
  <1>23. ReadsHold'
    <2>1. ASSUME NEW r \in Requests, Exists(critical[r])'
          PROVE  /\ critical[r] = u /\ Exists(critical[r])
                 /\ d.replicas = 0 => Settled(critical[r])'
      BY <2>1, <1>1, <1>2, <1>4, <1>8, <1>18, Zenon DEF Exists, Settled, requestVars
    <2> QED
      BY <2>1, <1>2, <1>4, <1>10
        , Zenon DEF IInv, LifecycleInv, ReadsHold, requestVars
  <1>24. NoStaleSignal'
    BY <1>1, <1>4, Zenon DEF IInv, LifecycleInv, NoStaleSignal
  <1> QED
    BY <1>9, <1>15, <1>19, <1>20, <1>21, <1>22, <1>23, <1>24
      , Zenon DEF IInv, LifecycleInv

\* The collector deletes the ReplicaSet of a workload that is gone.
LEMMA CollectReplicaSetIInv ==
    ASSUME IInv, NEW v \in Uids, CollectReplicaSet(v)
    PROVE  IInv'
  <1>1. /\ ~Exists(v) /\ replicaSet' = [replicaSet EXCEPT ![v] = NoReplicaSet]
        /\ UNCHANGED <<deployment, pods, fresh, evictions, requestVars>>
    BY Zenon DEF CollectReplicaSet
  <1>2. /\ replicaSet'[v] = NoReplicaSet
        /\ \A u \in Uids : u # v => replicaSet'[u] = replicaSet[u]
    BY <1>1, Zenon DEF IInv, TypeOK
  <1>3. \A u : Owned(u)' = Owned(u)
    BY <1>1, Zenon DEF Owned, ActivePods
  <1>4. TypeOK'
    BY <1>1, Zenon DEF IInv, TypeOK, requestVars
  <1>5. OnePodEach'
    BY <1>2, <1>3, Zenon DEF IInv, LifecycleInv, OnePodEach
  <1>6. deployment # NoDeployment => /\ deployment.uid \in Uids
                                     /\ deployment.uid # v
    BY <1>1, Zenon DEF IInv, TypeOK, Deployments, Exists
  <1>7. ScaleFollows' /\ ObservedIsDone' /\ NoStaleSignal'
    BY <1>1, <1>2, <1>3, <1>6
      , Zenon DEF IInv, LifecycleInv, ScaleFollows, ObservedIsDone, Settled,
           NoStaleSignal
  <1>8. FreshUnused' /\ LocksHeld'
    BY <1>1, <1>2, <1>3
      , Zenon DEF IInv, TypeOK, LifecycleInv, FreshUnused, LocksHeld, Exists, requestVars
  <1>9. ReadsHold'
    <2>1. \A r \in Requests :
             Exists(critical[r]) => Settled(critical[r])' = Settled(critical[r])
      BY <1>1, <1>2, <1>6, Zenon DEF Exists, Settled, requestVars
    <2> QED
      BY <2>1, <1>1, <1>3
        , Zenon DEF IInv, LifecycleInv, ReadsHold, Exists, requestVars
  <1> QED
    BY <1>4, <1>5, <1>7, <1>8, <1>9, Zenon DEF IInv, LifecycleInv

\* r stays in, or returns from, its operation: the locks fit the new step.
LEMMA Moves ==
    ASSUME IInv, NEW r \in Requests, NEW to, pc[r] # "idle", pc[r] # "done",
           pc' = [pc EXCEPT ![r] = to], UNCHANGED critical,
           to \in {"locked", "get", "list", "scaleUp"}
    PROVE  LocksHeld' /\ pc' \in [Requests -> {"idle", "locked", "get", "list",
                                               "scaleUp", "done"}]
  BY Zenon DEF IInv, TypeOK, LifecycleInv, LocksHeld

LEMMA Returns ==
    ASSUME IInv, NEW r \in Requests, NEW res \in {"ok", "error"}, Return(r, res)
    PROVE  /\ LocksHeld'
           /\ pc' = [pc EXCEPT ![r] = "done"]
           /\ result' \in [Requests -> {"none", "ok", "error"}]
           /\ critical' \in [Requests -> Uids \cup {NoUid}]
           /\ critical'[r] = NoUid /\ pc'[r] = "done"
           /\ \A s \in Requests : s # r => /\ critical'[s] = critical[s]
                                           /\ pc'[s] = pc[s]
           /\ pc' \in [Requests -> {"idle", "locked", "get", "list",
                                    "scaleUp", "done"}]
  <1>1. /\ critical \in [Requests -> Uids \cup {NoUid}]
        /\ pc \in [Requests -> {"idle", "locked", "get", "list",
                                "scaleUp", "done"}]
        /\ result \in [Requests -> {"none", "ok", "error"}]
        /\ LocksHeld
    BY Zenon DEF IInv, TypeOK, LifecycleInv
  <1>2. critical' = [critical EXCEPT ![r] = NoUid]
    <2>1. CASE critical[r] = NoUid
      BY <2>1, <1>1, Zenon DEF Return
    <2>2. CASE critical[r] # NoUid
      BY <2>2, Zenon DEF Return, Mutex!Leave
    <2> QED
      BY <2>1, <2>2, Zenon
  <1>3. /\ pc' = [pc EXCEPT ![r] = "done"]
        /\ result' = [result EXCEPT ![r] = res]
    BY Zenon DEF Return
  <1>4. /\ critical'[r] = NoUid /\ pc'[r] = "done"
        /\ \A s \in Requests : s # r => /\ critical'[s] = critical[s]
                                        /\ pc'[s] = pc[s]
        /\ critical' \in [Requests -> Uids \cup {NoUid}]
        /\ pc' \in [Requests -> {"idle", "locked", "get", "list",
                                 "scaleUp", "done"}]
    BY <1>1, <1>2, <1>3, Zenon
  <1>5. LocksHeld'
    BY <1>1, <1>4, SMTT(30) DEF LocksHeld
  <1> QED
    BY <1>1, <1>3, <1>4, <1>5, Zenon

\* A step that leaves the cluster alone keeps what is said of it.
LEMMA ClusterUntouched ==
    ASSUME IInv, UNCHANGED clusterVars
    PROVE  /\ OnePodEach' /\ ScaleFollows' /\ ObservedIsDone' /\ NoStaleSignal'
           /\ \A u : Owned(u)' = Owned(u)
           /\ \A u : Settled(u)' = Settled(u) /\ Exists(u)' = Exists(u)
  <1> USE DEF clusterVars
  <1>1. /\ \A u : Owned(u)' = Owned(u)
        /\ \A u : Settled(u)' = Settled(u) /\ Exists(u)' = Exists(u)
    BY Zenon DEF Owned, ActivePods, Settled, Exists
  <1> QED
    BY <1>1, Zenon DEF IInv, LifecycleInv, OnePodEach, ScaleFollows, ObservedIsDone,
                NoStaleSignal

\* A request that returns without changing the cluster.
LEMMA ReturnIInv ==
    ASSUME IInv, NEW r \in Requests, NEW res \in {"ok", "error"}, Return(r, res),
           UNCHANGED <<clusterVars, op, started, stopped>>
    PROVE  IInv'
  <1>1. TypeOK'
    BY Returns, Zenon DEF IInv, TypeOK, clusterVars
  <1>2. FreshUnused'
    <2>1. \A s \in Requests : critical'[s] \in {critical[s], NoUid}
      BY Returns, Zenon
    <2>2. \A u \in fresh : u # NoUid
      BY LifecycleAssumption, Zenon DEF IInv, TypeOK
    <2> QED
      BY <2>1, <2>2, ClusterUntouched
        , Zenon DEF IInv, LifecycleInv, FreshUnused, clusterVars
  <1>3. ReadsHold'
    <2>1. \A s \in Requests : \/ pc'[s] = "done"
                              \/ pc'[s] = pc[s] /\ critical'[s] = critical[s]
      BY Returns, Zenon
    <2> QED
      BY <2>1, ClusterUntouched
        , Zenon DEF IInv, LifecycleInv, ReadsHold, clusterVars
  <1> QED
    BY <1>1, <1>2, <1>3, Returns, ClusterUntouched, Zenon DEF IInv, LifecycleInv

\* The Deployment is deleted, and the request that does so waits.
LEMMA GoneInv ==
    ASSUME IInv, deployment' = NoDeployment,
           UNCHANGED <<replicaSet, pods, fresh, critical, op, started, stopped>>,
           \/ UNCHANGED pc
           \/ \E r \in Requests : /\ op[r] # "start"
                                  /\ pc' = [pc EXCEPT ![r] = "get"]
    PROVE  /\ OnePodEach' /\ ScaleFollows' /\ ObservedIsDone' /\ NoStaleSignal'
           /\ FreshUnused' /\ ReadsHold'
  <1>1. \A u : Owned(u)' = Owned(u) /\ ~Exists(u)'
    BY Zenon DEF Owned, ActivePods, Exists
  <1>2. /\ OnePodEach' /\ ScaleFollows' /\ ObservedIsDone' /\ NoStaleSignal'
    BY <1>1
      , Zenon DEF IInv, LifecycleInv, OnePodEach, ScaleFollows, ObservedIsDone,
                NoStaleSignal
  <1>3. FreshUnused'
    BY <1>1, Zenon DEF IInv, LifecycleInv, FreshUnused
  <1>4. ReadsHold'
    <2>1. \A s \in Requests : \/ pc'[s] = pc[s]
                              \/ op[s] # "start"
      BY Zenon DEF IInv, TypeOK
    <2> QED
      BY <2>1, <1>1, Zenon DEF IInv, LifecycleInv, ReadsHold
  <1> QED
    BY <1>2, <1>3, <1>4, Zenon

LEMMA DeletedIInv ==
    ASSUME IInv, DeletedOutside
    PROVE  IInv'
  <1>1. /\ deployment' = NoDeployment
        /\ UNCHANGED <<replicaSet, pods, fresh, evictions, requestVars>>
    BY Zenon DEF DeletedOutside
  <1>2. TypeOK' /\ LocksHeld'
    BY <1>1, Zenon DEF IInv, TypeOK, LifecycleInv, LocksHeld, requestVars
  <1> QED
    BY <1>1, <1>2, GoneInv, Zenon DEF IInv, LifecycleInv, requestVars

LEMMA RmDeletesIInv ==
    ASSUME IInv, NEW r \in Requests, RmDeletes(r)
    PROVE  IInv'
  <1>1. /\ deployment' = NoDeployment /\ op[r] # "start" /\ pc[r] = "locked"
        /\ pc' = [pc EXCEPT ![r] = "get"]
        /\ UNCHANGED <<replicaSet, pods, fresh, evictions,
                       critical, op, started, stopped, result>>
    BY Zenon DEF RmDeletes, Goto
  <1>2. LocksHeld' /\ TypeOK'
    BY <1>1, Moves, Zenon DEF IInv, TypeOK
  <1> QED
    BY <1>1, <1>2, GoneInv, Zenon DEF IInv, LifecycleInv

\* What updateContainerDeployment writes: d, under Recreate if the template
\* is new, as a new generation if the spec is.
LEMMA Updates ==
    ASSUME IInv, NEW r \in Requests, NEW d \in Deployments, UpdateDeployment(r, d),
           d.uid = deployment.uid, d.generation = deployment.generation,
           d.observedGeneration = deployment.observedGeneration
    PROVE  /\ deployment \in Deployments /\ deployment # NoDeployment
           /\ critical[r] = deployment.uid
           /\ deployment' \in Deployments
           /\ deployment'.uid = deployment.uid
           /\ deployment'.replicas = d.replicas
           /\ deployment'.template = d.template
           /\ deployment'.signalled = d.signalled
           /\ deployment'.observedGeneration = deployment.observedGeneration
           /\ deployment'.generation >= deployment.generation
           /\ deployment'.generation = deployment.generation =>
                 deployment'.replicas = deployment.replicas
           /\ deployment'.strategy = "RollingUpdate" =>
                 /\ d.template = deployment.template
                 /\ d.strategy = "RollingUpdate"
  <1> DEFINE e == IF d.template = deployment.template THEN d
                  ELSE [d EXCEPT !.strategy = "Recreate"]
             same == <<e.replicas, e.template, e.strategy>> =
                     <<deployment.replicas, deployment.template,
                       deployment.strategy>>
  <1>1. /\ deployment \in Deployments /\ deployment # NoDeployment
        /\ critical[r] = deployment.uid
    BY Zenon DEF UpdateDeployment, Exists, IInv, TypeOK
  <1>2. deployment' = IF same THEN e ELSE [e EXCEPT !.generation = @ + 1]
    BY Zenon DEF UpdateDeployment
  <1>3. /\ e \in Deployments /\ e.uid = d.uid /\ e.replicas = d.replicas
        /\ e.template = d.template /\ e.signalled = d.signalled
        /\ e.observedGeneration = d.observedGeneration
        /\ e.generation = d.generation
        /\ e.strategy = "RollingUpdate" =>
              d.template = deployment.template /\ d.strategy = "RollingUpdate"
    BY Zenon DEF Deployments
  <1>4. same => e.replicas = deployment.replicas
    BY Zenon
  <1>5. d.generation \in Nat
    BY Zenon DEF Deployments
  <1> HIDE DEF e, same
  <1>6. CASE same
    BY <1>1, <1>2, <1>3, <1>4, <1>5, <1>6, SMTT(30)
  <1>7. CASE ~same
    <2>1. deployment' = [e EXCEPT !.generation = e.generation + 1]
      BY <1>2, <1>7, Zenon
    <2>2. /\ deployment' \in Deployments /\ deployment'.uid = e.uid
          /\ deployment'.replicas = e.replicas
          /\ deployment'.template = e.template
          /\ deployment'.signalled = e.signalled
          /\ deployment'.observedGeneration = e.observedGeneration
          /\ deployment'.generation = e.generation + 1
          /\ deployment'.strategy = e.strategy
      BY <2>1, <1>3, SMT DEF Deployments
    <2> QED
      BY <2>2, <1>1, <1>3, <1>5, SMT
  <1> QED
    BY <1>6, <1>7, Zenon

\* A request that holds the lock writes the Deployment and goes on to wait or
\* returns. It brings the scale to one only if the workload has no Pod or is
\* already at one, or under a later template.
LEMMA WriteInv ==
    ASSUME IInv, NEW r \in Requests, NEW d \in Deployments, UpdateDeployment(r, d),
           d.uid = deployment.uid, d.generation = deployment.generation,
           d.observedGeneration = deployment.observedGeneration,
           d.template >= deployment.template,
           d.strategy \in {"Recreate", deployment.strategy},
           d.replicas = 1 => ~d.signalled,
           /\ d.replicas = 1
           /\ d.template = deployment.template
           => deployment.replicas = 1 \/ Owned(deployment.uid) = {},
           UNCHANGED <<replicaSet, pods, fresh, op, started, stopped>>,
           \/ /\ critical' = critical /\ op[r] # "start"
              /\ pc' = [pc EXCEPT ![r] = "get"]
           \/ \E res \in {"ok", "error"} : Return(r, res)
    PROVE  /\ OnePodEach' /\ ScaleFollows' /\ ObservedIsDone' /\ NoStaleSignal'
           /\ FreshUnused' /\ ReadsHold'
  <1> DEFINE u == deployment.uid
             rs == replicaSet[u]
  <1>1. /\ deployment \in Deployments /\ deployment # NoDeployment
        /\ critical[r] = u /\ u \in Uids
        /\ deployment' \in Deployments /\ deployment'.uid = u
        /\ deployment'.replicas = d.replicas
        /\ deployment'.template = d.template
        /\ deployment'.signalled = d.signalled
        /\ deployment'.observedGeneration = deployment.observedGeneration
        /\ deployment'.generation >= deployment.generation
        /\ deployment'.generation = deployment.generation =>
              deployment'.replicas = deployment.replicas
        /\ deployment'.strategy = "RollingUpdate" =>
              d.template = deployment.template /\ d.strategy = "RollingUpdate"
    BY Updates, ZenonT(30) DEF Deployments
  <1>2. /\ deployment.template \in Nat /\ d.template \in Nat
        /\ deployment.generation \in Nat /\ deployment'.generation \in Nat
        /\ deployment.observedGeneration \in Nat /\ d.replicas \in 0..1
        /\ rs \in {NoReplicaSet} \cup ReplicaSets
    BY <1>1, Zenon DEF Deployments, IInv, TypeOK
  <1>3. \A v : Owned(v)' = Owned(v) /\ Settled(v)' = Settled(v)
    BY Zenon DEF Owned, ActivePods, Settled
  <1>4. OnePodEach' /\ NoStaleSignal'
    BY <1>1, <1>2, <1>3, SMTT(30)
       DEF IInv, LifecycleInv, OnePodEach, NoStaleSignal
  <1>5. ScaleFollows'
    <2>1. /\ rs = NoReplicaSet => Owned(u) = {}
          /\ rs # NoReplicaSet =>
                /\ rs.template <= deployment.template
                /\ \A p \in Owned(u) : p.template <= rs.template
                /\ /\ deployment.replicas = 1 /\ rs.want = 0
                   /\ rs.template = deployment.template
                   => Owned(u) = {}
          /\ deployment.strategy = "RollingUpdate" =>
                rs # NoReplicaSet /\ rs.template = deployment.template
      BY <1>1, Zenon DEF IInv, LifecycleInv, ScaleFollows
    <2>2. ASSUME rs # NoReplicaSet
          PROVE  /\ rs.template <= d.template
                 /\ d.replicas = 1 /\ rs.want = 0 /\ rs.template = d.template
                    => Owned(u) = {}
      <3>1. rs.template \in Nat /\ rs.template <= deployment.template
        BY <2>1, <2>2, <1>2, Zenon DEF ReplicaSets
      <3>2. rs.template <= d.template
        BY <3>1, <1>2, SMT
      <3>3. rs.template = d.template => d.template = deployment.template
        BY <3>1, <1>2, SMT
      <3> QED
        BY <3>2, <3>3, <2>1, <2>2, Zenon
    <2>3. d.strategy = "RollingUpdate" => deployment.strategy = "RollingUpdate"
      BY Zenon
    <2> QED
      BY <2>1, <2>2, <2>3, <1>1, <1>3, Zenon DEF ScaleFollows
  <1>6. ObservedIsDone'
    BY <1>1, <1>2, <1>3, SMTT(30) DEF IInv, LifecycleInv, ObservedIsDone
  <1>7. \A s \in Requests : s # r => critical[s] # u
    BY <1>1, LifecycleAssumption, SMTT(30) DEF IInv, LifecycleInv, LocksHeld
  <1>8. \A s \in Requests : /\ critical'[s] \in {critical[s], NoUid}
                            /\ s # r => pc'[s] = pc[s]
    <2>1. CASE \E res \in {"ok", "error"} : Return(r, res)
      BY <2>1, Returns, Zenon
    <2>2. CASE critical' = critical /\ pc' = [pc EXCEPT ![r] = "get"]
      BY <2>2, Zenon DEF IInv, TypeOK
    <2> QED
      BY <2>1, <2>2, Zenon
  <1>9. \/ pc'[r] = "done"
        \/ pc'[r] = "get" /\ op[r] # "start"
    <2>1. CASE \E res \in {"ok", "error"} : Return(r, res)
      BY <2>1, Returns, Zenon
    <2>2. CASE op[r] # "start" /\ pc' = [pc EXCEPT ![r] = "get"]
      BY <2>2, Zenon DEF IInv, TypeOK
    <2> QED
      BY <2>1, <2>2, Zenon
  <1>10. \A v : Exists(v)' => v = u
    BY <1>1, Zenon DEF Exists
  <1>11. u \notin fresh
    BY <1>1, Zenon DEF IInv, LifecycleInv, FreshUnused, Exists
  <1>12. FreshUnused'
    <2>1. \A v \in fresh : v # NoUid
      BY LifecycleAssumption, Zenon DEF IInv, TypeOK
    <2> QED
      BY <2>1, <1>3, <1>8, <1>10, <1>11
        , Zenon DEF IInv, LifecycleInv, FreshUnused
  <1>13. ReadsHold'
    <2>1. ASSUME NEW s \in Requests, s # r
          PROVE  ~Exists(critical[s])'
      <3>1. critical'[s] # u
        BY <2>1, <1>1, <1>7, <1>8, LifecycleAssumption, SMT
      <3> QED
        BY <3>1, <1>1, Zenon DEF Exists
    <2> QED
      BY <2>1, <1>8, <1>9, Zenon DEF IInv, LifecycleInv, ReadsHold
  <1> QED
    BY <1>4, <1>5, <1>6, <1>12, <1>13, Zenon

\* What setContainerReplicas writes.
LEMMA Scales ==
    ASSUME deployment \in Deployments, NEW n \in 0..1, NEW t \in Nat
    PROVE  /\ WithReplicas(n, t) \in Deployments
           /\ WithReplicas(n, t).uid = deployment.uid
           /\ WithReplicas(n, t).generation = deployment.generation
           /\ WithReplicas(n, t).observedGeneration = deployment.observedGeneration
           /\ WithReplicas(n, t).replicas = n
           /\ WithReplicas(n, t).strategy = "Recreate"
           /\ WithReplicas(n, t).template = t
           /\ n = 1 => ~WithReplicas(n, t).signalled
  <1>1. PICK signal \in BOOLEAN : signal = IF n > 0 THEN FALSE ELSE deployment.signalled
    BY Zenon DEF Deployments
  <1>2. WithReplicas(n, t) =
            [deployment EXCEPT !.replicas = n, !.strategy = "Recreate",
                               !.signalled = signal, !.template = t]
    BY <1>1, Zenon DEF WithReplicas
  <1>3. WithReplicas(n, t) \in Deployments
    BY <1>2, Zenon DEF Deployments
  <1>4. /\ WithReplicas(n, t).uid = deployment.uid
        /\ WithReplicas(n, t).generation = deployment.generation
        /\ WithReplicas(n, t).observedGeneration = deployment.observedGeneration
        /\ WithReplicas(n, t).replicas = n
        /\ WithReplicas(n, t).strategy = "Recreate"
        /\ WithReplicas(n, t).template = t
    BY <1>2, Zenon DEF Deployments
  <1>5. WithReplicas(n, t).signalled = signal
    BY <1>2, Zenon DEF Deployments
  <1>6. n = 1 => ~signal
    BY <1>1, SMT
  <1> QED
    BY <1>3, <1>4, <1>5, <1>6, Zenon

\* What ContainerKill writes.
LEMMA Kills ==
    ASSUME deployment \in Deployments
    PROVE  /\ Killed \in Deployments /\ Killed.uid = deployment.uid
           /\ Killed.generation = deployment.generation
           /\ Killed.observedGeneration = deployment.observedGeneration
           /\ Killed.replicas = 0 /\ Killed.strategy = deployment.strategy
           /\ Killed.template = deployment.template
  <1>0. PICK n \in 0..1 : n = 0
    BY SMT
  <1>1. PICK signal \in BOOLEAN : signal = TRUE
    BY Zenon
  <1>2. Killed = [deployment EXCEPT !.replicas = n, !.signalled = signal]
    BY <1>0, <1>1, Zenon DEF Killed
  <1>3. Killed \in Deployments
    BY <1>2, Zenon DEF Deployments
  <1> QED
    BY <1>0, <1>2, <1>3, Zenon DEF Deployments

\* The steps that write the Deployment.
LEMMA WritersIInv ==
    ASSUME IInv, NEW r \in Requests,
           \/ ContainerStop(r) \/ RestartScalesDown(r) \/ ContainerKill(r)
           \/ ContainerUpdate(r) \/ StartScalesUp(r) \/ RestartScalesUp(r)
    PROVE  IInv'
  <1>1. deployment \in Deployments /\ critical[r] = deployment.uid
    BY Zenon DEF IInv, TypeOK, ContainerStop, RestartScalesDown, ContainerKill,
           ContainerUpdate, StartScalesUp, RestartScalesUp, UpdateDeployment,
           Exists
  <1>2. /\ deployment.template \in Nat /\ deployment.template + 1 \in Nat
        /\ deployment.replicas \in 0..1 /\ deployment.signalled \in BOOLEAN
        /\ 0 \in 0..1 /\ 1 \in 0..1
    BY <1>1, SMT DEF Deployments
  <1>3. ASSUME NEW d \in Deployments, UpdateDeployment(r, d),
               d.uid = deployment.uid, d.generation = deployment.generation,
               d.observedGeneration = deployment.observedGeneration,
               UNCHANGED <<replicaSet, pods, fresh, evictions, op, started,
                           stopped>>,
               \/ /\ UNCHANGED <<critical, result>> /\ pc[r] = "locked"
                  /\ pc' = [pc EXCEPT ![r] = "get"]
               \/ \E res \in {"ok", "error"} : Return(r, res)
        PROVE  TypeOK' /\ LocksHeld'
    <2>1. deployment' \in Deployments
      BY <1>3, Updates, Zenon
    <2>2. CASE \E res \in {"ok", "error"} : Return(r, res)
      BY <2>1, <2>2, <1>3, Returns, Zenon DEF IInv, TypeOK
    <2>3. CASE /\ UNCHANGED <<critical, result>> /\ pc[r] = "locked"
               /\ pc' = [pc EXCEPT ![r] = "get"]
      BY <2>1, <2>3, <1>3, Moves, Zenon DEF IInv, TypeOK
    <2> QED
      BY <1>3, <2>2, <2>3, Zenon
  <1>4. CASE ContainerStop(r) \/ RestartScalesDown(r)
    <2> DEFINE d == WithReplicas(0, deployment.template)
    <2>1. /\ UpdateDeployment(r, d) /\ op[r] # "start" /\ pc[r] = "locked"
          /\ pc' = [pc EXCEPT ![r] = "get"]
          /\ UNCHANGED <<replicaSet, pods, fresh, evictions,
                         critical, op, started, stopped, result>>
      BY <1>4, Zenon DEF ContainerStop, RestartScalesDown, Goto
    <2>2. /\ d \in Deployments /\ d.uid = deployment.uid
          /\ d.generation = deployment.generation
          /\ d.observedGeneration = deployment.observedGeneration
          /\ d.replicas = 0 /\ d.strategy = "Recreate"
          /\ d.template = deployment.template
      BY <1>1, <1>2, Scales, ZenonT(30)
    <2>3. d.template >= deployment.template
      BY <2>2, <1>2, SMT
    <2> HIDE DEF d
    <2>4. TypeOK' /\ LocksHeld'
      BY <2>1, <2>2, <1>3, Zenon
    <2>5. /\ OnePodEach' /\ ScaleFollows' /\ ObservedIsDone' /\ NoStaleSignal'
          /\ FreshUnused' /\ ReadsHold'
      <3>1. /\ critical' = critical /\ op[r] # "start"
            /\ pc' = [pc EXCEPT ![r] = "get"]
            /\ UNCHANGED <<replicaSet, pods, fresh, op, started, stopped>>
        BY <2>1, Zenon
      <3>2. d.replicas # 1 /\ d.strategy \in {"Recreate", deployment.strategy}
        BY <2>2, SMT
      <3> QED
        BY <3>1, <3>2, <2>1, <2>2, <2>3, WriteInv, Zenon
    <2> QED
      BY <2>4, <2>5, Zenon DEF IInv, LifecycleInv
  <1>5. CASE ContainerKill(r)
    <2>1. /\ UpdateDeployment(r, Killed) /\ Return(r, "ok")
          /\ UNCHANGED <<replicaSet, pods, fresh, evictions, op, started, stopped>>
      BY <1>5, Zenon DEF ContainerKill
    <2>2. /\ Killed \in Deployments /\ Killed.uid = deployment.uid
          /\ Killed.generation = deployment.generation
          /\ Killed.observedGeneration = deployment.observedGeneration
          /\ Killed.replicas = 0 /\ Killed.strategy = deployment.strategy
          /\ Killed.template = deployment.template
      BY <1>1, Kills, Zenon
    <2>3. Killed.template >= deployment.template
      BY <2>2, <1>2, SMTT(30)
    <2>4. TypeOK' /\ LocksHeld'
      BY <2>1, <2>2, <1>3, Zenon
    <2> QED
      BY <2>1, <2>2, <2>3, <2>4, WriteInv, SMT DEF IInv, LifecycleInv
  <1>6. CASE ContainerUpdate(r)
    <2> DEFINE d == [deployment EXCEPT !.template = @ + 1]
    <2>1. /\ UpdateDeployment(r, d) /\ Return(r, "ok")
          /\ UNCHANGED <<replicaSet, pods, fresh, evictions, op, started, stopped>>
      BY <1>6, Zenon DEF ContainerUpdate
    <2>2. /\ d \in Deployments /\ d.uid = deployment.uid
          /\ d.generation = deployment.generation
          /\ d.observedGeneration = deployment.observedGeneration
          /\ d.replicas = deployment.replicas
          /\ d.signalled = deployment.signalled
          /\ d.strategy = deployment.strategy
          /\ d.template = deployment.template + 1
      BY <1>1, <1>2, Zenon DEF Deployments
    <2>3. d.replicas = 1 => ~d.signalled
      BY <2>1, <2>2, <1>1, <1>2
        , SMT DEF IInv, LifecycleInv, NoStaleSignal, UpdateDeployment, Exists
    <2>4. d.template >= deployment.template /\ d.template # deployment.template
      BY <2>2, <1>2, SMTT(30)
    <2> HIDE DEF d
    <2>5. TypeOK' /\ LocksHeld'
      BY <2>1, <2>2, <1>3, Zenon
    <2> QED
      BY <2>1, <2>2, <2>3, <2>4, <2>5, WriteInv, Zenon DEF IInv, LifecycleInv
  <1>7. CASE StartScalesUp(r)
    <2> DEFINE d == WithReplicas(1, deployment.template)
    <2>1. /\ UpdateDeployment(r, d) /\ Return(r, "ok")
          /\ op[r] = "start" /\ pc[r] = "scaleUp"
          /\ UNCHANGED <<replicaSet, pods, fresh, evictions, op, started, stopped>>
      BY <1>7, Zenon DEF StartScalesUp
    <2>2. /\ d \in Deployments /\ d.uid = deployment.uid
          /\ d.generation = deployment.generation
          /\ d.observedGeneration = deployment.observedGeneration
          /\ d.replicas = 1 /\ d.strategy = "Recreate" /\ ~d.signalled
          /\ d.template = deployment.template
      BY <1>1, <1>2, Scales, SMTT(30)
    <2>3. d.template >= deployment.template
      BY <2>2, <1>2, SMT
    <2>4. deployment.replicas = 1 \/ Owned(deployment.uid) = {}
      BY <2>1, <1>1
        , Zenon DEF IInv, TypeOK, LifecycleInv, ReadsHold, UpdateDeployment
    <2> HIDE DEF d
    <2>5. TypeOK' /\ LocksHeld'
      BY <2>1, <2>2, <1>3, Zenon
    <2> QED
      BY <2>1, <2>2, <2>3, <2>4, <2>5, WriteInv
        , Zenon DEF IInv, LifecycleInv
  <1>8. CASE RestartScalesUp(r)
    <2> DEFINE d == WithReplicas(1, deployment.template + 1)
    <2>1. /\ UpdateDeployment(r, d) /\ Return(r, "ok")
          /\ UNCHANGED <<replicaSet, pods, fresh, evictions, op, started, stopped>>
      BY <1>8, Zenon DEF RestartScalesUp
    <2>2. /\ d \in Deployments /\ d.uid = deployment.uid
          /\ d.generation = deployment.generation
          /\ d.observedGeneration = deployment.observedGeneration
          /\ d.replicas = 1 /\ d.strategy = "Recreate" /\ ~d.signalled
          /\ d.template = deployment.template + 1
      BY <1>1, <1>2, Scales, SMT
    <2>3. d.template >= deployment.template /\ d.template # deployment.template
      BY <2>2, <1>2, SMTT(30)
    <2> HIDE DEF d
    <2>4. TypeOK' /\ LocksHeld'
      BY <2>1, <2>2, <1>3, Zenon
    <2> QED
      BY <2>1, <2>2, <2>3, <2>4, WriteInv, Zenon DEF IInv, LifecycleInv
  <1> QED
    BY <1>4, <1>5, <1>6, <1>7, <1>8, Zenon

\* The steps of a request that read the cluster and go on.
LEMMA ReadersIInv ==
    ASSUME IInv, NEW r \in Requests,
           \/ StartChecks(r) \/ WaitGets(r) \/ WaitPolls(r)
           \/ WaitEnds(r) /\ op[r] \in {"start", "restart"}
    PROVE  IInv'
  <1> DEFINE to == pc'[r]
  <1>1. /\ UNCHANGED <<clusterVars, critical, op, started, result>>
        /\ pc' = [pc EXCEPT ![r] = to]
        /\ pc[r] \in {"locked", "get", "list"}
        /\ to \in {"get", "list", "scaleUp"}
        /\ \A s \in Requests : s # r => pc'[s] = pc[s] /\ stopped'[s] = stopped[s]
        /\ stopped' \in [Requests -> BOOLEAN]
    BY Zenon DEF IInv, TypeOK, StartChecks, WaitGets, WaitPolls, WaitEnds, Goto
  <1>2. LocksHeld' /\ TypeOK'
    BY <1>1, Moves, SMT DEF IInv, TypeOK, clusterVars
  <1>3. FreshUnused'
    BY <1>1, ClusterUntouched, Zenon DEF IInv, LifecycleInv, FreshUnused, clusterVars
  <1>4. ReadsHold'
    <2>1. ASSUME NEW s \in Requests, s # r
          PROVE  /\ pc'[s] = pc[s] /\ stopped'[s] = stopped[s]
                 /\ critical'[s] = critical[s] /\ op'[s] = op[s]
                 /\ started'[s] = started[s]
      BY <2>1, <1>1, Zenon
    <2>2. /\ to \in {"get", "list"} /\ op[r] = "start" => ~started[r]
      BY Zenon DEF IInv, TypeOK, LifecycleInv, ReadsHold, StartChecks, WaitGets,
             WaitPolls, WaitEnds, Goto
    <2>3. ASSUME Exists(critical[r])
          PROVE  /\ to = "scaleUp" /\ started[r] /\ op[r] = "start" =>
                       deployment.replicas = 1
                 /\ to = "list" /\ stopped'[r] =>
                       deployment.replicas = 0 /\ Settled(critical[r])
                 /\ to = "scaleUp" /\ (~started[r] \/ op[r] = "restart") =>
                       /\ deployment.replicas = 0 /\ Settled(critical[r])
                       /\ Owned(critical[r]) = {}
      <3>1. CASE StartChecks(r)
        BY <3>1, <2>3
          , Zenon DEF IInv, TypeOK, LifecycleInv, ReadsHold, StartChecks, Goto
      <3>2. CASE WaitGets(r)
        <4>1. to = "list" /\ stopped'[r] =>
                 /\ deployment.replicas = 0
                 /\ deployment.observedGeneration >= deployment.generation
          BY <3>2, <2>3, Zenon DEF IInv, TypeOK, WaitGets, Goto, Exists
        <4>2. /\ deployment # NoDeployment /\ deployment.uid = critical[r]
              /\ deployment.observedGeneration \in Nat
              /\ deployment.generation \in Nat
          BY <2>3, Zenon DEF IInv, TypeOK, Exists, Deployments
        <4>3. to = "list" /\ stopped'[r] => Settled(critical[r])
          BY <4>1, <4>2, SMT DEF IInv, LifecycleInv, ObservedIsDone
        <4>4. to = "list"
          BY <3>2, Zenon DEF IInv, TypeOK, WaitGets, Goto
        <4> QED
          BY <4>1, <4>3, <4>4, Zenon
      <3>3. CASE WaitPolls(r)
        BY <3>3, Zenon DEF IInv, TypeOK, WaitPolls, Goto
      <3>4. CASE WaitEnds(r) /\ op[r] \in {"start", "restart"}
        <4>1. /\ pc[r] = "list" /\ stopped[r] /\ ActivePods = {}
              /\ to = "scaleUp"
          BY <3>4, Zenon DEF IInv, TypeOK, WaitEnds, Goto
        <4>2. deployment.replicas = 0 /\ Settled(critical[r])
          BY <4>1, <2>3, Zenon DEF IInv, LifecycleInv, ReadsHold
        <4>3. Owned(critical[r]) = {}
          BY <4>1, Zenon DEF Owned
        <4>4. op[r] = "start" => ~started[r]
          BY <4>1, Zenon DEF IInv, LifecycleInv, ReadsHold
        <4> QED
          BY <4>1, <4>2, <4>3, <4>4, Zenon
      <3> QED
        BY <3>1, <3>2, <3>3, <3>4, Zenon
    <2> HIDE DEF to
    <2>4. /\ Exists(critical[r])' = Exists(critical[r])
          /\ to = pc'[r]
      BY <1>1, Zenon DEF Exists, clusterVars, to
    <2> DEFINE Reads(s) ==
          /\ pc[s] \in {"get", "list"} /\ op[s] = "start" => ~started[s]
          /\ Exists(critical[s]) =>
                /\ pc[s] = "locked" => (started[s] <=> deployment.replicas = 1)
                /\ pc[s] = "scaleUp" /\ started[s] /\ op[s] = "start" =>
                      deployment.replicas = 1
                /\ pc[s] = "list" /\ stopped[s] =>
                      deployment.replicas = 0 /\ Settled(critical[s])
                /\ pc[s] = "scaleUp" /\ (~started[s] \/ op[s] = "restart") =>
                      /\ deployment.replicas = 0 /\ Settled(critical[s])
                      /\ Owned(critical[s]) = {}
    <2>5. /\ critical' = critical /\ deployment' = deployment
          /\ op' = op /\ started' = started
          /\ \A u : /\ Owned(u)' = Owned(u) /\ Settled(u)' = Settled(u)
                    /\ Exists(u)' = Exists(u)
      BY <1>1, ClusterUntouched, Zenon DEF clusterVars
    <2>6. ASSUME NEW s \in Requests, s # r PROVE Reads(s)'
      <3>1. Reads(s)
        BY <2>6, Zenon DEF IInv, LifecycleInv, ReadsHold
      <3> QED
        BY <2>1, <2>5, <2>6, <3>1, Zenon
    <2>7. Reads(r)'
      BY <1>1, <2>2, <2>3, <2>4, <2>5, Zenon
    <2>8. \A s \in Requests : Reads(s)'
      BY <2>6, <2>7, Zenon
    <2> QED
      BY <2>8, Zenon DEF ReadsHold
  <1> QED
    BY <1>2, <1>3, <1>4, ClusterUntouched, <1>1
      , Zenon DEF IInv, LifecycleInv

\* lockContainer: what it returns is the workload as it is.
LEMMA LockIInv ==
    ASSUME IInv, NEW r \in Requests, LockContainer(r)
    PROVE  IInv'
  <1> DEFINE u == deployment.uid
  <1>1. /\ pc[r] = "idle" /\ pc' = [pc EXCEPT ![r] = "locked"]
        /\ deployment # NoDeployment /\ critical[r] = NoUid
        /\ \A s \in Requests : critical[s] # u
        /\ critical' = [critical EXCEPT ![r] = u]
        /\ started' = [started EXCEPT ![r] = deployment.replicas > 0]
        /\ UNCHANGED <<clusterVars, op, stopped, result>>
    BY Zenon DEF LockContainer, Goto, Mutex!Enter
  <1>2. /\ deployment \in Deployments /\ u \in Uids /\ u # NoUid
        /\ deployment.replicas \in 0..1
    BY <1>1, LifecycleAssumption, Zenon DEF IInv, TypeOK, Deployments
  <1>3. /\ critical'[r] = u /\ pc'[r] = "locked"
        /\ started'[r] <=> deployment.replicas = 1
        /\ \A s \in Requests : s # r =>
              /\ critical'[s] = critical[s] /\ pc'[s] = pc[s]
              /\ started'[s] = started[s]
    <2>1. /\ critical'[r] = u /\ pc'[r] = "locked"
          /\ \A s \in Requests : s # r =>
                critical'[s] = critical[s] /\ pc'[s] = pc[s]
      BY <1>1, Zenon DEF IInv, TypeOK
    <2>2. /\ started'[r] = (deployment.replicas > 0)
          /\ \A s \in Requests : s # r => started'[s] = started[s]
      BY <1>1, Zenon DEF IInv, TypeOK
    <2>3. (deployment.replicas > 0) <=> deployment.replicas = 1
      BY <1>2, SMT
    <2>4. started'[r] <=> deployment.replicas = 1
      BY <2>2, <2>3, Zenon
    <2> QED
      BY <2>1, <2>2, <2>4, Zenon
  <1>4. started' \in [Requests -> BOOLEAN]
    <2>1. /\ started \in [Requests -> BOOLEAN]
          /\ (deployment.replicas > 0) \in BOOLEAN
      BY <1>2, SMT DEF IInv, TypeOK
    <2> QED
      BY <1>1, <2>1, Zenon
  <1>5. TypeOK'
    BY <1>1, <1>2, <1>4, Zenon DEF IInv, TypeOK, clusterVars
  <1>6. LocksHeld'
    BY <1>1, <1>2, <1>3, SMTT(30) DEF IInv, LifecycleInv, LocksHeld
  <1>7. FreshUnused'
    <2>1. u \notin fresh
      BY <1>1, Zenon DEF IInv, LifecycleInv, FreshUnused, Exists
    <2> QED
      BY <2>1, <1>1, <1>3, ClusterUntouched, SMTT(30)
         DEF IInv, LifecycleInv, FreshUnused, clusterVars
  <1>8. ReadsHold'
    BY <1>1, <1>3, ClusterUntouched, SMTT(60)
       DEF IInv, LifecycleInv, ReadsHold, clusterVars
  <1> QED
    BY <1>1, <1>5, <1>6, <1>7, <1>8, ClusterUntouched, Zenon DEF IInv, LifecycleInv

\* ContainerCreate: nothing of the new workload exists yet.
LEMMA CreateIInv ==
    ASSUME IInv, NEW r \in Requests, ContainerCreate(r)
    PROVE  IInv'
  <1>1. PICK u \in fresh :
           /\ deployment' = [NewDeployment(u, "Recreate", 0)
                                EXCEPT !.observedGeneration = 0]
           /\ fresh' = fresh \ {u}
    BY Zenon DEF ContainerCreate
  <1>2. /\ deployment = NoDeployment /\ Return(r, "ok")
        /\ UNCHANGED <<replicaSet, pods, evictions, op, started, stopped>>
    BY Zenon DEF ContainerCreate
  <1>3. u \in Uids /\ u # NoUid
    BY LifecycleAssumption, Zenon DEF IInv, TypeOK
  <1>4. PICK n \in 0..1, signal \in BOOLEAN : n = 0 /\ signal = FALSE
    <2>1. FALSE \in BOOLEAN /\ 0 \in 0..1
      BY SMT
    <2> QED
      BY <2>1, Zenon
  <1>5. deployment' = [uid |-> u, replicas |-> n, template |-> 1,
                       strategy |-> "Recreate", signalled |-> signal,
                       generation |-> 1, observedGeneration |-> 0,
                       statusReplicas |-> n]
    BY <1>1, <1>4, Zenon DEF NewDeployment
  <1>6. /\ deployment' \in Deployments
        /\ deployment'.uid = u /\ deployment'.replicas = 0
        /\ deployment'.strategy = "Recreate" /\ deployment'.generation = 1
        /\ deployment'.observedGeneration = 0
    BY <1>3, <1>4, <1>5, Zenon DEF Deployments
  <1>7. /\ replicaSet[u] = NoReplicaSet /\ Owned(u) = {}
        /\ \A s \in Requests : critical[s] # u
    BY Zenon DEF IInv, LifecycleInv, FreshUnused
  <1>8. \A v : /\ Owned(v)' = Owned(v)
               /\ Exists(v)' => v = u
    BY <1>2, <1>6, Zenon DEF Owned, ActivePods, Exists
  <1>9. TypeOK'
    BY <1>1, <1>2, <1>6, Returns, Zenon DEF IInv, TypeOK
  <1>10. OnePodEach'
    BY <1>2, <1>8, Zenon DEF IInv, LifecycleInv, OnePodEach
  <1>11. ScaleFollows' /\ ObservedIsDone' /\ NoStaleSignal'
    BY <1>2, <1>6, <1>7, <1>8, SMTT(30)
       DEF ScaleFollows, ObservedIsDone, NoStaleSignal, Settled
  <1>12. \A s \in Requests : /\ critical'[s] \in {critical[s], NoUid}
                             /\ pc'[s] \in {pc[s], "done"}
    BY <1>2, Returns, Zenon
  <1>13. FreshUnused'
    <2>1. \A v \in fresh : v # NoUid
      BY LifecycleAssumption, Zenon DEF IInv, TypeOK
    <2> QED
      BY <2>1, <1>1, <1>2, <1>8, <1>12, Zenon DEF IInv, LifecycleInv, FreshUnused
  <1>14. ReadsHold'
    <2>1. \A s \in Requests : critical'[s] # u
      BY <1>3, <1>7, <1>12, Zenon
    <2>2. \A s \in Requests : ~Exists(critical[s])'
      BY <2>1, <1>8, Zenon DEF Exists
    <2> QED
      BY <2>2, <1>2, <1>12, Zenon DEF IInv, LifecycleInv, ReadsHold
  <1> QED
    BY <1>2, <1>9, <1>10, <1>11, <1>13, <1>14, Returns, Zenon DEF IInv, LifecycleInv

\* A restart of dink forgets the requests in flight, and their locks.
LEMMA RestartIInv ==
    ASSUME IInv, ProcessRestarts
    PROVE  IInv'
  <1>1. /\ critical' = [r \in Requests |-> NoUid]
        /\ pc' = [r \in Requests |-> IF pc[r] = "idle" THEN "idle" ELSE "done"]
        /\ UNCHANGED <<clusterVars, op, started, stopped, result>>
    BY Zenon DEF ProcessRestarts, Mutex!LeaveAll
  <1>2. TypeOK'
    BY <1>1, Zenon DEF IInv, TypeOK, clusterVars
  <1>3. LocksHeld'
    BY <1>1, Zenon DEF LocksHeld
  <1>4. FreshUnused'
    <2>1. \A u \in fresh : u # NoUid
      BY LifecycleAssumption, Zenon DEF IInv, TypeOK
    <2> QED
      BY <2>1, <1>1, ClusterUntouched
        , Zenon DEF IInv, LifecycleInv, FreshUnused, clusterVars
  <1>5. ReadsHold'
    BY <1>1, Zenon DEF ReadsHold
  <1> QED
    BY <1>1, <1>2, <1>3, <1>4, <1>5, ClusterUntouched, Zenon DEF IInv, LifecycleInv

\* Nothing exists, or one container as its controllers leave it.
LEMMA InitIInv ==
    ASSUME Init
    PROVE  IInv
  <1>1. /\ evictions \in 0..MaxEvictions
        /\ critical = [r \in Requests |-> NoUid]
        /\ op \in [Requests -> Ops]
        /\ pc = [r \in Requests |-> "idle"]
        /\ started = [r \in Requests |-> FALSE]
        /\ stopped = [r \in Requests |-> FALSE]
        /\ result = [r \in Requests |-> "none"]
    BY LifecycleAssumption, SMT DEF Init, Mutex!MutexInit
  <1>2. LocksHeld /\ ReadsHold
    BY <1>1, Zenon DEF LocksHeld, ReadsHold
  <1>3. CASE /\ deployment = NoDeployment
             /\ replicaSet = [u \in Uids |-> NoReplicaSet]
             /\ pods = {}
             /\ fresh = Uids
    <2>1. TypeOK
      BY <1>1, <1>3, Zenon DEF TypeOK
    <2>2. \A u : Owned(u) = {}
      BY <1>3, Zenon DEF Owned, ActivePods
    <2>3. OnePodEach /\ ScaleFollows /\ ObservedIsDone /\ NoStaleSignal
      BY <1>3, <2>2, Zenon DEF OnePodEach, ScaleFollows, ObservedIsDone, NoStaleSignal
    <2>4. FreshUnused
      BY <1>1, <1>3, <2>2, LifecycleAssumption, Zenon DEF FreshUnused, Exists
    <2> QED
      BY <1>2, <2>1, <2>3, <2>4, Zenon DEF IInv, LifecycleInv
  <1>4. ASSUME NEW u \in Uids, NEW strategy \in {"Recreate", "RollingUpdate"},
               NEW n \in 0..1,
               deployment = NewDeployment(u, strategy, n),
               replicaSet = [v \in Uids |-> IF v = u
                                            THEN [template |-> 1, want |-> n]
                                            ELSE NoReplicaSet],
               pods = IF n = 0 THEN {}
                      ELSE {[uid |-> u, template |-> 1, phase |-> "Running",
                             deleting |-> FALSE]},
               fresh = Uids \ {u}
        PROVE  IInv
    <2>1. PICK signal \in BOOLEAN : signal = FALSE
      BY Zenon
    <2>2. deployment = [uid |-> u, replicas |-> n, template |-> 1,
                        strategy |-> strategy, signalled |-> signal,
                        generation |-> 1, observedGeneration |-> 1,
                        statusReplicas |-> n]
      BY <1>4, <2>1, Zenon DEF NewDeployment
    <2>3. /\ deployment \in Deployments /\ deployment.uid = u
          /\ deployment.replicas = n /\ deployment.template = 1
          /\ deployment.generation = 1 /\ deployment.observedGeneration = 1
      BY <2>2, Zenon DEF Deployments
    <2>4. deployment.signalled = signal
      BY <2>2, Zenon
    <2>5. /\ replicaSet[u] = [template |-> 1, want |-> n]
          /\ \A v \in Uids : v # u => replicaSet[v] = NoReplicaSet
      BY <1>4, Zenon
    <2>6. [template |-> 1, want |-> n] \in ReplicaSets
      BY Zenon DEF ReplicaSets
    <2>7. replicaSet[u] \in ReplicaSets /\ replicaSet[u] # NoReplicaSet
      BY <2>5, <2>6, LifecycleAssumption, Zenon DEF ReplicaSets
    <2>8. replicaSet[u].template = 1 /\ replicaSet[u].want = n
      BY <2>5, SMT
    <2> DEFINE one == [uid |-> u, template |-> 1, phase |-> "Running",
                       deleting |-> FALSE]
    <2>9. /\ one \in Pods /\ one.uid = u /\ one.template = 1 /\ ~one.deleting
      BY Zenon DEF Pods
    <2>10. pods \subseteq {one} /\ (n = 0 => pods = {})
      BY <1>4, Zenon
    <2> HIDE DEF one
    <2>11. TypeOK
      <3>1. pods \subseteq Pods
        BY <2>9, <2>10, Zenon
      <3>2. replicaSet \in [Uids -> {NoReplicaSet} \cup ReplicaSets]
        BY <1>4, <2>6, Zenon
      <3> QED
        BY <1>1, <1>4, <2>3, <3>1, <3>2, Zenon DEF TypeOK
    <2>12. \A v : /\ Owned(v) \subseteq {one}
                  /\ v # u => Owned(v) = {}
                  /\ n = 0 => Owned(v) = {}
      BY <2>9, <2>10, Zenon DEF Owned, ActivePods
    <2>13. OnePodEach
      BY <2>5, <2>8, <2>9, <2>12, Zenon DEF OnePodEach
    <2>14. ScaleFollows
      BY <2>3, <2>7, <2>8, <2>9, <2>12, SMT DEF ScaleFollows
    <2>15. ObservedIsDone
      BY <2>3, <2>8, SMT DEF ObservedIsDone, Settled
    <2>16. NoStaleSignal
      BY <2>1, <2>4, Zenon DEF NoStaleSignal
    <2>17. FreshUnused
      BY <1>1, <1>4, <2>3, <2>5, <2>12, LifecycleAssumption
        , Zenon DEF FreshUnused, Exists
    <2> QED
      BY <1>2, <2>11, <2>13, <2>14, <2>15, <2>16, <2>17, Zenon DEF IInv, LifecycleInv
  <1> QED
    BY <1>3, <1>4, Zenon DEF Init

\* Every step of the requests, the controllers and the kubelet.
LEMMA NextIInv ==
    ASSUME IInv, [Next]_vars
    PROVE  IInv'
  <1>1. ASSUME NEW r \in Requests, RequestStep(r)
        PROVE  IInv'
    <2>1. CASE \/ ContainerStop(r) \/ RestartScalesDown(r) \/ ContainerKill(r)
               \/ ContainerUpdate(r) \/ StartScalesUp(r) \/ RestartScalesUp(r)
      BY <2>1, WritersIInv, Zenon
    <2>2. CASE \/ StartChecks(r) \/ WaitGets(r) \/ WaitPolls(r)
               \/ WaitEnds(r) /\ op[r] \in {"start", "restart"}
      BY <2>2, ReadersIInv, Zenon
    <2>3. CASE RmDeletes(r)
      BY <2>3, RmDeletesIInv, Zenon
    <2>4. CASE RmRefuses(r) \/ WorkloadGone(r) \/ WaitReplaced(r)
      BY <2>4, ReturnIInv, Zenon DEF RmRefuses, WorkloadGone, WaitReplaced
    <2>5. CASE WaitEnds(r) /\ op[r] \notin {"start", "restart"}
      BY <2>5, ReturnIInv, Zenon DEF WaitEnds
    <2> QED
      BY <1>1, <2>1, <2>2, <2>3, <2>4, <2>5, Zenon DEF RequestStep
  <1>2. ASSUME NEW r \in Requests, NeverRuns(r) \/ Abort(r)
        PROVE  IInv'
    BY <1>2, ReturnIInv, Zenon DEF NeverRuns, Abort
  <1>3. CASE UNCHANGED vars
    <2>1. UNCHANGED <<clusterVars, requestVars>>
      BY <1>3, Zenon DEF vars, clusterVars, requestVars
    <2>2. TypeOK' /\ LocksHeld' /\ FreshUnused' /\ ReadsHold'
      <3>1. TypeOK'
        BY <2>1, Zenon DEF IInv, TypeOK, clusterVars, requestVars
      <3>2. LocksHeld'
        BY <2>1, Zenon DEF IInv, LifecycleInv, LocksHeld, clusterVars, requestVars
      <3>3. FreshUnused'
        BY <2>1, ClusterUntouched, Zenon DEF IInv, LifecycleInv, FreshUnused, clusterVars,
           requestVars
      <3>4. ReadsHold'
        BY <2>1, ClusterUntouched, Zenon DEF IInv, LifecycleInv, ReadsHold, clusterVars,
           requestVars
      <3> QED
        BY <3>1, <3>2, <3>3, <3>4, Zenon
    <2> QED
      BY <2>1, <2>2, ClusterUntouched, Zenon DEF IInv, LifecycleInv
  <1>4. CASE ControllerStep
    BY <1>4, DeploymentIInv, ReplicaSetIInv, CollectReplicaSetIInv,
       CollectPodsIInv, Zenon DEF ControllerStep
  <1>5. CASE KubeletStep \/ \E p \in pods : PodEvicted(p)
    BY <1>5, KubeletIInv, Zenon DEF KubeletStep
  <1> QED
    BY <1>1, <1>2, <1>3, <1>4, <1>5, LockIInv, CreateIInv, DeletedIInv,
       RestartIInv, Zenon DEF Next, AllReturned

-----------------------------------------------------------------------------
\* The invariant holds throughout, for any number of calls, replacements and
\* evictions: types, and what keeps Pods from overlapping
\* (waitContainerStopped, setContainerReplicas, updateContainerDeployment).
THEOREM LifecycleIsSafe == Spec => []IInv
  <1>1. Init => IInv
    BY InitIInv, Zenon
  <1>2. IInv /\ [Next]_vars => IInv'
    BY NextIInv, Zenon
  <1> QED
    BY <1>1, <1>2, PTL DEF Spec

\* No workload ever has two active Pods, whatever calls start, stop, kill,
\* restart, update, remove and create it, fail or are forgotten.
THEOREM OwnPodsExclude == Spec => []NoOwnOverlap
  <1>1. IInv => NoOwnOverlap
    <2> SUFFICES ASSUME IInv, NEW u \in Uids
                 PROVE  Cardinality(Owned(u)) <= 1
      BY Zenon DEF NoOwnOverlap
    <2>1. Cardinality(Owned(u)) \in 0..1
      BY AtMostOne, Zenon DEF IInv, LifecycleInv, OnePodEach
    <2> QED
      BY <2>1, SMT
  <1> QED
    BY <1>1, LifecycleIsSafe, PTL

\* A container that is not replaced under its name never has two active Pods
\* at all: what the contract says of database and file-lock holders.
THEOREM PodsExclude ==
    ASSUME NEW u, Uids = {u}
    PROVE  Spec => []NoOverlap
  <1>1. IInv => NoOverlap
    <2> SUFFICES ASSUME IInv
                 PROVE  NoOverlap
      BY Zenon
    <2>1. ActivePods = Owned(u)
      BY Zenon DEF IInv, TypeOK, Pods, Owned, ActivePods
    <2>2. Cardinality(ActivePods) \in 0..1
      BY <2>1, AtMostOne, Zenon DEF IInv, LifecycleInv, OnePodEach
    <2> QED
      BY <2>2, SMT DEF NoOverlap
  <1> QED
    BY <1>1, LifecycleIsSafe, PTL

\* Between the wait of a start or restart and its scale-up, nothing brings a
\* Pod of the workload back.
THEOREM ScalesUpStopped == Spec => []StoppedBeforeScaleUp
  <1>1. IInv => StoppedBeforeScaleUp
    BY Zenon DEF IInv, LifecycleInv, ReadsHold, StoppedBeforeScaleUp
  <1> QED
    BY <1>1, LifecycleIsSafe, PTL

\* An unforced removal never deletes a container that is asked to run,
\* although it checks a copy (ContainerRm, lockContainer).
THEOREM RemovalSparesRunning == Spec => RmSparesRunning
  <1>1. ASSUME IInv, NEW r \in Requests, RmDeletes(r), op[r] = "rm",
               deployment # NoDeployment
        PROVE  deployment.replicas = 0
    BY <1>1, SMT DEF RmDeletes, Goto, IInv, TypeOK, LifecycleInv, ReadsHold,
                Exists, Deployments
  <1>2. IInv => \A r \in Requests :
           RmDeletes(r) /\ op[r] = "rm" /\ deployment # NoDeployment =>
              deployment.replicas = 0
    BY <1>1, Zenon
  <1> QED
    BY <1>2, LifecycleIsSafe, PTL DEF RmSparesRunning

\* Only a request that holds a workload's lock changes its spec
\* (updateContainerDeployment, lockContainer).
THEOREM ChangesAreLocked == Spec => OnlyLockedChanges
  <1>1. ASSUME NEW u \in Uids, Exists(u), Exists(u)', IInv,
               deployment'.generation # deployment.generation, Next
        PROVE  \E r \in Requests : critical[r] = u
    <2>1. deployment \in Deployments /\ deployment' # NoDeployment
      BY <1>1, Zenon DEF IInv, TypeOK, Exists
    <2>2. ~DeploymentSync
      BY <2>1, <1>1, Zenon DEF DeploymentSync, Deployments
    <2>3. ASSUME NEW r \in Requests, NEW d, UpdateDeployment(r, d)
          PROVE  critical[r] = u
      BY <1>1, <2>3, Zenon DEF UpdateDeployment, Exists
    <2>4. ASSUME UNCHANGED deployment
          PROVE  FALSE
      BY <1>1, <2>4, Zenon
    <2>5. ~ControllerStep
      BY <2>2, <2>4, Zenon DEF ControllerStep, ReplicaSetSync, CollectReplicaSet,
                        CollectPods
    <2>6. /\ ~KubeletStep /\ ~DeletedOutside /\ ~ProcessRestarts
          /\ ~AllReturned /\ \A p \in pods : ~PodEvicted(p)
      BY <2>1, <2>4, Zenon DEF KubeletStep, PodRuns, PodEnds, PodEvicted,
            DeletedOutside, ProcessRestarts, AllReturned, vars, clusterVars
    <2>7. PICK r \in Requests :
             \/ RequestStep(r) \/ LockContainer(r) \/ ContainerCreate(r)
             \/ NeverRuns(r) \/ Abort(r)
      BY <1>1, <2>5, <2>6, Zenon DEF Next
    <2>8. /\ ~LockContainer(r) /\ ~NeverRuns(r) /\ ~Abort(r)
          /\ ~ContainerCreate(r)
      BY <1>1, <2>4, Zenon DEF LockContainer, NeverRuns, Abort, ContainerCreate,
                        clusterVars, Exists
    <2>9. /\ ~StartChecks(r) /\ ~RmRefuses(r) /\ ~WorkloadGone(r)
          /\ ~WaitGets(r) /\ ~WaitReplaced(r) /\ ~WaitPolls(r) /\ ~WaitEnds(r)
      BY <2>4, Zenon DEF StartChecks, RmRefuses, WorkloadGone, WaitGets,
                  WaitReplaced, WaitPolls, WaitEnds, clusterVars
    <2>10. ~RmDeletes(r)
      BY <2>1, Zenon DEF RmDeletes
    <2> QED
      BY <2>3, <2>7, <2>8, <2>9, <2>10
        , Zenon DEF RequestStep, ContainerStop, RestartScalesDown, ContainerKill,
             ContainerUpdate, StartScalesUp, RestartScalesUp
  <1>2. IInv /\ [Next]_vars =>
           [\A u \in Uids :
               /\ Exists(u) /\ Exists(u)'
               /\ deployment'.generation # deployment.generation
               => \E r \in Requests : critical[r] = u]_vars
    BY <1>1, Zenon
  <1> QED
    BY <1>2, LifecycleIsSafe, PTL DEF Spec, OnlyLockedChanges

=============================================================================
