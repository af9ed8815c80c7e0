----------------------------- MODULE ImageStore -----------------------------
(***************************************************************************)
(* The tenant image store: docker pull, tag, push, rmi and image prune     *)
(* (core/registry, core/translator/image*.go) over dinki's registry, whose *)
(* calls are one step each.  An image is an index over platform manifests  *)
(* or one manifest; manifests name blobs (layers and config).  The         *)
(* registry (ocistore) and the upstream registry are external: a manifest  *)
(* may be stored without all it names, as retagging a partly pulled index  *)
(* needs.                                                                  *)
(***************************************************************************)
EXTENDS Naturals, Sequences, FiniteSets, SequencesExt

CONSTANTS
    Clients, Ops, Repos, Tags, None,
    Indexes, Manifests,     \* digests
    Kids,        \* Kids[i]: the manifests an index names, in order
    Layers,      \* Layers[m]: the blobs a manifest names
    Platform,    \* Platform[m]: its platform, or "unknown"
    For,         \* For[m]: the manifest an attestation is for, or None
    Platforms,   \* platforms clients ask for; the first of a pull is Default
    Default,
    MaxMoves,    \* bound on upstream tags moving
    MaxCalls     \* bound on calls per client

Digests == Indexes \cup Manifests
Blobs == UNION {Layers[m] : m \in Manifests}

VARIABLES
    repos,     \* repos[r]: tags, manifests and blobs of a tenant repository
    remote,    \* the external registry pushes go to
    upstream,  \* upstream[t]: what the source registry's tag names
    used,      \* <<repository, digest>> pairs workloads are pinned to
    call,      \* call[c]: progress of a client's request
    moves, calls

vars == <<repos, remote, upstream, used, call, moves, calls>>

Empty == [tags |-> [t \in Tags |-> None], has |-> {}, blobs |-> {}]
Idle == [op |-> "none", pc |-> "idle", repo |-> None, to |-> None, tag |-> None,
         root |-> None, by |-> "tag", platform |-> Default, blobs |-> {},
         push |-> <<>>, untag |-> {}, force |-> FALSE, names |-> {}]

Init ==
    /\ repos = [r \in Repos |-> Empty]
    /\ remote = Empty
    /\ upstream \in [Tags -> Indexes \cup {m \in Manifests : Platform[m] = "any"}]
    /\ used = {}
    /\ call = [c \in Clients |-> Idle]
    /\ moves = 0 /\ calls = [c \in Clients |-> 0]

-----------------------------------------------------------------------------
\* The manifest graph.

KidsOf(d) == IF d \in Indexes THEN Kids[d] ELSE <<>>
LayersOf(s) == UNION {Layers[m] : m \in s \cap Manifests}

\* parseIndexManifest: the first manifest of the platform, and its
\* attestations.
Selected(i, p) ==
    LET fits == SelectSeq(Kids[i], LAMBDA m : Platform[m] = p)
    IN  IF fits = <<>> THEN <<>>
        ELSE <<fits[1]>> \o SelectSeq(Kids[i], LAMBDA m : For[m] = fits[1])

\* A reference whose content a node can use.
Usable(s, d) ==
    /\ d \in s.has
    /\ IF d \in Manifests THEN Layers[d] \subseteq s.blobs
       ELSE \E m \in ToSet(Kids[d]) \cap s.has :
               Platform[m] # "unknown" /\ Layers[m] \subseteq s.blobs

\* imageSummary: what a listing shows.
Listed(s, t) ==
    /\ s.tags[t] \in s.has
    /\ s.tags[t] \in Manifests
          \/ \E m \in ToSet(KidsOf(s.tags[t])) \cap s.has : Platform[m] # "unknown"

-----------------------------------------------------------------------------
\* The registries.

Put(s, blobs, manifests) ==
    [s EXCEPT !.blobs = @ \cup blobs, !.has = @ \cup manifests]

\* The closure of a digest, and what of it the repository keeps for others.
Closure(s, d) == {d} \cup (ToSet(KidsOf(d)) \cap s.has)
KeptManifests(s, d) ==
    {m \in Closure(s, d) :
        \/ m # d /\ \E t \in Tags : s.tags[t] = m
        \/ \E i \in s.has \ Closure(s, d) : m \in ToSet(KidsOf(i))}
KeptBlobs(s, d) == LayersOf(s.has \ (Closure(s, d) \ KeptManifests(s, d)))

UpstreamMoves ==
    /\ moves < MaxMoves /\ moves' = moves + 1
    /\ \E t \in Tags, t2 \in Tags :
          /\ upstream[t] # upstream[t2]
          /\ upstream' = [upstream EXCEPT ![t] = upstream[t2]]
    /\ UNCHANGED <<repos, remote, used, call, calls>>

-----------------------------------------------------------------------------
Start(c, fields) ==
    /\ call[c].pc = "idle" /\ calls[c] < MaxCalls
    /\ fields.op \in Ops
    /\ call' = [call EXCEPT ![c] = fields @@ Idle]
    /\ calls' = [calls EXCEPT ![c] = @ + 1]
    /\ UNCHANGED <<repos, remote, upstream, used, moves>>

Set(c, fields) == call' = [call EXCEPT ![c] = fields @@ @]
Finish(c, result) == Set(c, [pc |-> result])
Rest == UNCHANGED <<remote, upstream, used, moves, calls>>

\* The client takes its answer.
Answered(c) ==
    /\ call[c].pc \in {"ok", "error", "conflict", "mismatch"}
    /\ call' = [call EXCEPT ![c] = Idle]
    /\ UNCHANGED repos /\ Rest

\* A call to either registry fails, or the client stops reading.
Fails(c) ==
    /\ call[c].pc \in {"check", "ensure", "retag", "walk", "copy", "push",
                       "resolve", "untag"}
    /\ Finish(c, "error")
    /\ UNCHANGED repos /\ Rest

-----------------------------------------------------------------------------
\* PullImage.

Pull(c) ==
    \E r \in Repos, t \in Tags, p \in Platforms :
       Start(c, [op |-> "pull", pc |-> "check", repo |-> r, to |-> r, tag |-> t,
                 root |-> upstream[t], platform |-> p])

\* pullTag and hasPlatform: is the digest stored, for this platform?
Check(c) ==
    /\ call[c].pc = "check" /\ call[c].op = "pull"
    /\ LET s == repos[call[c].repo]
           d == call[c].root
           complete == /\ d \in s.has
                       /\ d \in Indexes =>
                             /\ Selected(d, call[c].platform) # <<>>
                             /\ Selected(d, call[c].platform)[1] \in s.has
       IN  Set(c, [pc |-> IF complete THEN "ensure" ELSE "walk"])
    /\ UNCHANGED repos /\ Rest

\* checkTagDigest takes a tag that names another digest for an error.
TagCheck(s, t, d) ==
    CASE s.tags[t] = d -> "ok" [] s.tags[t] = None -> "retag" [] OTHER -> "mismatch"

EnsureTagged(c) ==
    /\ call[c].pc = "ensure"
    /\ Finish(c, TagCheck(repos[call[c].repo], call[c].tag, call[c].root))
    /\ UNCHANGED repos /\ Rest

Retag(c) ==
    /\ call[c].pc = "retag"
    /\ repos' = [repos EXCEPT ![call[c].repo] =
                    [Put(@, {}, {call[c].root})
                        EXCEPT !.tags[call[c].tag] = call[c].root]]
    /\ Finish(c, "ok") /\ Rest

\* AllDescriptors: children before the index, whose push sets the tag.
Walk(c) ==
    /\ call[c].pc = "walk"
    /\ LET d == call[c].root
           kids == IF d \in Indexes THEN Selected(d, call[c].platform) ELSE <<>>
       IN  IF d \in Indexes /\ kids = <<>> THEN Finish(c, "error")
           ELSE Set(c, [pc |-> "copy", push |-> Append(kids, d),
                        blobs |-> LayersOf({d} \cup ToSet(kids))])
    /\ UNCHANGED repos /\ Rest

\* copyBlobs: blobs in any order; one the destination has is skipped.
CopyBlob(c) ==
    /\ call[c].pc = "copy" /\ call[c].op # "push"
    /\ \E b \in call[c].blobs :
          LET from == repos[call[c].repo]
              there == b \in repos[call[c].to].blobs
          IN  IF there \/ call[c].op = "pull" \/ b \in from.blobs
              THEN /\ repos' = [repos EXCEPT ![call[c].to] = Put(@, {b}, {})]
                   /\ Set(c, [blobs |-> call[c].blobs \ {b}])
              ELSE Finish(c, "error") /\ UNCHANGED repos
    /\ Rest

Copied(c) ==
    /\ call[c].pc = "copy" /\ call[c].blobs = {}
    /\ Set(c, [pc |-> "push"])
    /\ UNCHANGED repos /\ Rest

\* pushManifests: in order; the root carries the tag.
Publish(s, m, root, t) ==
    IF m = root THEN [Put(s, {}, {m}) EXCEPT !.tags[t] = m] ELSE Put(s, {}, {m})

PushManifest(c) ==
    /\ call[c].pc = "push" /\ call[c].op # "push"
    /\ repos' = [repos EXCEPT ![call[c].to] =
                    Publish(@, Head(call[c].push), call[c].root, call[c].tag)]
    /\ Set(c, [push |-> Tail(call[c].push),
               pc |-> IF Len(call[c].push) = 1 THEN "ok" ELSE "push"])
    /\ Rest

-----------------------------------------------------------------------------
\* TagImage: what the source repository holds of the image is copied.

Tag(c) ==
    \E r, r2 \in Repos, t, t2 \in Tags :
       /\ repos[r].tags[t] # None
       /\ Start(c, [op |-> "tag", pc |-> "check", repo |-> r, to |-> r2,
                    tag |-> t2, root |-> repos[r].tags[t]])

WalkStored(c) ==
    /\ call[c].pc = "check" /\ call[c].op = "tag"
    /\ LET s == repos[call[c].repo]
           d == call[c].root
           kids == SelectSeq(KidsOf(d), LAMBDA m : m \in s.has)
       IN  IF d \notin s.has THEN Finish(c, "error")
           ELSE Set(c, [pc |-> "copy", push |-> Append(kids, d),
                        blobs |-> LayersOf({d} \cup ToSet(kids)) \cap s.blobs])
    /\ UNCHANGED repos /\ Rest

-----------------------------------------------------------------------------
\* PushImage.

Push(c) ==
    \E r \in Repos, t \in Tags, p \in Platforms \cup {None} :
       /\ repos[r].tags[t] # None
       /\ Start(c, [op |-> "push", pc |-> "check", repo |-> r, to |-> r, tag |-> t,
                    root |-> repos[r].tags[t], platform |-> p])

Complete(s, d) ==
    /\ {d} \cup ToSet(KidsOf(d)) \subseteq s.has
    /\ LayersOf({d} \cup ToSet(KidsOf(d))) \subseteq s.blobs

\* pushPlatform: the stored manifests a platform push may choose from.
Candidates(s, d, p) ==
    {m \in ({d} \cup ToSet(KidsOf(d))) \cap s.has \cap Manifests :
        /\ Platform[m] # "unknown" /\ Layers[m] \subseteq s.blobs
        /\ p # None => Platform[m] \in {p, "any"}}

\* The root to push: the whole image, or one platform of it.
PushRoot(s, d, p) ==
    LET few == Candidates(s, d, p)
    IN  IF p = None /\ Complete(s, d) THEN {d}
        ELSE IF Cardinality(few) > 1 /\ p = None
             THEN {m \in few : Platform[m] = Default}
             ELSE IF Cardinality(few) = 1 THEN few ELSE {}

PushCheck(c) ==
    /\ call[c].pc = "check" /\ call[c].op = "push"
    /\ LET s == repos[call[c].repo]
           target == PushRoot(s, call[c].root, call[c].platform)
       IN  IF call[c].root \notin s.has \/ target = {} THEN Finish(c, "error")
           ELSE LET d == CHOOSE m \in target : TRUE
                    kids == SelectSeq(KidsOf(d), LAMBDA m : m \in s.has)
                IN  Set(c, [pc |-> "copy", root |-> d, push |-> Append(kids, d),
                            blobs |-> LayersOf({d} \cup ToSet(kids)) \cap s.blobs])
    /\ UNCHANGED repos /\ Rest

PushBlob(c) ==
    /\ call[c].pc = "copy" /\ call[c].op = "push"
    /\ \E b \in call[c].blobs :
          IF b \in remote.blobs \cup repos[call[c].repo].blobs
          THEN /\ remote' = Put(remote, {b}, {})
               /\ Set(c, [blobs |-> call[c].blobs \ {b}])
          ELSE Finish(c, "error") /\ UNCHANGED remote
    /\ UNCHANGED <<repos, upstream, used, moves, calls>>

PublishRemote(c) ==
    /\ call[c].pc = "push" /\ call[c].op = "push"
    /\ remote' = Publish(remote, Head(call[c].push), call[c].root, call[c].tag)
    /\ Set(c, [push |-> Tail(call[c].push),
               pc |-> IF Len(call[c].push) = 1 THEN "ok" ELSE "push"])
    /\ UNCHANGED <<repos, upstream, used, moves, calls>>

-----------------------------------------------------------------------------
\* ImageDelete, by tag or by image ID, and ImagePrune.

RemoveImage(c) ==
    \E r \in Repos, t \in Tags, by \in {"tag", "id"}, force \in BOOLEAN :
       /\ repos[r].tags[t] # None
       /\ Start(c, [op |-> "delete", pc |-> "inuse", repo |-> r, tag |-> t,
                    root |-> repos[r].tags[t], by |-> by, force |-> force])

TagsOf(s, d) == {t \in Tags : s.tags[t] = d}
ListedAs(s, d) == {t \in TagsOf(s, d) : Listed(s, t)}

\* workloadUsesImage: the digest of this repository, in a workload's template.
Uses(r, d) == <<r, d>> \in used

\* imageRemovalContainerCount: another tag of the repository keeps the digest.
InUse_AnyTag(c) ==
    LET s == repos[call[c].repo]
        d == call[c].root
    IN  IF call[c].by = "id"
        THEN \E r \in Repos : Uses(r, d) /\ ListedAs(repos[r], d) # {}
        ELSE Uses(call[c].repo, d) /\ TagsOf(s, d) = {}

InUse(c) ==
    LET s == repos[call[c].repo]
        d == call[c].root
    IN  IF call[c].by = "id"
        THEN \E r \in Repos : Uses(r, d) /\ ListedAs(repos[r], d) # {}
        ELSE Uses(call[c].repo, d) /\ ListedAs(s, d) \ {call[c].tag} = {}

\* translator.ImageDelete: inspect the image, list images and workloads.
CheckInUse(c) ==
    /\ call[c].pc = "inuse"
    /\ CASE ~Listed(repos[call[c].repo], call[c].tag) -> Finish(c, "error")
         [] Listed(repos[call[c].repo], call[c].tag) /\ InUse(c) -> Finish(c, "conflict")
         [] OTHER -> Set(c, [pc |-> "resolve"])
    /\ UNCHANGED repos /\ Rest

\* What ImageDelete removes besides tags: manifests, parents first, and blobs.
Doomed(s, d, untag) ==
    IF TagsOf(s, d) \ untag # {} \/ d \in KeptManifests(s, d)
    THEN [push |-> <<>>, blobs |-> {}]
    ELSE [push |-> <<d>> \o SelectSeq(KidsOf(d), LAMBDA m :
                                m \in s.has /\ m \notin KeptManifests(s, d)),
          blobs |-> (LayersOf(Closure(s, d)) \cap s.blobs) \ KeptBlobs(s, d)]

\* resolveImage: the digest a tag names, or an ID some tag names.
Resolved(s, by, t, d) ==
    IF by = "tag" THEN s.tags[t] ELSE IF TagsOf(s, d) = {} THEN None ELSE d

\* dinki resolves the name again; the request to it carries no force.
Resolve(c) ==
    /\ call[c].pc = "resolve"
    /\ LET s == repos[call[c].repo]
           d == Resolved(s, call[c].by, call[c].tag, call[c].root)
           untag == IF call[c].by = "tag" THEN {call[c].tag} ELSE TagsOf(s, d)
       IN  CASE d \notin s.has -> Finish(c, "error")
             [] d \in s.has /\ Cardinality(untag) > 1 -> Finish(c, "conflict")
             [] OTHER -> Set(c, [pc |-> "untag", root |-> d, untag |-> untag]
                                @@ Doomed(s, d, untag))
    /\ UNCHANGED repos /\ Rest

Untag(c) ==
    /\ call[c].pc = "untag"
    /\ \E t \in call[c].untag :
          IF repos[call[c].repo].tags[t] = None
          THEN Finish(c, "error") /\ UNCHANGED repos
          ELSE /\ repos' = [repos EXCEPT ![call[c].repo].tags[t] = None]
               /\ Set(c, [untag |-> call[c].untag \ {t}])
    /\ Rest

\* Manifests go first, then blobs; what is gone already does not matter.
DeleteManifest(c) ==
    /\ call[c].pc = "untag" /\ call[c].untag = {} /\ call[c].push # <<>>
    /\ repos' = [repos EXCEPT ![call[c].repo].has = @ \ {Head(call[c].push)}]
    /\ Set(c, [push |-> Tail(call[c].push)])
    /\ Rest

DeleteBlob(c) ==
    /\ call[c].pc = "untag" /\ call[c].untag = {} /\ call[c].push = <<>>
    /\ \E b \in call[c].blobs :
          /\ repos' = [repos EXCEPT ![call[c].repo].blobs = @ \ {b}]
          /\ Set(c, [blobs |-> call[c].blobs \ {b}])
    /\ Rest

Deleted(c) ==
    /\ call[c].pc = "untag" /\ call[c].untag = {} /\ call[c].push = <<>>
    /\ call[c].blobs = {}
    /\ Finish(c, IF call[c].names = {} THEN "ok" ELSE "next")
    /\ UNCHANGED repos /\ Rest

\* ImagePrune of unused images deletes the tags it listed, one after another.
Prune(c) ==
    LET names == {n \in Repos \X Tags :
                     /\ Listed(repos[n[1]], n[2])
                     /\ \A r \in Repos : ~Uses(r, repos[n[1]].tags[n[2]])}
    IN  Start(c, [op |-> "prune", pc |-> IF names = {} THEN "ok" ELSE "next",
                  names |-> names])

PruneNext(c) ==
    /\ call[c].pc = "next"
    /\ \E n \in call[c].names :
          Set(c, [repo |-> n[1], tag |-> n[2], root |-> repos[n[1]].tags[n[2]],
                  names |-> call[c].names \ {n}, pc |-> "inuse"])
    /\ UNCHANGED repos /\ Rest

-----------------------------------------------------------------------------
\* A workload is created with the digest its image reference names, in a
\* later call than the one that resolves it; and it goes away.

Run(c) ==
    \E r \in Repos, t \in Tags :
       /\ Listed(repos[r], t)
       /\ Start(c, [op |-> "run", pc |-> "pin", repo |-> r,
                    root |-> repos[r].tags[t]])

Pin(c) ==
    /\ call[c].pc = "pin"
    /\ used' = used \cup {<<call[c].repo, call[c].root>>}
    /\ Finish(c, "ok")
    /\ UNCHANGED <<repos, remote, upstream, moves, calls>>

WorkloadGone ==
    /\ \E u \in used : used' = used \ {u}
    /\ UNCHANGED <<repos, remote, upstream, call, moves, calls>>

-----------------------------------------------------------------------------
Next ==
    \/ UpstreamMoves \/ WorkloadGone
    \/ \E c \in Clients :
          \/ Answered(c) \/ Fails(c)
          \/ Pull(c) \/ Check(c) \/ EnsureTagged(c) \/ Retag(c) \/ Walk(c)
          \/ CopyBlob(c) \/ Copied(c) \/ PushManifest(c)
          \/ Tag(c) \/ WalkStored(c)
          \/ Push(c) \/ PushCheck(c) \/ PushBlob(c) \/ PublishRemote(c)
          \/ RemoveImage(c) \/ CheckInUse(c) \/ Resolve(c) \/ Untag(c)
          \/ DeleteManifest(c) \/ DeleteBlob(c) \/ Deleted(c)
          \/ Prune(c) \/ PruneNext(c)
          \/ Run(c) \/ Pin(c)

Spec == Init /\ [][Next]_vars

-----------------------------------------------------------------------------
\* The types of the variables.
TypeOK ==
    /\ \A r \in Repos : /\ repos[r].tags \in [Tags -> Digests \cup {None}]
                        /\ repos[r].has \subseteq Digests
                        /\ repos[r].blobs \subseteq Blobs
    /\ used \subseteq Repos \X Digests

\* Every tag, at every moment of every pull, retag and removal, names an image
\* with all the content of one platform: content comes before the manifest,
\* children before the index that carries the tag, and a removal spares what
\* other images share (pull, TagImage, ImageDelete).
TagsUsable ==
    \A r \in Repos, t \in Tags :
       repos[r].tags[t] # None => Usable(repos[r], repos[r].tags[t])

\* The image a workload is pinned to keeps its content: removing the last
\* reference a workload needs is refused (imageRemovalContainerCount).
UsedUsable == \A u \in used : Usable(repos[u[1]], u[2])

\* A tag in the external registry names complete content, for an index all
\* its platforms (pushTag: the whole image or one platform of it).
RemoteComplete ==
    \A t \in Tags : remote.tags[t] # None => Complete(remote, remote.tags[t])

\* "every blob is unreferenced in the repository by the time it is removed"
\* (ImageDelete).
RemovedUnreferenced ==
    \A r \in Repos :
       (repos[r].blobs \ repos'[r].blobs) \cap LayersOf(repos'[r].has) = {}
=============================================================================
