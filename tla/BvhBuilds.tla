------------------------------ MODULE BvhBuilds ------------------------------
(***************************************************************************)
(* Picking structures in the viewer: BvhManager.ensure (bvhManager.ts) for  *)
(* each bucket mesh that Viewer.ts attaches, the worker behind it           *)
(* (bvhWorkerTransport.ts, bvh.worker.ts) and the cache by chunk-bucket     *)
(* key, which the viewer never drops: an evicted chunk that is loaded again *)
(* has another geometry with the same key.                                  *)
(*                                                                          *)
(* A geometry's data is the artifact it was parsed from; a reconversion     *)
(* puts another artifact under the same key.                                *)
(***************************************************************************)
EXTENDS Naturals, Sequences

CONSTANTS
    Keys,           \* stateKey:bucketIndex
    Loads,          \* bound on the geometries of a key
    MaxFaults,      \* bound on build errors, worker errors and disposals
    MaxArtifacts    \* 0: the model is not reconverted under the viewer

BuildsAssumption == Loads \in Nat /\ MaxFaults \in Nat /\ MaxArtifacts \in Nat

Geometries == Keys \X (1..Loads)
KeyOf(g)   == g[1]
Artifacts  == 0..MaxArtifacts
NoTree     == MaxArtifacts + 1

VARIABLES
    artifact,   \* what a chunk downloaded now is made from
    geometry,   \* its data, is its mesh in the scene, its boundsTree
    ensuring,   \* geometry -> "new", "wait" or how its ensure ended
    cache,      \* key -> the structure of an artifact
    building,   \* BvhManager.pending: key -> request id, 0 without one
    slots,      \* the transport's pending: ids not answered
    worker,     \* id -> the data posted to the worker and not built
    replies,    \* the worker's messages on their way
    nextId,
    faults

vars == <<artifact, geometry, ensuring, cache, building, slots, worker, replies, nextId, faults>>

Trees == Artifacts \cup {NoTree}
Geometry(data, alive, tree) == [data |-> data, alive |-> alive, tree |-> tree]
Message(id, key, payload) == [id |-> id, key |-> key, payload |-> payload]
Messages == [id : Nat, key : Keys, payload : Trees]

TypeOK ==
    /\ artifact \in Artifacts
    /\ geometry \in [Geometries -> [data : Artifacts, alive : BOOLEAN, tree : Trees]]
    /\ ensuring \in [Geometries -> {"new", "wait", "attached", "gone", "failed"}]
    /\ cache \in [Keys -> Trees]
    /\ building \in [Keys -> Nat]
    /\ slots \subseteq 1..(nextId - 1)
    /\ worker \in Seq(Messages) /\ replies \in Seq(Messages)
    /\ nextId \in Nat \ {0}
    /\ faults \in 0..MaxFaults

Init ==
    /\ artifact = 0
    /\ geometry = [g \in Geometries |-> Geometry(0, FALSE, NoTree)]
    /\ ensuring = [g \in Geometries |-> "new"]
    /\ cache = [k \in Keys |-> NoTree]
    /\ building = [k \in Keys |-> 0]
    /\ slots = {}
    /\ worker = <<>> /\ replies = <<>>
    /\ nextId = 1
    /\ faults = 0

-----------------------------------------------------------------------------
(* The main thread.                                                          *)

\* attachGltfBuckets: the mesh enters the scene and ensure runs as far as its
\* await: from the cache, with the build under way, or with one of its own.
Attach(g) ==
    LET k == KeyOf(g) IN
    /\ ensuring[g] = "new"
    /\ \A h \in Geometries : KeyOf(h) = k /\ h[2] < g[2] => ~ geometry[h].alive /\ ensuring[h] # "new"
    /\ geometry' = [geometry EXCEPT ![g] = Geometry(artifact, TRUE, cache[k])]
    /\ ensuring' = [ensuring EXCEPT ![g] = IF cache[k] # NoTree THEN "attached" ELSE "wait"]
    /\ IF cache[k] # NoTree \/ building[k] # 0
       THEN UNCHANGED <<building, slots, worker, nextId>>
       ELSE /\ building' = [building EXCEPT ![k] = nextId]
            /\ slots' = slots \cup {nextId}
            /\ worker' = Append(worker, Message(nextId, k, artifact))
            /\ nextId' = nextId + 1
    /\ UNCHANGED <<artifact, cache, replies, faults>>

\* The chunk is evicted, or its storey hidden: the mesh leaves its parent.
Evict(g) ==
    /\ geometry[g].alive
    /\ geometry' = [geometry EXCEPT ![g].alive = FALSE]
    /\ UNCHANGED <<artifact, ensuring, cache, building, slots, worker, replies, nextId, faults>>

\* The promises of the builds in ks are settled, with a payload or rejected:
\* whoever awaited them attaches it, to a mesh still in the scene.
Settle(ks, payload) ==
    LET waits(g) == ensuring[g] = "wait" /\ KeyOf(g) \in ks IN
    /\ building' = [k \in Keys |-> IF k \in ks THEN 0 ELSE building[k]]
    /\ cache' = [k \in Keys |-> IF k \in ks /\ payload # NoTree THEN payload ELSE cache[k]]
    /\ ensuring' = [g \in Geometries |->
          IF ~ waits(g) THEN ensuring[g]
          ELSE IF payload = NoTree THEN "failed"
          ELSE IF geometry[g].alive THEN "attached" ELSE "gone"]
    /\ geometry' = [g \in Geometries |->
          IF waits(g) /\ geometry[g].alive /\ payload # NoTree
          THEN [geometry[g] EXCEPT !.tree = payload] ELSE geometry[g]]

\* A reply nobody waits for any more is ignored.
OnMessage ==
    LET m == Head(replies) IN
    /\ replies # <<>>
    /\ replies' = Tail(replies)
    /\ IF m.id \in slots
       THEN slots' = slots \ {m.id} /\ Settle({m.key}, m.payload)
       ELSE UNCHANGED <<slots, building, cache, ensuring, geometry>>
    /\ UNCHANGED <<artifact, worker, nextId, faults>>

\* Mutant: the worker is replaced, and nobody is told.
FailQuietly ==
    /\ faults < MaxFaults /\ worker # <<>>
    /\ faults' = faults + 1
    /\ slots' = {} /\ worker' = <<>> /\ replies' = <<>>
    /\ UNCHANGED <<artifact, geometry, ensuring, cache, building, nextId>>

\* onerror and dispose: all requests are rejected, the worker is terminated;
\* another one is created for the next build.
Fail ==
    /\ faults < MaxFaults /\ slots # {}
    /\ faults' = faults + 1
    /\ slots' = {} /\ worker' = <<>> /\ replies' = <<>>
    /\ Settle({k \in Keys : building[k] \in slots}, NoTree)
    /\ UNCHANGED <<artifact, nextId>>

Reconvert ==
    /\ artifact < MaxArtifacts
    /\ artifact' = artifact + 1
    /\ UNCHANGED <<geometry, ensuring, cache, building, slots, worker, replies, nextId, faults>>

-----------------------------------------------------------------------------
(* The worker: one build after another, which may throw.                     *)

Build(ok) ==
    LET m == Head(worker) IN
    /\ worker # <<>>
    /\ worker' = Tail(worker)
    /\ ok \/ faults < MaxFaults
    /\ faults' = IF ok THEN faults ELSE faults + 1
    /\ replies' = Append(replies, IF ok THEN m ELSE [m EXCEPT !.payload = NoTree])
    /\ UNCHANGED <<artifact, geometry, ensuring, cache, building, slots, nextId>>

-----------------------------------------------------------------------------
Next ==
    \/ \E g \in Geometries : Attach(g) \/ Evict(g)
    \/ OnMessage \/ Fail \/ Reconvert
    \/ \E ok \in BOOLEAN : Build(ok)

Spec == Init /\ [][Next]_vars

-----------------------------------------------------------------------------
(* Properties                                                                *)

\* A structure is built at most once per key (the comment on ensure), however
\* a chunk is evicted and loaded while it builds: only a build that failed is
\* repeated.  Every ensure that waits has a build, so none waits forever.
BuiltOnce ==
    LET messages == worker \o replies
        Live(i)  == messages[i].id \in slots IN
    /\ \A i, j \in DOMAIN messages :
          Live(i) /\ Live(j) /\ messages[i].key = messages[j].key => i = j
    /\ \A i \in DOMAIN messages : Live(i) => cache[messages[i].key] = NoTree
    /\ \A g \in Geometries : ensuring[g] = "wait" =>
          \E i \in DOMAIN messages : Live(i) /\ messages[i].id = building[KeyOf(g)]

\* The comment on drop ("when a version is unloaded entirely"), which the
\* viewer never calls: a geometry is picked with the structure of its data.
TreesMatch ==
    \A g \in Geometries : geometry[g].tree \in {NoTree, geometry[g].data}
=============================================================================
