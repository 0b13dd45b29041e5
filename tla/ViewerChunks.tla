---------------------------- MODULE ViewerChunks -----------------------------
(***************************************************************************)
(* What the viewer keeps in its scene: apps/web/src/viewer/Viewer.ts        *)
(* (loadFederation, loadChunk, setVisibleStoreyKeys, unloadChunk),          *)
(* chunkPlanning.ts, and the callers in pages/ViewerPage.tsx.               *)
(*                                                                          *)
(* The script runs without interruption between two awaits; it awaits the   *)
(* download of a chunk, the parsing of a GLB, and nothing else.  A version  *)
(* is one file or a set of chunks; chunk n weighs n and is all of storey n, *)
(* so that a key names a chunk and the storey that shows it.  Elements are  *)
(* drawn as geometry or, from afar or while hidden, as boxes.  Begin and    *)
(* NextBatch run without an await between them in the script; as two steps  *)
(* they allow more orders than it has, never fewer.                         *)
(***************************************************************************)
EXTENDS Naturals, Sequences, FiniteSets, FiniteSetsExt, SequencesExt

CONSTANTS
    Single,         \* versions in one file
    Chunked,        \* versions in chunks
    Chunks,         \* chunks of a version
    Budget,         \* maxResidentBytes
    Concurrency,    \* CHUNK_LOAD_CONCURRENCY
    MaxLoads,       \* bound on loadFederation calls
    MaxWishes,      \* bound on what the user changes
    Overlap         \* may a load start while another still parses?

Versions == Single \cup Chunked

ASSUME ViewerAssumption ==
    /\ IsFiniteSet(Versions) /\ Single \cap Chunked = {}
    /\ Chunks \in Nat /\ Budget \in Nat
    /\ Concurrency \in Nat \ {0}
    /\ MaxLoads \in Nat /\ MaxWishes \in Nat
    /\ Overlap \in BOOLEAN

\* Chunk keys, and the key of a file: what can be wanted, loaded and drawn.
ChunkKeys  == Chunked \X (1..Chunks)
SingleKeys == Single \X {0}
Keys == ChunkKeys \cup SingleKeys
KeysOf(m) == {k \in Keys : k[1] \in ToSet(m)}
Bytes(k) == k[2]
Weight(S) == MapThenSumSet(Bytes, S)

Federations ==
    {m \in UNION {[1..n -> Versions] : n \in 1..Cardinality(Versions)} :
        \A i, j \in DOMAIN m : m[i] = m[j] => i = j}

\* Display mode and camera: the keys near enough for geometry; boxes only in
\* proxy mode.  A file's geometry is all or nothing.
Views == {{}} \cup {S \cup SingleKeys : S \in SUBSET ChunkKeys}

Loads == 1..MaxLoads
Seqs  == 0..MaxLoads

VARIABLES
    seq,            \* loadSeq
    models,         \* the federation shown
    groups,         \* versionGroups: the load that made a version's group
    scene,          \* groups in the scene: <<version, load>>
    meshes,         \* bucketMeshes
    loads,          \* the calls of loadFederation, and their callers
    visible,        \* visibleKeys
    near,           \* displayMode and camera
    wanted,         \* wantedChunks
    proxies,        \* versions whose boxes have arrived
    boxed,          \* what the proxy mesh draws
    chunkStates,
    residentBytes,
    fetch,          \* calls of loadChunk, by key
    apply,          \* setVisibleStoreyKeys, while it is busy
    again,          \* visibilityAgain
    failed,         \* chunks whose last load failed
    wishes

vars == <<seq, models, groups, scene, meshes, loads, visible, near, wanted,
          proxies, boxed, chunkStates, residentBytes, fetch, apply, again,
          failed, wishes>>
wish   == <<visible, near, wishes>>
placed == <<seq, models, groups, scene, loads>>
cache  == <<chunkStates, residentBytes, fetch, failed>>

Mesh(k, l, shown) == [key |-> k, load |-> l, shown |-> shown]
Load(pc, m, todo) == [pc |-> pc, models |-> m, todo |-> todo]
Fetch(pc, s, g) == [pc |-> pc, seq |-> s, group |-> g]
NoFetch == Fetch("none", 0, 0)
Apply(pc, s, todo, batch) == [pc |-> pc, seq |-> s, todo |-> todo, batch |-> batch]
Idle == Apply("idle", 0, {}, {})

TypeOK ==
    /\ seq \in Seqs
    /\ models \in Federations \cup {<<>>}
    /\ groups \in [Versions -> Seqs]
    /\ scene \subseteq Versions \X Loads
    /\ meshes \subseteq [key : Keys, load : Loads, shown : BOOLEAN]
    /\ DOMAIN loads = Loads
    /\ \A l \in Loads : loads[l].pc \in {"none", "parse", "failed", "placed", "over"}
    /\ visible \subseteq Keys /\ near \in Views /\ wanted \subseteq Keys
    /\ proxies \subseteq Versions /\ boxed \subseteq Keys
    /\ chunkStates \subseteq ChunkKeys
    /\ residentBytes \in Nat
    /\ fetch \in [ChunkKeys -> [pc : {"none", "download", "parse"}, seq : Seqs, group : Seqs]]
    /\ apply \in [pc : {"idle", "load", "again"}, seq : Seqs,
                  todo : SUBSET ChunkKeys, batch : SUBSET ChunkKeys]
    /\ again \in BOOLEAN
    /\ failed \subseteq ChunkKeys
    /\ wishes \in 0..MaxWishes

Init ==
    /\ seq = 0 /\ models = <<>>
    /\ groups = [v \in Versions |-> 0]
    /\ scene = {} /\ meshes = {}
    /\ loads = [l \in Loads |-> Load("none", <<>>, <<>>)]
    /\ visible = {} /\ near \in Views /\ wanted = {}
    /\ proxies = {} /\ boxed = {}
    /\ chunkStates = {} /\ residentBytes = 0
    /\ fetch = [k \in ChunkKeys |-> NoFetch]
    /\ apply = Idle /\ again = FALSE
    /\ failed = {}
    /\ wishes = 0

-----------------------------------------------------------------------------
\* computeWantedChunks: a file does not depend on the visible storeys.
Wanted(m, vis, view) == KeysOf(m) \cap view \cap (vis \cup SingleKeys)

\* rebuildProxyMesh
Boxes(vis, want, arrived) == {k \in vis \ want : k[1] \in arrived}

(* loadFederation                                                            *)

\* The models are placed up to the next one that has a file to parse.
Stop(todo) == SelectInSeq(todo, LAMBDA v : v \in Single)
Now(todo)  == ToSet(IF Stop(todo) = 0 THEN todo ELSE SubSeq(todo, 1, Stop(todo)))
Rest(todo) == IF Stop(todo) = 0 THEN <<>> ELSE SubSeq(todo, Stop(todo), Len(todo))

Place(l, m, todo, cleared, kept) ==
    /\ groups' = [v \in Versions |-> IF v \in Now(todo) THEN l ELSE cleared[v]]
    /\ scene' = kept \cup (Now(todo) \X {l})
    /\ loads' = [loads EXCEPT ![l] =
          Load(IF Rest(todo) = <<>> THEN "placed" ELSE "parse", m, Rest(todo))]

\* Mutant: the bytes of the chunks that are dropped stay counted.
LoadFederationKeepsBytes(m) ==
    LET l == seq + 1 IN
    /\ seq < MaxLoads
    /\ Overlap \/ \A i \in Loads : loads[i].pc # "parse"
    /\ seq' = l
    /\ models' = m
    /\ meshes' = {}
    /\ chunkStates' = {} /\ failed' = {}
    /\ wanted' = Wanted(m, visible, near)
    /\ proxies' = proxies \cap ToSet(m)
    /\ boxed' = Boxes(visible, wanted', proxies')
    /\ Place(l, m, m, [v \in Versions |-> 0], scene \ {<<v, groups[v]>> : v \in Versions})
    /\ UNCHANGED <<wish, residentBytes, fetch, apply, again>>

LoadFederation(m) ==
    LET l == seq + 1 IN
    /\ seq < MaxLoads
    /\ Overlap \/ \A i \in Loads : loads[i].pc # "parse"
    /\ seq' = l
    /\ models' = m
    /\ meshes' = {}
    /\ chunkStates' = {} /\ residentBytes' = 0 /\ failed' = {}
    /\ wanted' = Wanted(m, visible, near)
    /\ proxies' = proxies \cap ToSet(m)
    /\ boxed' = Boxes(visible, wanted', proxies')
    /\ Place(l, m, m, [v \in Versions |-> 0], scene \ {<<v, groups[v]>> : v \in Versions})
    /\ UNCHANGED <<wish, fetch, apply, again>>

\* parseSingle is back: loadFederation goes on, whatever happened meanwhile.
Parsed(l) ==
    LET todo == loads[l].todo IN
    /\ loads[l].pc = "parse"
    /\ meshes' = meshes \cup {Mesh(<<Head(todo), 0>>, l, TRUE)}
    /\ Place(l, loads[l].models, Tail(todo), groups, scene)
    /\ UNCHANGED <<wish, cache, seq, models, wanted, proxies, boxed, apply, again>>

\* parseAsync rejects, and loadFederation with it: the models behind this one
\* are not placed, and the caller sets neither boxes nor visible storeys.
ParseFails(l) ==
    /\ loads[l].pc = "parse"
    /\ loads' = [loads EXCEPT ![l].pc = "failed"]
    /\ UNCHANGED <<wish, cache, seq, models, groups, scene, meshes, wanted, proxies,
                   boxed, apply, again>>

-----------------------------------------------------------------------------
(* setVisibleStoreyKeys: one applyVisibility at a time, and one more after   *)
(* it if anything was asked meanwhile.                                       *)

Begin(vis, view) ==
    /\ wanted' = Wanted(models, vis, view)
    /\ apply' = Apply("load", seq, (wanted' \cap ChunkKeys) \ chunkStates, {})
    /\ again' = FALSE

SetVisible(vis, view) ==
    /\ visible' = vis
    /\ near' = view
    /\ IF apply.pc # "idle" THEN again' = TRUE /\ UNCHANGED <<wanted, apply>>
       ELSE Begin(vis, view)

\* What the page may list.
Listed == {models} \cup {loads[l].models : l \in {i \in Loads : loads[i].pc = "over"}}

\* The page shows the storeys of what it loaded; after a lost WebGL context
\* those that were visible.
Show(l) ==
    /\ loads[l].pc = "placed"
    /\ loads' = [loads EXCEPT ![l].pc = "over"]
    /\ \E vis \in (SUBSET KeysOf(loads[l].models)) \cup {visible} : SetVisible(vis, near)
    /\ UNCHANGED <<cache, seq, models, groups, scene, meshes, proxies, boxed, wishes>>

\* The floor tree, the display mode, the camera.  The tree is of what the page
\* loaded last, which the viewer may have dropped for a load that failed.
Wish ==
    /\ wishes < MaxWishes
    /\ wishes' = wishes + 1
    /\ \E vis \in UNION {SUBSET KeysOf(m) : m \in Listed}, view \in Views :
          /\ <<vis, view>> # <<visible, near>>
          /\ SetVisible(vis, view)
    /\ UNCHANGED <<placed, cache, meshes, proxies, boxed>>

\* The boxes of a version that is or was loaded arrive.
SetProxyBoxes(v) ==
    /\ \E l \in Loads : loads[l].pc = "over" /\ v \in ToSet(loads[l].models)
    /\ v \notin proxies
    /\ proxies' = proxies \cup {v}
    /\ boxed' = Boxes(visible, wanted, proxies')
    /\ UNCHANGED <<placed, wish, cache, meshes, wanted, apply, again>>

Fetched == \A k \in apply.batch : fetch[k] = NoFetch
GotoAgain == apply' = Apply("again", 0, {}, {})

\* The next Concurrency chunks; one whose group is not there is skipped.
NextBatch ==
    /\ apply.pc = "load" /\ apply.todo # {} /\ Fetched
    /\ IF seq # apply.seq THEN GotoAgain /\ UNCHANGED cache
       ELSE \E batch \in kSubset(Min({Concurrency, Cardinality(apply.todo)}), apply.todo) :
              LET start == {k \in batch : groups[k[1]] # 0} IN
              /\ chunkStates' = chunkStates \cup start
              /\ failed' = failed \ start
              /\ fetch' = [k \in ChunkKeys |->
                    IF k \in start THEN Fetch("download", seq, groups[k[1]]) ELSE fetch[k]]
              /\ apply' = [apply EXCEPT !.todo = @ \ batch, !.batch = batch]
              /\ UNCHANGED residentBytes
    /\ UNCHANGED <<placed, wish, meshes, wanted, proxies, boxed, again>>

\* planEvictions: hidden chunks until the rest fits; which go first is left
\* open.
Hidden == chunkStates \ wanted
Evictions ==
    {out \in SUBSET Hidden :
        /\ residentBytes - Weight(out) <= Budget \/ out = Hidden
        /\ out # {} => \E k \in out : residentBytes - Weight(out \ {k}) > Budget}

\* Mutant: a pass that a load superseded never gives visibilityBusy back.
FinishStuck ==
    /\ apply.pc = "load" /\ apply.todo = {} /\ Fetched
    /\ seq = apply.seq
    /\ GotoAgain
    /\ \E out \in Evictions :
          /\ meshes' = {Mesh(b.key, b.load, b.key \in wanted) :
                           b \in {m \in meshes : m.key \notin out}}
          /\ boxed' = Boxes(visible, wanted, proxies)
          /\ chunkStates' = chunkStates \ out
          /\ residentBytes' = residentBytes - Weight(out)
    /\ UNCHANGED <<placed, wish, wanted, proxies, fetch, again, failed>>

Finish ==
    /\ apply.pc = "load" /\ apply.todo = {} /\ Fetched
    /\ GotoAgain
    /\ IF seq # apply.seq THEN UNCHANGED <<meshes, boxed, chunkStates, residentBytes>>
       ELSE \E out \in Evictions :
              /\ meshes' = {Mesh(b.key, b.load, b.key \in wanted) :
                               b \in {m \in meshes : m.key \notin out}}
              /\ boxed' = Boxes(visible, wanted, proxies)
              /\ chunkStates' = chunkStates \ out
              /\ residentBytes' = residentBytes - Weight(out)
    /\ UNCHANGED <<placed, wish, wanted, proxies, fetch, again, failed>>

Again ==
    /\ apply.pc = "again"
    /\ IF again THEN Begin(visible, near) ELSE apply' = Idle /\ UNCHANGED <<wanted, again>>
    /\ UNCHANGED <<placed, wish, cache, meshes, proxies, boxed>>

-----------------------------------------------------------------------------
(* loadChunk                                                                 *)

Downloaded(k) ==
    /\ fetch[k].pc = "download"
    /\ fetch' = [fetch EXCEPT ![k] =
          IF @.seq = seq /\ k \in chunkStates THEN [@ EXCEPT !.pc = "parse"] ELSE NoFetch]
    /\ UNCHANGED <<placed, wish, meshes, wanted, proxies, boxed, chunkStates,
                   residentBytes, failed, apply, again>>

\* Mutant: no look at loadSeq after the parse.
AttachStale(k) ==
    /\ fetch[k].pc = "parse"
    /\ fetch' = [fetch EXCEPT ![k] = NoFetch]
    /\ meshes' = meshes \cup {Mesh(k, fetch[k].group, TRUE)}
    /\ residentBytes' = residentBytes + Bytes(k)
    /\ UNCHANGED <<placed, wish, wanted, proxies, boxed, chunkStates, failed,
                   apply, again>>

Attach(k) ==
    /\ fetch[k].pc = "parse"
    /\ fetch' = [fetch EXCEPT ![k] = NoFetch]
    /\ IF fetch[k].seq = seq
       THEN /\ meshes' = meshes \cup {Mesh(k, fetch[k].group, TRUE)}
            /\ residentBytes' = residentBytes + Bytes(k)
       ELSE UNCHANGED <<meshes, residentBytes>>
    /\ UNCHANGED <<placed, wish, wanted, proxies, boxed, chunkStates, failed,
                   apply, again>>

\* The download or the parse fails: the state goes, unless it is another one.
FetchFails(k) ==
    /\ fetch[k].pc # "none"
    /\ fetch' = [fetch EXCEPT ![k] = NoFetch]
    /\ IF fetch[k].seq = seq
       THEN chunkStates' = chunkStates \ {k} /\ failed' = failed \cup {k}
       ELSE UNCHANGED <<chunkStates, failed>>
    /\ UNCHANGED <<placed, wish, meshes, wanted, proxies, boxed, residentBytes,
                   apply, again>>

-----------------------------------------------------------------------------
Script ==
    \/ \E l \in Loads : Parsed(l) \/ ParseFails(l) \/ Show(l)
    \/ NextBatch \/ Finish \/ Again
    \/ \E k \in ChunkKeys : Downloaded(k) \/ Attach(k) \/ FetchFails(k)

Next ==
    \/ \E m \in Federations : LoadFederation(m)
    \/ Wish
    \/ \E v \in Versions : SetProxyBoxes(v)
    \/ Script

Spec == Init /\ [][Next]_vars

\* Downloads are answered or fail, and the script goes on.
FairSpec == Spec /\ WF_vars(Script)

-----------------------------------------------------------------------------
(* Properties                                                                *)

AtRest == apply.pc = "idle" /\ \A l \in Loads : loads[l].pc \in {"none", "failed", "over"}

\* The latest load ended at a file that it could not parse.
Cut == seq # 0 /\ loads[seq].pc = "failed"

\* At rest after a load that went through every visible storey is drawn once:
\* as geometry or as boxes (if its boxes and its chunks could be loaded), and
\* geometry is shown only where it is visible and near.
DrawnOnce ==
    AtRest /\ ~Cut =>
       /\ \A k \in visible \cap KeysOf(models) :
             k[1] \in proxies /\ k \notin failed =>
                (k \in boxed) # (\E b \in meshes : b.key = k /\ b.shown)
       /\ \A b \in meshes : b.shown <=> b.key \in Wanted(models, visible, near)

\* The models of the latest federation behind the file it could not parse.
Lost == IF Cut THEN ToSet(Tail(loads[seq].todo)) ELSE {}

\* A load drops what was there: once no load is parsing, the scene holds the
\* groups of the latest federation, but for those a failed parse lost, and
\* nothing else, every mesh in them, and no chunk twice, however loads,
\* downloads and evictions interleave; and at rest each visible storey is
\* drawn once.
SceneIsFederation ==
    /\ DrawnOnce
    /\ (\A l \in Loads : loads[l].pc # "parse") =>
          scene = (ToSet(models) \ Lost) \X {seq}
    /\ \A b \in meshes : <<b.key[1], b.load>> \in scene /\ b.load = seq
    /\ \A b, c \in meshes : b.key = c.key => b = c

\* residentBytes, on which evictions are decided, is what the chunks in the
\* scene weigh; and at rest they fit the budget, or all of them are shown.
BytesAreExact ==
    /\ residentBytes = Weight({b.key : b \in meshes})
    /\ AtRest => residentBytes <= Budget \/ \A b \in meshes : b.shown

\* When the user stops, so does the viewer.
ComesToRest == <>[]AtRest
=============================================================================
