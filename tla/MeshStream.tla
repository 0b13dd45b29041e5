----------------------------- MODULE MeshStream -----------------------------
(***************************************************************************)
(* From meshes to artifact files: the streaming part of convertOpen and     *)
(* convertIfcFile in packages/ifc/src/convert.ts, and of convert_document   *)
(* in the native pipeline (ifw/pipeline.py), over one artifact directory in *)
(* which conversions follow one another.                                    *)
(*                                                                         *)
(* Geometry is gathered in buckets (chunk, storey, colour); a bucket that   *)
(* reaches the vertex bound is sealed as a primitive and starts afresh.     *)
(***************************************************************************)
EXTENDS ChunkRouter, FiniteSets, FiniteSetsExt, SequencesExt

CONSTANTS
    Elements, Colors,
    NoStorey,       \* the storey of an element that none contains
    Shapes,         \* pieces a mesh may have: [lo, hi, triangles, vertices, sane]
    MaxVertices,    \* maxVerticesPerPrimitive
    MaxPieces,      \* bound on the pieces of one conversion
    MaxRuns         \* bound on the conversions into one directory

ASSUME StreamAssumption ==
    /\ NoStorey \in Storeys /\ MaxVertices \in Nat \ {0}
    /\ MaxPieces \in Nat /\ MaxRuns \in Nat
    /\ Shapes \subseteq [lo : [Axes -> Coords], hi : [Axes -> Coords], triangles : Nat,
                        vertices : Nat \ {0}, sane : BOOLEAN]

VARIABLES
    engine,         \* "wasm" or "native"
    chunking,       \* is there a router
    storeyOf,       \* element -> its storey
    phase,          \* "idle", "stream", "seal", "done", "failed"
    streams,        \* chunks that have a stream
    open,           \* bucket key -> the part that is being filled
    sealed,         \* sealedBuckets: the primitives, in order
    elements,       \* elements with metadata
    chunkOf,        \* element -> the chunk that first received it
    boxOf,          \* element -> its box, for those with geometry
    pieces,         \* the pieces streamed, broken ones included
    disk,           \* the artifact directory
    runs

stream == <<streams, open, sealed, elements, chunkOf, boxOf, pieces>>
vars   == <<router, engine, chunking, storeyOf, phase, stream, disk, runs>>

\* Map.set
Set(map, key, value) == [x \in DOMAIN map \cup {key} |-> IF x = key THEN value ELSE map[x]]

NoPart == [vertices |-> 0, length |-> 0, ranges |-> <<>>]

RangeType     == [element : Elements, start : Nat, count : {g.triangles : g \in Shapes}]
PartType      == [vertices : Nat, length : Nat, ranges : Seq(RangeType)]
PrimitiveType == [chunk : Nat, storey : Storeys, length : Nat, ranges : Seq(RangeType)]

TypeOK ==
    /\ RouterTypeOK
    /\ engine \in {"wasm", "native"} /\ chunking \in BOOLEAN
    /\ storeyOf \in [Elements -> Storeys]
    /\ phase \in {"idle", "stream", "seal", "done", "failed"}
    /\ streams \subseteq Nat /\ elements \subseteq Elements
    /\ DOMAIN open \subseteq Nat \X Storeys \X Colors
    /\ \A k \in DOMAIN open : open[k] \in PartType
    /\ sealed \in Seq(PrimitiveType)
    /\ DOMAIN chunkOf \subseteq Elements /\ \A e \in DOMAIN chunkOf : chunkOf[e] \in Nat
    /\ DOMAIN boxOf \subseteq Elements
    /\ pieces \in Seq([element : Elements, shape : Shapes])
    /\ disk \in [single : 0..MaxRuns, chunks : SUBSET (Nat \X (1..MaxRuns))]
    /\ runs \in 0..MaxRuns

Init ==
    /\ RouterInit
    /\ engine \in {"wasm", "native"}
    /\ chunking = FALSE
    /\ storeyOf = [e \in Elements |-> NoStorey]
    /\ phase = "idle"
    /\ streams = {} /\ open = <<>> /\ sealed = <<>>
    /\ elements = {} /\ chunkOf = <<>> /\ boxOf = <<>> /\ pieces = <<>>
    /\ disk = [single |-> 0, chunks |-> {}]
    /\ runs = 0

\* The first containment that names an element decides its storey.
Containments == [1..2 -> [structure : Storeys \ {NoStorey}, elements : SUBSET Elements]]
StoreyOf(rels) ==
    [e \in Elements |->
        IF e \in rels[1].elements THEN rels[1].structure
        ELSE IF e \in rels[2].elements THEN rels[2].structure ELSE NoStorey]

\* The source is no IFC file, or the engine cannot open it: nothing was written.
Reject ==
    /\ phase \in {"idle", "done", "failed"}
    /\ runs < MaxRuns
    /\ runs' = runs + 1
    /\ phase' = "failed"
    /\ UNCHANGED <<router, engine, chunking, storeyOf, stream, disk>>

\* A conversion starts; contained elements have metadata before any geometry.
Start ==
    /\ phase \in {"idle", "done", "failed"}
    /\ runs < MaxRuns
    /\ runs' = runs + 1
    /\ phase' = "stream"
    /\ chunking' \in BOOLEAN
    /\ \E rels \in Containments : storeyOf' = StoreyOf(rels)
    /\ elements' = {e \in Elements : storeyOf'[e] # NoStorey}
    /\ chunks' = <<>> /\ splitsLeft' = [s \in Storeys |-> MaxSplits]
    /\ streams' = {} /\ open' = <<>> /\ sealed' = <<>>
    /\ chunkOf' = <<>> /\ boxOf' = <<>> /\ pieces' = <<>>
    /\ UNCHANGED <<engine, disk>>

Piece(e, g) ==
    /\ phase = "stream"
    /\ Len(pieces) < MaxPieces
    /\ pieces' = Append(pieces, [element |-> e, shape |-> g])

\* A piece beyond 100 km is dropped; its element keeps its metadata.  The wasm
\* engine without a router has opened its one stream by then.
Drop(e, g) ==
    /\ Piece(e, g)
    /\ ~g.sane
    /\ elements' = elements \cup {e}
    /\ streams' = IF engine = "wasm" /\ ~chunking THEN streams \cup {0} ELSE streams
    /\ UNCHANGED <<router, engine, chunking, storeyOf, phase, open, sealed, chunkOf, boxOf, disk, runs>>

Filled(part, e, g) ==
    [vertices |-> part.vertices + g.vertices,
     length   |-> part.length + g.triangles,
     ranges   |-> Append(part.ranges, [element |-> e, start |-> part.length, count |-> g.triangles])]

\* A bucket part becomes a primitive of its chunk; an empty one becomes nothing.
Primitive(key, part) ==
    IF part.vertices = 0 THEN <<>>
    ELSE <<[chunk |-> key[1], storey |-> key[2], length |-> part.length, ranges |-> part.ranges]>>

\* Mutant: sealing leaves the part's ranges for the next primitive.
FillKeeps(key, e, g) ==
    LET part == Filled(IF key \in DOMAIN open THEN open[key] ELSE NoPart, e, g)
    IN  IF part.vertices >= MaxVertices
        THEN /\ sealed' = sealed \o Primitive(key, part)
             /\ open' = Set(open, key, [NoPart EXCEPT !.ranges = part.ranges])
        ELSE /\ open' = Set(open, key, part)
             /\ UNCHANGED sealed

Fill(key, e, g) ==
    LET part == Filled(IF key \in DOMAIN open THEN open[key] ELSE NoPart, e, g)
    IN  IF part.vertices >= MaxVertices
        THEN /\ sealed' = sealed \o Primitive(key, part)
             /\ open' = Set(open, key, NoPart)
        ELSE /\ open' = Set(open, key, part)
             /\ UNCHANGED sealed

Grown(e, g) ==
    IF e \in DOMAIN boxOf
    THEN [lo |-> [a \in Axes |-> Min({boxOf[e].lo[a], g.lo[a]})],
          hi |-> [a \in Axes |-> Max({boxOf[e].hi[a], g.hi[a]})]]
    ELSE [lo |-> g.lo, hi |-> g.hi]

Place(e, color, g) ==
    LET s == storeyOf[e]
        k == IF chunking THEN Locate(s, Middle(g.lo, g.hi)) - 1 ELSE 0
    IN  /\ Piece(e, g)
        /\ g.sane
        /\ IF chunking THEN Route(s, g.lo, g.hi, g.triangles) ELSE UNCHANGED router
        /\ streams' = streams \cup {k}
        /\ chunkOf' = IF chunking /\ e \notin DOMAIN chunkOf THEN Set(chunkOf, e, k) ELSE chunkOf
        /\ boxOf' = Set(boxOf, e, Grown(e, g))
        /\ Fill(<<k, s, color>>, e, g)
        /\ elements' = IF engine = "native" THEN elements \cup {e} ELSE elements
        /\ UNCHANGED <<engine, chunking, storeyOf, phase, disk, runs>>

\* The stream ends: meshed elements without a storey get their metadata.
EndStream ==
    /\ phase = "stream"
    /\ phase' = "seal"
    /\ elements' = elements \cup DOMAIN boxOf
    /\ UNCHANGED <<router, engine, chunking, storeyOf, streams, open, sealed, chunkOf, boxOf, pieces, disk, runs>>

SealRest(key) ==
    /\ phase = "seal"
    /\ sealed' = sealed \o Primitive(key, open[key])
    /\ open' = [k \in DOMAIN open \ {key} |-> open[k]]
    /\ UNCHANGED <<router, engine, chunking, storeyOf, phase, streams, elements, chunkOf, boxOf, pieces, disk, runs>>

Sealed == phase = "seal" /\ open = <<>>
Chunked == Cardinality(streams) > 1

\* Nothing at all is EMPTY_MODEL.  Metadata without geometry has no stream 0 to
\* write: the wasm engine throws, the native one opens an empty stream.
Fail ==
    /\ Sealed
    /\ \/ elements = {} /\ sealed = <<>>
       \/ streams = {} /\ engine = "wasm"
    /\ phase' = "failed"
    /\ UNCHANGED <<router, engine, chunking, storeyOf, stream, disk, runs>>

EmptyStream ==
    /\ Sealed
    /\ engine = "native"
    /\ streams = {} /\ elements # {}
    /\ streams' = {0}
    /\ UNCHANGED <<router, engine, chunking, storeyOf, phase, open, sealed, elements, chunkOf, boxOf, pieces, disk, runs>>

\* chunks/<id>.glb for each stream, and the single file of an earlier run goes.
PublishChunks ==
    /\ Sealed
    /\ Chunked
    /\ disk' = [single |-> 0,
                chunks |-> {c \in disk.chunks : c[1] \notin streams} \cup (streams \X {runs})]
    /\ phase' = "done"
    /\ UNCHANGED <<router, engine, chunking, storeyOf, stream, runs>>

\* Mutant: the chunks of an earlier run stay next to the single file.
PublishSingleKeeps ==
    /\ Sealed
    /\ ~Chunked
    /\ 0 \in streams
    /\ ~(elements = {} /\ sealed = <<>>)
    /\ disk' = [disk EXCEPT !.single = runs]
    /\ phase' = "done"
    /\ UNCHANGED <<router, engine, chunking, storeyOf, stream, runs>>

PublishSingle ==
    /\ Sealed
    /\ ~Chunked
    /\ 0 \in streams
    /\ ~(elements = {} /\ sealed = <<>>)
    /\ disk' = [single |-> runs, chunks |-> {}]
    /\ phase' = "done"
    /\ UNCHANGED <<router, engine, chunking, storeyOf, stream, runs>>

Next ==
    \/ Start \/ Reject \/ EndStream \/ Fail \/ EmptyStream \/ PublishChunks \/ PublishSingle
    \/ \E e \in Elements, c \in Colors, g \in Shapes : Place(e, c, g)
    \/ \E e \in Elements, g \in Shapes : Drop(e, g)
    \/ \E key \in DOMAIN open : SealRest(key)

Spec == Init /\ [][Next]_vars

-----------------------------------------------------------------------------
Primitives == ToSet(sealed) \cup {open[k] : k \in DOMAIN open}
Sound      == {i \in DOMAIN pieces : pieces[i].shape.sane}

\* The ranges of a primitive follow one another from 0 to the end of its indices.
End(ranges, i) == IF i = 0 THEN 0 ELSE ranges[i].start + ranges[i].count
Gapless(p) ==
    /\ \A i \in DOMAIN p.ranges : p.ranges[i].start = End(p.ranges, i - 1)
    /\ p.length = End(p.ranges, Len(p.ranges))

\* How many ranges an element has, of so many triangles.
Tally(p, e, n) ==
    Cardinality({i \in DOMAIN p.ranges : p.ranges[i].element = e /\ p.ranges[i].count = n})
TallyOf(parts, e, n) == MapThenSumSet(LAMBDA k : Tally(parts[k], e, n), DOMAIN parts)

(* Every piece that was not dropped is one range of its element, across sealed *)
(* and open parts, and no other range is there; the ranges of a primitive have *)
(* no gap between them: what picking and hiding an element rely on.            *)
GeometryIsKept ==
    /\ \A p \in Primitives : Gapless(p)
    /\ \A e \in Elements, n \in {g.triangles : g \in Shapes} :
          TallyOf(sealed, e, n) + TallyOf(open, e, n) =
          Cardinality({i \in Sound : pieces[i].element = e /\ pieces[i].shape.triangles = n})

\* The primitives of a chunk, and their triangles.
Of(k)     == {j \in DOMAIN sealed : sealed[j].chunk = k - 1}
Length(j) == sealed[j].length
Drawn(k)  == MapThenSumSet(Length, Of(k))

(* What a finished conversion leaves agrees with itself: the directory holds  *)
(* the files of the format the manifest names and no single file next to      *)
(* chunks; a chunk's triangles and storey are those of its primitives; an     *)
(* element with geometry has metadata, and chunkId names a chunk it is in.    *)
ArtifactIsExact ==
    phase = "done" =>
      /\ IF Chunked
         THEN disk.single = 0 /\ streams \X {runs} \subseteq disk.chunks
         ELSE disk = [single |-> runs, chunks |-> {}]
      /\ chunking => \A k \in streams \ {0} : k + 1 \in DOMAIN chunks
      /\ chunking => \A k \in DOMAIN chunks :
            /\ chunks[k].triangles = Drawn(k)
            /\ \A j \in Of(k) : sealed[j].storey = chunks[k].storey
      /\ \A i \in Sound : pieces[i].element \in elements \cap DOMAIN boxOf
      /\ \A e \in DOMAIN chunkOf :
            \E j \in Of(chunkOf[e] + 1) : \E r \in ToSet(sealed[j].ranges) : r.element = e

(* chunking.ts:28 says of a chunk's box: world-space AABB of all geometry     *)
(* routed here.  A chunk that was split does not keep to it.                  *)
ChunkBoxesCover ==
    chunking => \A i \in Sound : \A k \in DOMAIN chunks :
        (\E j \in Of(k) :
            sealed[j].ranges = <<[element |-> pieces[i].element, start |-> 0,
                                  count |-> pieces[i].shape.triangles]>>) =>
          \A a \in Axes : chunks[k].lo[a] <= pieces[i].shape.lo[a]
                        /\ pieces[i].shape.hi[a] <= chunks[k].hi[a]
=============================================================================
