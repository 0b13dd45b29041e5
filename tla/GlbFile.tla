------------------------------ MODULE GlbFile ------------------------------
(***************************************************************************)
(* The incremental GLB writer of packages/ifc/src/glb.ts (GlbAssembler) and  *)
(* its two endings, assembleGlbBytes and writeGlbToFile of convert.ts: one   *)
(* binary chunk to which each primitive appends three arrays, and the views  *)
(* that say where they are.  With an encoder an array is written compressed, *)
(* and raw again if the encoder fails on it.                                 *)
(***************************************************************************)
EXTENDS Integers, Sequences

CONSTANTS
    Counts,         \* the vertex and index counts of a primitive
    PackedLengths,  \* lengths the encoder may return
    TextLengths,    \* lengths of the JSON text
    MaxPrimitives

ASSUME GlbAssumption ==
    Counts \subseteq Nat /\ PackedLengths \subseteq Nat \ {0} /\ TextLengths \subseteq Nat \ {0}

VARIABLES
    encoder,        \* usesMeshopt
    prim,           \* the primitive being added: its arrays not yet written
    views,          \* bufferViews, in order
    bin,            \* binLength
    original,       \* virtualOriginal
    fallbacks,      \* fallbackViews
    glb             \* the lengths in the finished file, 0 before

glbVars == <<encoder, prim, views, bin, original, fallbacks, glb>>

Array == [count : Nat, stride : {4, 8}]
View  == [count : Nat, stride : {4, 8}, packed : BOOLEAN,
          at : Nat, length : Nat,       \* the bytes in the binary chunk
          shown : Nat]                  \* byteOffset of the view itself

Bytes(a) == a.count * a.stride
Pad(n, align) == (align - (n % align)) % align

GlbTypeOK ==
    /\ encoder \in BOOLEAN
    /\ prim \in Seq(Array)
    /\ views \in Seq(View)
    /\ bin \in Nat /\ original \in Nat /\ fallbacks \in Nat
    /\ glb \in [json : Nat, bin : Nat, total : Nat]

GlbInit ==
    /\ encoder = FALSE
    /\ prim = <<>> /\ views = <<>>
    /\ bin = 0 /\ original = 0 /\ fallbacks = 0
    /\ glb = [json |-> 0, bin |-> 0, total |-> 0]

\* A new assembler, with or without an encoder.
NewAssembler(enc) ==
    /\ views = <<>> /\ prim = <<>> /\ glb.total = 0
    /\ encoder # enc
    /\ encoder' = enc
    /\ UNCHANGED <<prim, views, bin, original, fallbacks, glb>>

\* addPrimitive: positions and normals in four components each, and indices.
AddPrimitive(v, i) ==
    /\ prim = <<>> /\ glb.total = 0
    /\ Len(views) < 3 * MaxPrimitives
    /\ prim' = <<[count |-> v, stride |-> 8], [count |-> v, stride |-> 4],
                 [count |-> i, stride |-> 4]>>
    /\ UNCHANGED <<encoder, views, bin, original, fallbacks, glb>>

\* The next array goes to `offset`, n bytes long.
Append3(offset, n, packed, shown) ==
    /\ prim # <<>>
    /\ prim' = Tail(prim)
    /\ bin' = offset + n
    /\ views' = Append(views, [count |-> Head(prim).count, stride |-> Head(prim).stride,
                               packed |-> packed, at |-> offset, length |-> n, shown |-> shown])
    /\ UNCHANGED <<encoder, glb>>

\* Mutant: raw data is not aligned, as if what precedes it always were.
PushChunkUnpadded ==
    Append3(bin, Bytes(Head(prim)), FALSE, bin) /\ UNCHANGED original

PushChunk ==
    LET offset == bin + Pad(bin, 4)
    IN  Append3(offset, Bytes(Head(prim)), FALSE, offset) /\ UNCHANGED original

WriteRaw == ~encoder /\ PushChunk /\ UNCHANGED fallbacks

\* The encoder fails on this array: it is kept raw, and counted.
Fallback == encoder /\ PushChunk /\ fallbacks' = fallbacks + 1

\* The view shows a place in the data as if nothing were compressed.
PushCompressed(n) ==
    /\ encoder
    /\ Append3(bin + Pad(bin, 8), n, TRUE, original)
    /\ original' = original + Bytes(Head(prim))
    /\ UNCHANGED fallbacks

\* Header, JSON and binary chunk, each padded; both writers agree on the lengths.
Assemble(text) ==
    /\ prim = <<>> /\ glb.total = 0
    /\ glb' = [json |-> text + Pad(text, 4), bin |-> bin + Pad(bin, 4),
               total |-> 12 + 8 + (text + Pad(text, 4)) + 8 + (bin + Pad(bin, 4))]
    /\ UNCHANGED <<encoder, prim, views, bin, original, fallbacks>>

GlbNext ==
    \/ NewAssembler(TRUE)
    \/ \E v \in Counts, i \in Counts : AddPrimitive(v, i)
    \/ WriteRaw
    \/ Fallback
    \/ \E n \in PackedLengths : PushCompressed(n)
    \/ \E t \in TextLengths : Assemble(t)

GlbSpec == GlbInit /\ [][GlbNext]_glbVars

-----------------------------------------------------------------------------
ViewsInBounds ==
    \A i \in DOMAIN views : views[i].at >= 0 /\ views[i].at + views[i].length <= bin

ViewsApart ==
    \A i, j \in DOMAIN views : i < j => views[i].at + views[i].length <= views[j].at

ViewsAligned ==
    \A i \in DOMAIN views : views[i].at % (IF views[i].packed THEN 8 ELSE 4) = 0

\* What a compressed view shows lies within what would be there uncompressed.
ShownApart ==
    \A i, j \in DOMAIN views : i < j /\ views[i].packed /\ views[j].packed =>
        views[i].shown + Bytes(views[i]) <= views[j].shown

\* The chunk lengths a reader trusts: aligned, and long enough for every view.
FileFits ==
    glb.total # 0 =>
        /\ glb.json % 4 = 0 /\ glb.bin % 4 = 0
        /\ glb.total = 28 + glb.json + glb.bin
        /\ \A i \in DOMAIN views : views[i].at + views[i].length <= glb.bin

(* Whatever mixture of raw, compressed and fallen-back arrays was written,   *)
(* every view of the file has bytes of its own, aligned as its reader needs, *)
(* inside the binary chunk the header announces.                             *)
ViewsFit == ViewsInBounds /\ ViewsApart /\ ViewsAligned /\ ShownApart /\ FileFits
=============================================================================
