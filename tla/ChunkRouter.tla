---------------------------- MODULE ChunkRouter ----------------------------
(***************************************************************************)
(* The streaming chunk router of packages/ifc/src/chunking.ts (and its port *)
(* ifw/chunking.py): geometry arrives once, in any order, and each piece is *)
(* given to a chunk by the centre of its box.  A chunk over its triangle    *)
(* budget is halved; what was streamed before stays where it is.            *)
(*                                                                         *)
(* Coordinates are integers; an instance uses multiples of a power of two   *)
(* so that the midpoints it reaches are integers as well.                   *)
(***************************************************************************)
EXTENDS Integers, Sequences

CONSTANTS
    Storeys,        \* storeys, with one value for "no storey"
    Axes,           \* the code's 0, 1 and 2
    Coords,         \* the coordinates of geometry
    MaxTriangles,   \* maxTrianglesPerChunk
    MaxSplits,      \* MAX_SPLITS_PER_STOREY, 32 in the code
    Far             \* stands for infinity in the box of a chunk without geometry

ASSUME RouterAssumption ==
    /\ Axes \subseteq 0..2 /\ Axes # {}
    /\ Coords \subseteq Int
    /\ MaxTriangles \in Nat
    /\ MaxSplits \in Nat
    /\ Far \in Nat

VARIABLES
    chunks,         \* ChunkRouter.chunks, in order of creation
    splitsLeft      \* storey -> the splits it may still make

router == <<chunks, splitsLeft>>

Point  == [Axes -> Coords]
Guards == [axis : Axes, limit : Int, upper : BOOLEAN]
Chunk  == [storey : Storeys, guards : SUBSET Guards, triangles : Nat,
           lo : [Axes -> Int], hi : [Axes -> Int], overflowed : BOOLEAN]

RouterTypeOK ==
    /\ chunks \in Seq(Chunk)
    /\ splitsLeft \in [Storeys -> 0..MaxSplits]

RouterInit ==
    /\ chunks = <<>>
    /\ splitsLeft = [s \in Storeys |-> MaxSplits]

MakeTarget(s, guards) ==
    [storey |-> s, guards |-> guards, triangles |-> 0,
     lo |-> [a \in Axes |-> Far], hi |-> [a \in Axes |-> -Far],
     overflowed |-> FALSE]

Middle(lo, hi) == [a \in Axes |-> (lo[a] + hi[a]) \div 2]

Inside(c, guards) == \A g \in guards : (c[g.axis] >= g.limit) = g.upper

\* The chunks of a storey whose guards contain a point.
Holders(s, c) ==
    {k \in DOMAIN chunks : chunks[k].storey = s /\ Inside(c, chunks[k].guards)}

\* The newest that holds the point, or the next index if the storey has none.
Locate(s, c) ==
    IF \A k \in DOMAIN chunks : chunks[k].storey # s THEN Len(chunks) + 1
    ELSE IF Holders(s, c) # {}
         THEN CHOOSE k \in Holders(s, c) : \A j \in Holders(s, c) : j <= k
         ELSE CHOOSE k \in DOMAIN chunks :        \* the fallback to the root
                 /\ chunks[k].storey = s
                 /\ \A j \in DOMAIN chunks : chunks[j].storey = s => k <= j

\* The chunk at index k, once the piece is in it.
Received(k, s, lo, hi, n) ==
    LET t == IF k \in DOMAIN chunks THEN chunks[k] ELSE MakeTarget(s, {})
    IN  [t EXCEPT !.triangles = @ + n,
                  !.lo = [a \in Axes |-> IF lo[a] < @[a] THEN lo[a] ELSE @[a]],
                  !.hi = [a \in Axes |-> IF hi[a] > @[a] THEN hi[a] ELSE @[a]]]

With(k, t) == IF k \in DOMAIN chunks THEN [chunks EXCEPT ![k] = t] ELSE Append(chunks, t)

LongestAxis(t) ==
    LET extent(a) == t.hi[a] - t.lo[a]
    IN  CHOOSE a \in Axes : \A b \in Axes \ {a} :
            extent(b) < extent(a) \/ (extent(b) = extent(a) /\ a < b)

OverBudget(t) == t.triangles > MaxTriangles /\ ~t.overflowed

Keep(k, s, lo, hi, n) ==
    /\ ~OverBudget(Received(k, s, lo, hi, n))
    /\ chunks' = With(k, Received(k, s, lo, hi, n))
    /\ UNCHANGED splitsLeft

\* The splits are used up: the chunk may grow.
Overflow(k, s, lo, hi, n) ==
    /\ OverBudget(Received(k, s, lo, hi, n))
    /\ splitsLeft[s] = 0
    /\ chunks' = With(k, [Received(k, s, lo, hi, n) EXCEPT !.overflowed = TRUE])
    /\ UNCHANGED splitsLeft

\* Mutant: the fresh chunk gets the bare half, without its ancestors' guards.
SplitForgets(k, s, lo, hi, n) ==
    LET t     == Received(k, s, lo, hi, n)
        a     == LongestAxis(t)
        limit == (t.lo[a] + t.hi[a]) \div 2
        upper == Middle(lo, hi)[a] >= limit
        half(u) == [axis |-> a, limit |-> limit, upper |-> u]
    IN  /\ OverBudget(t)
        /\ splitsLeft[s] > 0
        /\ splitsLeft' = [splitsLeft EXCEPT ![s] = @ - 1]
        /\ chunks' = Append(With(k, [t EXCEPT !.guards = @ \cup {half(upper)}]),
                            MakeTarget(s, {half(~upper)}))

\* The chunk keeps its data and the side of the piece at hand; the box it
\* keeps is cut at the plane; the other side is a fresh chunk.
Split(k, s, lo, hi, n) ==
    LET t     == Received(k, s, lo, hi, n)
        a     == LongestAxis(t)
        limit == (t.lo[a] + t.hi[a]) \div 2
        upper == Middle(lo, hi)[a] >= limit
        half(u) == [axis |-> a, limit |-> limit, upper |-> u]
        kept  == [t EXCEPT
                    !.guards = @ \cup {half(upper)},
                    !.lo[a] = IF upper /\ limit > @ THEN limit ELSE @,
                    !.hi[a] = IF ~upper /\ limit < @ THEN limit ELSE @]
    IN  /\ OverBudget(t)
        /\ splitsLeft[s] > 0
        /\ splitsLeft' = [splitsLeft EXCEPT ![s] = @ - 1]
        /\ chunks' = Append(With(k, kept), MakeTarget(s, t.guards \cup {half(~upper)}))

Route(s, lo, hi, n) ==
    LET k == Locate(s, Middle(lo, hi))
    IN  \/ Keep(k, s, lo, hi, n)
        \/ Overflow(k, s, lo, hi, n)
        \/ Split(k, s, lo, hi, n)

RouterNext ==
    \E s \in Storeys, lo \in Point, hi \in Point, n \in Nat : Route(s, lo, hi, n)

RouterSpec == RouterInit /\ [][RouterNext]_router

-----------------------------------------------------------------------------
(* The chunks of a storey divide space among them: every point is in exactly *)
(* one.  The code calls the coverage half an invariant and falls back to the *)
(* root chunk where it would not hold; that there is one only makes the      *)
(* order in which locate tries them immaterial.                              *)
ChunksPartitionSpace ==
    \A s \in Storeys :
        (\E k \in DOMAIN chunks : chunks[k].storey = s) =>
            \A c \in Point : \E k \in DOMAIN chunks : Holders(s, c) = {k}
=============================================================================
