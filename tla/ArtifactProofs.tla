--------------------------- MODULE ArtifactProofs ---------------------------
(***************************************************************************)
(* What makes an artifact, for all values of the constants.                 *)
(*                                                                          *)
(* The chunks of a storey divide space, for any storeys, coordinates,       *)
(* budget, number of splits and pieces.  A piece is placed by the middle of *)
(* its box, which need not be one of the coordinates of geometry: what is   *)
(* inductive is the division of the whole integer grid.  On it locate       *)
(* always finds exactly one chunk, so the fallback to the root chunk in the *)
(* code is never reached.                                                   *)
(*                                                                          *)
(* The views of a file fit, for any number of primitives, counts, packed    *)
(* lengths and failures of the encoder.  ViewsFit compares pairs of views;  *)
(* inductive is the comparison of every view with the running totals the    *)
(* next one is placed by: the bytes written, and the bytes there would be   *)
(* uncompressed.                                                            *)
(*                                                                          *)
(* Outputs that answer for work are complete, and done work is not redone,  *)
(* for any shards and any number of crashes: what PresplitPipelineProofs    *)
(* proves of the pipeline holds of the one in an artifact.                  *)
(*                                                                          *)
(* The geometry streamed is kept and the files of a conversion agree, for   *)
(* any pieces in any order.  One count and two sums are inductive: the      *)
(* ranges of an element, over sealed primitives and open parts together,    *)
(* are as many as its pieces; what a chunk has counted is the length of its *)
(* primitives and of its open parts; and an element has a range, sealed or  *)
(* open, in the chunk the index names for it.  Sealing moves ranges from a  *)
(* part to a primitive, so that each sum stays what it was; at the end no   *)
(* part is open, and the invariant becomes what the manifest says.          *)
(*                                                                          *)
(* Slices are whole, for any source whose relations refer to what they      *)
(* relate.  A shard is a closure, computed step by step; that it has come   *)
(* to rest after as many steps as there are ids is the lemma ClosureFacts.  *)
(* The rest is who owns a product: an owner is a structure that contains    *)
(* it, so its shard has the product, and nobody else leaves it out.         *)
(*                                                                          *)
(* The lexers read any text in any chunks.  Inductive is where the lexer    *)
(* is: at byte n its mode is that of the file, but for a token that the     *)
(* chunk's end has left open; it has kept the kept bytes up to n, or found  *)
(* the statements up to n; and the names of the open statement, all but     *)
(* the one it is reading, have ended.                                       *)
(***************************************************************************)
EXTENDS MCArtifacts, SumTheorems, TLAPS

-----------------------------------------------------------------------------
(* The chunk router.                                                         *)

Grid == [Axes -> Int]

Present(s) == \E k \in DOMAIN chunks : chunks[k].storey = s

Divided(s) == \A c \in Grid : \E k \in DOMAIN chunks : Holders(s, c) = {k}

RouterInv ==
    /\ RouterTypeOK
    /\ \A s \in Storeys : Present(s) => Divided(s)

LEMMA RouterStarts == RouterInit => RouterInv
  BY RouterAssumption DEF RouterInit, RouterInv, RouterTypeOK, Present

-----------------------------------------------------------------------------
(* The data of one chunk.                                                    *)

\* Of at most three numbers one is the first of the largest.
LEMMA FirstOfLargest ==
  ASSUME NEW e \in [Axes -> Int]
  PROVE  \E a \in Axes : \A b \in Axes \ {a} : e[b] < e[a] \/ (e[b] = e[a] /\ a < b)
<1> DEFINE Foremost(a) == \A b \in Axes \ {a} : e[b] < e[a] \/ (e[b] = e[a] /\ a < b)
<1>1. /\ Axes # {}
      /\ \A a \in Axes : (a = 0 \/ a = 1 \/ a = 2) /\ e[a] \in Int
  BY RouterAssumption
<1>2. CASE \E a \in Axes : \A b \in Axes : e[b] <= e[a]
  <2>1. PICK a \in Axes : \A b \in Axes : e[b] <= e[a]
    BY <1>2
  <2>2. CASE 0 \in Axes /\ e[0] = e[a]
    <3>1. Foremost(0) BY <1>1, <2>1, <2>2
    <3> QED BY <3>1, <2>2
  <2>3. CASE ~ (0 \in Axes /\ e[0] = e[a]) /\ 1 \in Axes /\ e[1] = e[a]
    <3>1. Foremost(1) BY <1>1, <2>1, <2>3
    <3> QED BY <3>1, <2>3
  <2>4. CASE ~ (0 \in Axes /\ e[0] = e[a]) /\ ~ (1 \in Axes /\ e[1] = e[a])
    <3>1. Foremost(a) BY <1>1, <2>1, <2>4
    <3> QED BY <3>1
  <2> QED
    BY <2>2, <2>3, <2>4
<1>3. \E a \in Axes : \A b \in Axes : e[b] <= e[a]
  <2>1. CASE 0 \in Axes
    BY <1>1, <2>1
  <2>2. CASE 0 \notin Axes
    BY <1>1, <2>2
  <2> QED
    BY <2>1, <2>2
<1> QED
  BY <1>2, <1>3

\* The split axis is an axis.
LEMMA LongestAxisIsAxis ==
  ASSUME NEW t \in Chunk
  PROVE  LongestAxis(t) \in Axes
<1> DEFINE e == [a \in Axes |-> t.hi[a] - t.lo[a]]
<1>1. e \in [Axes -> Int]
  BY DEF Chunk
<1>2. \E a \in Axes : \A b \in Axes \ {a} : e[b] < e[a] \/ (e[b] = e[a] /\ a < b)
  BY <1>1, FirstOfLargest
<1>3. \E a \in Axes : \A b \in Axes \ {a} :
         \/ t.hi[b] - t.lo[b] < t.hi[a] - t.lo[a]
         \/ t.hi[b] - t.lo[b] = t.hi[a] - t.lo[a] /\ a < b
  BY <1>2
<1> QED
  BY <1>3 DEF LongestAxis

LEMMA ReceivedIsChunk ==
  ASSUME RouterInv, NEW s \in Storeys, NEW lo \in Point, NEW hi \in Point, NEW n \in Nat,
         NEW k \in 1..Len(chunks) + 1,
         k \in DOMAIN chunks => chunks[k].storey = s
  PROVE  LET t == Received(k, s, lo, hi, n)
         IN  /\ t \in Chunk
             /\ t.storey = s
             /\ t.guards = (IF k \in DOMAIN chunks THEN chunks[k].guards ELSE {})
             /\ t.triangles = (IF k \in DOMAIN chunks THEN chunks[k].triangles ELSE 0) + n
<1> DEFINE old == IF k \in DOMAIN chunks THEN chunks[k] ELSE MakeTarget(s, {})
<1>1. chunks \in Seq(Chunk)
  BY DEF RouterInv, RouterTypeOK
<1>2. /\ MakeTarget(s, {}) \in Chunk
      /\ MakeTarget(s, {}).storey = s
      /\ MakeTarget(s, {}).guards = {}
      /\ MakeTarget(s, {}).triangles = 0
  BY RouterAssumption DEF MakeTarget, Chunk
<1>3. /\ old \in Chunk
      /\ old.storey = s
      /\ old.guards = (IF k \in DOMAIN chunks THEN chunks[k].guards ELSE {})
      /\ old.triangles = (IF k \in DOMAIN chunks THEN chunks[k].triangles ELSE 0)
  <2>1. CASE k \in DOMAIN chunks
    BY <1>1, <2>1
  <2>2. CASE k \notin DOMAIN chunks
    BY <1>2, <2>2
  <2> QED
    BY <2>1, <2>2
<1>4. lo \in [Axes -> Int] /\ hi \in [Axes -> Int]
  BY RouterAssumption DEF Point
<1> HIDE DEF old
<1>5. Received(k, s, lo, hi, n) =
        [old EXCEPT !.triangles = old.triangles + n,
                    !.lo = [a \in Axes |-> IF lo[a] < old.lo[a] THEN lo[a] ELSE old.lo[a]],
                    !.hi = [a \in Axes |-> IF hi[a] > old.hi[a] THEN hi[a] ELSE old.hi[a]]]
  BY <1>3 DEF Received, old, Chunk
<1> DEFINE box  == [a \in Axes |-> IF lo[a] < old.lo[a] THEN lo[a] ELSE old.lo[a]]
           rest == [a \in Axes |-> IF hi[a] > old.hi[a] THEN hi[a] ELSE old.hi[a]]
<1>6. box \in [Axes -> Int] /\ rest \in [Axes -> Int] /\ old.triangles + n \in Nat
  BY <1>3, <1>4 DEF Chunk
<1> HIDE DEF box, rest
<1>7. Received(k, s, lo, hi, n) = [old EXCEPT !.triangles = old.triangles + n, !.lo = box, !.hi = rest]
  BY <1>5 DEF box, rest
<1>8. /\ Received(k, s, lo, hi, n) \in Chunk
      /\ Received(k, s, lo, hi, n).storey = old.storey
      /\ Received(k, s, lo, hi, n).guards = old.guards
      /\ Received(k, s, lo, hi, n).triangles = old.triangles + n
  BY <1>3, <1>6, <1>7 DEF Chunk
<1> QED
  BY <1>3, <1>8

-----------------------------------------------------------------------------
(* Where a piece goes.                                                       *)

LEMMA MiddleOnGrid ==
  ASSUME NEW lo \in Point, NEW hi \in Point
  PROVE  Middle(lo, hi) \in Grid
<1>1. \A a \in Axes : lo[a] \in Int /\ hi[a] \in Int
  BY RouterAssumption DEF Point
<1> QED
  BY <1>1 DEF Middle, Grid

\* A piece goes to a chunk of its storey; to a new one only if there is none.
LEMMA Located ==
  ASSUME RouterInv, NEW s \in Storeys, NEW c \in Grid
  PROVE  /\ Locate(s, c) \in 1..Len(chunks) + 1
         /\ Locate(s, c) \in DOMAIN chunks => chunks[Locate(s, c)].storey = s
         /\ Locate(s, c) \notin DOMAIN chunks => ~ Present(s)
<1>1. chunks \in Seq(Chunk) /\ Len(chunks) \in Nat /\ DOMAIN chunks = 1..Len(chunks)
  BY DEF RouterInv, RouterTypeOK
<1>2. CASE ~ Present(s)
  <2>1. Locate(s, c) = Len(chunks) + 1
    BY <1>2 DEF Locate, Present
  <2> QED
    BY <1>1, <1>2, <2>1
<1>3. CASE Present(s)
  <2>1. PICK k \in DOMAIN chunks : Holders(s, c) = {k}
    BY <1>3 DEF RouterInv, Divided
  <2>2. chunks[k].storey = s
    BY <2>1 DEF Holders
  <2>3. Locate(s, c) = CHOOSE i \in Holders(s, c) : \A j \in Holders(s, c) : j <= i
    BY <1>3, <2>1 DEF Locate, Present
  <2>4. k \in Holders(s, c) /\ \A j \in Holders(s, c) : j <= k
    BY <1>1, <2>1
  <2>5. Locate(s, c) \in Holders(s, c)
    BY <2>3, <2>4
  <2> QED
    BY <1>1, <2>1, <2>2, <2>5
<1> QED
  BY <1>2, <1>3

\* The chunks with t at k.
LEMMA WithAt ==
  ASSUME RouterInv, NEW t \in Chunk, NEW k \in 1..Len(chunks) + 1
  PROVE  /\ With(k, t) \in Seq(Chunk)
         /\ DOMAIN With(k, t) = DOMAIN chunks \cup {k}
         /\ \A j \in DOMAIN With(k, t) : With(k, t)[j] = IF j = k THEN t ELSE chunks[j]
         /\ Len(With(k, t)) >= k
<1>1. chunks \in Seq(Chunk) /\ Len(chunks) \in Nat /\ DOMAIN chunks = 1..Len(chunks)
  BY DEF RouterInv, RouterTypeOK
<1>2. CASE k \in DOMAIN chunks
  BY <1>1, <1>2 DEF With
<1>3. CASE k \notin DOMAIN chunks
  <2>1. k = Len(chunks) + 1
    BY <1>1, <1>3
  <2> DEFINE w == Append(chunks, t)
  <2>2. With(k, t) = w
    BY <1>3 DEF With
  <2>3. w \in Seq(Chunk) /\ Len(w) = Len(chunks) + 1
    BY <1>1
  <2>4. DOMAIN w = DOMAIN chunks \cup {k}
    BY <1>1, <2>1, <2>3
  <2>5. \A j \in DOMAIN w : w[j] = IF j = k THEN t ELSE chunks[j]
    BY <1>1, <2>1, <2>4
  <2> HIDE DEF w
  <2>6. Len(w) >= k
    BY <1>1, <2>1, <2>3
  <2> QED
    BY <2>2, <2>3, <2>4, <2>5, <2>6
<1> QED
  BY <1>2, <1>3

-----------------------------------------------------------------------------
(* Space stays divided.                                                      *)

\* A chunk that keeps its guards, or is the first of its storey.
LEMMA GrownDivides ==
  ASSUME RouterInv, NEW s \in Storeys, NEW k \in 1..Len(chunks) + 1, NEW t \in Chunk,
         k \in DOMAIN chunks => chunks[k].storey = s,
         k \notin DOMAIN chunks => ~ Present(s),
         t.storey = s,
         t.guards = (IF k \in DOMAIN chunks THEN chunks[k].guards ELSE {}),
         chunks' = With(k, t),
         NEW r \in Storeys, Present(r)'
  PROVE  Divided(r)'
<1> SUFFICES ASSUME NEW c \in Grid
             PROVE  \E j \in DOMAIN chunks' : Holders(r, c)' = {j}
  BY DEF Divided
<1>1. /\ DOMAIN chunks' = DOMAIN chunks \cup {k}
      /\ \A j \in DOMAIN chunks' : chunks'[j] = IF j = k THEN t ELSE chunks[j]
  BY WithAt, ZenonT(40)
<1>2. CASE k \in DOMAIN chunks
  <2>1. Holders(r, c)' = Holders(r, c) /\ Present(r)
    BY <1>1, <1>2 DEF Holders, Present
  <2> QED
    BY <1>1, <2>1 DEF RouterInv, Divided
<1>3. CASE k \notin DOMAIN chunks /\ r # s
  <2>1. Holders(r, c)' = Holders(r, c) /\ Present(r)
    BY <1>1, <1>3 DEF Holders, Present
  <2> QED
    BY <1>1, <2>1 DEF RouterInv, Divided
<1>4. CASE k \notin DOMAIN chunks /\ r = s
  <2>1. Holders(r, c)' = {k}
    BY <1>1, <1>4 DEF Holders, Present, Inside
  <2> QED
    BY <1>1, <2>1
<1> QED
  BY <1>2, <1>3, <1>4

-----------------------------------------------------------------------------
(* The steps of the router.                                                  *)

\* route: the piece stays in one chunk, which may be marked as overflowed.
LEMMA GrownPreserves ==
  ASSUME RouterInv, NEW s \in Storeys, NEW lo \in Point, NEW hi \in Point, NEW n \in Nat,
         NEW t \in Chunk,
         LET k == Locate(s, Middle(lo, hi))
         IN  /\ t.storey = s
             /\ t.guards = Received(k, s, lo, hi, n).guards
             /\ chunks' = With(k, t),
         UNCHANGED splitsLeft
  PROVE  RouterInv'
<1> DEFINE k == Locate(s, Middle(lo, hi))
<1>1. /\ k \in 1..Len(chunks) + 1
      /\ k \in DOMAIN chunks => chunks[k].storey = s
      /\ k \notin DOMAIN chunks => ~ Present(s)
  BY MiddleOnGrid, Located
<1> HIDE DEF k
<1>2. t.guards = IF k \in DOMAIN chunks THEN chunks[k].guards ELSE {}
  BY <1>1, ReceivedIsChunk DEF k
<1>3. chunks' = With(k, t)
  BY DEF k
<1>4. RouterTypeOK'
  <2>1. With(k, t) \in Seq(Chunk)
    BY <1>1, WithAt
  <2> QED
    BY <1>3, <2>1 DEF RouterInv, RouterTypeOK
<1>5. \A r \in Storeys : Present(r)' => Divided(r)'
  BY <1>1, <1>2, <1>3, GrownDivides
<1> QED
  BY <1>4, <1>5 DEF RouterInv

LEMMA SplitPreserves ==
  ASSUME RouterInv, NEW s \in Storeys, NEW lo \in Point, NEW hi \in Point, NEW n \in Nat,
         Split(Locate(s, Middle(lo, hi)), s, lo, hi, n)
  PROVE  RouterInv'
<1> DEFINE k == Locate(s, Middle(lo, hi))
           t == Received(k, s, lo, hi, n)
           a == LongestAxis(t)
           limit == (t.lo[a] + t.hi[a]) \div 2
           upper == Middle(lo, hi)[a] >= limit
           g == [axis |-> a, limit |-> limit, upper |-> upper]
           h == [axis |-> a, limit |-> limit, upper |-> ~ upper]
           x == IF upper /\ limit > t.lo[a] THEN limit ELSE t.lo[a]
           y == IF ~ upper /\ limit < t.hi[a] THEN limit ELSE t.hi[a]
           kept == [t EXCEPT !.guards = @ \cup {g}, !.lo[a] = x, !.hi[a] = y]
           fresh == MakeTarget(s, t.guards \cup {h})
<1>1. /\ k \in 1..Len(chunks) + 1
      /\ k \in DOMAIN chunks => chunks[k].storey = s
      /\ k \notin DOMAIN chunks => ~ Present(s)
  BY MiddleOnGrid, Located
<1>2. /\ t \in Chunk
      /\ t.storey = s
      /\ t.guards = IF k \in DOMAIN chunks THEN chunks[k].guards ELSE {}
  BY <1>1, ReceivedIsChunk
<1>3. a \in Axes
  BY <1>2, LongestAxisIsAxis, SMTT(30)
<1>4. chunks' = Append(With(k, kept), fresh) /\ splitsLeft[s] > 0
      /\ splitsLeft' = [splitsLeft EXCEPT ![s] = @ - 1]
  BY DEF Split
<1> HIDE DEF k, t, a
<1>5. t.lo[a] \in Int /\ t.hi[a] \in Int
  BY <1>2, <1>3 DEF Chunk
<1>6. limit \in Int /\ upper \in BOOLEAN
  BY <1>3, <1>5, MiddleOnGrid DEF Grid
<1>7. x \in Int /\ y \in Int
  BY <1>5, <1>6
<1>8. g \in Guards /\ h \in Guards /\ t.guards \in SUBSET Guards
      /\ h.axis = g.axis /\ h.limit = g.limit /\ h.upper # g.upper
  BY <1>2, <1>3, <1>6 DEF Guards, Chunk
<1> HIDE DEF g, h, x, y, limit, upper
<1>9. kept \in Chunk /\ kept.storey = s /\ kept.guards = t.guards \cup {g}
  <2> DEFINE low  == [t.lo EXCEPT ![a] = x]
             high == [t.hi EXCEPT ![a] = y]
  <2>1. low \in [Axes -> Int] /\ high \in [Axes -> Int] /\ t.guards \cup {g} \in SUBSET Guards
    BY <1>2, <1>3, <1>7, <1>8 DEF Chunk
  <2>2. kept = [t EXCEPT !.guards = t.guards \cup {g}, !.lo = low, !.hi = high]
    BY <1>2 DEF Chunk
  <2> HIDE DEF low, high, kept
  <2> QED
    BY <1>2, <2>1, <2>2 DEF Chunk
<1>10. fresh \in Chunk /\ fresh.storey = s /\ fresh.guards = t.guards \cup {h}
  BY <1>8, RouterAssumption DEF MakeTarget, Chunk
<1> HIDE DEF kept, fresh
<1>11. RouterTypeOK'
  <2>1. With(k, kept) \in Seq(Chunk)
    BY <1>1, <1>9, WithAt
  <2>2. chunks' \in Seq(Chunk)
    BY <1>4, <1>10, <2>1
  <2>3. splitsLeft' \in [Storeys -> 0..MaxSplits]
    BY <1>4, RouterAssumption DEF RouterInv, RouterTypeOK
  <2> QED
    BY <2>2, <2>3 DEF RouterTypeOK
<1>12. ASSUME NEW r \in Storeys, Present(r)'
       PROVE  Divided(r)'
  <2> SUFFICES ASSUME NEW c \in Grid
               PROVE  \E j \in DOMAIN chunks' : Holders(r, c)' = {j}
    BY DEF Divided
  <2> DEFINE new == Len(With(k, kept)) + 1
  <2>1. /\ With(k, kept) \in Seq(Chunk)
        /\ DOMAIN With(k, kept) = DOMAIN chunks \cup {k}
        /\ \A j \in DOMAIN With(k, kept) : With(k, kept)[j] = IF j = k THEN kept ELSE chunks[j]
        /\ Len(With(k, kept)) >= k
    BY <1>1, <1>9, WithAt
  <2>2. /\ new \notin DOMAIN chunks \cup {k}
        /\ DOMAIN chunks' = DOMAIN chunks \cup {k, new}
        /\ chunks'[new] = fresh /\ chunks'[k] = kept
        /\ \A j \in DOMAIN chunks \ {k} : chunks'[j] = chunks[j]
    <3> DEFINE w == With(k, kept)
    <3>1. w \in Seq(Chunk) /\ chunks' = Append(w, fresh) /\ new = Len(w) + 1
      BY <1>4, <2>1
    <3> HIDE DEF w, new
    <3>2. Len(w) \in Nat /\ DOMAIN w = 1..Len(w)
      BY <3>1
    <3>3. /\ DOMAIN chunks' = DOMAIN w \cup {new}
          /\ chunks'[new] = fresh
          /\ \A j \in DOMAIN w : chunks'[j] = w[j]
          /\ new \notin DOMAIN w
      BY <3>1, <3>2
    <3> QED
      BY <2>1, <3>3 DEF w
  <2> HIDE DEF new
  <2>3. Inside(c, t.guards \cup {g}) <=> Inside(c, t.guards) /\ (c[g.axis] >= g.limit) = g.upper
    BY DEF Inside
  <2>4. Inside(c, t.guards \cup {h}) <=> Inside(c, t.guards) /\ (c[g.axis] >= g.limit) = h.upper
    BY <1>8 DEF Inside
  <2>5. Inside(c, t.guards) <=> (Inside(c, t.guards \cup {g}) \/ Inside(c, t.guards \cup {h}))
    BY <1>8, <2>3, <2>4 DEF Guards, Grid
  <2>6. ~ (Inside(c, t.guards \cup {g}) /\ Inside(c, t.guards \cup {h}))
    BY <1>8, <2>3, <2>4 DEF Guards, Grid
  <2>7. CASE r # s
    <3>1. Holders(r, c)' = Holders(r, c) /\ Present(r)
      BY <1>1, <1>9, <1>10, <1>12, <2>2, <2>7 DEF Holders, Present
    <3> QED
      BY <2>2, <3>1 DEF RouterInv, Divided
  <2>8. CASE r = s
    <3>1. k \in Holders(s, c)' <=> Inside(c, t.guards \cup {g})
      BY <1>9, <2>2 DEF Holders
    <3>2. new \in Holders(s, c)' <=> Inside(c, t.guards \cup {h})
      BY <1>10, <2>2 DEF Holders
    <3>3. \A j \in DOMAIN chunks \ {k} : j \in Holders(s, c)' <=> j \in Holders(s, c)
      BY <2>2 DEF Holders
    <3>4. Holders(s, c)' \subseteq DOMAIN chunks \cup {k, new}
      BY <2>2 DEF Holders
    <3>5. CASE k \in DOMAIN chunks
      <4>1. PICK j \in DOMAIN chunks : Holders(s, c) = {j}
        BY <1>1, <3>5 DEF RouterInv, Divided, Present
      <4>2. k \in Holders(s, c) <=> Inside(c, t.guards)
        BY <1>1, <1>2, <3>5 DEF Holders
      <4>3. CASE j = k
        <5>1. Holders(s, c)' = {k} \/ Holders(s, c)' = {new}
          BY <2>2, <2>5, <2>6, <3>1, <3>2, <3>3, <3>4, <4>1, <4>2, <4>3
        <5> QED
          BY <2>2, <2>8, <5>1
      <4>4. CASE j # k
        <5>1. Holders(s, c)' = {j}
          BY <2>2, <2>5, <3>1, <3>2, <3>3, <3>4, <4>1, <4>2, <4>4
        <5> QED
          BY <2>2, <2>8, <4>1, <5>1
      <4> QED
        BY <4>3, <4>4
    <3>6. CASE k \notin DOMAIN chunks
      <4>1. Inside(c, t.guards)
        BY <1>2, <3>6 DEF Inside
      <4>2. \A j \in DOMAIN chunks : j \notin Holders(s, c)
        BY <1>1, <3>6 DEF Holders, Present
      <4>3. Holders(s, c)' = {k} \/ Holders(s, c)' = {new}
        BY <2>2, <2>5, <2>6, <3>1, <3>2, <3>3, <3>4, <4>1, <4>2
      <4> QED
        BY <2>2, <2>8, <4>3
    <3> QED
      BY <3>5, <3>6
  <2> QED
    BY <2>7, <2>8
<1> QED
  BY <1>11, <1>12 DEF RouterInv

LEMMA RouterSteps == RouterInv /\ [RouterNext]_router => RouterInv'
<1> SUFFICES ASSUME RouterInv, [RouterNext]_router
             PROVE  RouterInv'
  OBVIOUS
<1>1. CASE UNCHANGED router
  BY <1>1 DEF router, RouterInv, RouterTypeOK, Present, Divided, Holders
<1>2. ASSUME NEW s \in Storeys, NEW lo \in Point, NEW hi \in Point, NEW n \in Nat,
             Route(s, lo, hi, n)
      PROVE  RouterInv'
  <2> DEFINE k == Locate(s, Middle(lo, hi))
             t == Received(k, s, lo, hi, n)
  <2>1. t \in Chunk /\ t.storey = s
    BY MiddleOnGrid, Located, ReceivedIsChunk
  <2> HIDE DEF k
  <2>2. CASE Keep(k, s, lo, hi, n)
    BY <2>1, <2>2, GrownPreserves DEF Keep, k
  <2>3. CASE Overflow(k, s, lo, hi, n)
    <3> DEFINE o == [t EXCEPT !.overflowed = TRUE]
    <3>1. o \in Chunk /\ o.storey = s /\ o.guards = t.guards
      BY <2>1 DEF Chunk
    <3> QED
      BY <2>3, <3>1, GrownPreserves DEF Overflow, k
  <2>4. CASE Split(k, s, lo, hi, n)
    BY <2>4, SplitPreserves DEF k
  <2> QED
    BY <1>2, <2>2, <2>3, <2>4 DEF Route, k
<1> QED
  BY <1>1, <1>2 DEF RouterNext

\* Geometry's coordinates are on the grid.
LEMMA DividedGridDividesSpace == RouterInv => ChunksPartitionSpace
  BY RouterAssumption DEF RouterInv, Present, Divided, Grid, Point, ChunksPartitionSpace

\* Whatever is routed, in any order: every point is in exactly one chunk of a
\* storey that has chunks.
THEOREM ChunksDivideSpace == RouterSpec => []ChunksPartitionSpace
<1>1. RouterSpec => []RouterInv
  BY RouterStarts, RouterSteps, PTL DEF RouterSpec
<1> QED
  BY <1>1, DividedGridDividesSpace, PTL

-----------------------------------------------------------------------------
(* The GLB writer.                                                           *)

ShownInBounds ==
    \A i \in DOMAIN views : views[i].packed => views[i].shown + Bytes(views[i]) <= original

GlbInv == GlbTypeOK /\ ViewsFit /\ ShownInBounds

-----------------------------------------------------------------------------
(* Arithmetic of padding.                                                    *)

LEMMA Padded ==
  ASSUME NEW n \in Nat, NEW align \in {4, 8}
  PROVE  /\ Pad(n, align) \in Nat
         /\ (n + Pad(n, align)) % align = 0
  BY DEF Pad

LEMMA BytesNat == \A a \in Array \cup View : Bytes(a) \in Nat
  BY DEF Bytes, Array, View

LEMMA GlbStarts == GlbInit => GlbInv
<1> SUFFICES ASSUME GlbInit
             PROVE  GlbInv
  OBVIOUS
<1>1. GlbTypeOK
  <2>1. prim \in Seq(Array) /\ views \in Seq(View)
    BY DEF GlbInit
  <2>2. encoder \in BOOLEAN /\ bin \in Nat /\ original \in Nat /\ fallbacks \in Nat
    BY DEF GlbInit
  <2>3. glb \in [json : Nat, bin : Nat, total : Nat]
    BY DEF GlbInit
  <2> QED
    BY <2>1, <2>2, <2>3 DEF GlbTypeOK
<1>2. DOMAIN views = {} /\ glb.total = 0
  BY DEF GlbInit
<1>3. ViewsFit /\ ShownInBounds
  BY <1>2 DEF ViewsFit, ViewsInBounds, ViewsApart, ViewsAligned, ShownApart, FileFits, ShownInBounds
<1> QED
  BY <1>1, <1>3 DEF GlbInv

\* One array is written at an aligned place at or after the end.
LEMMA AppendPreserves ==
  ASSUME GlbInv, glb.total = 0,
         NEW offset \in Nat, NEW n \in Nat, NEW packed \in BOOLEAN, NEW shown \in Nat,
         offset >= bin,
         offset % (IF packed THEN 8 ELSE 4) = 0,
         Append3(offset, n, packed, shown),
         packed => shown = original /\ original' = original + Bytes(Head(prim)),
         ~ packed => UNCHANGED original,
         fallbacks' \in Nat
  PROVE  GlbInv'
<1> DEFINE new == [count |-> Head(prim).count, stride |-> Head(prim).stride,
                   packed |-> packed, at |-> offset, length |-> n, shown |-> shown]
<1>1. /\ prim # <<>> /\ prim \in Seq(Array) /\ views \in Seq(View)
      /\ views' = Append(views, new) /\ bin' = offset + n /\ prim' = Tail(prim)
      /\ UNCHANGED <<encoder, glb>>
  BY DEF Append3, GlbInv, GlbTypeOK
<1>2. Head(prim) \in Array /\ new \in View
  <2>1. Head(prim) \in Array
    BY <1>1
  <2>2. Head(prim).count \in Nat /\ Head(prim).stride \in {4, 8}
    BY <2>1 DEF Array
  <2> QED
    BY <2>1, <2>2 DEF View
<1>3. Bytes(new) = Bytes(Head(prim)) /\ Bytes(new) \in Nat
  BY <1>2 DEF Bytes, Array
<1>4. new.packed = packed /\ new.at = offset /\ new.length = n /\ new.shown = shown
  OBVIOUS
<1> HIDE DEF new
<1>5. /\ views' \in Seq(View)
      /\ DOMAIN views' = DOMAIN views \cup {Len(views) + 1}
      /\ \A i \in DOMAIN views : views'[i] = views[i] /\ i < Len(views) + 1 /\ views[i] \in View
      /\ views'[Len(views) + 1] = new
      /\ Len(views) \in Nat /\ DOMAIN views \subseteq Nat
  BY <1>1, <1>2
<1>6. bin \in Nat /\ original \in Nat /\ original' \in Nat /\ original' >= original /\ bin' \in Nat
  BY <1>1, <1>3 DEF GlbInv, GlbTypeOK
<1>7. GlbTypeOK'
  BY <1>1, <1>5, <1>6 DEF GlbInv, GlbTypeOK
<1>8. ViewsInBounds' /\ ViewsApart'
  <2>1. \A i \in DOMAIN views : /\ views[i].at \in Nat /\ views[i].length \in Nat
                                /\ views[i].at + views[i].length <= bin
    BY <1>5 DEF GlbInv, ViewsFit, ViewsInBounds, View
  <2>2. bin' = offset + n
    BY <1>1
  <2>3. ViewsInBounds'
    <3> SUFFICES ASSUME NEW i \in DOMAIN views'
                 PROVE  views'[i].at >= 0 /\ views'[i].at + views'[i].length <= bin'
      BY DEF ViewsInBounds
    <3>1. CASE i \in DOMAIN views
      BY <1>5, <1>6, <2>1, <2>2, <3>1
    <3>2. CASE i \notin DOMAIN views
      BY <1>4, <1>5, <2>2, <3>2
    <3> QED
      BY <3>1, <3>2
  <2>4. ViewsApart'
    <3> SUFFICES ASSUME NEW i \in DOMAIN views', NEW j \in DOMAIN views', i < j
                 PROVE  views'[i].at + views'[i].length <= views'[j].at
      BY DEF ViewsApart
    <3>1. i \in DOMAIN views
      BY <1>5
    <3>2. CASE j \in DOMAIN views
      BY <1>5, <3>1, <3>2 DEF GlbInv, ViewsFit, ViewsApart
    <3>3. CASE j \notin DOMAIN views
      BY <1>4, <1>5, <1>6, <2>1, <3>1, <3>3, SMTT(30)
    <3> QED
      BY <3>2, <3>3
  <2> QED
    BY <2>3, <2>4
<1>9. ViewsAligned'
  BY <1>4, <1>5 DEF GlbInv, ViewsFit, ViewsAligned
<1>10. \A i \in DOMAIN views : Bytes(views[i]) \in Nat
  BY <1>5, BytesNat
<1>11. ShownApart' /\ ShownInBounds'
  <2>1. \A i \in DOMAIN views : /\ views[i].shown \in Nat
                                /\ views[i].packed => views[i].shown + Bytes(views[i]) <= original
    BY <1>5 DEF GlbInv, ShownInBounds, View
  <2>2. ShownInBounds'
    <3> SUFFICES ASSUME NEW i \in DOMAIN views', views'[i].packed
                 PROVE  views'[i].shown + Bytes(views'[i]) <= original'
      BY DEF ShownInBounds, Bytes
    <3>1. CASE i \in DOMAIN views
      BY <1>5, <1>6, <1>10, <2>1, <3>1, SMTT(30)
    <3>2. CASE i \notin DOMAIN views
      BY <1>3, <1>4, <1>5, <1>6, <3>2
    <3> QED
      BY <3>1, <3>2
  <2>3. ShownApart'
    <3> SUFFICES ASSUME NEW i \in DOMAIN views', NEW j \in DOMAIN views', i < j,
                        views'[i].packed, views'[j].packed
                 PROVE  views'[i].shown + Bytes(views'[i]) <= views'[j].shown
      BY DEF ShownApart, Bytes
    <3>1. i \in DOMAIN views
      BY <1>5
    <3>2. CASE j \in DOMAIN views
      BY <1>5, <3>1, <3>2 DEF GlbInv, ViewsFit, ShownApart
    <3>3. CASE j \notin DOMAIN views
      BY <1>4, <1>5, <2>1, <3>1, <3>3
    <3> QED
      BY <3>2, <3>3
  <2> QED
    BY <2>2, <2>3
<1>12. FileFits'
  BY <1>1 DEF FileFits
<1> QED
  BY <1>7, <1>8, <1>9, <1>11, <1>12 DEF GlbInv, ViewsFit

-----------------------------------------------------------------------------
(* The steps of the writer.                                                  *)

LEMMA PushPreserves ==
  ASSUME GlbInv, glb.total = 0, PushChunk, fallbacks' \in Nat
  PROVE  GlbInv'
<1> DEFINE offset == bin + Pad(bin, 4)
<1>1. bin \in Nat /\ Pad(bin, 4) \in Nat /\ offset % 4 = 0
  BY Padded DEF GlbInv, GlbTypeOK
<1>2. offset \in Nat /\ offset >= bin
  BY <1>1
<1>3. prim # <<>> /\ prim \in Seq(Array)
  BY DEF PushChunk, Append3, GlbInv, GlbTypeOK
<1>4. Bytes(Head(prim)) \in Nat
  BY <1>3, BytesNat
<1>5. Append3(offset, Bytes(Head(prim)), FALSE, offset) /\ UNCHANGED original
  BY DEF PushChunk
<1> HIDE DEF offset
<1> QED
  BY <1>1, <1>2, <1>4, <1>5, AppendPreserves

LEMMA PackPreserves ==
  ASSUME GlbInv, glb.total = 0, NEW n \in PackedLengths, PushCompressed(n)
  PROVE  GlbInv'
<1> DEFINE offset == bin + Pad(bin, 8)
<1>1. bin \in Nat /\ Pad(bin, 8) \in Nat /\ offset % 8 = 0
  BY Padded DEF GlbInv, GlbTypeOK
<1>2. offset \in Nat /\ offset >= bin /\ n \in Nat /\ original \in Nat /\ fallbacks' \in Nat
  BY <1>1, GlbAssumption DEF PushCompressed, GlbInv, GlbTypeOK
<1>3. Append3(offset, n, TRUE, original) /\ original' = original + Bytes(Head(prim))
  BY DEF PushCompressed
<1> HIDE DEF offset
<1> QED
  BY <1>1, <1>2, <1>3, AppendPreserves

LEMMA AssemblePreserves ==
  ASSUME GlbInv, NEW t \in TextLengths, Assemble(t)
  PROVE  GlbInv'
<1> DEFINE json == t + Pad(t, 4)
           data == bin + Pad(bin, 4)
<1>1. t \in Nat /\ bin \in Nat
  BY GlbAssumption DEF GlbInv, GlbTypeOK
<1>2. json \in Nat /\ data \in Nat /\ data >= bin /\ json % 4 = 0 /\ data % 4 = 0
  <2>1. Pad(t, 4) \in Nat /\ Pad(bin, 4) \in Nat
    BY <1>1, Padded
  <2>2. (t + Pad(t, 4)) % 4 = 0 /\ (bin + Pad(bin, 4)) % 4 = 0
    BY <1>1, Padded
  <2> QED
    BY <1>1, <2>1, <2>2
<1>3. glb' = [json |-> json, bin |-> data, total |-> 12 + 8 + json + 8 + data]
      /\ UNCHANGED <<encoder, prim, views, bin, original, fallbacks>>
  BY DEF Assemble
<1> HIDE DEF json, data
<1>4. GlbTypeOK'
  BY <1>2, <1>3 DEF GlbInv, GlbTypeOK
<1>5. ViewsInBounds' /\ ViewsApart' /\ ViewsAligned' /\ ShownApart' /\ ShownInBounds'
  BY <1>3 DEF GlbInv, ViewsFit, ViewsInBounds, ViewsApart, ViewsAligned, ShownApart, ShownInBounds
<1>6. FileFits'
  <2>1. \A i \in DOMAIN views : views[i].at \in Nat /\ views[i].length \in Nat
    <3>1. \A i \in DOMAIN views : views[i] \in View
      BY DEF GlbInv, GlbTypeOK
    <3> QED
      BY <3>1 DEF View
  <2>2. \A i \in DOMAIN views : views[i].at + views[i].length <= data
    BY <1>1, <1>2, <2>1 DEF GlbInv, ViewsFit, ViewsInBounds
  <2> QED
    BY <1>2, <1>3, <2>2 DEF FileFits
<1> QED
  BY <1>4, <1>5, <1>6 DEF GlbInv, ViewsFit

\* No array is left to write once the file is finished.
Finished == glb.total # 0 => prim = <<>>

LEMMA GlbSteps == GlbInv /\ Finished /\ [GlbNext]_glbVars => GlbInv' /\ Finished'
<1> SUFFICES ASSUME GlbInv, Finished, [GlbNext]_glbVars
             PROVE  GlbInv' /\ Finished'
  OBVIOUS
<1>1. CASE UNCHANGED glbVars
  BY <1>1 DEF glbVars, GlbInv, Finished, GlbTypeOK, ViewsFit, ViewsInBounds, ViewsApart,
     ViewsAligned, ShownApart, FileFits, ShownInBounds
<1>2. CASE NewAssembler(TRUE)
  BY <1>2 DEF NewAssembler, GlbInv, Finished, GlbTypeOK, ViewsFit, ViewsInBounds, ViewsApart,
     ViewsAligned, ShownApart, FileFits, ShownInBounds
<1>3. ASSUME NEW v \in Counts, NEW i \in Counts, AddPrimitive(v, i)
      PROVE  GlbInv' /\ Finished'
  <2>1. v \in Nat /\ i \in Nat
    BY GlbAssumption
  <2>2. prim' \in Seq(Array)
    BY <1>3, <2>1 DEF AddPrimitive, Array
  <2> QED
    BY <1>3, <2>2 DEF AddPrimitive, GlbInv, Finished, GlbTypeOK, ViewsFit, ViewsInBounds,
       ViewsApart, ViewsAligned, ShownApart, FileFits, ShownInBounds
<1>4. CASE WriteRaw \/ Fallback
  <2>1. PushChunk /\ fallbacks' \in Nat
    BY <1>4 DEF WriteRaw, Fallback, GlbInv, GlbTypeOK
  <2>2. glb.total = 0 /\ UNCHANGED glb
    BY <2>1 DEF PushChunk, Append3, Finished
  <2> QED
    BY <2>1, <2>2, PushPreserves DEF Finished
<1>5. ASSUME NEW n \in PackedLengths, PushCompressed(n)
      PROVE  GlbInv' /\ Finished'
  <2>1. glb.total = 0 /\ UNCHANGED glb
    BY <1>5 DEF PushCompressed, Append3, Finished
  <2> QED
    BY <1>5, <2>1, PackPreserves DEF Finished
<1>6. ASSUME NEW t \in TextLengths, Assemble(t)
      PROVE  GlbInv' /\ Finished'
  BY <1>6, AssemblePreserves DEF Assemble, Finished
<1> QED
  BY <1>1, <1>2, <1>3, <1>4, <1>5, <1>6 DEF GlbNext

\* Whatever was packed, fell back or was written raw, in any order and of any
\* length: the views of the file fit into it and do not overlap.
THEOREM ViewsOfFilesFit == GlbSpec => []ViewsFit
<1>1. GlbInit => GlbInv /\ Finished
  BY GlbStarts DEF GlbInit, Finished
<1>2. GlbInv => ViewsFit
  BY DEF GlbInv
<1> QED
  BY <1>1, <1>2, GlbSteps, PTL DEF GlbSpec

-----------------------------------------------------------------------------
(* The presplit pipeline, proved by itself.                                  *)

Pipe == INSTANCE PresplitPipelineProofs WITH glb <- files

\* One module, two instances.
LEMMA PipeActions ==
  /\ Presplit!Init <=> Pipe!Init
  /\ Presplit!Next <=> Pipe!Next
<1> USE DEF Presplit!At, Pipe!At, Presplit!Goto, Pipe!Goto, Presplit!Settle, Pipe!Settle,
    Presplit!Unfinished, Pipe!Unfinished, Presplit!Piece, Pipe!Piece, Presplit!NoFile,
    Pipe!NoFile, Presplit!Plan, Pipe!Plan, Presplit!NoPlan, Pipe!NoPlan, Presplit!Run,
    Pipe!Run, Presplit!Idle, Pipe!Idle, Presplit!disk, Pipe!disk, Presplit!Shards,
    Pipe!Shards, Presplit!Sources, Pipe!Sources
<1>1. Presplit!Init <=> Pipe!Init
  BY DEF Presplit!Init, Pipe!Init
<1>2. ASSUME NEW v
      PROVE  /\ Presplit!Upload(v) <=> Pipe!Upload(v)
             /\ Presplit!Reconvert(v) <=> Pipe!Reconvert(v)
             /\ Presplit!Delete(v) <=> Pipe!Delete(v)
             /\ Presplit!Begin(v) <=> Pipe!Begin(v)
  BY DEF Presplit!Upload, Pipe!Upload, Presplit!Reconvert, Pipe!Reconvert, Presplit!Delete,
    Pipe!Delete, Presplit!Begin, Pipe!Begin, Presplit!Resumed, Pipe!Resumed
<1>3. ASSUME NEW s
      PROVE  Presplit!Convert(s) <=> Pipe!Convert(s)
  BY DEF Presplit!Convert, Pipe!Convert, Presplit!ShardGeometry, Pipe!ShardGeometry,
    Presplit!ShardMeta, Pipe!ShardMeta, Presplit!ShardDone, Pipe!ShardDone,
    Presplit!ShardEmpty, Pipe!ShardEmpty, Presplit!ShardFails, Pipe!ShardFails,
    Presplit!Report, Pipe!Report
<1>4. /\ Presplit!Slice <=> Pipe!Slice
      /\ Presplit!Sliced <=> Pipe!Sliced
      /\ Presplit!Throws <=> Pipe!Throws
      /\ Presplit!Fan <=> Pipe!Fan
      /\ Presplit!Join <=> Pipe!Join
      /\ Presplit!Aggregate <=> Pipe!Aggregate
      /\ Presplit!Clean <=> Pipe!Clean
      /\ Presplit!Cleaned <=> Pipe!Cleaned
      /\ Presplit!Ready <=> Pipe!Ready
      /\ Presplit!DeleteArtifacts <=> Pipe!DeleteArtifacts
      /\ Presplit!Crash <=> Pipe!Crash
  BY DEF Presplit!Slice, Pipe!Slice, Presplit!Sliced, Pipe!Sliced, Presplit!Throws,
    Pipe!Throws, Presplit!Fan, Pipe!Fan,
    Presplit!Join, Pipe!Join, Presplit!Aggregate, Pipe!Aggregate, Presplit!Merged,
    Pipe!Merged, Presplit!Clean, Pipe!Clean, Presplit!Cleaned, Pipe!Cleaned,
    Presplit!Ready, Pipe!Ready, Presplit!DeleteArtifacts, Pipe!DeleteArtifacts,
    Presplit!Crash, Pipe!Crash, Presplit!Empty, Pipe!Empty
<1> QED
  BY <1>1, <1>2, <1>3, <1>4 DEF Presplit!Next, Pipe!Next, Presplit!Pipeline, Pipe!Pipeline

\* The pipeline's part of a run is its specification.
LEMMA PipeSpec == ArtifactsSpec => Pipe!Spec
<1>1. ArtifactsInit => Pipe!Init
  BY PipeActions DEF ArtifactsInit
<1>2. [ArtifactsNext]_<<maker, vars, glbVars, sliceVars, scanVars, presplitVars>>
         => [Pipe!Next]_(Pipe!vars)
  BY PipeActions DEF ArtifactsNext, presplitVars, Pipe!vars
<1> QED
  BY <1>1, <1>2, PTL DEF ArtifactsSpec, Pipe!Spec

\* A kill in the middle of a removal leaves a directory of pieces that nobody
\* tells apart (README, known deviations).
RemovalsFinish == CrashAt \cap {"delete", "clean", "del_clean"} = {}

\* conversion/presplitPipeline.ts: the artifact of a READY version is the
\* whole of its own source, and what a resumed run leaves alone is on disk.
THEOREM OutputsAreComplete ==
  ASSUME RemovalsFinish
  PROVE  ArtifactsSpec => []OutputIsComplete
<1>1. Pipe!PresplitAssumption /\ Pipe!RemovalsFinish
  BY PresplitAssumption DEF Presplit!PresplitAssumption, Pipe!PresplitAssumption,
     Presplit!Phases, Pipe!Phases, RemovalsFinish, Pipe!RemovalsFinish
<1>2. Pipe!Spec => []Pipe!OutputIsComplete
  BY <1>1, Pipe!ArtifactsAreWhole
<1>3. Pipe!OutputIsComplete => OutputIsComplete
  BY DEF OutputIsComplete, Presplit!OutputIsComplete, Pipe!OutputIsComplete,
     Presplit!DoneShardsAreKept, Pipe!DoneShardsAreKept, Presplit!Piece, Pipe!Piece
<1> QED
  BY <1>2, <1>3, PipeSpec, PTL

\* ... : no shard that the plan calls DONE is converted again.
THEOREM NothingIsRedone ==
  ASSUME RemovalsFinish
  PROVE  ArtifactsSpec => OnlyUnfinishedIsRedone
<1>1. Pipe!PresplitAssumption /\ Pipe!RemovalsFinish
  BY PresplitAssumption DEF Presplit!PresplitAssumption, Pipe!PresplitAssumption,
     Presplit!Phases, Pipe!Phases, RemovalsFinish, Pipe!RemovalsFinish
<1>2. Pipe!Spec => Pipe!OnlyUnfinishedIsRedone
  BY <1>1, Pipe!DoneIsNotRedone
<1>3. Pipe!OnlyUnfinishedIsRedone => OnlyUnfinishedIsRedone
  BY DEF OnlyUnfinishedIsRedone, Presplit!OnlyUnfinishedIsRedone, Pipe!OnlyUnfinishedIsRedone,
     Presplit!vars, Pipe!vars, Presplit!NoPlan, Pipe!NoPlan, Presplit!Plan, Pipe!Plan
<1> QED
  BY <1>2, <1>3, PipeSpec

-----------------------------------------------------------------------------
(* What a primitive and a part hold.                                         *)

Counted(q, e, n) == {i \in DOMAIN q.ranges : q.ranges[i].element = e /\ q.ranges[i].count = n}

LEMMA UpToIsFinite == \A n \in Nat : IsFiniteSet(1..n)
<1> SUFFICES ASSUME NEW n \in Nat PROVE IsFiniteSet(1..n)
  OBVIOUS
<1>1. 1 \in Int /\ n \in Int
  OBVIOUS
<1> QED
  BY <1>1, FS_Interval

\* Tallies are numbers; an empty part has none.
LEMMA TallyIsNat ==
  ASSUME NEW T, NEW q, q.ranges \in Seq(T), NEW e, NEW n
  PROVE  Tally(q, e, n) \in Nat
<1>1. q.ranges \in Seq(T) /\ Len(q.ranges) \in Nat /\ DOMAIN q.ranges = 1..Len(q.ranges)
  OBVIOUS
<1>2. IsFiniteSet(DOMAIN q.ranges)
  <2>1. IsFiniteSet(1..Len(q.ranges))
    BY <1>1, UpToIsFinite
  <2> QED
    BY <1>1, <2>1
<1>3. Counted(q, e, n) \subseteq DOMAIN q.ranges
  BY DEF Counted
<1>4. IsFiniteSet(Counted(q, e, n))
  BY <1>2, <1>3, FS_Subset
<1>5. Cardinality(Counted(q, e, n)) \in Nat
  BY <1>4, FS_CardinalityType
<1> QED
  BY <1>5 DEF Tally, Counted

LEMMA NothingTold == \A e, n : Tally(NoPart, e, n) = 0
<1>1. SUFFICES ASSUME NEW e, NEW n PROVE Tally(NoPart, e, n) = 0
  OBVIOUS
<1>2. NoPart.ranges = <<>>
  BY DEF NoPart
<1>3. {i \in DOMAIN NoPart.ranges : NoPart.ranges[i].element = e /\ NoPart.ranges[i].count = n} = {}
  BY <1>2
<1>4. Cardinality({}) = 0
  BY FS_EmptySet
<1> QED
  BY <1>3, <1>4 DEF Tally

\* One more element of a sequence is one more in the count of those that match,
\* or none.
LEMMA OneMore ==
  ASSUME NEW N \in Nat, NEW S \in SUBSET (1..N), NEW T, NEW b \in BOOLEAN,
         T = IF b THEN S \cup {N + 1} ELSE S
  PROVE  Cardinality(T) = Cardinality(S) + (IF b THEN 1 ELSE 0)
<1>1. IsFiniteSet(1..N)
  BY UpToIsFinite
<1>2. IsFiniteSet(S)
  BY <1>1, FS_Subset
<1>3. N + 1 \notin S /\ Cardinality(S) \in Nat
  BY <1>2, FS_CardinalityType
<1>4. Cardinality(S \cup {N + 1}) = Cardinality(S) + 1
  BY <1>2, <1>3, FS_AddElement
<1> QED
  BY <1>3, <1>4

\* Shapes and what is made of them.
LEMMA ShapeTypes ==
  ASSUME NEW g \in Shapes
  PROVE  /\ g.lo \in Point /\ g.hi \in Point
         /\ g.triangles \in Nat /\ g.triangles \in {h.triangles : h \in Shapes}
         /\ g.vertices \in Nat \ {0} /\ g.sane \in BOOLEAN
BY StreamAssumption DEF Point

LEMMA PartTypes ==
  /\ NoPart \in PartType
  /\ \A q \in PartType : q.vertices \in Nat /\ q.length \in Nat /\ q.ranges \in Seq(RangeType)
  /\ \A q \in PrimitiveType : /\ q.chunk \in Nat /\ q.storey \in Storeys /\ q.length \in Nat
                              /\ q.ranges \in Seq(RangeType)
<1>1. <<>> \in Seq(RangeType)
  OBVIOUS
<1> QED
  BY <1>1 DEF NoPart, PartType, PrimitiveType

\* A piece that joins a part: one more range, at its end.
LEMMA FilledFacts ==
  ASSUME NEW q \in PartType, Gapless(q), NEW d \in Elements, NEW g \in Shapes
  PROVE  LET r == Filled(q, d, g)
         IN  /\ r \in PartType
             /\ r.vertices # 0
             /\ r.length = q.length + g.triangles
             /\ Gapless(r)
             /\ \A e, n : Tally(r, e, n) = Tally(q, e, n) + (IF e = d /\ n = g.triangles THEN 1 ELSE 0)
             /\ \A i \in DOMAIN q.ranges : i \in DOMAIN r.ranges /\ r.ranges[i] = q.ranges[i]
             /\ \E i \in DOMAIN r.ranges : r.ranges[i].element = d
<1> DEFINE r == Filled(q, d, g)
           x == [element |-> d, start |-> q.length, count |-> g.triangles]
           N == Len(q.ranges)
<1>1. q.vertices \in Nat /\ q.length \in Nat /\ q.ranges \in Seq(RangeType)
  BY PartTypes
<1>2. g.triangles \in Nat /\ g.triangles \in {h.triangles : h \in Shapes} /\ g.vertices \in Nat \ {0}
  BY ShapeTypes
<1>3. x \in RangeType
  BY <1>1, <1>2 DEF RangeType
<1>4. /\ r.vertices = q.vertices + g.vertices /\ r.length = q.length + g.triangles
      /\ r.ranges = Append(q.ranges, x)
      /\ r = [vertices |-> r.vertices, length |-> r.length, ranges |-> r.ranges]
  BY DEF Filled
<1>5. x.element = d /\ x.start = q.length /\ x.count = g.triangles
  OBVIOUS
<1> HIDE DEF r, x
<1>6. N \in Nat /\ DOMAIN q.ranges = 1..N
  BY <1>1
<1>7. /\ r.ranges \in Seq(RangeType) /\ Len(r.ranges) = N + 1 /\ DOMAIN r.ranges = 1..(N + 1)
      /\ r.ranges[N + 1] = x
      /\ \A i \in 1..N : r.ranges[i] = q.ranges[i]
  BY <1>1, <1>3, <1>4
<1>8. r \in PartType /\ r.vertices # 0
  <2>1. r.vertices \in Nat /\ r.vertices # 0 /\ r.length \in Nat
    BY <1>1, <1>2, <1>4
  <2> QED
    BY <1>4, <1>7, <2>1 DEF PartType
<1> HIDE DEF N
<1>9. Gapless(r)
  <2>1. \A i \in 0..N : End(r.ranges, i) = End(q.ranges, i)
    BY <1>6, <1>7 DEF End
  <2>2. q.length = End(q.ranges, N) /\ \A i \in 1..N : q.ranges[i].start = End(q.ranges, i - 1)
    BY <1>6 DEF Gapless, N
  <2>3. End(r.ranges, N + 1) = q.length + g.triangles
    BY <1>5, <1>6, <1>7 DEF End
  <2>4. ASSUME NEW i \in 1..(N + 1) PROVE r.ranges[i].start = End(r.ranges, i - 1)
    <3>1. CASE i = N + 1
      <4>1. End(r.ranges, N) = q.length /\ i - 1 = N
        BY <1>6, <2>1, <2>2, <3>1
      <4> QED
        BY <1>5, <1>7, <3>1, <4>1
    <3>2. CASE i # N + 1
      <4>1. i \in 1..N /\ i - 1 \in 0..N
        BY <1>6, <3>2
      <4> QED
        BY <1>7, <2>1, <2>2, <4>1
    <3> QED
      BY <3>1, <3>2
  <2> QED
    BY <1>4, <1>7, <2>3, <2>4 DEF Gapless
<1>10. ASSUME NEW e, NEW n
       PROVE  Tally(r, e, n) = Tally(q, e, n) + (IF e = d /\ n = g.triangles THEN 1 ELSE 0)
  <2> DEFINE b == e = d /\ n = g.triangles
  <2>1. Counted(q, e, n) \in SUBSET (1..N)
    BY <1>6 DEF Counted
  <2>2. Counted(r, e, n) = IF b THEN Counted(q, e, n) \cup {N + 1} ELSE Counted(q, e, n)
    <3>1. Counted(r, e, n) = {i \in 1..(N + 1) : r.ranges[i].element = e /\ r.ranges[i].count = n}
      BY <1>7 DEF Counted
    <3>2. Counted(q, e, n) = {i \in 1..N : r.ranges[i].element = e /\ r.ranges[i].count = n}
      BY <1>6, <1>7 DEF Counted
    <3>3. (r.ranges[N + 1].element = e /\ r.ranges[N + 1].count = n) <=> b
      BY <1>5, <1>7
    <3>4. 1..(N + 1) = 1..N \cup {N + 1} /\ N + 1 \notin 1..N
      BY <1>6
    <3> HIDE DEF b
    <3> QED
      BY <3>1, <3>2, <3>3, <3>4
  <2>3. Cardinality(Counted(r, e, n)) = Cardinality(Counted(q, e, n)) + (IF b THEN 1 ELSE 0)
    <3> HIDE DEF b
    <3>1. b \in BOOLEAN
      BY DEF b
    <3> QED
      BY <1>6, <2>1, <2>2, <3>1, OneMore
  <2> QED
    BY <2>3 DEF Tally, Counted
<1>11. /\ \A i \in DOMAIN q.ranges : i \in DOMAIN r.ranges /\ r.ranges[i] = q.ranges[i]
       /\ \E i \in DOMAIN r.ranges : r.ranges[i].element = d
  <2>1. N + 1 \in DOMAIN r.ranges
    BY <1>6, <1>7
  <2> QED
    BY <1>5, <1>6, <1>7, <2>1
<1> QED
  BY <1>4, <1>8, <1>9, <1>10, <1>11 DEF r


-----------------------------------------------------------------------------
(* Sums over parts.                                                          *)

Tallies(parts, e, n) == [k \in DOMAIN parts |-> Tally(parts[k], e, n)]

HasRanges(parts) ==
    IsFiniteSet(DOMAIN parts) /\ \A k \in DOMAIN parts : parts[k].ranges \in Seq(RangeType)

LEMMA TalliesAreInts ==
  ASSUME NEW P, HasRanges(P), NEW e, NEW n
  PROVE  Ints(Tallies(P, e, n), DOMAIN P)
<1>1. ASSUME NEW k \in DOMAIN P PROVE Tallies(P, e, n)[k] \in Int
  <2>1. Tally(P[k], e, n) \in Nat
    <3>1. P[k].ranges \in Seq(RangeType)
      BY DEF HasRanges
    <3>2. \A q : q.ranges \in Seq(RangeType) => Tally(q, e, n) \in Nat
      BY TallyIsNat
    <3> QED
      BY <3>1, <3>2
  <2> QED
    BY <2>1 DEF Tallies
<1> QED
  BY <1>1 DEF Ints

\* The fold of the model is a total.
LEMMA TallyIsTotal ==
  ASSUME NEW P, HasRanges(P), NEW e, NEW n
  PROVE  TallyOf(P, e, n) = Total(Tallies(P, e, n), DOMAIN P)
<1> DEFINE S == DOMAIN P
           f == Tallies(P, e, n)
           Value(h, s) == IF s = {} THEN 0 ELSE
                 LET x == CHOOSE x \in s : TRUE IN Tally(P[x], e, n) + h[s \ {x}]
           iter == CHOOSE h : h = [s \in SUBSET S |-> Value(h, s)]
<1>1. TallyOf(P, e, n) = iter[S]
  BY DEF TallyOf, MapThenSumSet, MapThenFoldSet
<1>2. Picks(First(S), S) /\ IsFiniteSet(S)
  BY DEF Picks, First, HasRanges
<1>3. \A h : \A s \in SUBSET S :
        (IF s = {} THEN 0 ELSE f[First(S)[s]] + h[s \ {First(S)[s]}]) = Value(h, s)
  <2>1. ASSUME NEW s \in SUBSET S, s # {}
        PROVE  /\ First(S)[s] = CHOOSE x \in s : TRUE
               /\ First(S)[s] \in S
    BY <2>1 DEF First
  <2>2. \A k \in S : f[k] = Tally(P[k], e, n)
    BY DEF Tallies
  <2> HIDE DEF f
  <2> QED
    BY <2>1, <2>2
<1>4. \A h : Sums(h, f, First(S), S) <=> h = [s \in SUBSET S |-> Value(h, s)]
  <2> HIDE DEF Value, f
  <2> QED
    BY <1>3 DEF Sums
<1>5. \E h : h = [s \in SUBSET S |-> Value(h, s)]
  <2> HIDE DEF Value, f
  <2> QED
    BY <1>2, <1>4, SumsExist
<1>6. iter = [s \in SUBSET S |-> Value(iter, s)]
  <2> HIDE DEF Value
  <2> QED
    BY <1>5
<1>7. Sums(iter, f, First(S), S)
  <2> HIDE DEF iter, Value, f
  <2> QED
    BY <1>4, <1>6
<1>8. Ints(f, S)
  BY TalliesAreInts
<1>9. iter[S] = Total(f, S)
  <2> HIDE DEF iter, f
  <2> QED
    BY <1>2, <1>7, <1>8, SumIsTotal
<1> QED
  BY <1>1, <1>9

\* The tally of parts of which one comes, goes or changes.
LEMMA TallyChanges ==
  ASSUME NEW P, HasRanges(P), NEW Q, \A k \in DOMAIN Q : Q[k].ranges \in Seq(RangeType),
         NEW x, DOMAIN P \ {x} = DOMAIN Q \ {x}, \A y \in DOMAIN P \ {x} : P[y] = Q[y]
  PROVE  /\ IsFiniteSet(DOMAIN Q)
         /\ \A e, n : /\ TallyOf(P, e, n) \in Int
                      /\ TallyOf(Q, e, n) = TallyOf(P, e, n)
                            - (IF x \in DOMAIN P THEN Tally(P[x], e, n) ELSE 0)
                            + (IF x \in DOMAIN Q THEN Tally(Q[x], e, n) ELSE 0)
<1>1. IsFiniteSet(DOMAIN P)
  BY DEF HasRanges
<1>2. IsFiniteSet(DOMAIN Q)
  <2>1. IsFiniteSet(DOMAIN P \cup {x}) /\ DOMAIN Q \subseteq DOMAIN P \cup {x}
    BY <1>1, FS_AddElement
  <2> QED
    BY <2>1, FS_Subset
<1>3. HasRanges(Q)
  BY <1>2 DEF HasRanges
<1>4. ASSUME NEW e, NEW n
      PROVE  /\ TallyOf(P, e, n) \in Int
             /\ TallyOf(Q, e, n) = TallyOf(P, e, n)
                   - (IF x \in DOMAIN P THEN Tally(P[x], e, n) ELSE 0)
                   + (IF x \in DOMAIN Q THEN Tally(Q[x], e, n) ELSE 0)
  <2> DEFINE f == Tallies(P, e, n)
             h == Tallies(Q, e, n)
  <2>1. TallyOf(P, e, n) = Total(f, DOMAIN P) /\ TallyOf(Q, e, n) = Total(h, DOMAIN Q)
    BY <1>3, TallyIsTotal
  <2>2. Ints(f, DOMAIN P) /\ Ints(h, DOMAIN Q)
    BY <1>3, TalliesAreInts
  <2>3. \A y \in DOMAIN P \ {x} : f[y] = h[y]
    BY DEF Tallies
  <2>4. /\ x \in DOMAIN P => f[x] = Tally(P[x], e, n)
        /\ x \in DOMAIN Q => h[x] = Tally(Q[x], e, n)
    BY DEF Tallies
  <2> HIDE DEF f, h
  <2>5. Total(h, DOMAIN Q) = Total(f, DOMAIN P) - (IF x \in DOMAIN P THEN f[x] ELSE 0)
                                                + (IF x \in DOMAIN Q THEN h[x] ELSE 0)
    BY <1>1, <2>2, <2>3, TotalChanges
  <2>6. Total(f, DOMAIN P) \in Int
    BY <1>1, <2>2, TotalIsInt
  <2> QED
    BY <2>1, <2>4, <2>5, <2>6
<1> QED
  BY <1>2, <1>4

\* The triangles of some of the parts.
Lengths(parts, S) == Total([k \in S |-> parts[k].length], S)

LEMMA LengthsChange ==
  ASSUME NEW P, NEW S, IsFiniteSet(S), \A k \in S : P[k].length \in Nat,
         NEW Q, NEW T, \A k \in T : Q[k].length \in Nat,
         NEW x, S \ {x} = T \ {x}, \A y \in S \ {x} : P[y] = Q[y]
  PROVE  /\ Lengths(P, S) \in Int
         /\ Lengths(Q, T) = Lengths(P, S) - (IF x \in S THEN P[x].length ELSE 0)
                                          + (IF x \in T THEN Q[x].length ELSE 0)
<1> DEFINE f == [k \in S |-> P[k].length]
           h == [k \in T |-> Q[k].length]
<1>1. Ints(f, S) /\ Ints(h, T)
  BY DEF Ints
<1>2. \A y \in S \ {x} : f[y] = h[y]
  OBVIOUS
<1>3. (x \in S => f[x] = P[x].length) /\ (x \in T => h[x] = Q[x].length)
  OBVIOUS
<1>4. Lengths(P, S) = Total(f, S) /\ Lengths(Q, T) = Total(h, T)
  BY DEF Lengths
<1> HIDE DEF f, h
<1>5. Total(h, T) = Total(f, S) - (IF x \in S THEN f[x] ELSE 0) + (IF x \in T THEN h[x] ELSE 0)
  BY <1>1, <1>2, TotalChanges
<1>6. Total(f, S) \in Int
  BY <1>1, TotalIsInt
<1> QED
  BY <1>3, <1>4, <1>5, <1>6

LEMMA NoLength == \A P : Lengths(P, {}) = 0
  BY TotalOfNothing DEF Lengths

\* What the model says is drawn is such a sum.
LEMMA DrawnIsTotal ==
  ASSUME NEW k, IsFiniteSet(Of(k)), \A j \in Of(k) : sealed[j].length \in Nat
  PROVE  Drawn(k) = Lengths(sealed, Of(k))
<1> DEFINE S == Of(k)
           f == [j \in S |-> sealed[j].length]
           Value(h, s) == IF s = {} THEN 0 ELSE
                 LET x == CHOOSE x \in s : TRUE IN Length(x) + h[s \ {x}]
           iter == CHOOSE h : h = [s \in SUBSET S |-> Value(h, s)]
<1>1. Drawn(k) = iter[S]
  BY DEF Drawn, MapThenSumSet, MapThenFoldSet
<1>2. Picks(First(S), S)
  BY DEF Picks, First
<1>8. Ints(f, S)
  BY DEF Ints
<1>10. Lengths(sealed, S) = Total(f, S)
  BY DEF Lengths
<1>11. \A j \in S : f[j] = Length(j)
  BY DEF Length
<1>12. IsFiniteSet(S)
  OBVIOUS
<1> HIDE DEF S, f
<1>3. \A h : \A s \in SUBSET S :
        (IF s = {} THEN 0 ELSE f[First(S)[s]] + h[s \ {First(S)[s]}]) = Value(h, s)
  <2>1. ASSUME NEW s \in SUBSET S, s # {}
        PROVE  /\ First(S)[s] = CHOOSE x \in s : TRUE
               /\ First(S)[s] \in S
    BY <2>1 DEF First
  <2> QED
    BY <1>11, <2>1
<1>4. \A h : Sums(h, f, First(S), S) <=> h = [s \in SUBSET S |-> Value(h, s)]
  <2> HIDE DEF Value
  <2> QED
    BY <1>3 DEF Sums
<1>5. \E h : h = [s \in SUBSET S |-> Value(h, s)]
  <2> HIDE DEF Value
  <2> QED
    BY <1>2, <1>4, <1>12, SumsExist
<1>6. iter = [s \in SUBSET S |-> Value(iter, s)]
  <2> HIDE DEF Value
  <2> QED
    BY <1>5
<1>7. Sums(iter, f, First(S), S)
  <2> HIDE DEF iter, Value
  <2> QED
    BY <1>4, <1>6
<1>9. iter[S] = Total(f, S)
  <2> HIDE DEF iter
  <2> QED
    BY <1>2, <1>7, <1>8, <1>12, SumIsTotal
<1> QED
  BY <1>1, <1>9, <1>10 DEF S


-----------------------------------------------------------------------------
(* What a routed piece does to the chunks: one of them has its triangles     *)
(* more, the others have the triangles they had, and a fresh one has none.   *)

LEMMA RouteFacts ==
  ASSUME RouterInv, NEW s \in Storeys, NEW lo \in Point, NEW hi \in Point, NEW n \in Nat,
         Route(s, lo, hi, n)
  PROVE  LET k == Locate(s, Middle(lo, hi))
         IN  /\ k \in Nat \ {0}
             /\ k \in DOMAIN chunks => chunks[k].storey = s
             /\ DOMAIN chunks \cup {k} \subseteq DOMAIN chunks'
             /\ chunks'[k].storey = s
             /\ chunks'[k].triangles =
                  (IF k \in DOMAIN chunks THEN chunks[k].triangles ELSE 0) + n
             /\ \A j \in DOMAIN chunks \ {k} : chunks'[j] = chunks[j]
             /\ \A j \in DOMAIN chunks' \ (DOMAIN chunks \cup {k}) : chunks'[j].triangles = 0
<1> DEFINE k == Locate(s, Middle(lo, hi))
           t == Received(k, s, lo, hi, n)
           sum == (IF k \in DOMAIN chunks THEN chunks[k].triangles ELSE 0) + n
<1>1. /\ k \in 1..Len(chunks) + 1
      /\ k \in DOMAIN chunks => chunks[k].storey = s
  BY MiddleOnGrid, Located
<1>2. t \in Chunk /\ t.storey = s /\ t.triangles = sum
  BY <1>1, ReceivedIsChunk
<1>3. Len(chunks) \in Nat
  BY DEF RouterInv, RouterTypeOK
<1>4. Keep(k, s, lo, hi, n) \/ Overflow(k, s, lo, hi, n) \/ Split(k, s, lo, hi, n)
  BY DEF Route
<1> DEFINE Facts == /\ DOMAIN chunks \cup {k} \subseteq DOMAIN chunks'
                    /\ chunks'[k].storey = s
                    /\ chunks'[k].triangles = sum
                    /\ \A j \in DOMAIN chunks \ {k} : chunks'[j] = chunks[j]
                    /\ \A j \in DOMAIN chunks' \ (DOMAIN chunks \cup {k}) : chunks'[j].triangles = 0
<1> HIDE DEF k, sum
<1>5. ASSUME NEW r \in Chunk, r.storey = s, r.triangles = sum, chunks' = With(k, r)
      PROVE  Facts
  <2>1. /\ DOMAIN With(k, r) = DOMAIN chunks \cup {k}
        /\ \A j \in DOMAIN With(k, r) : With(k, r)[j] = IF j = k THEN r ELSE chunks[j]
    BY <1>1, WithAt
  <2> QED
    BY <1>5, <2>1
<1>6. ASSUME Keep(k, s, lo, hi, n) PROVE Facts
  <2>1. chunks' = With(k, t)
    BY <1>6 DEF Keep
  <2> HIDE DEF t, Facts
  <2> QED
    BY <1>2, <1>5, <2>1
<1>7. ASSUME Overflow(k, s, lo, hi, n) PROVE Facts
  <2> DEFINE r == [t EXCEPT !.overflowed = TRUE]
  <2>1. chunks' = With(k, r)
    BY <1>7 DEF Overflow
  <2> HIDE DEF t, Facts
  <2>2. r \in Chunk /\ r.storey = s /\ r.triangles = sum
    BY <1>2 DEF Chunk
  <2> QED
    BY <1>5, <2>1, <2>2
<1>8. ASSUME Split(k, s, lo, hi, n) PROVE Facts
  <2> DEFINE a == LongestAxis(t)
             limit == (t.lo[a] + t.hi[a]) \div 2
             upper == Middle(lo, hi)[a] >= limit
             g == [axis |-> a, limit |-> limit, upper |-> upper]
             h == [axis |-> a, limit |-> limit, upper |-> ~ upper]
             x == IF upper /\ limit > t.lo[a] THEN limit ELSE t.lo[a]
             y == IF ~ upper /\ limit < t.hi[a] THEN limit ELSE t.hi[a]
             kept == [t EXCEPT !.guards = @ \cup {g}, !.lo[a] = x, !.hi[a] = y]
             fresh == MakeTarget(s, t.guards \cup {h})
  <2>1. chunks' = Append(With(k, kept), fresh)
    BY <1>8 DEF Split
  <2>2. a \in Axes
    BY <1>2, LongestAxisIsAxis
  <2> HIDE DEF t, a
  <2>3. t.lo[a] \in Int /\ t.hi[a] \in Int
    BY <1>2, <2>2 DEF Chunk
  <2>4. limit \in Int /\ upper \in BOOLEAN
    BY <2>2, <2>3, MiddleOnGrid DEF Grid
  <2>5. x \in Int /\ y \in Int
    BY <2>3, <2>4
  <2>6. g \in Guards /\ t.guards \in SUBSET Guards
    BY <1>2, <2>2, <2>4 DEF Guards, Chunk
  <2> HIDE DEF g, h, x, y, limit, upper
  <2>7. kept \in Chunk /\ kept.storey = s /\ kept.triangles = sum
    <3> DEFINE low  == [t.lo EXCEPT ![a] = x]
               high == [t.hi EXCEPT ![a] = y]
    <3>1. low \in [Axes -> Int] /\ high \in [Axes -> Int] /\ t.guards \cup {g} \in SUBSET Guards
      BY <1>2, <2>2, <2>5, <2>6 DEF Chunk
    <3>2. kept = [t EXCEPT !.guards = t.guards \cup {g}, !.lo = low, !.hi = high]
      BY <1>2 DEF Chunk
    <3> HIDE DEF low, high, kept
    <3> QED
      BY <1>2, <3>1, <3>2 DEF Chunk
  <2>8. fresh.triangles = 0
    BY DEF MakeTarget
  <2> HIDE DEF kept, fresh
  <2>9. /\ With(k, kept) \in Seq(Chunk)
        /\ DOMAIN With(k, kept) = DOMAIN chunks \cup {k}
        /\ \A j \in DOMAIN With(k, kept) : With(k, kept)[j] = IF j = k THEN kept ELSE chunks[j]
    BY <1>1, <2>7, WithAt
  <2> DEFINE w == With(k, kept)
  <2>10. w \in Seq(Chunk) /\ chunks' = Append(w, fresh)
    BY <2>1, <2>9
  <2>11. /\ DOMAIN w = DOMAIN chunks \cup {k}
         /\ \A j \in DOMAIN w : w[j] = IF j = k THEN kept ELSE chunks[j]
    BY <2>9
  <2> HIDE DEF w
  <2>12. Len(w) \in Nat /\ DOMAIN w = 1..Len(w)
    BY <2>10
  <2>13. /\ DOMAIN chunks' = DOMAIN w \cup {Len(w) + 1} /\ Len(w) + 1 \notin DOMAIN w
         /\ chunks'[Len(w) + 1] = fresh
         /\ \A j \in DOMAIN w : chunks'[j] = w[j]
    BY <2>10, <2>12
  <2> QED
    BY <2>7, <2>8, <2>11, <2>13
<1>9. Facts
  BY <1>4, <1>6, <1>7, <1>8
<1>10. k \in Nat \ {0}
  BY <1>1, <1>3
<1> QED
  BY <1>1, <1>9, <1>10 DEF k, sum


-----------------------------------------------------------------------------
(* A part changes, is sealed and starts afresh, or is sealed at the end.     *)

Keys == Nat \X Storeys \X Colors

PartAt(key) == IF key \in DOMAIN open THEN open[key] ELSE NoPart

AsPrimitive(key, part) ==
    [chunk |-> key[1], storey |-> key[2], length |-> part.length, ranges |-> part.ranges]

Moves(key, part) ==
    \/ open' = Set(open, key, part) /\ UNCHANGED sealed
    \/ open' = Set(open, key, NoPart) /\ sealed' = sealed \o Primitive(key, part)
    \/ open' = [k \in DOMAIN open \ {key} |-> open[k]] /\ sealed' = sealed \o Primitive(key, part)

\* Only what has vertices has ranges.
Stocked ==
    /\ IsFiniteSet(DOMAIN open)
    /\ \A k \in DOMAIN open : open[k].vertices = 0 => open[k].ranges = <<>>

Left(key) == key \notin DOMAIN open' \/ open'[key] = NoPart

LEMMA MoveShapes ==
  ASSUME TypeOK, NEW key \in Keys, NEW part \in PartType, Moves(key, part)
  PROVE  /\ DOMAIN open \ {key} = DOMAIN open' \ {key}
         /\ \A y \in DOMAIN open \ {key} : open[y] = open'[y]
         /\ \/ sealed' = sealed /\ key \in DOMAIN open' /\ open'[key] = part
            \/ sealed' = Append(sealed, AsPrimitive(key, part)) /\ Left(key)
            \/ sealed' = sealed /\ part.vertices = 0 /\ Left(key)
<1>1. sealed \in Seq(PrimitiveType)
  BY DEF TypeOK
<1>2. AsPrimitive(key, part) \in PrimitiveType
  BY PartTypes DEF AsPrimitive, PrimitiveType, Keys
<1>3. \A v : /\ DOMAIN Set(open, key, v) = DOMAIN open \cup {key}
             /\ Set(open, key, v)[key] = v
             /\ \A y \in DOMAIN open \ {key} : Set(open, key, v)[y] = open[y]
  BY DEF Set
<1>4. \/ part.vertices = 0 /\ sealed \o Primitive(key, part) = sealed
      \/ sealed \o Primitive(key, part) = Append(sealed, AsPrimitive(key, part))
  <2>1. CASE part.vertices = 0
    <3>1. Primitive(key, part) = <<>>
      BY <2>1 DEF Primitive
    <3>2. sealed \o <<>> = sealed
      BY <1>1
    <3> QED
      BY <2>1, <3>1, <3>2
  <2>2. CASE part.vertices # 0
    <3>1. Primitive(key, part) = <<AsPrimitive(key, part)>>
      BY <2>2 DEF Primitive, AsPrimitive
    <3>2. \A x \in PrimitiveType : sealed \o <<x>> = Append(sealed, x)
      BY <1>1
    <3> QED
      BY <1>2, <3>1, <3>2
  <2> QED
    BY <2>1, <2>2
<1>5. CASE open' = Set(open, key, part) /\ UNCHANGED sealed
  BY <1>3, <1>5
<1>6. CASE open' = Set(open, key, NoPart) /\ sealed' = sealed \o Primitive(key, part)
  BY <1>3, <1>4, <1>6 DEF Left
<1>7. CASE open' = [k \in DOMAIN open \ {key} |-> open[k]] /\ sealed' = sealed \o Primitive(key, part)
  <2>1. DOMAIN open' = DOMAIN open \ {key} /\ \A y \in DOMAIN open \ {key} : open'[y] = open[y]
    BY <1>7
  <2> QED
    BY <1>4, <1>7, <2>1 DEF Left
<1> QED
  BY <1>5, <1>6, <1>7 DEF Moves

\* Sealed parts, by index.
LEMMA SealedGrows ==
  ASSUME TypeOK, NEW key \in Keys, NEW part \in PartType,
         sealed' = Append(sealed, AsPrimitive(key, part))
  PROVE  /\ Len(sealed) + 1 \notin DOMAIN sealed
         /\ DOMAIN sealed' = DOMAIN sealed \cup {Len(sealed) + 1}
         /\ sealed'[Len(sealed) + 1] = AsPrimitive(key, part)
         /\ \A j \in DOMAIN sealed : sealed'[j] = sealed[j]
         /\ sealed' \in Seq(PrimitiveType)
<1>1. sealed \in Seq(PrimitiveType) /\ Len(sealed) \in Nat /\ DOMAIN sealed = 1..Len(sealed)
  BY DEF TypeOK
<1>2. AsPrimitive(key, part) \in PrimitiveType
  BY PartTypes DEF AsPrimitive, PrimitiveType, Keys
<1> QED
  BY <1>1, <1>2

\* The parts keep their types.
LEMMA MoveTypes ==
  ASSUME TypeOK, Stocked, NEW key \in Keys, NEW part \in PartType,
         part.vertices = 0 => part.ranges = <<>>, Moves(key, part)
  PROVE  /\ sealed' \in Seq(PrimitiveType)
         /\ DOMAIN open' \subseteq Keys
         /\ \A k \in DOMAIN open' : open'[k] \in PartType
         /\ Stocked'
<1>1. /\ DOMAIN open \ {key} = DOMAIN open' \ {key}
      /\ \A y \in DOMAIN open \ {key} : open[y] = open'[y]
      /\ \/ sealed' = sealed /\ key \in DOMAIN open' /\ open'[key] = part
         \/ sealed' = Append(sealed, AsPrimitive(key, part)) /\ Left(key)
         \/ sealed' = sealed /\ part.vertices = 0 /\ Left(key)
  BY MoveShapes
<1>2. sealed' \in Seq(PrimitiveType)
  <2>1. sealed \in Seq(PrimitiveType)
    BY DEF TypeOK
  <2> QED
    BY <1>1, <2>1, SealedGrows
<1>3. DOMAIN open \subseteq Keys /\ \A k \in DOMAIN open : open[k] \in PartType
  BY DEF TypeOK, Keys
<1>4. NoPart \in PartType /\ NoPart.ranges = <<>>
  BY PartTypes DEF NoPart
<1>5. \A k \in DOMAIN open' : IF k = key THEN open'[k] = part \/ open'[k] = NoPart
                              ELSE k \in DOMAIN open /\ open'[k] = open[k]
  BY <1>1 DEF Left
<1>6. DOMAIN open' \subseteq Keys /\ \A k \in DOMAIN open' : open'[k] \in PartType
  BY <1>3, <1>4, <1>5
<1>7. IsFiniteSet(DOMAIN open')
  <2>1. IsFiniteSet(DOMAIN open \cup {key})
    BY FS_AddElement DEF Stocked
  <2>2. DOMAIN open' \subseteq DOMAIN open \cup {key}
    BY <1>1
  <2> QED
    BY <2>1, <2>2, FS_Subset
<1>8. \A k \in DOMAIN open' : open'[k].vertices = 0 => open'[k].ranges = <<>>
  BY <1>4, <1>5 DEF Stocked
<1> QED
  BY <1>2, <1>6, <1>7, <1>8 DEF Stocked

\* Sealing moves ranges, and what a part gains is gained.
LEMMA MoveTallies ==
  ASSUME TypeOK, Stocked, NEW key \in Keys, NEW part \in PartType,
         part.vertices = 0 => part.ranges = <<>>, Moves(key, part), NEW e, NEW n
  PROVE  TallyOf(sealed', e, n) + TallyOf(open', e, n) =
           TallyOf(sealed, e, n) + TallyOf(open, e, n)
             + Tally(part, e, n) - Tally(PartAt(key), e, n)
<1>1. /\ DOMAIN open \ {key} = DOMAIN open' \ {key}
      /\ \A y \in DOMAIN open \ {key} : open[y] = open'[y]
      /\ \/ sealed' = sealed /\ key \in DOMAIN open' /\ open'[key] = part
         \/ sealed' = Append(sealed, AsPrimitive(key, part)) /\ Left(key)
         \/ sealed' = sealed /\ part.vertices = 0 /\ Left(key)
  BY MoveShapes
<1>2. /\ \A k \in DOMAIN open : open[k].ranges \in Seq(RangeType)
      /\ \A k \in DOMAIN open' : open'[k].ranges \in Seq(RangeType)
  <2>1. \A k \in DOMAIN open' : open'[k] \in PartType
    BY MoveTypes
  <2> QED
    BY <2>1, PartTypes DEF TypeOK
<1>3. HasRanges(open)
  BY <1>2 DEF HasRanges, Stocked
<1>4. /\ TallyOf(open, e, n) \in Int
      /\ TallyOf(open', e, n) = TallyOf(open, e, n)
            - (IF key \in DOMAIN open THEN Tally(open[key], e, n) ELSE 0)
            + (IF key \in DOMAIN open' THEN Tally(open'[key], e, n) ELSE 0)
  <2>1. PICK o : o = open'
    OBVIOUS
  <2>2. /\ TallyOf(open, e, n) \in Int
        /\ TallyOf(o, e, n) = TallyOf(open, e, n)
              - (IF key \in DOMAIN open THEN Tally(open[key], e, n) ELSE 0)
              + (IF key \in DOMAIN o THEN Tally(o[key], e, n) ELSE 0)
    BY <1>1, <1>2, <1>3, <2>1, TallyChanges
  <2> QED
    BY <2>1, <2>2
<1>5. /\ (IF key \in DOMAIN open THEN Tally(open[key], e, n) ELSE 0) = Tally(PartAt(key), e, n)
      /\ Tally(PartAt(key), e, n) \in Nat
  <2>1. CASE key \in DOMAIN open
    <3>1. PartAt(key) = open[key] /\ open[key].ranges \in Seq(RangeType)
      BY <1>2, <2>1 DEF PartAt
    <3>2. Tally(open[key], e, n) \in Nat
      BY <3>1, TallyIsNat
    <3> QED
      BY <2>1, <3>1, <3>2
  <2>2. CASE key \notin DOMAIN open
    BY <2>2, NothingTold DEF PartAt
  <2> QED
    BY <2>1, <2>2
<1>6. sealed \in Seq(PrimitiveType) /\ part.ranges \in Seq(RangeType)
  BY PartTypes DEF TypeOK
<1>7. HasRanges(sealed)
  <2>1. Len(sealed) \in Nat /\ DOMAIN sealed = 1..Len(sealed)
    BY <1>6
  <2>2. \A j \in DOMAIN sealed : sealed[j] \in PrimitiveType
    BY <1>6
  <2>3. IsFiniteSet(1..Len(sealed))
    <3>1. Len(sealed) \in Nat
      BY <2>1
    <3> QED
      BY <3>1, UpToIsFinite
  <2> QED
    BY <2>1, <2>2, <2>3, PartTypes DEF HasRanges
<1>8. Tally(part, e, n) \in Nat
  BY <1>6, TallyIsNat
<1>9. TallyOf(sealed, e, n) \in Int
  BY <1>7, TalliesAreInts, TallyIsTotal, TotalIsInt DEF HasRanges
<1>10. CASE sealed' = sealed /\ key \in DOMAIN open' /\ open'[key] = part
  BY <1>4, <1>5, <1>8, <1>9, <1>10
<1>11. Left(key) => (IF key \in DOMAIN open' THEN Tally(open'[key], e, n) ELSE 0) = 0
  BY NothingTold DEF Left
<1>12. CASE sealed' = sealed /\ part.vertices = 0 /\ Left(key)
  <2>1. Tally(part, e, n) = 0
    <3>1. part.ranges = NoPart.ranges
      BY <1>12 DEF NoPart
    <3>2. Tally(part, e, n) = Tally(NoPart, e, n)
      BY <3>1 DEF Tally
    <3> QED
      BY <3>2, NothingTold
  <2> QED
    BY <1>4, <1>5, <1>8, <1>9, <1>11, <1>12, <2>1
<1>13. CASE sealed' = Append(sealed, AsPrimitive(key, part)) /\ Left(key)
  <2> DEFINE x == Len(sealed) + 1
  <2>1. PICK q : q = sealed'
    OBVIOUS
  <2>2. /\ x \notin DOMAIN sealed
        /\ DOMAIN q = DOMAIN sealed \cup {x}
        /\ q[x] = AsPrimitive(key, part)
        /\ \A j \in DOMAIN sealed : q[j] = sealed[j]
    BY <1>13, <2>1, SealedGrows
  <2> HIDE DEF x
  <2>3. \A k \in DOMAIN q : q[k].ranges \in Seq(RangeType)
    BY <1>6, <1>7, <2>2 DEF AsPrimitive, HasRanges
  <2>4. TallyOf(q, e, n) = TallyOf(sealed, e, n)
              - (IF x \in DOMAIN sealed THEN Tally(sealed[x], e, n) ELSE 0)
              + (IF x \in DOMAIN q THEN Tally(q[x], e, n) ELSE 0)
    <3>1. DOMAIN sealed \ {x} = DOMAIN q \ {x} /\ \A y \in DOMAIN sealed \ {x} : sealed[y] = q[y]
      BY <2>2
    <3> QED
      BY <1>7, <2>3, <3>1, TallyChanges
  <2>5. Tally(q[x], e, n) = Tally(part, e, n)
    <3>1. q[x].ranges = part.ranges
      BY <2>2 DEF AsPrimitive
    <3> QED
      BY <3>1 DEF Tally
  <2>6. TallyOf(q, e, n) = TallyOf(sealed, e, n) + Tally(part, e, n)
    BY <1>9, <2>2, <2>4, <2>5
  <2> QED
    BY <1>4, <1>5, <1>8, <1>9, <1>11, <1>13, <2>1, <2>6
<1> QED
  BY <1>1, <1>10, <1>12, <1>13


\* The parts of a chunk that are open.
OpenOf(k) == {q \in DOMAIN open : q[1] = k - 1}

\* ... and so for the triangles of a chunk.
LEMMA MoveLengths ==
  ASSUME TypeOK, Stocked, NEW key \in Keys, NEW part \in PartType,
         part.vertices = 0 => part.ranges = <<>> /\ part.length = 0,
         Moves(key, part), NEW k \in Nat
  PROVE  /\ Lengths(sealed', Of(k)') + Lengths(open', OpenOf(k)') =
              Lengths(sealed, Of(k)) + Lengths(open, OpenOf(k))
                + (IF key[1] = k - 1 THEN part.length - PartAt(key).length ELSE 0)
         /\ Lengths(sealed, Of(k)) + Lengths(open, OpenOf(k)) \in Int
<1>1. /\ DOMAIN open \ {key} = DOMAIN open' \ {key}
      /\ \A y \in DOMAIN open \ {key} : open[y] = open'[y]
      /\ \/ sealed' = sealed /\ key \in DOMAIN open' /\ open'[key] = part
         \/ sealed' = Append(sealed, AsPrimitive(key, part)) /\ Left(key)
         \/ sealed' = sealed /\ part.vertices = 0 /\ Left(key)
  BY MoveShapes
<1>2. /\ \A q \in DOMAIN open : open[q].length \in Nat
      /\ \A q \in DOMAIN open' : open'[q].length \in Nat
      /\ IsFiniteSet(DOMAIN open)
  <2>1. \A q \in DOMAIN open' : open'[q] \in PartType
    BY MoveTypes
  <2> QED
    BY <2>1, PartTypes DEF TypeOK, Stocked
<1>3. PICK S, T : S = OpenOf(k) /\ T = OpenOf(k)'
  OBVIOUS
<1>4. /\ S = {q \in DOMAIN open : q[1] = k - 1}
      /\ T = {q \in DOMAIN open' : q[1] = k - 1}
  BY <1>3 DEF OpenOf
<1>5. IsFiniteSet(S)
  BY <1>2, <1>4, FS_Subset
<1>6. PICK o : o = open'
  OBVIOUS
<1>7. /\ Lengths(open, S) \in Int
      /\ Lengths(o, T) = Lengths(open, S) - (IF key \in S THEN open[key].length ELSE 0)
                                          + (IF key \in T THEN o[key].length ELSE 0)
  <2>1. /\ \A q \in S : open[q].length \in Nat
        /\ \A q \in T : o[q].length \in Nat
        /\ S \ {key} = T \ {key}
        /\ \A y \in S \ {key} : open[y] = o[y]
    BY <1>1, <1>2, <1>4, <1>6
  <2> QED
    BY <1>5, <2>1, LengthsChange
<1>8. /\ PartAt(key).length \in Nat /\ part.length \in Nat
      /\ key \in S => key[1] = k - 1 /\ PartAt(key) = open[key]
      /\ key \notin S => key[1] # k - 1 \/ PartAt(key).length = 0
  <2>1. NoPart.length = 0 /\ NoPart \in PartType
    BY PartTypes DEF NoPart
  <2> QED
    BY <1>2, <1>4, <2>1, PartTypes DEF PartAt
<1>9. Lengths(o, T) = Lengths(open, S)
          - (IF key[1] = k - 1 THEN PartAt(key).length ELSE 0)
          + (IF key \in T THEN o[key].length ELSE 0)
  BY <1>4, <1>7, <1>8
<1>10. sealed \in Seq(PrimitiveType) /\ Len(sealed) \in Nat /\ DOMAIN sealed = 1..Len(sealed)
  BY DEF TypeOK
<1>11. /\ Of(k) = {j \in DOMAIN sealed : sealed[j].chunk = k - 1}
       /\ Of(k)' = {j \in DOMAIN sealed' : sealed'[j].chunk = k - 1}
  BY DEF Of
<1>12. IsFiniteSet(Of(k))
  <2>1. Len(sealed) \in Nat
    BY <1>10
  <2>2. IsFiniteSet(1..Len(sealed)) /\ Of(k) \subseteq 1..Len(sealed)
    BY <1>10, <1>11, <2>1, UpToIsFinite
  <2> QED
    BY <2>2, FS_Subset
<1>13. \A j \in Of(k) : sealed[j].length \in Nat
  <2>1. \A j \in DOMAIN sealed : sealed[j] \in PrimitiveType
    BY <1>10
  <2> QED
    BY <1>11, <2>1, PartTypes
<1>14. Lengths(sealed, Of(k)) \in Int
  <2>1. \A y : Lengths(sealed, Of(k)) \in Int
    BY <1>12, <1>13, LengthsChange
  <2> QED
    BY <2>1
<1>15. Left(key) => (IF key \in T THEN o[key].length ELSE 0) = 0
  BY <1>4, <1>6 DEF Left, NoPart
<1>16. CASE sealed' = sealed /\ key \in DOMAIN open' /\ open'[key] = part
  <2>1. (IF key \in T THEN o[key].length ELSE 0) = (IF key[1] = k - 1 THEN part.length ELSE 0)
    BY <1>4, <1>6, <1>16
  <2>2. Of(k)' = Of(k)
    BY <1>11, <1>16
  <2>3. Lengths(o, T) = Lengths(open, S)
          + (IF key[1] = k - 1 THEN part.length - PartAt(key).length ELSE 0)
    BY <1>7, <1>8, <1>9, <2>1
  <2>4. Lengths(sealed', Of(k)') = Lengths(sealed, Of(k))
    BY <1>16, <2>2
  <2>5. Lengths(open', OpenOf(k)') = Lengths(o, T) /\ Lengths(open, OpenOf(k)) = Lengths(open, S)
    BY <1>3, <1>6
  <2>6. (IF key[1] = k - 1 THEN part.length - PartAt(key).length ELSE 0) \in Int
    BY <1>8
  <2> QED
    BY <1>7, <1>14, <2>3, <2>4, <2>5, <2>6
<1>17. CASE sealed' = sealed /\ part.vertices = 0 /\ Left(key)
  <2>1. Of(k)' = Of(k) /\ part.length = 0
    BY <1>11, <1>17
  <2>2. Lengths(o, T) = Lengths(open, S) - (IF key[1] = k - 1 THEN PartAt(key).length ELSE 0)
    BY <1>7, <1>8, <1>9, <1>15, <1>17
  <2>3. Lengths(sealed', Of(k)') = Lengths(sealed, Of(k))
    BY <1>17, <2>1
  <2>4. Lengths(open', OpenOf(k)') = Lengths(o, T) /\ Lengths(open, OpenOf(k)) = Lengths(open, S)
    BY <1>3, <1>6
  <2> QED
    BY <1>7, <1>8, <1>14, <2>1, <2>2, <2>3, <2>4
<1>18. CASE sealed' = Append(sealed, AsPrimitive(key, part)) /\ Left(key)
  <2> DEFINE x == Len(sealed) + 1
  <2>1. PICK q, V : q = sealed' /\ V = Of(k)'
    OBVIOUS
  <2>2. /\ x \notin DOMAIN sealed
        /\ DOMAIN q = DOMAIN sealed \cup {x}
        /\ q[x] = AsPrimitive(key, part)
        /\ \A j \in DOMAIN sealed : q[j] = sealed[j]
    BY <1>18, <2>1, SealedGrows
  <2> HIDE DEF x
  <2>3. V = {j \in DOMAIN q : q[j].chunk = k - 1}
    BY <1>11, <2>1
  <2>4. q[x].chunk = key[1] /\ q[x].length = part.length
    BY <2>2 DEF AsPrimitive
  <2>5. /\ Of(k) \ {x} = V \ {x} /\ \A y \in Of(k) \ {x} : sealed[y] = q[y]
        /\ \A j \in V : q[j].length \in Nat
        /\ x \notin Of(k)
        /\ x \in V <=> key[1] = k - 1
    BY <1>8, <1>11, <1>13, <2>2, <2>3, <2>4
  <2>6. Lengths(q, V) = Lengths(sealed, Of(k))
          - (IF x \in Of(k) THEN sealed[x].length ELSE 0) + (IF x \in V THEN q[x].length ELSE 0)
    BY <1>12, <1>13, <2>5, LengthsChange
  <2>7. Lengths(q, V) = Lengths(sealed, Of(k)) + (IF key[1] = k - 1 THEN part.length ELSE 0)
    BY <1>8, <1>14, <2>4, <2>5, <2>6
  <2>8. Lengths(o, T) = Lengths(open, S) - (IF key[1] = k - 1 THEN PartAt(key).length ELSE 0)
    BY <1>7, <1>8, <1>9, <1>15, <1>18
  <2>9. /\ Lengths(sealed', Of(k)') = Lengths(q, V)
        /\ Lengths(open', OpenOf(k)') = Lengths(o, T)
        /\ Lengths(open, OpenOf(k)) = Lengths(open, S)
    BY <1>3, <1>6, <2>1
  <2> QED
    BY <1>7, <1>8, <1>14, <2>7, <2>8, <2>9
<1> QED
  BY <1>1, <1>16, <1>17, <1>18

\* Where parts and primitives come from.
LEMMA MoveSources ==
  ASSUME TypeOK, NEW key \in Keys, NEW part \in PartType, Moves(key, part)
  PROVE  /\ \A j \in DOMAIN sealed' :
               \/ j \in DOMAIN sealed /\ sealed'[j] = sealed[j]
               \/ sealed'[j] = AsPrimitive(key, part)
         /\ \A q \in DOMAIN open' :
               \/ q \in DOMAIN open /\ open'[q] = open[q]
               \/ q = key /\ open'[q] \in {part, NoPart}
<1>1. /\ DOMAIN open \ {key} = DOMAIN open' \ {key}
      /\ \A y \in DOMAIN open \ {key} : open[y] = open'[y]
      /\ \/ sealed' = sealed /\ key \in DOMAIN open' /\ open'[key] = part
         \/ sealed' = Append(sealed, AsPrimitive(key, part)) /\ Left(key)
         \/ sealed' = sealed /\ part.vertices = 0 /\ Left(key)
  BY MoveShapes
<1>2. ASSUME NEW j \in DOMAIN sealed'
      PROVE  \/ j \in DOMAIN sealed /\ sealed'[j] = sealed[j]
             \/ sealed'[j] = AsPrimitive(key, part)
  <2>1. CASE sealed' = sealed
    BY <2>1
  <2>2. CASE sealed' = Append(sealed, AsPrimitive(key, part))
    BY <2>2, SealedGrows
  <2> QED
    BY <1>1, <2>1, <2>2
<1>3. ASSUME NEW q \in DOMAIN open'
      PROVE  \/ q \in DOMAIN open /\ open'[q] = open[q]
             \/ q = key /\ open'[q] \in {part, NoPart}
  BY <1>1 DEF Left
<1> QED
  BY <1>2, <1>3

LEMMA MoveGapless ==
  ASSUME TypeOK, NEW key \in Keys, NEW part \in PartType, Moves(key, part),
         Gapless(part), \A p \in Primitives : Gapless(p)
  PROVE  \A p \in Primitives' : Gapless(p)
<1>1. Gapless(NoPart)
  <2>1. NoPart.ranges = <<>> /\ NoPart.length = 0
    BY DEF NoPart
  <2>2. Len(<<>>) = 0
    OBVIOUS
  <2> QED
    BY <2>1, <2>2 DEF Gapless, End
<1>2. Gapless(AsPrimitive(key, part))
  BY DEF Gapless, AsPrimitive
<1>3. ASSUME NEW p \in Primitives' PROVE Gapless(p)
  <2>1. \/ \E j \in DOMAIN sealed' : p = sealed'[j]
        \/ \E q \in DOMAIN open' : p = open'[q]
    BY DEF Primitives, ToSet
  <2>2. CASE \E j \in DOMAIN sealed' : p = sealed'[j]
    <3>1. \A j \in DOMAIN sealed : Gapless(sealed[j])
      BY DEF Primitives, ToSet
    <3> QED
      BY <1>2, <2>2, <3>1, MoveSources
  <2>3. CASE \E q \in DOMAIN open' : p = open'[q]
    <3>1. \A q \in DOMAIN open : Gapless(open[q])
      BY DEF Primitives
    <3> QED
      BY <1>1, <2>3, <3>1, MoveSources
  <2> QED
    BY <2>1, <2>2, <2>3
<1> QED
  BY <1>3

\* A chunk holds a range of an element.
HasA(p, e)          == \E i \in DOMAIN p.ranges : p.ranges[i].element = e
Holding(s, o, c, e) == \/ \E j \in DOMAIN s : s[j].chunk = c /\ HasA(s[j], e)
                       \/ \E q \in DOMAIN o : q[1] = c /\ HasA(o[q], e)

LEMMA MoveHolds ==
  ASSUME TypeOK, Stocked, NEW key \in Keys, NEW part \in PartType, Moves(key, part),
         part.vertices = 0 => part.ranges = <<>>,
         \A e : HasA(PartAt(key), e) => HasA(part, e)
  PROVE  /\ \A e : HasA(part, e) => Holding(sealed', open', key[1], e)
         /\ \A c, e : Holding(sealed, open, c, e) => Holding(sealed', open', c, e)
<1>1. /\ DOMAIN open \ {key} = DOMAIN open' \ {key}
      /\ \A y \in DOMAIN open \ {key} : open[y] = open'[y]
      /\ \/ sealed' = sealed /\ key \in DOMAIN open' /\ open'[key] = part
         \/ sealed' = Append(sealed, AsPrimitive(key, part)) /\ Left(key)
         \/ sealed' = sealed /\ part.vertices = 0 /\ Left(key)
  BY MoveShapes
<1>2. ASSUME NEW e, HasA(part, e) PROVE Holding(sealed', open', key[1], e)
  <2>1. CASE sealed' = sealed /\ key \in DOMAIN open' /\ open'[key] = part
    BY <1>2, <2>1 DEF Holding
  <2>2. CASE sealed' = Append(sealed, AsPrimitive(key, part))
    <3>1. \E j \in DOMAIN sealed' : sealed'[j] = AsPrimitive(key, part)
      BY <2>2, SealedGrows
    <3>2. AsPrimitive(key, part).chunk = key[1] /\ HasA(AsPrimitive(key, part), e)
      BY <1>2 DEF AsPrimitive, HasA
    <3> QED
      BY <3>1, <3>2 DEF Holding
  <2>3. CASE part.vertices = 0
    BY <1>2, <2>3 DEF HasA
  <2> QED
    BY <1>1, <2>1, <2>2, <2>3
<1>3. ASSUME NEW c, NEW e, Holding(sealed, open, c, e) PROVE Holding(sealed', open', c, e)
  <2>1. CASE \E j \in DOMAIN sealed : sealed[j].chunk = c /\ HasA(sealed[j], e)
    <3>1. \A j \in DOMAIN sealed : j \in DOMAIN sealed' /\ sealed'[j] = sealed[j]
      BY <1>1, SealedGrows
    <3> QED
      BY <2>1, <3>1 DEF Holding
  <2>2. CASE \E q \in DOMAIN open : q # key /\ q[1] = c /\ HasA(open[q], e)
    BY <1>1, <2>2 DEF Holding
  <2>3. CASE key \in DOMAIN open /\ key[1] = c /\ HasA(open[key], e)
    <3>1. HasA(part, e)
      BY <2>3 DEF PartAt
    <3> QED
      BY <1>2, <2>3, <3>1
  <2> QED
    BY <1>3, <2>1, <2>2, <2>3 DEF Holding
<1> QED
  BY <1>2, <1>3


-----------------------------------------------------------------------------
(* The invariant of the stream.                                              *)

\* A chunk has the storey of what is in it, and counts its triangles, whether
\* they are sealed or not.
Homes ==
    chunking =>
      /\ \A j \in DOMAIN sealed :
            /\ sealed[j].chunk + 1 \in DOMAIN chunks
            /\ chunks[sealed[j].chunk + 1].storey = sealed[j].storey
      /\ \A q \in DOMAIN open : q[1] + 1 \in DOMAIN chunks /\ chunks[q[1] + 1].storey = q[2]
      /\ \A k \in DOMAIN chunks :
            chunks[k].triangles = Lengths(sealed, Of(k)) + Lengths(open, OpenOf(k))
      /\ \A k \in streams \ {0} : k + 1 \in DOMAIN chunks

Told ==
    /\ \A i \in Sound : pieces[i].element \in DOMAIN boxOf
    /\ phase \in {"seal", "done"} => DOMAIN boxOf \subseteq elements

\* The chunk that first received an element has a range of it, sealed or not.
FirstHolds == \A e \in DOMAIN chunkOf : Holding(sealed, open, chunkOf[e], e)

Written ==
    /\ phase \in {"stream", "seal"} => runs \in 1..MaxRuns
    /\ phase = "done" =>
          /\ DOMAIN open = {}
          /\ IF Chunked
             THEN disk.single = 0 /\ streams \X {runs} \subseteq disk.chunks
             ELSE disk = [single |-> runs, chunks |-> {}]

StreamInv ==
    /\ RouterInv /\ TypeOK /\ Stocked
    /\ GeometryIsKept /\ Homes /\ Told /\ FirstHolds /\ Written

\* A conversion that has just started.
Fresh ==
    /\ RouterInit
    /\ sealed = <<>> /\ open = <<>> /\ pieces = <<>>
    /\ chunkOf = <<>> /\ boxOf = <<>> /\ streams = {}

LEMMA FreshInv == Fresh => RouterInv /\ Stocked /\ GeometryIsKept /\ Homes /\ Told /\ FirstHolds
<1> SUFFICES ASSUME Fresh
             PROVE  RouterInv /\ Stocked /\ GeometryIsKept /\ Homes /\ Told /\ FirstHolds
  OBVIOUS
<1>1. DOMAIN <<>> = {}
  OBVIOUS
<1>2. RouterInv /\ DOMAIN chunks = {}
  BY <1>1, RouterStarts DEF Fresh, RouterInit
<1>3. IsFiniteSet(DOMAIN open) /\ DOMAIN open = {}
  BY <1>1, FS_EmptySet DEF Fresh
<1>4. Stocked /\ Homes /\ Told /\ FirstHolds
  BY <1>1, <1>2, <1>3 DEF Fresh, Stocked, Homes, Told, Sound, FirstHolds
<1>5. GeometryIsKept
  <2>1. Primitives = {}
    BY <1>1, <1>3 DEF Fresh, Primitives, ToSet
  <2>2. \A P, e, n : DOMAIN P = {} => TallyOf(P, e, n) = 0
    BY TallyIsTotal, TotalOfNothing, FS_EmptySet DEF HasRanges
  <2>3. Sound = {}
    BY <1>1 DEF Fresh, Sound
  <2>4. ASSUME NEW e, NEW n
        PROVE  TallyOf(sealed, e, n) + TallyOf(open, e, n) =
               Cardinality({i \in Sound : pieces[i].element = e /\ pieces[i].shape.triangles = n})
    <3>1. TallyOf(sealed, e, n) = 0 /\ TallyOf(open, e, n) = 0
      BY <1>1, <1>3, <2>2 DEF Fresh
    <3>2. {i \in Sound : pieces[i].element = e /\ pieces[i].shape.triangles = n} = {}
      BY <2>3
    <3> QED
      BY <3>1, <3>2, FS_EmptySet
  <2> QED
    BY <2>1, <2>4 DEF GeometryIsKept
<1> QED
  BY <1>2, <1>4, <1>5

\* What a step leaves alone.
LEMMA PartsStay ==
  ASSUME StreamInv, UNCHANGED <<chunks, splitsLeft, chunking, sealed, open, chunkOf>>
  PROVE  /\ RouterInv' /\ Stocked' /\ FirstHolds'
         /\ streams' \ {0} \subseteq streams => Homes'
         /\ UNCHANGED pieces => GeometryIsKept'
<1>1. RouterInv'
  BY DEF StreamInv, RouterInv, RouterTypeOK, Present, Divided, Holders
<1>2. Stocked'
  BY DEF StreamInv, Stocked
<1>3. FirstHolds'
  BY DEF StreamInv, FirstHolds
<1>4. ASSUME streams' \ {0} \subseteq streams PROVE Homes'
  BY <1>4 DEF StreamInv, Homes, Of, OpenOf
<1>5. ASSUME UNCHANGED pieces PROVE GeometryIsKept'
  BY <1>5 DEF StreamInv, GeometryIsKept, Primitives, Sound
<1> QED
  BY <1>1, <1>2, <1>3, <1>4, <1>5

-----------------------------------------------------------------------------
(* The pieces.                                                               *)

PieceType  == [element : Elements, shape : Shapes]
SoundOf(e, n) == {i \in Sound : pieces[i].element = e /\ pieces[i].shape.triangles = n}

LEMMA PiecesGrow ==
  ASSUME TypeOK, NEW d \in Elements, NEW g \in Shapes, Piece(d, g)
  PROVE  /\ pieces' \in Seq(PieceType)
         /\ \A i \in Sound' : \/ i \in Sound /\ pieces'[i] = pieces[i]
                              \/ g.sane /\ pieces'[i].element = d
         /\ \A e, n : Cardinality(SoundOf(e, n)') = Cardinality(SoundOf(e, n))
                        + (IF g.sane /\ e = d /\ n = g.triangles THEN 1 ELSE 0)
<1> DEFINE x == [element |-> d, shape |-> g]
           N == Len(pieces)
<1>1. pieces \in Seq(PieceType) /\ x \in PieceType
  BY DEF TypeOK, PieceType
<1>2. pieces' = Append(pieces, x) /\ x.element = d /\ x.shape = g
  BY DEF Piece
<1> HIDE DEF x
<1>3. N \in Nat /\ DOMAIN pieces = 1..N
  BY <1>1
<1>4. /\ pieces' \in Seq(PieceType) /\ DOMAIN pieces' = 1..(N + 1)
      /\ pieces'[N + 1] = x
      /\ \A i \in 1..N : pieces'[i] = pieces[i]
  BY <1>1, <1>2
<1> HIDE DEF N
<1>5. 1..(N + 1) = 1..N \cup {N + 1} /\ N + 1 \notin 1..N
  BY <1>3
<1>6. Sound = {i \in 1..N : pieces[i].shape.sane} /\ g.sane \in BOOLEAN
  BY <1>3, ShapeTypes DEF Sound
<1>7. Sound' = IF g.sane THEN Sound \cup {N + 1} ELSE Sound
  <2>1. Sound' = {i \in 1..(N + 1) : pieces'[i].shape.sane}
    BY <1>4 DEF Sound
  <2> QED
    BY <1>2, <1>4, <1>5, <1>6, <2>1
<1>8. ASSUME NEW e, NEW n
      PROVE  Cardinality(SoundOf(e, n)') = Cardinality(SoundOf(e, n))
                + (IF g.sane /\ e = d /\ n = g.triangles THEN 1 ELSE 0)
  <2> DEFINE b == g.sane /\ e = d /\ n = g.triangles
  <2>1. SoundOf(e, n) \in SUBSET (1..N)
    BY <1>6 DEF SoundOf
  <2>2. SoundOf(e, n)' = IF b THEN SoundOf(e, n) \cup {N + 1} ELSE SoundOf(e, n)
    <3>1. SoundOf(e, n)' = {i \in Sound' : pieces'[i].element = e /\ pieces'[i].shape.triangles = n}
      BY DEF SoundOf
    <3>2. \A i \in Sound : pieces'[i] = pieces[i]
      BY <1>4, <1>6
    <3> QED
      BY <1>2, <1>4, <1>5, <1>6, <1>7, <3>1, <3>2 DEF SoundOf
  <2>3. PICK T : T = SoundOf(e, n)'
    OBVIOUS
  <2> HIDE DEF b
  <2>4. b \in BOOLEAN
    BY <1>6 DEF b
  <2>5. Cardinality(T) = Cardinality(SoundOf(e, n)) + (IF b THEN 1 ELSE 0)
    BY <1>3, <2>1, <2>2, <2>3, <2>4, OneMore, ZenonT(40)
  <2> QED
    BY <2>3, <2>5 DEF b
<1>9. \A i \in Sound' : \/ i \in Sound /\ pieces'[i] = pieces[i]
                        \/ g.sane /\ pieces'[i].element = d
  BY <1>2, <1>4, <1>6, <1>7
<1> QED
  BY <1>4, <1>8, <1>9


-----------------------------------------------------------------------------
(* A piece is placed.                                                        *)

ChunkFor(e, g)  == IF chunking THEN Locate(storeyOf[e], Middle(g.lo, g.hi)) - 1 ELSE 0
KeyFor(e, c, g) == <<ChunkFor(e, g), storeyOf[e], c>>

LEMMA PlacedMoves ==
  ASSUME StreamInv, NEW e \in Elements, NEW c \in Colors, NEW g \in Shapes, Place(e, c, g)
  PROVE  LET key  == KeyFor(e, c, g)
             old  == PartAt(key)
             part == Filled(old, e, g)
         IN  /\ ChunkFor(e, g) \in Nat /\ storeyOf[e] \in Storeys
             /\ key \in Keys /\ key[1] = ChunkFor(e, g) /\ key[2] = storeyOf[e]
             /\ old.length \in Nat
             /\ part \in PartType /\ part.vertices # 0 /\ Gapless(part)
             /\ part.length = old.length + g.triangles
             /\ \A d, n : Tally(part, d, n) = Tally(old, d, n)
                            + (IF d = e /\ n = g.triangles THEN 1 ELSE 0)
             /\ \A d : HasA(old, d) => HasA(part, d)
             /\ HasA(part, e)
             /\ Moves(key, part)
<1> DEFINE key  == KeyFor(e, c, g)
           old  == PartAt(key)
           part == Filled(old, e, g)
<1>1. TypeOK /\ RouterInv /\ GeometryIsKept
  BY DEF StreamInv
<1>2. storeyOf[e] \in Storeys
  BY <1>1 DEF TypeOK
<1>3. ChunkFor(e, g) \in Nat
  <2>1. CASE chunking
    <3>1. Locate(storeyOf[e], Middle(g.lo, g.hi)) \in 1..Len(chunks) + 1
      BY <1>1, <1>2, ShapeTypes, MiddleOnGrid, Located
    <3>2. Len(chunks) \in Nat
      BY <1>1 DEF RouterInv, RouterTypeOK
    <3> QED
      BY <2>1, <3>1, <3>2 DEF ChunkFor
  <2>2. CASE ~ chunking
    BY <2>2 DEF ChunkFor
  <2> QED
    BY <2>1, <2>2
<1>4. key \in Keys /\ key[1] = ChunkFor(e, g) /\ key[2] = storeyOf[e]
  BY <1>2, <1>3 DEF KeyFor, Keys
<1>5. Fill(key, e, g)
  BY DEF Place, KeyFor, ChunkFor
<1> HIDE DEF key
<1>6. old \in PartType /\ old.length \in Nat /\ Gapless(old)
  <2>1. CASE key \in DOMAIN open
    BY <1>1, <2>1, PartTypes DEF PartAt, TypeOK, GeometryIsKept, Primitives
  <2>2. CASE key \notin DOMAIN open
    <3>1. NoPart.ranges = <<>> /\ NoPart.length = 0 /\ Len(<<>>) = 0
      BY DEF NoPart
    <3>2. Gapless(NoPart)
      BY <3>1 DEF Gapless, End
    <3> QED
      BY <2>2, <3>2, PartTypes DEF PartAt
  <2> QED
    BY <2>1, <2>2
<1>7. Moves(key, part)
  <2>1. part = Filled(IF key \in DOMAIN open THEN open[key] ELSE NoPart, e, g)
    BY DEF PartAt
  <2> QED
    BY <1>5, <2>1 DEF Fill, Moves
<1> HIDE DEF old
<1>8. /\ part \in PartType /\ part.vertices # 0 /\ Gapless(part)
      /\ part.length = old.length + g.triangles
      /\ \A d, n : Tally(part, d, n) = Tally(old, d, n)
                     + (IF d = e /\ n = g.triangles THEN 1 ELSE 0)
      /\ \A i \in DOMAIN old.ranges : i \in DOMAIN part.ranges /\ part.ranges[i] = old.ranges[i]
      /\ \E i \in DOMAIN part.ranges : part.ranges[i].element = e
  BY <1>6, FilledFacts
<1> HIDE DEF part
<1>9. (\A d : HasA(old, d) => HasA(part, d)) /\ HasA(part, e)
  BY <1>8 DEF HasA
<1> QED
  BY <1>2, <1>3, <1>4, <1>6, <1>7, <1>8, <1>9 DEF key, old, part

\* Every sound piece is one more range of its element.
LEMMA PlaceKeeps ==
  ASSUME StreamInv, NEW d \in Elements, NEW c \in Colors, NEW g \in Shapes, Place(d, c, g)
  PROVE  GeometryIsKept'
<1> DEFINE key  == KeyFor(d, c, g)
           part == Filled(PartAt(key), d, g)
<1>1. TypeOK /\ Stocked /\ GeometryIsKept
  BY DEF StreamInv
<1>2. /\ key \in Keys /\ part \in PartType /\ part.vertices # 0 /\ Gapless(part)
      /\ \A e, n : Tally(part, e, n) = Tally(PartAt(key), e, n)
                     + (IF e = d /\ n = g.triangles THEN 1 ELSE 0)
      /\ Moves(key, part)
  BY PlacedMoves
<1>3. Piece(d, g) /\ g.sane
  BY DEF Place
<1> HIDE DEF key, part
<1>4. \A p \in Primitives' : Gapless(p)
  BY <1>1, <1>2, MoveGapless DEF GeometryIsKept
<1>5. ASSUME NEW e \in Elements, NEW n \in {h.triangles : h \in Shapes}
      PROVE  TallyOf(sealed', e, n) + TallyOf(open', e, n) = Cardinality(SoundOf(e, n)')
  <2>1. TallyOf(sealed', e, n) + TallyOf(open', e, n) =
           TallyOf(sealed, e, n) + TallyOf(open, e, n)
             + Tally(part, e, n) - Tally(PartAt(key), e, n)
    BY <1>1, <1>2, MoveTallies
  <2>2. Cardinality(SoundOf(e, n)') = Cardinality(SoundOf(e, n))
           + (IF e = d /\ n = g.triangles THEN 1 ELSE 0)
    BY <1>1, <1>3, PiecesGrow
  <2>3. TallyOf(sealed, e, n) + TallyOf(open, e, n) = Cardinality(SoundOf(e, n))
    BY <1>1 DEF GeometryIsKept, SoundOf
  <2>4. Tally(PartAt(key), e, n) \in Nat
    <3>1. PartAt(key).ranges \in Seq(RangeType)
      BY <1>1, PartTypes DEF PartAt, TypeOK
    <3> QED
      BY <3>1, TallyIsNat
  <2>5. TallyOf(sealed, e, n) + TallyOf(open, e, n) \in Int
    <3>1. IsFiniteSet(SoundOf(e, n))
      <4>1. Len(pieces) \in Nat /\ DOMAIN pieces = 1..Len(pieces)
        BY <1>1 DEF TypeOK
      <4>2. IsFiniteSet(1..Len(pieces))
        BY <4>1, UpToIsFinite
      <4>3. SoundOf(e, n) \subseteq 1..Len(pieces)
        BY <4>1 DEF SoundOf, Sound
      <4> QED
        BY <4>2, <4>3, FS_Subset
    <3> QED
      BY <2>3, <3>1, FS_CardinalityType
  <2> QED
    BY <1>2, <2>1, <2>2, <2>3, <2>4, <2>5
<1> QED
  BY <1>4, <1>5 DEF GeometryIsKept, SoundOf

\* The chunk of the piece has its triangles more, and no other chunk has.
LEMMA PlaceFindsHome ==
  ASSUME StreamInv, NEW d \in Elements, NEW c \in Colors, NEW g \in Shapes, Place(d, c, g)
  PROVE  RouterInv' /\ Homes'
<1> DEFINE key  == KeyFor(d, c, g)
           part == Filled(PartAt(key), d, g)
           s    == storeyOf[d]
           home == Locate(s, Middle(g.lo, g.hi))
<1>1. TypeOK /\ Stocked /\ RouterInv /\ Homes
  BY DEF StreamInv
<1>2. /\ key \in Keys /\ key[1] = ChunkFor(d, g) /\ key[2] = s /\ s \in Storeys
      /\ ChunkFor(d, g) \in Nat
      /\ part \in PartType /\ part.vertices # 0
      /\ PartAt(key).length \in Nat
      /\ part.length = PartAt(key).length + g.triangles
      /\ Moves(key, part)
  BY PlacedMoves
<1>3. /\ IF chunking THEN Route(s, g.lo, g.hi, g.triangles) ELSE UNCHANGED router
      /\ streams' = streams \cup {ChunkFor(d, g)}
      /\ UNCHANGED chunking
  BY DEF Place, ChunkFor
<1> HIDE DEF key, part
<1>4. CASE ~ chunking
  <2>1. RouterInv'
    BY <1>1, <1>3, <1>4, RouterSteps
  <2>2. Homes'
    BY <1>3, <1>4 DEF Homes
  <2> QED
    BY <2>1, <2>2
<1>5. CASE chunking
  <2>1. g.lo \in Point /\ g.hi \in Point /\ g.triangles \in Nat
    BY ShapeTypes
  <2>2. RouterInv'
    BY <1>1, <1>2, <1>3, <1>5, <2>1, RouterSteps DEF RouterNext
  <2>3. /\ home \in Nat \ {0}
        /\ home \in DOMAIN chunks => chunks[home].storey = s
        /\ DOMAIN chunks \cup {home} \subseteq DOMAIN chunks'
        /\ chunks'[home].storey = s
        /\ chunks'[home].triangles =
             (IF home \in DOMAIN chunks THEN chunks[home].triangles ELSE 0) + g.triangles
        /\ \A j \in DOMAIN chunks \ {home} : chunks'[j] = chunks[j]
        /\ \A j \in DOMAIN chunks' \ (DOMAIN chunks \cup {home}) : chunks'[j].triangles = 0
    BY <1>1, <1>2, <1>3, <1>5, <2>1, RouteFacts
  <2>4. key[1] = home - 1
    BY <1>2, <1>5 DEF ChunkFor
  <2> HIDE DEF home, s
  <2>5. key[1] + 1 = home
    BY <2>3, <2>4
  <2>6. /\ \A j \in DOMAIN sealed :
              /\ sealed[j].chunk + 1 \in DOMAIN chunks
              /\ chunks[sealed[j].chunk + 1].storey = sealed[j].storey
        /\ \A q \in DOMAIN open : q[1] + 1 \in DOMAIN chunks /\ chunks[q[1] + 1].storey = q[2]
        /\ \A k \in DOMAIN chunks :
              chunks[k].triangles = Lengths(sealed, Of(k)) + Lengths(open, OpenOf(k))
        /\ \A k \in streams \ {0} : k + 1 \in DOMAIN chunks
    BY <1>1, <1>5 DEF Homes
  <2>7. \A j \in DOMAIN chunks : j \in DOMAIN chunks' /\ chunks'[j].storey = chunks[j].storey
    BY <2>3
  <2>8. /\ \A j \in DOMAIN sealed' :
               \/ j \in DOMAIN sealed /\ sealed'[j] = sealed[j]
               \/ sealed'[j] = AsPrimitive(key, part)
        /\ \A q \in DOMAIN open' :
               \/ q \in DOMAIN open /\ open'[q] = open[q]
               \/ q = key /\ open'[q] \in {part, NoPart}
    BY <1>1, <1>2, MoveSources
  <2>9. AsPrimitive(key, part).chunk = key[1] /\ AsPrimitive(key, part).storey = s
    BY <1>2 DEF AsPrimitive
  <2>10. \A j \in DOMAIN sealed' :
            /\ sealed'[j].chunk + 1 \in DOMAIN chunks'
            /\ chunks'[sealed'[j].chunk + 1].storey = sealed'[j].storey
    BY <2>3, <2>5, <2>6, <2>7, <2>8, <2>9
  <2>11. \A q \in DOMAIN open' : q[1] + 1 \in DOMAIN chunks' /\ chunks'[q[1] + 1].storey = q[2]
    BY <1>2, <2>3, <2>5, <2>6, <2>7, <2>8
  <2>12. \A k \in streams' \ {0} : k + 1 \in DOMAIN chunks'
    BY <1>2, <1>3, <2>3, <2>5, <2>6
  <2>13. ASSUME NEW k \in DOMAIN chunks'
         PROVE  chunks'[k].triangles = Lengths(sealed', Of(k)') + Lengths(open', OpenOf(k)')
    <3>1. chunks \in Seq(Chunk) /\ chunks' \in Seq(Chunk)
      BY <1>1, <2>2 DEF RouterInv, RouterTypeOK
    <3>2. k \in Nat
      BY <3>1
    <3>3. /\ Lengths(sealed', Of(k)') + Lengths(open', OpenOf(k)') =
                Lengths(sealed, Of(k)) + Lengths(open, OpenOf(k))
                  + (IF key[1] = k - 1 THEN part.length - PartAt(key).length ELSE 0)
          /\ Lengths(sealed, Of(k)) + Lengths(open, OpenOf(k)) \in Int
      BY <1>1, <1>2, <3>2, MoveLengths
    <3>4. key[1] = k - 1 <=> k = home
      BY <2>3, <2>4, <3>2
    <3>5. part.length - PartAt(key).length = g.triangles
      BY <1>2, <2>1
    <3>6. CASE k \in DOMAIN chunks
      <4>1. chunks[k].triangles = Lengths(sealed, Of(k)) + Lengths(open, OpenOf(k))
        BY <2>6, <3>6
      <4> QED
        BY <2>3, <3>3, <3>4, <3>5, <3>6, <4>1
    <3>7. CASE k \notin DOMAIN chunks
      <4>1. Of(k) = {} /\ OpenOf(k) = {}
        <5>1. \A j \in DOMAIN sealed : sealed[j].chunk \in Nat
          <6>1. \A j \in DOMAIN sealed : sealed[j] \in PrimitiveType
            BY <1>1 DEF TypeOK
          <6> QED
            BY <6>1, PartTypes
        <5>2. \A q \in DOMAIN open : q[1] \in Nat
          BY <1>1 DEF TypeOK
        <5>3. \A x \in Nat : x = k - 1 => x + 1 = k
          BY <3>2
        <5> QED
          BY <2>6, <3>7, <5>1, <5>2, <5>3 DEF Of, OpenOf
      <4>2. Lengths(sealed, Of(k)) = 0 /\ Lengths(open, OpenOf(k)) = 0
        BY <4>1, NoLength
      <4> QED
        BY <2>1, <2>3, <3>3, <3>4, <3>5, <3>7, <4>2
    <3> QED
      BY <3>6, <3>7
  <2>14. Homes'
    BY <2>10, <2>11, <2>12, <2>13 DEF Homes
  <2> QED
    BY <2>2, <2>14
<1> QED
  BY <1>4, <1>5


LEMMA PlacePreserves ==
  ASSUME StreamInv, NEW d \in Elements, NEW c \in Colors, NEW g \in Shapes, Place(d, c, g)
  PROVE  StreamInv'
<1> DEFINE key  == KeyFor(d, c, g)
           part == Filled(PartAt(key), d, g)
<1>1. TypeOK /\ Stocked /\ Told /\ FirstHolds
  BY DEF StreamInv
<1>2. /\ key \in Keys /\ key[1] = ChunkFor(d, g) /\ ChunkFor(d, g) \in Nat
      /\ part \in PartType /\ part.vertices # 0
      /\ \A e : HasA(PartAt(key), e) => HasA(part, e)
      /\ HasA(part, d)
      /\ Moves(key, part)
  BY PlacedMoves
<1> HIDE DEF key, part
<1>3. /\ Piece(d, g) /\ g.sane /\ phase = "stream"
      /\ streams' = streams \cup {ChunkFor(d, g)}
      /\ chunkOf' = (IF chunking /\ d \notin DOMAIN chunkOf
                     THEN Set(chunkOf, d, ChunkFor(d, g)) ELSE chunkOf)
      /\ boxOf' = Set(boxOf, d, Grown(d, g))
      /\ elements' = (IF engine = "native" THEN elements \cup {d} ELSE elements)
      /\ UNCHANGED <<engine, chunking, storeyOf, phase, disk, runs>>
  BY DEF Place, ChunkFor, Piece
<1>4. RouterInv' /\ Homes' /\ GeometryIsKept'
  BY PlaceFindsHome, PlaceKeeps
<1>5. /\ sealed' \in Seq(PrimitiveType)
      /\ DOMAIN open' \subseteq Keys
      /\ \A k \in DOMAIN open' : open'[k] \in PartType
      /\ Stocked'
  BY <1>1, <1>2, MoveTypes
<1>6. pieces' \in Seq(PieceType)
  BY <1>1, <1>3, PiecesGrow
<1>7. /\ DOMAIN boxOf' = DOMAIN boxOf \cup {d}
      /\ DOMAIN chunkOf' \subseteq DOMAIN chunkOf \cup {d}
      /\ \A e \in DOMAIN chunkOf' : \/ e \in DOMAIN chunkOf /\ chunkOf'[e] = chunkOf[e]
                                    \/ e = d /\ chunkOf'[e] = ChunkFor(d, g)
  BY <1>3 DEF Set
<1>8. TypeOK'
  <2>1. RouterTypeOK'
    BY <1>4 DEF RouterInv
  <2>2. streams' \subseteq Nat /\ elements' \subseteq Elements /\ DOMAIN boxOf' \subseteq Elements
    BY <1>1, <1>2, <1>3, <1>7 DEF TypeOK
  <2>3. DOMAIN chunkOf' \subseteq Elements /\ \A e \in DOMAIN chunkOf' : chunkOf'[e] \in Nat
    BY <1>1, <1>2, <1>7 DEF TypeOK
  <2> QED
    BY <1>1, <1>3, <1>5, <1>6, <2>1, <2>2, <2>3 DEF TypeOK, PieceType, Keys
<1>9. Told'
  <2>1. \A i \in Sound' : pieces'[i].element \in DOMAIN boxOf'
    BY <1>1, <1>3, <1>7, PiecesGrow DEF Told
  <2> QED
    BY <1>3, <2>1 DEF Told
<1>10. FirstHolds'
  <2>1. /\ \A e : HasA(part, e) => Holding(sealed', open', key[1], e)
        /\ \A k, e : Holding(sealed, open, k, e) => Holding(sealed', open', k, e)
    BY <1>1, <1>2, MoveHolds
  <2>2. \A e \in DOMAIN chunkOf' : Holding(sealed', open', chunkOf'[e], e)
    BY <1>1, <1>2, <1>7, <2>1 DEF FirstHolds
  <2> QED
    BY <2>2 DEF FirstHolds
<1>11. Written'
  BY <1>3 DEF StreamInv, Written
<1> QED
  BY <1>4, <1>5, <1>8, <1>9, <1>10, <1>11 DEF StreamInv

-----------------------------------------------------------------------------
(* The other steps.                                                          *)

LEMMA SealRestPreserves ==
  ASSUME StreamInv, NEW key \in DOMAIN open, SealRest(key)
  PROVE  StreamInv'
<1> DEFINE part == open[key]
<1>1. TypeOK /\ Stocked /\ RouterInv /\ Homes /\ GeometryIsKept
  BY DEF StreamInv
<1>2. /\ phase = "seal"
      /\ sealed' = sealed \o Primitive(key, part)
      /\ open' = [k \in DOMAIN open \ {key} |-> open[k]]
      /\ UNCHANGED <<router, engine, chunking, storeyOf, phase, streams, elements, chunkOf,
                     boxOf, pieces, disk, runs>>
  BY DEF SealRest
<1>3. /\ key \in Keys /\ part \in PartType /\ PartAt(key) = part /\ Gapless(part)
      /\ part.vertices = 0 => part.ranges = <<>>
      /\ Moves(key, part)
  BY <1>1, <1>2 DEF TypeOK, Keys, PartAt, GeometryIsKept, Primitives, Stocked, Moves
<1> HIDE DEF part
<1>4. part.vertices = 0 => part.length = 0
  <2>1. Len(<<>>) = 0
    OBVIOUS
  <2> QED
    BY <1>3, <2>1 DEF Gapless, End
<1>5. /\ sealed' \in Seq(PrimitiveType)
      /\ DOMAIN open' \subseteq Keys
      /\ \A k \in DOMAIN open' : open'[k] \in PartType
      /\ Stocked'
  BY <1>1, <1>3, MoveTypes
<1>6. RouterInv'
  BY <1>1, <1>2, RouterSteps
<1>7. TypeOK'
  BY <1>1, <1>2, <1>5, <1>6 DEF TypeOK, RouterInv, Keys
<1>8. GeometryIsKept'
  <2>1. \A p \in Primitives' : Gapless(p)
    BY <1>1, <1>3, MoveGapless DEF GeometryIsKept
  <2>2. ASSUME NEW e \in Elements, NEW n \in {h.triangles : h \in Shapes}
        PROVE  TallyOf(sealed', e, n) + TallyOf(open', e, n) = Cardinality(SoundOf(e, n)')
    <3>1. TallyOf(sealed', e, n) + TallyOf(open', e, n) =
             TallyOf(sealed, e, n) + TallyOf(open, e, n)
               + Tally(part, e, n) - Tally(PartAt(key), e, n)
      BY <1>1, <1>3, MoveTallies
    <3>2. SoundOf(e, n)' = SoundOf(e, n)
      BY <1>2 DEF SoundOf, Sound
    <3>3. TallyOf(sealed, e, n) + TallyOf(open, e, n) = Cardinality(SoundOf(e, n))
      BY <1>1 DEF GeometryIsKept, SoundOf
    <3>4. Tally(part, e, n) \in Nat
      BY <1>3, PartTypes, TallyIsNat
    <3>5. IsFiniteSet(SoundOf(e, n))
      <4>1. Len(pieces) \in Nat /\ DOMAIN pieces = 1..Len(pieces)
        BY <1>1 DEF TypeOK
      <4>2. IsFiniteSet(1..Len(pieces))
        BY <4>1, UpToIsFinite
      <4>3. SoundOf(e, n) \subseteq 1..Len(pieces)
        BY <4>1 DEF SoundOf, Sound
      <4> QED
        BY <4>2, <4>3, FS_Subset
    <3>6. Cardinality(SoundOf(e, n)) \in Nat
      BY <3>5, FS_CardinalityType
    <3> QED
      BY <1>3, <3>1, <3>2, <3>3, <3>4, <3>6
  <2> QED
    BY <2>1, <2>2 DEF GeometryIsKept, SoundOf
<1>9. Homes'
  <2>1. CASE ~ chunking
    BY <1>2, <2>1 DEF Homes
  <2>2. CASE chunking
    <3>1. /\ \A j \in DOMAIN sealed' :
                \/ j \in DOMAIN sealed /\ sealed'[j] = sealed[j]
                \/ sealed'[j] = AsPrimitive(key, part)
          /\ \A q \in DOMAIN open' :
                \/ q \in DOMAIN open /\ open'[q] = open[q]
                \/ q = key /\ open'[q] \in {part, NoPart}
      BY <1>1, <1>3, MoveSources
    <3>2. AsPrimitive(key, part).chunk = key[1] /\ AsPrimitive(key, part).storey = key[2]
      BY DEF AsPrimitive
    <3>3. chunks' = chunks /\ streams' = streams
      BY <1>2 DEF router
    <3>4. ASSUME NEW k \in DOMAIN chunks
          PROVE  chunks[k].triangles = Lengths(sealed', Of(k)') + Lengths(open', OpenOf(k)')
      <4>1. k \in Nat
        BY <1>1 DEF RouterInv, RouterTypeOK
      <4>2. PartAt(key).length \in Nat
        BY <1>3, PartTypes
      <4>3. /\ Lengths(sealed', Of(k)') + Lengths(open', OpenOf(k)') =
                  Lengths(sealed, Of(k)) + Lengths(open, OpenOf(k))
                    + (IF key[1] = k - 1 THEN part.length - PartAt(key).length ELSE 0)
            /\ Lengths(sealed, Of(k)) + Lengths(open, OpenOf(k)) \in Int
        BY <1>1, <1>3, <1>4, <4>1, MoveLengths
      <4> QED
        BY <1>1, <1>3, <2>2, <4>2, <4>3 DEF Homes
    <3>5. /\ \A j \in DOMAIN sealed :
                /\ sealed[j].chunk + 1 \in DOMAIN chunks
                /\ chunks[sealed[j].chunk + 1].storey = sealed[j].storey
          /\ \A q \in DOMAIN open : q[1] + 1 \in DOMAIN chunks /\ chunks[q[1] + 1].storey = q[2]
          /\ \A k \in streams \ {0} : k + 1 \in DOMAIN chunks
      BY <1>1, <2>2 DEF Homes
    <3>6. \A j \in DOMAIN sealed' :
             /\ sealed'[j].chunk + 1 \in DOMAIN chunks
             /\ chunks[sealed'[j].chunk + 1].storey = sealed'[j].storey
      BY <3>1, <3>2, <3>5
    <3>7. \A q \in DOMAIN open' : q[1] + 1 \in DOMAIN chunks /\ chunks[q[1] + 1].storey = q[2]
      BY <3>1, <3>5
    <3> QED
      BY <3>3, <3>4, <3>5, <3>6, <3>7 DEF Homes
  <2> QED
    BY <2>1, <2>2
<1>10. Told'
  BY <1>2 DEF StreamInv, Told, Sound
<1>11. FirstHolds'
  <2>1. \A k, e : Holding(sealed, open, k, e) => Holding(sealed', open', k, e)
    BY <1>1, <1>3, MoveHolds
  <2>2. \A e \in DOMAIN chunkOf : Holding(sealed', open', chunkOf[e], e)
    BY <2>1 DEF StreamInv, FirstHolds
  <2> QED
    BY <1>2, <2>2 DEF FirstHolds
<1>12. Written'
  BY <1>2 DEF StreamInv, Written
<1> QED
  BY <1>5, <1>6, <1>7, <1>8, <1>9, <1>10, <1>11, <1>12 DEF StreamInv

LEMMA DropPreserves ==
  ASSUME StreamInv, NEW d \in Elements, NEW g \in Shapes, Drop(d, g)
  PROVE  StreamInv'
<1>1. TypeOK /\ GeometryIsKept /\ RouterInv
  BY DEF StreamInv
<1>2. /\ Piece(d, g) /\ ~ g.sane /\ phase = "stream"
      /\ elements' = elements \cup {d}
      /\ streams' \in {streams, streams \cup {0}}
      /\ UNCHANGED <<router, engine, chunking, storeyOf, phase, open, sealed, chunkOf, boxOf,
                     disk, runs>>
  BY DEF Drop, Piece
<1>3. RouterInv' /\ Stocked' /\ FirstHolds' /\ Homes'
  BY <1>2, PartsStay DEF router
<1>4. /\ pieces' \in Seq(PieceType)
      /\ \A i \in Sound' : i \in Sound /\ pieces'[i] = pieces[i]
      /\ \A e, n : Cardinality(SoundOf(e, n)') = Cardinality(SoundOf(e, n)) + 0
  BY <1>1, <1>2, PiecesGrow
<1>5. TypeOK'
  BY <1>1, <1>2, <1>3, <1>4 DEF TypeOK, PieceType, RouterInv
<1>6. GeometryIsKept'
  <2>1. Primitives' = Primitives
    BY <1>2 DEF Primitives
  <2>2. ASSUME NEW e \in Elements, NEW n \in {h.triangles : h \in Shapes}
        PROVE  TallyOf(sealed', e, n) + TallyOf(open', e, n) = Cardinality(SoundOf(e, n)')
    <3>1. TallyOf(sealed, e, n) + TallyOf(open, e, n) = Cardinality(SoundOf(e, n))
      BY <1>1 DEF GeometryIsKept, SoundOf
    <3>2. IsFiniteSet(SoundOf(e, n))
      <4>1. Len(pieces) \in Nat /\ DOMAIN pieces = 1..Len(pieces)
        BY <1>1 DEF TypeOK
      <4>2. IsFiniteSet(1..Len(pieces))
        BY <4>1, UpToIsFinite
      <4>3. SoundOf(e, n) \subseteq 1..Len(pieces)
        BY <4>1 DEF SoundOf, Sound
      <4> QED
        BY <4>2, <4>3, FS_Subset
    <3>3. Cardinality(SoundOf(e, n)) \in Nat
      BY <3>2, FS_CardinalityType
    <3>4. Cardinality(SoundOf(e, n)') = Cardinality(SoundOf(e, n))
      BY <1>4, <3>3
    <3> QED
      BY <1>2, <3>1, <3>4
  <2> QED
    BY <1>1, <2>1, <2>2 DEF GeometryIsKept, SoundOf
<1>7. Told'
  BY <1>2, <1>4 DEF StreamInv, Told
<1>8. Written'
  BY <1>2 DEF StreamInv, Written
<1> QED
  BY <1>3, <1>5, <1>6, <1>7, <1>8 DEF StreamInv


LEMMA StartPreserves == ASSUME StreamInv, Start PROVE StreamInv'
<1>1. Fresh'
  BY DEF Start, Fresh, RouterInit
<1>2. RouterInv' /\ Stocked' /\ GeometryIsKept' /\ Homes' /\ Told' /\ FirstHolds'
  BY <1>1, FreshInv, PTL
<1>3. runs' \in 1..MaxRuns /\ phase' = "stream"
  BY StreamAssumption DEF Start, StreamInv, TypeOK
<1>4. storeyOf' \in [Elements -> Storeys]
  <2>1. PICK rels \in Containments : storeyOf' = StoreyOf(rels)
    BY DEF Start
  <2>2. rels[1].structure \in Storeys /\ rels[2].structure \in Storeys /\ NoStorey \in Storeys
    BY <2>1, StreamAssumption DEF Containments
  <2> QED
    BY <2>1, <2>2 DEF StoreyOf
<1>5. TypeOK'
  <2>1. \A T : <<>> \in Seq(T)
    OBVIOUS
  <2>2. DOMAIN <<>> = {}
    OBVIOUS
  <2>3. RouterTypeOK'
    BY <1>2 DEF RouterInv
  <2>4. sealed' \in Seq(PrimitiveType) /\ pieces' \in Seq([element : Elements, shape : Shapes])
    BY <2>1 DEF Start
  <2>5. DOMAIN open' = {} /\ DOMAIN chunkOf' = {} /\ DOMAIN boxOf' = {}
    BY <2>2 DEF Start
  <2>6. chunking' \in BOOLEAN /\ streams' = {} /\ elements' \subseteq Elements
        /\ UNCHANGED <<engine, disk>>
    BY DEF Start
  <2>7. runs' \in 0..MaxRuns
    BY <1>3
  <2> QED
    BY <1>3, <1>4, <2>3, <2>4, <2>5, <2>6, <2>7 DEF StreamInv, TypeOK
<1>6. Written'
  BY <1>3 DEF Written
<1> QED
  BY <1>2, <1>5, <1>6 DEF StreamInv

\* A conversion ends: all that is left to write is the directory.
LEMMA EndPreserves ==
  ASSUME StreamInv,
         Reject \/ EndStream \/ Fail \/ EmptyStream \/ PublishChunks \/ PublishSingle
  PROVE  StreamInv'
<1>1. TypeOK /\ RouterInv /\ Told /\ Written
  BY DEF StreamInv
<1>2. /\ UNCHANGED <<chunks, splitsLeft, engine, chunking, storeyOf, open, sealed, chunkOf, boxOf,
                     pieces>>
      /\ streams' \in {streams, {0}}
  BY DEF Reject, EndStream, Fail, EmptyStream, PublishChunks, PublishSingle, router, stream
<1>3. RouterInv' /\ Stocked' /\ FirstHolds' /\ Homes' /\ GeometryIsKept'
  BY <1>2, PartsStay
<1>4. Sound' = Sound
  BY <1>2 DEF Sound
<1>5. DOMAIN <<>> = {}
  OBVIOUS
<1> DEFINE Rest == RouterTypeOK' /\ UNCHANGED <<engine, chunking, storeyOf, open, sealed, chunkOf,
                                                boxOf, pieces>>
<1>6. Rest
  BY <1>2, <1>3 DEF RouterInv
<1>7. CASE Reject
  <2>1. runs' \in 0..MaxRuns /\ phase' = "failed" /\ UNCHANGED <<streams, elements, disk>>
    BY <1>1, <1>7, StreamAssumption DEF Reject, stream, TypeOK
  <2>2. TypeOK'
    BY <1>1, <1>6, <2>1 DEF TypeOK
  <2>3. Told' /\ Written'
    BY <1>1, <1>2, <1>4, <2>1 DEF Told, Written
  <2> QED
    BY <1>3, <2>2, <2>3 DEF StreamInv
<1>8. CASE EndStream
  <2>1. /\ phase = "stream" /\ phase' = "seal" /\ elements' = elements \cup DOMAIN boxOf
        /\ UNCHANGED <<streams, disk, runs>>
    BY <1>8 DEF EndStream
  <2>2. TypeOK'
    BY <1>1, <1>6, <2>1 DEF TypeOK
  <2>3. Told' /\ Written'
    BY <1>1, <1>2, <1>4, <2>1 DEF Told, Written
  <2> QED
    BY <1>3, <2>2, <2>3 DEF StreamInv
<1>9. CASE Fail
  <2>1. phase' = "failed" /\ UNCHANGED <<streams, elements, disk, runs>>
    BY <1>9 DEF Fail, stream
  <2>2. TypeOK'
    BY <1>1, <1>6, <2>1 DEF TypeOK
  <2>3. Told' /\ Written'
    BY <1>1, <1>2, <1>4, <2>1 DEF Told, Written
  <2> QED
    BY <1>3, <2>2, <2>3 DEF StreamInv
<1>10. CASE EmptyStream
  <2>1. phase = "seal" /\ streams' = {0} /\ UNCHANGED <<phase, elements, disk, runs>>
    BY <1>10 DEF EmptyStream, Sealed
  <2>2. TypeOK'
    BY <1>1, <1>6, <2>1 DEF TypeOK
  <2>3. Told' /\ Written'
    BY <1>1, <1>2, <1>4, <2>1 DEF Told, Written
  <2> QED
    BY <1>3, <2>2, <2>3 DEF StreamInv
<1>11. CASE PublishChunks
  <2>1. /\ phase = "seal" /\ open = <<>> /\ Chunked
        /\ phase' = "done" /\ UNCHANGED <<streams, elements, runs>>
        /\ disk' = [single |-> 0, chunks |-> {c \in disk.chunks : c[1] \notin streams}
                                                \cup (streams \X {runs})]
    BY <1>11 DEF PublishChunks, Sealed, stream
  <2>2. runs \in 1..MaxRuns /\ streams \subseteq Nat /\ disk.chunks \subseteq Nat \X (1..MaxRuns)
        /\ 0 \in 0..MaxRuns
    BY <1>1, <2>1, StreamAssumption DEF TypeOK, Written
  <2>3. disk' \in [single : 0..MaxRuns, chunks : SUBSET (Nat \X (1..MaxRuns))]
    BY <2>1, <2>2
  <2>4. TypeOK'
    BY <1>1, <1>6, <2>1, <2>3 DEF TypeOK
  <2>5. Told'
    BY <1>1, <1>2, <1>4, <2>1 DEF Told
  <2>6. Written'
    BY <1>2, <1>5, <2>1 DEF Written, Chunked
  <2> QED
    BY <1>3, <2>4, <2>5, <2>6 DEF StreamInv
<1>12. CASE PublishSingle
  <2>1. /\ phase = "seal" /\ open = <<>> /\ ~ Chunked
        /\ phase' = "done" /\ UNCHANGED <<streams, elements, runs>>
        /\ disk' = [single |-> runs, chunks |-> {}]
    BY <1>12 DEF PublishSingle, Sealed, stream
  <2>2. disk' \in [single : 0..MaxRuns, chunks : SUBSET (Nat \X (1..MaxRuns))]
    BY <1>1, <2>1 DEF TypeOK
  <2>3. TypeOK'
    BY <1>1, <1>6, <2>1, <2>2 DEF TypeOK
  <2>4. Told'
    BY <1>1, <1>2, <1>4, <2>1 DEF Told
  <2>5. Written'
    BY <1>2, <1>5, <2>1 DEF Written, Chunked
  <2> QED
    BY <1>3, <2>3, <2>4, <2>5 DEF StreamInv
<1> QED
  BY <1>7, <1>8, <1>9, <1>10, <1>11, <1>12

LEMMA StreamSteps == StreamInv /\ [Next]_vars => StreamInv'
<1> SUFFICES ASSUME StreamInv, [Next]_vars PROVE StreamInv'
  OBVIOUS
<1>1. CASE UNCHANGED vars
  <2>1. UNCHANGED <<chunks, splitsLeft, engine, chunking, storeyOf, phase, streams, open, sealed,
                    elements, chunkOf, boxOf, pieces, disk, runs>>
    BY <1>1 DEF vars, router, stream
  <2>2. RouterInv' /\ Stocked' /\ FirstHolds' /\ Homes' /\ GeometryIsKept'
    BY <2>1, PartsStay
  <2>3. TypeOK'
    BY <2>1, <2>2 DEF StreamInv, TypeOK, RouterInv
  <2>4. Told' /\ Written'
    BY <2>1 DEF StreamInv, Told, Sound, Written, Chunked
  <2> QED
    BY <2>2, <2>3, <2>4 DEF StreamInv
<1>2. CASE Start
  BY <1>2, StartPreserves
<1>3. CASE Reject \/ EndStream \/ Fail \/ EmptyStream \/ PublishChunks \/ PublishSingle
  BY <1>3, EndPreserves
<1>4. CASE \E e \in Elements, c \in Colors, g \in Shapes : Place(e, c, g)
  BY <1>4, PlacePreserves
<1>5. CASE \E e \in Elements, g \in Shapes : Drop(e, g)
  BY <1>5, DropPreserves
<1>6. CASE \E key \in DOMAIN open : SealRest(key)
  BY <1>6, SealRestPreserves
<1> QED
  BY <1>1, <1>2, <1>3, <1>4, <1>5, <1>6 DEF Next

LEMMA StreamStarts == Init => StreamInv
<1> SUFFICES ASSUME Init PROVE StreamInv
  OBVIOUS
<1>1. RouterInv /\ Stocked /\ GeometryIsKept /\ Homes /\ Told /\ FirstHolds
  BY FreshInv DEF Init, Fresh
<1>2. TypeOK
  <2>1. \A T : <<>> \in Seq(T)
    OBVIOUS
  <2>2. DOMAIN <<>> = {}
    OBVIOUS
  <2>3. sealed \in Seq(PrimitiveType) /\ pieces \in Seq([element : Elements, shape : Shapes])
    BY <2>1 DEF Init
  <2>4. DOMAIN open = {} /\ DOMAIN chunkOf = {} /\ DOMAIN boxOf = {}
    BY <2>2 DEF Init
  <2>5. 0 \in 0..MaxRuns
    BY StreamAssumption
  <2> QED
    BY <1>1, <2>3, <2>4, <2>5, StreamAssumption DEF Init, TypeOK, RouterInv
<1>3. Written
  BY DEF Init, Written
<1> QED
  BY <1>1, <1>2, <1>3 DEF StreamInv

\* What holds while geometry streams makes the finished artifact exact.
LEMMA DoneIsExact == StreamInv => ArtifactIsExact
<1> SUFFICES ASSUME StreamInv, phase = "done" PROVE ArtifactIsExact
  BY DEF ArtifactIsExact
<1>1. TypeOK /\ RouterInv /\ Homes /\ Told /\ FirstHolds /\ Written /\ DOMAIN open = {}
  BY DEF StreamInv, Written
<1>2. IF Chunked
      THEN disk.single = 0 /\ streams \X {runs} \subseteq disk.chunks
      ELSE disk = [single |-> runs, chunks |-> {}]
  BY <1>1 DEF Written
<1>3. \A j \in DOMAIN sealed : sealed[j] \in PrimitiveType
  BY <1>1 DEF TypeOK
<1>4. \A j \in DOMAIN sealed : sealed[j].chunk \in Nat /\ sealed[j].length \in Nat
  BY <1>3, PartTypes
<1>5. ASSUME chunking, NEW k \in DOMAIN chunks
      PROVE  /\ chunks[k].triangles = Drawn(k)
             /\ \A j \in Of(k) : sealed[j].storey = chunks[k].storey
  <2>1. k \in Nat
    BY <1>1 DEF RouterInv, RouterTypeOK
  <2>2. OpenOf(k) = {}
    BY <1>1 DEF OpenOf
  <2>3. IsFiniteSet(Of(k))
    <3>1. Len(sealed) \in Nat /\ DOMAIN sealed = 1..Len(sealed)
      BY <1>1 DEF TypeOK
    <3>2. IsFiniteSet(1..Len(sealed))
      BY <3>1, UpToIsFinite
    <3>3. Of(k) \subseteq 1..Len(sealed)
      BY <3>1 DEF Of
    <3> QED
      BY <3>2, <3>3, FS_Subset
  <2>4. \A j \in Of(k) : j \in DOMAIN sealed /\ sealed[j].length \in Nat /\ sealed[j].chunk + 1 = k
    BY <1>4, <2>1 DEF Of
  <2>5. Lengths(sealed, Of(k)) = Drawn(k)
    BY <2>3, <2>4, DrawnIsTotal
  <2>6. Drawn(k) \in Int
    <3>1. \A y : Lengths(sealed, Of(k)) \in Int
      BY <2>3, <2>4, LengthsChange
    <3> QED
      BY <2>5, <3>1
  <2>7. Lengths(open, OpenOf(k)) = 0
    BY <2>2, NoLength
  <2>8. chunks[k].triangles = Lengths(sealed, Of(k)) + Lengths(open, OpenOf(k))
    BY <1>1, <1>5 DEF Homes
  <2>9. chunks[k].triangles = Drawn(k)
    BY <2>5, <2>6, <2>7, <2>8
  <2> QED
    BY <1>1, <1>5, <2>4, <2>9 DEF Homes
<1>6. chunking => \A k \in streams \ {0} : k + 1 \in DOMAIN chunks
  BY <1>1 DEF Homes
<1>7. \A i \in Sound : pieces[i].element \in elements \cap DOMAIN boxOf
  BY <1>1 DEF Told
<1>8. ASSUME NEW e \in DOMAIN chunkOf
      PROVE  \E j \in Of(chunkOf[e] + 1) : \E r \in ToSet(sealed[j].ranges) : r.element = e
  <2>1. chunkOf[e] \in Nat
    BY <1>1 DEF TypeOK
  <2>2. PICK j \in DOMAIN sealed : sealed[j].chunk = chunkOf[e] /\ HasA(sealed[j], e)
    BY <1>1 DEF FirstHolds, Holding
  <2>3. j \in Of(chunkOf[e] + 1)
    BY <2>1, <2>2 DEF Of
  <2>4. \E r \in ToSet(sealed[j].ranges) : r.element = e
    BY <2>2 DEF HasA, ToSet
  <2> QED
    BY <2>3, <2>4
<1> QED
  BY <1>2, <1>5, <1>6, <1>7, <1>8 DEF ArtifactIsExact

\* The stream's part of a run is its specification.
LEMMA StreamSpec == ArtifactsSpec => Spec
<1>1. ArtifactsInit => Init
  BY DEF ArtifactsInit
<1>2. [ArtifactsNext]_<<maker, vars, glbVars, sliceVars, scanVars, presplitVars>> => [Next]_vars
  BY DEF ArtifactsNext
<1> QED
  BY <1>1, <1>2, PTL DEF ArtifactsSpec, Spec

LEMMA StreamHolds == ArtifactsSpec => []StreamInv
<1>1. Spec => []StreamInv
  BY StreamStarts, StreamSteps, PTL DEF Spec
<1> QED
  BY <1>1, StreamSpec, PTL

\* convert.ts: whatever arrives in whatever order, and however often a bucket
\* is sealed and starts afresh, a piece that was not dropped is one range of
\* its element and no other range is there.
THEOREM PiecesAreKept == ArtifactsSpec => []GeometryIsKept
<1>1. StreamInv => GeometryIsKept
  BY DEF StreamInv
<1> QED
  BY <1>1, StreamHolds, PTL

\* ... : the directory, the manifest and the index of a finished conversion
\* agree, after any conversions before it.
THEOREM ArtifactsAgree == ArtifactsSpec => []ArtifactIsExact
  BY StreamHolds, DoneIsExact, PTL

-----------------------------------------------------------------------------
(* Closures: a walk that adds, again and again, what the ids reached refer   *)
(* to has come to rest after as many steps as there are ids.                 *)

Reach(next, m) == m \cup UNION {next[x] : x \in m}

Walks(f, seeds, next) ==
    f = [n \in Nat |-> IF n = 0 THEN seeds ELSE Reach(next, f[n - 1])]

WalksTo(f, n, seeds, next) ==
    f[0] = seeds /\ \A i \in 1..n : f[i] = Reach(next, f[i - 1])

LEMMA WalksAgree ==
  ASSUME NEW seeds, NEW next, NEW n \in Nat, NEW f, NEW g,
         WalksTo(f, n, seeds, next), WalksTo(g, n, seeds, next)
  PROVE  f[n] = g[n]
<1> DEFINE A == {k \in Nat : k <= n => f[k] = g[k]}
<1>1. 0 \in A
  BY DEF WalksTo
<1>2. ASSUME NEW k \in Nat, k \in A PROVE k + 1 \in A
  <2>1. CASE k + 1 <= n
    <3>1. k + 1 \in 1..n /\ (k + 1) - 1 = k /\ f[k] = g[k]
      BY <1>2, <2>1
    <3> QED
      BY <3>1 DEF WalksTo
  <2> QED
    BY <2>1
<1> HIDE DEF A
<1>3. Nat \subseteq A
  BY <1>1, <1>2, AllNumbers
<1> QED
  BY <1>3 DEF A

LEMMA WalksExist == ASSUME NEW seeds, NEW next PROVE \E f : Walks(f, seeds, next)
<1> DEFINE A == {n \in Nat : \E f : WalksTo(f, n, seeds, next)}
<1>1. 0 \in A
  <2>1. WalksTo([i \in Nat |-> seeds], 0, seeds, next)
    BY DEF WalksTo
  <2> QED
    BY <2>1
<1>2. ASSUME NEW n \in Nat, n \in A PROVE n + 1 \in A
  <2>1. PICK f : WalksTo(f, n, seeds, next)
    BY <1>2
  <2> DEFINE g == [i \in Nat |-> IF i <= n THEN f[i] ELSE Reach(next, f[n])]
  <2>2. g[0] = seeds /\ \A i \in 1..n : g[i] = Reach(next, g[i - 1])
    BY <2>1 DEF WalksTo
  <2>3. g[n + 1] = Reach(next, g[n])
    OBVIOUS
  <2>4. \A i \in 1..(n + 1) : i \in 1..n \/ (i = n + 1 /\ i - 1 = n)
    OBVIOUS
  <2> HIDE DEF g
  <2>5. WalksTo(g, n + 1, seeds, next)
    BY <2>2, <2>3, <2>4 DEF WalksTo
  <2> QED
    BY <2>5
<1> HIDE DEF A
<1>3. Nat \subseteq A
  BY <1>1, <1>2, AllNumbers
<1> DEFINE W(n) == CHOOSE f : WalksTo(f, n, seeds, next)
           F    == [n \in Nat |-> W(n)[n]]
<1>4. \A n \in Nat : WalksTo(W(n), n, seeds, next)
  BY <1>3 DEF A
<1> HIDE DEF W
<1>5. F[0] = seeds
  BY <1>4 DEF WalksTo
<1>6. ASSUME NEW n \in Nat \ {0} PROVE F[n] = Reach(next, F[n - 1])
  <2>1. n - 1 \in Nat /\ n \in Nat /\ n \in 1..n /\ 1..(n - 1) \subseteq 1..n
    OBVIOUS
  <2>2. W(n)[n] = Reach(next, W(n)[n - 1])
    BY <1>4, <2>1 DEF WalksTo
  <2>3. WalksTo(W(n), n - 1, seeds, next) /\ WalksTo(W(n - 1), n - 1, seeds, next)
    BY <1>4, <2>1 DEF WalksTo
  <2>4. W(n)[n - 1] = W(n - 1)[n - 1]
    BY <2>1, <2>3, WalksAgree
  <2> QED
    BY <2>1, <2>2, <2>4
<1>7. Walks(F, seeds, next)
  <2>1. \A n \in Nat : F[n] = IF n = 0 THEN seeds ELSE Reach(next, F[n - 1])
    BY <1>5, <1>6
  <2>2. F = [n \in Nat |-> F[n]]
    OBVIOUS
  <2> HIDE DEF F
  <2> QED
    BY <2>1, <2>2 DEF Walks
<1> QED
  BY <1>7

\* What the instance of the slicing calls finite and counts is what FiniteSets does.
LEMMA SlicesCounts ==
  \A S : (Slices!IsFiniteSet(S) <=> IsFiniteSet(S)) /\ Slices!Cardinality(S) = Cardinality(S)
<1>1. \A S : Slices!IsFiniteSet(S) <=> IsFiniteSet(S)
  BY DEF Slices!IsFiniteSet, IsFiniteSet
<1>2. \A S : Slices!Cardinality(S) = Cardinality(S)
  BY DEF Slices!Cardinality, Cardinality
<1> QED
  BY <1>1, <1>2

LEMMA ClosureWalks ==
  ASSUME NEW seeds, NEW next
  PROVE  \E f : Walks(f, seeds, next) /\ Slices!Closure(seeds, next) = f[Cardinality(DOMAIN next)]
<1> DEFINE f == CHOOSE g : Walks(g, seeds, next)
<1>1. Walks(f, seeds, next)
  BY WalksExist
<1>2. Slices!Closure(seeds, next) = f[Slices!Cardinality(DOMAIN next)]
  BY DEF Slices!Closure, Walks, Reach
<1> QED
  BY <1>1, <1>2, SlicesCounts

LEMMA ClosureFacts ==
  ASSUME NEW S, IsFiniteSet(S), NEW next \in [S -> SUBSET S], NEW seeds \in SUBSET S
  PROVE  LET C == Slices!Closure(seeds, next)
         IN  seeds \subseteq C /\ C \subseteq S /\ \A x \in C : next[x] \subseteq C
<1> DEFINE C == Slices!Closure(seeds, next)
           N == Cardinality(S)
<1>1. DOMAIN next = S /\ N \in Nat
  BY FS_CardinalityType
<1>2. PICK f : Walks(f, seeds, next) /\ C = f[N]
  BY <1>1, ClosureWalks
<1>3. f[0] = seeds /\ \A n \in Nat : f[n + 1] = Reach(next, f[n])
  <2>1. \A n \in Nat : n + 1 \in Nat /\ n + 1 # 0 /\ (n + 1) - 1 = n
    OBVIOUS
  <2> QED
    BY <1>2, <2>1 DEF Walks
<1> HIDE DEF C, N
<1> DEFINE A == {n \in Nat : seeds \subseteq f[n] /\ f[n] \subseteq S}
<1>4. 0 \in A
  BY <1>3
<1>5. ASSUME NEW n \in Nat, n \in A PROVE n + 1 \in A
  BY <1>3, <1>5 DEF Reach
<1>6. Nat \subseteq A
  <2> HIDE DEF A
  <2> QED
    BY <1>4, <1>5, AllNumbers
<1>7. \A n \in Nat : /\ seeds \subseteq f[n] /\ f[n] \subseteq S /\ IsFiniteSet(f[n])
                     /\ Cardinality(f[n]) \in Nat
  BY <1>6, FS_Subset, FS_CardinalityType
<1> DEFINE B == {n \in Nat : Cardinality(f[n]) >= n \/ Reach(next, f[n]) = f[n]}
<1>8. 0 \in B
  BY <1>7
<1>9. ASSUME NEW n \in Nat, n \in B PROVE n + 1 \in B
  <2>1. CASE Reach(next, f[n]) = f[n]
    BY <1>3, <2>1
  <2>2. CASE Reach(next, f[n]) # f[n]
    <3>1. Cardinality(f[n]) >= n
      BY <1>9, <2>2
    <3>2. f[n] \subseteq f[n + 1] /\ f[n] # f[n + 1]
      BY <1>3, <2>2 DEF Reach
    <3>3. Cardinality(f[n]) < Cardinality(f[n + 1])
      <4>1. n + 1 \in Nat
        OBVIOUS
      <4>2. /\ IsFiniteSet(f[n + 1]) /\ Cardinality(f[n]) \in Nat
            /\ Cardinality(f[n + 1]) \in Nat
        BY <1>7, <4>1
      <4>3. Cardinality(f[n]) <= Cardinality(f[n + 1]) /\ Cardinality(f[n]) # Cardinality(f[n + 1])
        BY <3>2, <4>2, FS_Subset
      <4> QED
        BY <4>2, <4>3
    <3>4. n + 1 \in Nat /\ Cardinality(f[n]) \in Nat /\ Cardinality(f[n + 1]) \in Nat
      BY <1>7
    <3> QED
      BY <3>1, <3>3, <3>4
  <2> QED
    BY <2>1, <2>2
<1>10. Nat \subseteq B
  <2> HIDE DEF B
  <2> QED
    BY <1>8, <1>9, AllNumbers
<1>11. Reach(next, f[N]) = f[N]
  <2>1. CASE Cardinality(f[N]) >= N
    <3>1. f[N] \subseteq S /\ Cardinality(f[N]) <= Cardinality(S)
      BY <1>1, <1>7, FS_Subset
    <3>2. Cardinality(f[N]) = Cardinality(S)
      BY <1>1, <1>7, <2>1, <3>1 DEF N
    <3>3. f[N] = S
      BY <3>1, <3>2, FS_Subset
    <3> QED
      BY <3>3 DEF Reach
  <2> QED
    BY <1>1, <1>10, <2>1
<1>12. \A x \in f[N] : next[x] \subseteq f[N]
  BY <1>11 DEF Reach
<1> QED
  BY <1>1, <1>2, <1>7, <1>12 DEF C

-----------------------------------------------------------------------------
(* The slices of a source.                                                   *)

Valid == Slices!SourceOK(src)

LEMMA IdsAreFinite ==
  ASSUME Valid
  PROVE  /\ IsFiniteSet(Slices!Ids) /\ Slices!Ids \subseteq Nat \ {0}
         /\ Slices!Statements \subseteq Slices!Ids
         /\ \A x : Slices!RefsOf(x) \subseteq Slices!Ids
<1> DEFINE St   == Slices!Statements
           R    == [x \in St |-> Slices!RefsOf(x)]
           T    == {Slices!RefsOf(x) : x \in St}
<1>1. IsFiniteSet(St) /\ St \subseteq Nat \ {0}
  BY SlicesCounts DEF Valid, Slices!SourceOK, Slices!EntityIds, Slices!Statements
<1>2. \A x \in St : IsFiniteSet(Slices!RefsOf(x)) /\ Slices!RefsOf(x) \subseteq Nat \ {0}
  BY SlicesCounts
     DEF Valid, Slices!SourceOK, Slices!EntityIds, Slices!Statements, Slices!RefsOf
<1>3. Slices!Ids = St \cup UNION T
  BY DEF Slices!Ids
<1>4. \A x : x \notin St => Slices!RefsOf(x) = {}
  BY DEF Slices!RefsOf
<1> HIDE DEF St
<1>5. R \in Surjection(St, T)
  BY DEF Surjection
<1>6. IsFiniteSet(T)
  <2> HIDE DEF R, T
  <2> QED
    BY <1>1, <1>5, FS_Surjection
<1>7. \A t \in T : IsFiniteSet(t)
  BY <1>2
<1>8. IsFiniteSet(UNION T)
  <2> HIDE DEF T
  <2> QED
    BY <1>6, <1>7, FS_UNION
<1>9. IsFiniteSet(St \cup UNION T)
  <2> HIDE DEF T
  <2> QED
    BY <1>1, <1>8, FS_Union
<1>10. UNION T \subseteq Nat \ {0}
  BY <1>2
<1>11. \A x \in St : Slices!RefsOf(x) \subseteq UNION T
  OBVIOUS
<1> HIDE DEF T
<1> QED
  BY <1>1, <1>3, <1>4, <1>9, <1>10, <1>11 DEF St

LEMMA ForwardIsTotal ==
  ASSUME Valid
  PROVE  /\ Slices!Forward \in [Slices!Ids -> SUBSET Slices!Ids]
         /\ \A x \in Slices!Ids : Slices!Forward[x] = Slices!RefsOf(x)
  BY IdsAreFinite DEF Slices!Forward

\* The skeleton has what it refers to.
LEMMA BaseIsClosed ==
  ASSUME Valid
  PROVE  /\ Slices!Base \subseteq Slices!Ids
         /\ \A x \in Slices!Base : Slices!RefsOf(x) \subseteq Slices!Base
<1> DEFINE kept  == src.aggregates \ Slices!Rewritten
           seeds == src.spatial \cup Slices!Structures
                      \cup UNION {{a.id, a.parent} \cup a.children : a \in kept}
<1>1. seeds \in SUBSET Slices!Ids
  <2>1. src.spatial \subseteq Slices!Ids
    BY IdsAreFinite DEF Valid, Slices!SourceOK, Slices!Statements
  <2>2. \A c \in src.contains : c.structure \in Slices!Ids
    <3>1. \A c \in src.contains : c.id \in Slices!Statements /\ c.structure \in src.refs[c.id]
      BY DEF Valid, Slices!SourceOK, Slices!Statements
    <3>2. \A c \in src.contains : c.structure \in Slices!RefsOf(c.id)
      BY <3>1 DEF Slices!RefsOf
    <3> QED
      BY <3>2, IdsAreFinite
  <2>3. \A a \in src.aggregates : {a.id, a.parent} \cup a.children \subseteq Slices!Ids
    <3>1. \A a \in src.aggregates :
             a.id \in Slices!Statements /\ {a.parent} \cup a.children \subseteq src.refs[a.id]
      BY DEF Valid, Slices!SourceOK, Slices!Statements
    <3>2. \A a \in src.aggregates : {a.parent} \cup a.children \subseteq Slices!RefsOf(a.id)
      BY <3>1 DEF Slices!RefsOf
    <3> QED
      BY <3>1, <3>2, IdsAreFinite
  <2> QED
    BY <2>1, <2>2, <2>3 DEF Slices!Structures
<1>2. Slices!Base = Slices!Closure(seeds, Slices!Forward)
  BY DEF Slices!Base
<1> HIDE DEF seeds
<1>3. /\ Slices!Closure(seeds, Slices!Forward) \subseteq Slices!Ids
      /\ \A x \in Slices!Closure(seeds, Slices!Forward) :
            Slices!Forward[x] \subseteq Slices!Closure(seeds, Slices!Forward)
  BY <1>1, IdsAreFinite, ForwardIsTotal, ClosureFacts
<1> QED
  BY <1>2, <1>3, ForwardIsTotal

\* A shard has its seeds, what its members refer to, and what refers to those
\* of them that are not in the skeleton.
LEMMA MembersAreClosed ==
  ASSUME Valid, NEW s, NEW seeds \in SUBSET Slices!Ids
  PROVE  LET M == Slices!Members(s, seeds)
         IN  /\ seeds \subseteq M
             /\ \A x \in M : Slices!RefsOf(x) \subseteq M
             /\ \A x \in M \ Slices!Base : \A y \in Slices!Statements \ Slices!Base :
                   x \in Slices!RefsOf(y) => y \in M \/ Slices!Foreign(y, s)
<1> DEFINE Back(x) == IF x \in Slices!Base THEN {}
                      ELSE {y \in Slices!Statements \ Slices!Base :
                              x \in Slices!RefsOf(y) /\ ~Slices!Foreign(y, s)}
           next    == [x \in Slices!Ids |-> Slices!RefsOf(x) \cup Back(x)]
           M       == Slices!Members(s, seeds)
<1>1. M = Slices!Closure(seeds, next)
  BY DEF Slices!Members
<1>2. \A x : Back(x) \subseteq Slices!Ids
  BY IdsAreFinite
<1>3. \A x \in Slices!Base : Back(x) = {}
  OBVIOUS
<1>4. \A x : x \notin Slices!Base =>
        \A y \in Slices!Statements \ Slices!Base :
           x \in Slices!RefsOf(y) => y \in Back(x) \/ Slices!Foreign(y, s)
  OBVIOUS
<1> HIDE DEF Back, M
<1>5. next \in [Slices!Ids -> SUBSET Slices!Ids]
  BY <1>2, IdsAreFinite
<1>6. \A x \in Slices!Ids : next[x] = Slices!RefsOf(x) \cup Back(x)
  OBVIOUS
<1> HIDE DEF next
<1>7. seeds \subseteq M /\ M \subseteq Slices!Ids /\ \A x \in M : next[x] \subseteq M
  BY <1>1, <1>5, IdsAreFinite, ClosureFacts
<1> QED
  BY <1>4, <1>6, <1>7 DEF M

\* Who owns a product: a structure that contains it; if none does, the last
\* shard when it is below a rewritten aggregate; else nobody.
LEMMA OwnerIs ==
  ASSUME Valid, NEW e
  PROVE  \/ /\ Slices!Owner(e) \in Slices!Structures
            /\ Slices!Contained(e, Slices!Owner(e))
         \/ /\ \A c \in src.contains : e \notin c.elements
            /\ \/ /\ Slices!Owner(e) = Slices!Rest
                  /\ \E a \in Slices!Rewritten : e \in Slices!ProductKids(a)
               \/ /\ Slices!Owner(e) = Slices!NoOwner
                  /\ \A a \in Slices!Rewritten : e \notin Slices!ProductKids(a)
<1> DEFINE holders == {c \in src.contains : e \in c.elements}
           Earliest(c) == c \in holders /\ \A d \in holders : c.id <= d.id
<1>1. CASE holders # {}
  <2>1. \A c \in holders : c.id \in Nat
    BY DEF Valid, Slices!SourceOK, Slices!EntityIds
  <2> DEFINE N == {c.id : c \in holders}
  <2>2. N \in SUBSET Nat /\ N # {}
    BY <1>1, <2>1
  <2>3. PICK n \in N : \A m \in N : n <= m
    <3> HIDE DEF N
    <3> QED
      BY <2>2, LeastNumber
  <2>4. \E c \in holders : Earliest(c)
    BY <2>3
  <2>5. PICK c \in holders : Slices!Owner(e) = c.structure
    <3>1. Slices!Owner(e) = (CHOOSE c \in holders : \A d \in holders : c.id <= d.id).structure
      BY <1>1 DEF Slices!Owner
    <3> HIDE DEF holders
    <3> QED
      BY <2>4, <3>1
  <2> QED
    BY <2>5 DEF Slices!Structures, Slices!Contained
<1>2. CASE holders = {}
  BY <1>2 DEF Slices!Owner
<1> QED
  BY <1>1, <1>2

LEMMA ShardNames ==
  ASSUME Valid
  PROVE  /\ Slices!Rest \notin Slices!Structures /\ Slices!NoOwner \notin Slices!Structures
         /\ Slices!Rest # Slices!NoOwner
<1>1. \A c \in src.contains : c.structure \in Nat \ {0}
  BY DEF Valid, Slices!SourceOK, Slices!EntityIds
<1> QED
  BY <1>1 DEF Slices!Structures, Slices!Rest, Slices!NoOwner

LEMMA SeedsAre ==
  ASSUME NEW s, NEW e
  PROVE  e \in Slices!Seeds(s) <=>
           \/ \E c \in src.contains : c.structure = s /\ e \in {c.id} \cup c.elements
           \/ \E a \in Slices!Rewritten : e \in a.children /\ Slices!Owner(e) = s
<1> DEFINE A == UNION {{c.id} \cup c.elements : c \in {d \in src.contains : d.structure = s}}
           B == UNION {{k \in a.children : Slices!Owner(k) = s} : a \in Slices!Rewritten}
<1>1. Slices!Seeds(s) = A \cup B
  BY DEF Slices!Seeds
<1>2. e \in A <=> \E c \in src.contains : c.structure = s /\ e \in {c.id} \cup c.elements
  OBVIOUS
<1>3. e \in B <=> \E a \in Slices!Rewritten : e \in a.children /\ Slices!Owner(e) = s
  OBVIOUS
<1> QED
  BY <1>1, <1>2, <1>3

LEMMA SeedsAreIds ==
  ASSUME Valid, NEW s
  PROVE  Slices!Seeds(s) \subseteq Slices!Ids
<1>1. \A c \in src.contains : {c.id} \cup c.elements \subseteq Slices!Ids
  <2>1. \A c \in src.contains : c.id \in Slices!Statements /\ c.elements \subseteq src.refs[c.id]
    BY DEF Valid, Slices!SourceOK, Slices!Statements
  <2>2. \A c \in src.contains : c.elements \subseteq Slices!RefsOf(c.id)
    BY <2>1 DEF Slices!RefsOf
  <2> QED
    BY <2>1, <2>2, IdsAreFinite
<1>2. \A a \in Slices!Rewritten : a.children \subseteq Slices!Ids
  <2>1. \A a \in src.aggregates : a.id \in Slices!Statements /\ a.children \subseteq src.refs[a.id]
    BY DEF Valid, Slices!SourceOK, Slices!Statements
  <2>2. \A a \in src.aggregates : a.children \subseteq Slices!RefsOf(a.id)
    BY <2>1 DEF Slices!RefsOf
  <2> QED
    BY <2>2, IdsAreFinite DEF Slices!Rewritten
<1> QED
  BY <1>1, <1>2, SeedsAre

\* What is contained in a structure, or owned by it below an aggregate, seeds it.
LEMMA SeedsHave ==
  ASSUME NEW s, NEW e,
         \/ Slices!Contained(e, s)
         \/ \E a \in Slices!Rewritten : e \in a.children /\ Slices!Owner(e) = s
  PROVE  e \in Slices!Seeds(s)
  BY SeedsAre DEF Slices!Contained

-----------------------------------------------------------------------------
(* The files.                                                                *)

Plain == Slices!Statements \ {a.id : a \in Slices!Rewritten}
Own   == Plain \ Slices!Base

Reached(s) == Slices!Members(s, Slices!Seeds(s))
Unreached  == Slices!Statements \ ({a.id : a \in Slices!Rewritten} \cup Slices!Base
                                      \cup UNION {Reached(s) : s \in Slices!Structures})
Held(s)    == IF s = Slices!Rest THEN Slices!Members(Slices!Rest, Unreached) ELSE Reached(s)

Within(x, s) == x \in Slices!Base \/ (x \in Held(s) /\ ~Slices!Foreign(x, s))

LEMMA FilesAre ==
  ASSUME Valid
  PROVE  /\ DOMAIN Slices!Files =
              Slices!Structures \cup (IF Unreached = {} THEN {} ELSE {Slices!Rest})
         /\ \A s \in DOMAIN Slices!Files :
              /\ Slices!Files[s].copied = {x \in Plain : Within(x, s)}
              /\ \A a \in Slices!Rewritten :
                   Slices!Files[s].kids[a] =
                     {k \in Slices!SpatialKids(a)
                               \cup {p \in Slices!ProductKids(a) : Slices!Owner(p) = s} :
                         Within(k, s)}
<1> DEFINE members == [s \in Slices!Structures |-> Slices!Members(s, Slices!Seeds(s))]
           left    == Slices!Statements \ ({a.id : a \in Slices!Rewritten} \cup Slices!Base
                                   \cup UNION {members[s] : s \in Slices!Structures})
           D       == Slices!Structures \cup (IF left = {} THEN {} ELSE {Slices!Rest})
           Has(s)  == IF s = Slices!Rest THEN Slices!Members(Slices!Rest, left) ELSE members[s]
<1>1. Slices!Files = [s \in D |-> Slices!File(s, Has(s))]
  BY DEF Slices!Files
<1>2. \A s \in Slices!Structures : members[s] = Reached(s)
  BY DEF Reached
<1>3. left = Unreached
  <2>1. UNION {members[s] : s \in Slices!Structures} = UNION {Reached(s) : s \in Slices!Structures}
    <3> HIDE DEF members
    <3> QED
      BY <1>2
  <2> HIDE DEF members
  <2> QED
    BY <2>1 DEF Unreached
<1>4. \A s \in D : Has(s) = Held(s)
  BY <1>2, <1>3 DEF Held
<1> HIDE DEF members, left
<1>5. ASSUME NEW s \in D
      PROVE  /\ Slices!Files[s] = Slices!File(s, Held(s))
             /\ Slices!File(s, Held(s)).copied = {x \in Plain : Within(x, s)}
             /\ \A a \in Slices!Rewritten :
                  Slices!File(s, Held(s)).kids[a] =
                    {k \in Slices!SpatialKids(a)
                              \cup {p \in Slices!ProductKids(a) : Slices!Owner(p) = s} :
                        Within(k, s)}
  <2>1. Slices!Files[s] = Slices!File(s, Held(s))
    BY <1>1, <1>4
  <2>2. Slices!File(s, Held(s)).copied = {x \in Plain : Within(x, s)}
    BY DEF Slices!File, Plain, Within
  <2>3. \A a \in Slices!Rewritten :
           Slices!File(s, Held(s)).kids[a] =
             {k \in Slices!SpatialKids(a)
                       \cup {p \in Slices!ProductKids(a) : Slices!Owner(p) = s} :
                 Within(k, s)}
    BY DEF Slices!File, Within
  <2> QED
    BY <2>1, <2>2, <2>3
<1>6. DOMAIN Slices!Files = D
  BY <1>1
<1> QED
  BY <1>3, <1>5, <1>6

-----------------------------------------------------------------------------
(* What the files have, where no product is left to the last shard.          *)

Settled == Valid /\ Slices!Orphans = {}

LEMMA NoOrphan ==
  ASSUME Settled, NEW a \in Slices!Rewritten, NEW k \in a.children
  PROVE  Slices!Owner(k) # Slices!Rest
<1> DEFINE Mine(b) == {e \in b.children : Slices!Owner(e) = Slices!Rest}
<1>1. Slices!Orphans = UNION {Mine(b) : b \in Slices!Rewritten}
  BY DEF Slices!Orphans
<1>2. k \notin Mine(a)
  <2> HIDE DEF Mine
  <2> QED
    BY <1>1 DEF Settled
<1> QED
  BY <1>2

\* No product is owned by the last shard, whose name no owner is.
LEMMA OwnersAreStructures ==
  ASSUME Settled, NEW e
  PROVE  \/ /\ Slices!Owner(e) \in Slices!Structures
            /\ Slices!Contained(e, Slices!Owner(e))
         \/ /\ Slices!Owner(e) = Slices!NoOwner
            /\ \A c \in src.contains : e \notin c.elements
            /\ \A a \in Slices!Rewritten : e \notin Slices!ProductKids(a)
<1>1. \A a \in Slices!Rewritten : e \in Slices!ProductKids(a) => Slices!Owner(e) # Slices!Rest
  BY NoOrphan DEF Slices!ProductKids
<1> QED
  BY <1>1, OwnerIs DEF Settled

\* A structure's shard has what the structure contains.
LEMMA ContainedIsHeld ==
  ASSUME Settled, NEW s \in Slices!Structures, NEW e,
         \/ Slices!Contained(e, s)
         \/ \E a \in Slices!Rewritten : e \in a.children /\ Slices!Owner(e) = s
  PROVE  e \in Held(s) /\ ~Slices!Foreign(e, s)
<1>1. e \in Slices!Seeds(s)
  BY SeedsHave
<1>2. e \in Held(s)
  <2>1. Slices!Seeds(s) \subseteq Reached(s)
    BY SeedsAreIds, MembersAreClosed DEF Settled, Reached
  <2> QED
    BY <1>1, <2>1, ShardNames DEF Settled, Held
<1> QED
  BY <1>2 DEF Slices!Foreign

\* A shard has what its members refer to, and what refers to them.
LEMMA HeldIsClosed ==
  ASSUME Settled, NEW s \in DOMAIN Slices!Files
  PROVE  /\ \A x \in Held(s) : Slices!RefsOf(x) \subseteq Held(s)
         /\ \A x \in Held(s) \ Slices!Base : \A y \in Slices!Statements \ Slices!Base :
               x \in Slices!RefsOf(y) => y \in Held(s) \/ Slices!Foreign(y, s)
<1>1. Unreached \subseteq Slices!Ids
  BY IdsAreFinite DEF Settled, Unreached
<1>2. CASE s = Slices!Rest
  <2>1. Held(s) = Slices!Members(s, Unreached)
    BY <1>2 DEF Held
  <2> QED
    BY <1>1, <2>1, MembersAreClosed DEF Settled
<1>3. CASE s # Slices!Rest
  <2>1. Held(s) = Slices!Members(s, Slices!Seeds(s))
    BY <1>3 DEF Held, Reached
  <2> QED
    BY <2>1, SeedsAreIds, MembersAreClosed DEF Settled
<1> QED
  BY <1>2, <1>3

\* The last shard has what no other has reached.
LEMMA LeftIsHeld ==
  ASSUME Settled, NEW x \in Unreached
  PROVE  Slices!Rest \in DOMAIN Slices!Files /\ x \in Held(Slices!Rest)
                                            /\ ~Slices!Foreign(x, Slices!Rest)
<1>1. Slices!Rest \in DOMAIN Slices!Files
  BY FilesAre DEF Settled
<1>2. x \in Held(Slices!Rest)
  <2>1. Unreached \in SUBSET Slices!Ids
    BY IdsAreFinite DEF Settled, Unreached
  <2> QED
    BY <2>1, MembersAreClosed DEF Settled, Held
<1>3. \A s \in Slices!Structures : x \notin Held(s)
  BY ShardNames DEF Unreached, Held, Settled
<1>4. Slices!Owner(x) = Slices!NoOwner
  BY <1>3, OwnersAreStructures, ContainedIsHeld
<1> QED
  BY <1>1, <1>2, <1>4 DEF Slices!Foreign

\* No statement outside the skeleton is lost.
LEMMA NothingIsLost ==
  ASSUME Settled, NEW x \in Own
  PROVE  \E s \in DOMAIN Slices!Files : x \in Held(s) /\ ~Slices!Foreign(x, s)
<1>1. CASE x \in Unreached
  BY <1>1, LeftIsHeld
<1>2. CASE x \notin Unreached
  <2>1. PICK s \in Slices!Structures : x \in Reached(s)
    BY <1>2 DEF Unreached, Own, Plain
  <2>2. s \in DOMAIN Slices!Files /\ x \in Held(s)
    BY <2>1, FilesAre, ShardNames DEF Settled, Held
  <2>3. CASE Slices!Owner(x) = Slices!NoOwner
    BY <2>2, <2>3 DEF Slices!Foreign
  <2>4. CASE Slices!Owner(x) # Slices!NoOwner
    <3>1. /\ Slices!Owner(x) \in Slices!Structures
          /\ Slices!Contained(x, Slices!Owner(x))
      BY <2>4, OwnersAreStructures
    <3>2. Slices!Owner(x) \in DOMAIN Slices!Files
      BY <3>1, FilesAre DEF Settled
    <3> QED
      BY <3>1, <3>2, ContainedIsHeld
  <2> QED
    BY <2>3, <2>4
<1> QED
  BY <1>1, <1>2

-----------------------------------------------------------------------------
LEMMA FilesAreWhole ==
  ASSUME Settled, shards = Slices!Files
  PROVE  SlicesAreWhole
<1> DEFINE C(x) == Slices!Copies(x)
<1>1. /\ \A s \in DOMAIN shards : \A x : x \in shards[s].copied <=> x \in Plain /\ Within(x, s)
      /\ \A x \in Plain : \A s : s \in C(x) <=> s \in DOMAIN shards /\ Within(x, s)
      /\ \A x : C(x) \subseteq DOMAIN shards
  BY FilesAre DEF Settled, Slices!Copies
<1>2. \A x \in Own : \A s : Within(x, s) <=> x \in Held(s) /\ ~Slices!Foreign(x, s)
  BY DEF Own, Within
<1>3. \A x \in Plain : IF x \in Own THEN C(x) # {} ELSE C(x) = DOMAIN shards
  <2>1. ASSUME NEW x \in Own PROVE C(x) # {}
    BY <1>1, <1>2, <2>1, NothingIsLost DEF Own
  <2>2. ASSUME NEW x \in Plain \ Own PROVE C(x) = DOMAIN shards
    BY <1>1 DEF Own, Within
  <2> QED
    BY <2>1, <2>2
<1>4. ASSUME NEW c \in src.contains, NEW e \in c.elements \cap Own
      PROVE  C(e) = {s \in Slices!Structures : Slices!Contained(e, s)}
  <2>1. ASSUME NEW s \in C(e) PROVE s \in Slices!Structures /\ Slices!Contained(e, s)
    <3>1. e \in Held(s) /\ ~Slices!Foreign(e, s)
      BY <1>1, <1>2 DEF Own
    <3>2. Slices!Owner(e) \in Slices!Structures /\ Slices!Contained(e, Slices!Owner(e))
      BY OwnersAreStructures
    <3>3. Slices!Owner(e) # Slices!NoOwner
      BY <3>2, ShardNames DEF Settled
    <3>4. Slices!Contained(e, s)
      BY <3>1, <3>2, <3>3 DEF Slices!Foreign
    <3> QED
      BY <3>4 DEF Slices!Contained, Slices!Structures
  <2>2. ASSUME NEW s \in Slices!Structures, Slices!Contained(e, s) PROVE s \in C(e)
    <3>1. s \in DOMAIN shards
      BY FilesAre DEF Settled
    <3>2. e \in Held(s) /\ ~Slices!Foreign(e, s)
      BY <2>2, ContainedIsHeld
    <3> QED
      BY <1>1, <1>2, <3>1, <3>2 DEF Own
  <2> HIDE DEF C
  <2> QED
    BY <2>1, <2>2
<1>5. ASSUME NEW s \in DOMAIN shards, NEW x \in shards[s].copied
      PROVE  /\ \A y \in Slices!RefsOf(x) \cap Plain :
                   y \in shards[s].copied \/ Slices!Foreign(y, s)
             /\ x \in Own => \A y \in Own :
                   x \in Slices!RefsOf(y) => y \in shards[s].copied \/ Slices!Foreign(y, s)
  <2>1. x \in Plain /\ Within(x, s)
    BY <1>1
  <2>2. ASSUME NEW y \in Slices!RefsOf(x) \cap Plain
        PROVE  y \in shards[s].copied \/ Slices!Foreign(y, s)
    <3>1. CASE x \in Slices!Base
      BY <1>1, <3>1, BaseIsClosed DEF Settled, Within
    <3>2. CASE x \in Held(s)
      BY <1>1, <3>2, HeldIsClosed DEF Within
    <3> QED
      BY <2>1, <3>1, <3>2 DEF Within
  <2>3. ASSUME x \in Own, NEW y \in Own, x \in Slices!RefsOf(y)
        PROVE  y \in shards[s].copied \/ Slices!Foreign(y, s)
    <3>1. x \in Held(s) \ Slices!Base /\ y \in Slices!Statements \ Slices!Base
      BY <2>1, <2>3 DEF Within, Own, Plain
    <3>2. y \in Held(s) \/ Slices!Foreign(y, s)
      BY <2>3, <3>1, HeldIsClosed
    <3> QED
      BY <1>1, <3>2 DEF Within, Own
  <2> QED
    BY <2>2, <2>3
<1>6. ASSUME NEW a \in Slices!Rewritten,
             NEW k \in UNION {Slices!ProductKids(b) : b \in Slices!Rewritten}, k \in a.children
      PROVE  k \in shards[Slices!Owner(k)].kids[a]
  <2>1. k \in Slices!ProductKids(a)
    BY <1>6 DEF Slices!ProductKids
  <2>2. Slices!Owner(k) \in Slices!Structures
    BY <2>1, OwnersAreStructures
  <2>3. k \in Held(Slices!Owner(k)) /\ ~Slices!Foreign(k, Slices!Owner(k))
    BY <1>6, <2>2, ContainedIsHeld
  <2>4. Slices!Owner(k) \in DOMAIN shards
    BY <2>2, FilesAre DEF Settled
  <2> QED
    BY <2>1, <2>3, <2>4, FilesAre DEF Settled, Within
<1> QED
  BY <1>3, <1>4, <1>5, <1>6 DEF SlicesAreWhole, Slices!SlicesAreWhole, Plain, Own

-----------------------------------------------------------------------------
SlicingInv ==
    /\ src \in Inputs
    /\ outcome \in {"new", "sliced", "crashed"}
    /\ outcome = "sliced" => Slices!Orphans = {} /\ shards = Slices!Files

\* What is made of a source depends on the source alone.
LEMMA FilesStay ==
  ASSUME src' = src
  PROVE  Slices!Files' = Slices!Files /\ Slices!Orphans' = Slices!Orphans
<1>1. Slices!Files' = Slices!Files
  BY DEF Slices!Files, Slices!File, Slices!Members, Slices!Seeds, Slices!Base, Slices!Owner, Slices!Foreign,
         Slices!Contained, Slices!Ids, Slices!Forward, Slices!RefsOf, Slices!Statements,
         Slices!Structures, Slices!Rewritten, Slices!ProductKids, Slices!SpatialKids
<1>2. Slices!Orphans' = Slices!Orphans
  BY DEF Slices!Orphans, Slices!Owner, Slices!Rewritten, Slices!ProductKids, Slices!Statements
<1> QED
  BY <1>1, <1>2

LEMMA SlicingSteps ==
  ASSUME SlicingInv, [Slices!Next]_sliceVars
  PROVE  SlicingInv'
<1>1. CASE Slices!Slice
  BY <1>1, FilesStay DEF SlicingInv, Slices!Slice
<1>2. CASE Slices!Throw
  BY <1>2 DEF SlicingInv, Slices!Throw
<1>3. CASE UNCHANGED sliceVars
  <2>1. src' = src /\ shards' = shards /\ outcome' = outcome
    BY <1>3 DEF sliceVars
  <2> QED
    BY <2>1, FilesStay DEF SlicingInv
<1> QED
  BY <1>1, <1>2, <1>3 DEF Slices!Next

LEMMA SlicingIsTyped ==
  ASSUME SlicingInv
  PROVE  Slices!TypeOK /\ SlicesAreWhole
<1>1. Valid
  BY SourcesAssumption DEF SlicingInv, Slices!SlicingAssumption, Valid
<1>2. CASE outcome = "sliced"
  <2>1. Settled /\ shards = Slices!Files
    BY <1>1, <1>2 DEF SlicingInv, Settled
  <2>2. DOMAIN shards \subseteq Slices!Structures \cup {Slices!Rest}
    BY <1>1, <2>1, FilesAre
  <2> QED
    BY <2>1, <2>2, FilesAreWhole DEF SlicingInv, Slices!TypeOK
<1>3. CASE outcome # "sliced"
  BY <1>3 DEF SlicingInv, Slices!TypeOK, SlicesAreWhole, Slices!SlicesAreWhole
<1> QED
  BY <1>2, <1>3

\* A run that is about something else leaves the slicing where it began.
LEMMA SlicingHolds == ArtifactsSpec => [](IF maker = "slicing" THEN SlicingInv ELSE outcome = "new")
<1> DEFINE I == IF maker = "slicing" THEN SlicingInv ELSE outcome = "new"
<1>1. ArtifactsInit => I
  BY DEF ArtifactsInit, Slices!Init, SlicingInv
<1>2. I /\ [ArtifactsNext]_<<maker, vars, glbVars, sliceVars, scanVars, presplitVars>> => I'
  <2> SUFFICES ASSUME I, [ArtifactsNext]_<<maker, vars, glbVars, sliceVars, scanVars, presplitVars>>
               PROVE  I'
    OBVIOUS
  <2>1. maker' = maker /\ (IF maker = "slicing" THEN [Slices!Next]_sliceVars ELSE UNCHANGED sliceVars)
    BY DEF ArtifactsNext
  <2> QED
    BY <2>1, SlicingSteps DEF sliceVars
<1> QED
  BY <1>1, <1>2, PTL DEF ArtifactsSpec

\* presplit.ts: no statement of a source is lost, no contained product doubled,
\* and nothing in a shard refers to what is neither there nor another shard's,
\* for any source.
THEOREM SourcesAreWhole == ArtifactsSpec => []SlicesAreWhole
<1>1. (IF maker = "slicing" THEN SlicingInv ELSE outcome = "new") => SlicesAreWhole
  BY SlicingIsTyped DEF SlicesAreWhole, Slices!SlicesAreWhole
<1> QED
  BY <1>1, SlicingHolds, PTL

-----------------------------------------------------------------------------
(* Types.                                                                    *)

LEMMA GlbHolds == ArtifactsSpec => []GlbTypeOK
<1>1. ArtifactsInit => GlbInv /\ Finished
  BY GlbStarts DEF ArtifactsInit, GlbInit, Finished
<1>2. [ArtifactsNext]_<<maker, vars, glbVars, sliceVars, scanVars, presplitVars>> => [GlbNext]_glbVars
  BY DEF ArtifactsNext
<1>3. GlbInv => GlbTypeOK
  BY DEF GlbInv
<1> QED
  BY <1>1, <1>2, <1>3, GlbSteps, PTL DEF ArtifactsSpec

LEMMA PipeHolds == ASSUME RemovalsFinish PROVE ArtifactsSpec => []Presplit!TypeOK
<1>1. Pipe!PresplitAssumption /\ Pipe!RemovalsFinish
  BY PresplitAssumption DEF Presplit!PresplitAssumption, Pipe!PresplitAssumption,
     Presplit!Phases, Pipe!Phases, RemovalsFinish, Pipe!RemovalsFinish
<1>2. Pipe!Spec => []Pipe!TypeOK
  BY <1>1, Pipe!TypesHold
<1>3. Pipe!TypeOK => Presplit!TypeOK
  BY DEF Pipe!TypeOK, Presplit!TypeOK, Pipe!Phases, Presplit!Phases, Pipe!Files, Presplit!Files,
     Pipe!Shards, Presplit!Shards, Pipe!Sources, Presplit!Sources, Pipe!PlanStates,
     Presplit!PlanStates, Pipe!Statuses, Presplit!Statuses
<1> QED
  BY <1>2, <1>3, PipeSpec, PTL

\* A lexer has consumed no more than was read, and that is no more than there is.
Modes == {"plain", "string", "comment"}
Pends == {"none", "quote", "slash", "star"}

Lexed(l) == {"mode", "pend"} \subseteq DOMAIN l /\ l.mode \in Modes /\ l.pend \in Pends

ScanInv ==
    /\ text \in Texts /\ lexer \in Scanner!Lexers
    /\ at \in Nat /\ end \in Nat /\ at <= end /\ end <= Len(text)
    /\ Lexed(lex)

LEMMA TextsAreRead == \A t \in Texts : t \in Seq(STRING) /\ Len(t) \in Nat
<1>1. \A t \in Texts : t \in Seq(STRING)
  BY TextsAssumption DEF Scanner!ScannerAssumption
<1> QED
  BY <1>1

LEMMA LexedStays ==
  ASSUME NEW l, Lexed(l)
  PROVE  /\ \A m \in Modes : Lexed([l EXCEPT !.mode = m])
         /\ \A p \in Pends : Lexed([l EXCEPT !.pend = p])
         /\ \A b : Lexed([l EXCEPT !.hashing = b]) /\ Lexed([l EXCEPT !.open = b])
                   /\ Lexed([l EXCEPT !.hash = b]) /\ Lexed([l EXCEPT !.owner = b])
                   /\ Lexed([l EXCEPT !.refs = b])
  BY DEF Lexed

LEMMA EatPreserves ==
  ASSUME ScanInv, NEW k \in {0, 1, 2}, at + k <= end, NEW l, Lexed(l), Scanner!Eat(k, l)
  PROVE  ScanInv'
  BY DEF ScanInv, Scanner!Eat, Lexed

LEMMA ScanSteps ==
  ASSUME ScanInv, [Scanner!Next]_scanVars
  PROVE  ScanInv'
<1>1. /\ Len(text) \in Nat /\ Lexed(lex) /\ at \in Nat /\ end \in Nat
      /\ at < end => at + 1 <= end /\ at + 0 <= end
      /\ at < end /\ ~Scanner!Lone => at + 2 <= end
  BY TextsAreRead DEF ScanInv, Scanner!Lone, Lexed
<1>2. /\ \A m \in Modes : Lexed([lex EXCEPT !.mode = m])
      /\ \A p \in Pends : Lexed([lex EXCEPT !.pend = p])
      /\ \A b : Lexed([lex EXCEPT !.hashing = b]) /\ Lexed([lex EXCEPT !.open = b])
  BY <1>1, LexedStays
<1>3. CASE \E n \in 1..Len(text) : Scanner!ReadChunk(n)
  BY <1>1, <1>3 DEF ScanInv, Scanner!ReadChunk
\* Every other step that eats leaves a lexer, and eats no more than was read.
<1> DEFINE Eats == \E k \in {0, 1, 2} : \E l : at + k <= end /\ Lexed(l) /\ Scanner!Eat(k, l)
<1>4. Eats => ScanInv'
  BY EatPreserves
<1>5. CASE Scanner!Resolve
  <2> DEFINE l == [lex EXCEPT !.pend = "none"]
  <2>1. Lexed(l) /\ \A m \in Modes : Lexed([l EXCEPT !.mode = m])
    BY <1>2, LexedStays DEF Pends
  <2>2. at + 0 <= end /\ at + 1 <= end
    BY <1>1, <1>5 DEF Scanner!Resolve, Scanner!Scanning
  <2>3. lex.pend \in Pends
    BY <1>1 DEF Lexed
  <2>4. \/ Scanner!Eat(1, l) \/ Scanner!Eat(0, [l EXCEPT !.mode = "plain"])
        \/ Scanner!Eat(1, [l EXCEPT !.mode = "comment"]) \/ Scanner!Eat(0, l)
    BY <1>5, <2>3 DEF Scanner!Resolve, Scanner!Silent, Pends
  <2> HIDE DEF l
  <2> QED
    BY <1>4, <2>1, <2>2, <2>4 DEF Modes
<1>6. CASE Scanner!OpenStatement
  <2>1. Lexed([Scanner!Fresh EXCEPT !.open = TRUE, !.start = at])
    BY DEF Scanner!Fresh, Lexed, Modes, Pends
  <2>2. at + 0 <= end /\ at + 1 <= end
    BY <1>1, <1>6 DEF Scanner!OpenStatement, Scanner!Ready, Scanner!Scanning
  <2> QED
    BY <1>1, <1>4, <1>6, <2>1, <2>2 DEF Scanner!OpenStatement, Scanner!Silent
<1>7. CASE Scanner!HashDigit
  <2>1. Lexed([lex EXCEPT !.hash = Append(@, Scanner!Byte)])
    BY <1>1, LexedStays
  <2>2. at + 1 <= end
    BY <1>1, <1>7 DEF Scanner!HashDigit, Scanner!Ready, Scanner!Scanning
  <2> QED
    BY <1>4, <1>7, <2>1, <2>2 DEF Scanner!HashDigit, Scanner!Silent
<1>8. CASE Scanner!HashEnd
  <2>1. at + 1 <= end
    BY <1>1, <1>8 DEF Scanner!HashEnd, Scanner!Ready, Scanner!Scanning
  <2>2. \E l : Lexed(l) /\ Scanner!Eat(1, l)
    <3>1. PICK l : /\ DOMAIN l = DOMAIN lex /\ l.mode = lex.mode /\ l.pend = lex.pend
                   /\ (Scanner!Close(l) \/ Scanner!Silent(1, l))
      BY <1>1, <1>8 DEF Scanner!HashEnd, Lexed
    <3>2. Lexed(l) /\ Lexed([l EXCEPT !.open = FALSE])
      <4>1. Lexed(l)
        BY <1>1, <3>1 DEF Lexed
      <4> QED
        BY <4>1, LexedStays
    <3> QED
      BY <3>1, <3>2 DEF Scanner!Close, Scanner!Silent
  <2> QED
    BY <1>4, <2>1, <2>2
<1>9. CASE Scanner!InComment \/ Scanner!InString
  <2>1. at + 1 <= end /\ (~Scanner!Lone => at + 2 <= end)
    BY <1>1, <1>9 DEF Scanner!InComment, Scanner!InString, Scanner!Inside, Scanner!Ready, Scanner!Scanning
  <2>2. /\ Lexed([lex EXCEPT !.pend = "star"]) /\ Lexed([lex EXCEPT !.pend = "quote"])
        /\ Lexed([lex EXCEPT !.mode = "plain"])
    BY <1>2 DEF Modes, Pends
  <2>3. CASE Scanner!InComment
    BY <1>1, <1>4, <2>1, <2>2, <2>3 DEF Scanner!InComment, Scanner!Silent
  <2>4. CASE Scanner!InString
    BY <1>1, <1>4, <2>1, <2>2, <2>4 DEF Scanner!InString, Scanner!Silent
  <2> QED
    BY <1>9, <2>3, <2>4
<1>10. CASE Scanner!InPlain
  <2>1. at + 1 <= end /\ (~Scanner!Lone => at + 2 <= end)
    BY <1>1, <1>10 DEF Scanner!InPlain, Scanner!Inside, Scanner!Ready, Scanner!Scanning
  <2>2. /\ Lexed([lex EXCEPT !.hashing = TRUE]) /\ Lexed([lex EXCEPT !.mode = "string"])
        /\ Lexed([lex EXCEPT !.open = FALSE]) /\ Lexed([lex EXCEPT !.pend = "slash"])
        /\ Lexed([lex EXCEPT !.mode = "comment"])
    BY <1>2 DEF Modes, Pends
  <2>3. \/ \E l : Lexed(l) /\ Scanner!Eat(1, l)
        \/ ~Scanner!Lone /\ \E l : Lexed(l) /\ Scanner!Eat(2, l)
    BY <1>1, <1>10, <2>2 DEF Scanner!InPlain, Scanner!Silent, Scanner!Close
  <2> QED
    BY <1>4, <2>1, <2>3
<1>11. CASE Scanner!EndOfData \/ Scanner!Stripped
  BY <1>11 DEF ScanInv, Scanner!EndOfData, Scanner!Stripped
<1>12. CASE Scanner!StripComment \/ Scanner!StripString \/ Scanner!StripPlain
  <2>1. at + 1 <= end /\ (~Scanner!Lone => at + 2 <= end)
    BY <1>1, <1>12 DEF Scanner!StripComment, Scanner!StripString, Scanner!StripPlain, Scanner!Stripping
  <2>2. Scanner!Second \in {"/", "'", "*"} => ~Scanner!Lone
    BY DEF Scanner!Second
  <2>3. \A m \in Modes : Lexed([lex EXCEPT !.mode = m])
    BY <1>2
  <2>4. \/ \E l : Lexed(l) /\ Scanner!Eat(1, l)
        \/ ~Scanner!Lone /\ \E l : Lexed(l) /\ Scanner!Eat(2, l)
    <3>1. CASE Scanner!StripComment
      BY <1>1, <2>2, <2>3, <3>1 DEF Scanner!StripComment, Scanner!Silent, Modes
    <3>2. CASE Scanner!StripString
      BY <1>1, <2>2, <2>3, <3>2 DEF Scanner!StripString, Scanner!Emit, Modes
    <3>3. CASE Scanner!StripPlain
      BY <1>1, <2>2, <2>3, <3>3 DEF Scanner!StripPlain, Scanner!Silent, Scanner!Emit, Modes
    <3> QED
      BY <1>12, <3>1, <3>2, <3>3
  <2> QED
    BY <1>4, <2>1, <2>4
<1>13. CASE UNCHANGED scanVars
  BY <1>13 DEF scanVars, ScanInv
<1> QED
  BY <1>3, <1>5, <1>6, <1>7, <1>8, <1>9, <1>10, <1>11, <1>12, <1>13 DEF Scanner!Next

LEMMA ScanHolds == ArtifactsSpec => [](maker = "scanner" => ScanInv)
<1> DEFINE I == maker = "scanner" => ScanInv
<1>1. ArtifactsInit => I
  <2> SUFFICES ASSUME ArtifactsInit PROVE ScanInv
    OBVIOUS
  <2>1. text \in Texts /\ lexer \in Scanner!Lexers /\ at = 0 /\ end = 0 /\ lex = Scanner!Fresh
    BY DEF ArtifactsInit, Scanner!Init
  <2>2. Len(text) \in Nat
    BY <2>1, TextsAreRead
  <2> QED
    BY <2>1, <2>2 DEF ScanInv, Lexed, Modes, Pends, Scanner!Fresh
<1>2. I /\ [ArtifactsNext]_<<maker, vars, glbVars, sliceVars, scanVars, presplitVars>> => I'
  <2> SUFFICES ASSUME I, maker' = "scanner",
                      [ArtifactsNext]_<<maker, vars, glbVars, sliceVars, scanVars, presplitVars>>
               PROVE  ScanInv'
    OBVIOUS
  <2>1. maker = "scanner" /\ [Scanner!Next]_scanVars
    BY DEF ArtifactsNext
  <2> QED
    BY <2>1, ScanSteps
<1> QED
  BY <1>1, <1>2, PTL DEF ArtifactsSpec

\* Every component of a run has its type in every state of it.
THEOREM ArtifactsAreTyped ==
  ASSUME RemovalsFinish
  PROVE  ArtifactsSpec => []ArtifactsTypeOK
<1> DEFINE Slicings == IF maker = "slicing" THEN SlicingInv ELSE outcome = "new"
           Scans    == maker = "scanner" => ScanInv
<1>1. ArtifactsSpec => [](maker \in Makers)
  <2>1. ArtifactsInit => maker \in Makers
    BY DEF ArtifactsInit
  <2>2. maker \in Makers /\ [ArtifactsNext]_<<maker, vars, glbVars, sliceVars, scanVars, presplitVars>>
           => (maker \in Makers)'
    BY DEF ArtifactsNext
  <2> QED
    BY <2>1, <2>2, PTL DEF ArtifactsSpec
<1>2. /\ maker \in Makers /\ StreamInv /\ GlbTypeOK /\ Slicings /\ Scans /\ Presplit!TypeOK
      => ArtifactsTypeOK
  <2>1. StreamInv => TypeOK
    BY DEF StreamInv
  <2>2. Slicings /\ maker = "slicing" => Slices!TypeOK
    BY SlicingIsTyped
  <2>3. ScanInv => Scanner!TypeOK
    BY DEF ScanInv, Lexed, Modes, Pends, Scanner!TypeOK
  <2> QED
    BY <2>1, <2>2, <2>3 DEF ArtifactsTypeOK, Makers
<1> QED
  BY <1>1, <1>2, StreamHolds, GlbHolds, SlicingHolds, ScanHolds, PipeHolds, PTL

\* The mode of a byte follows from the one before it.
FileModes == {"plain", "slash", "string", "comment", "star"}

LEMMA ModeIs ==
  /\ Scanner!Mode[0] = "plain"
  /\ \A p \in Nat : /\ Scanner!Mode[p] \in FileModes
                    /\ Scanner!Mode[p + 1] = Scanner!Turn(Scanner!Mode[p], text[p + 1])
<1> DEFINE step == [p \in Nat |-> [m \in FileModes |-> Scanner!Turn(m, text[p])]]
           P(f) == f = [p \in Nat |-> IF p = 0 THEN "plain" ELSE Scanner!Turn(f[p - 1], text[p])]
<1>1. \A m \in FileModes : \A b : Scanner!Turn(m, b) \in FileModes
  BY DEF Scanner!Turn, FileModes
<1>2. step \in [Nat -> [FileModes -> FileModes]]
  BY <1>1
<1>3. \A m \in FileModes, p \in Nat : step[p][m] = Scanner!Turn(m, text[p])
  OBVIOUS
<1> HIDE DEF step
<1>4. PICK f \in [Nat -> FileModes] : f[0] = "plain" /\ \A n \in Nat : f[n + 1] = step[n + 1][f[n]]
  <2>1. "plain" \in FileModes
    BY DEF FileModes
  <2> QED
    BY <1>2, <2>1, RecursionExists, SMTT(30)
<1>5. P(f)
  <2>1. ASSUME NEW n \in Nat, n # 0 PROVE f[n] = Scanner!Turn(f[n - 1], text[n])
    <3>1. PICK k \in Nat : n = k + 1 /\ n - 1 = k
      BY <2>1
    <3> QED
      BY <1>3, <1>4, <3>1
  <2>2. \A n \in Nat : f[n] = IF n = 0 THEN "plain" ELSE Scanner!Turn(f[n - 1], text[n])
    BY <1>4, <2>1
  <2>3. f = [n \in Nat |-> f[n]]
    OBVIOUS
  <2> QED
    BY <2>2, <2>3
<1>6. P(Scanner!Mode)
  <2>1. Scanner!Mode = CHOOSE g : P(g)
    BY DEF Scanner!Mode
  <2> HIDE DEF P
  <2> QED
    BY <1>5, <2>1
<1>7. Scanner!Mode[0] = "plain" /\ \A p \in Nat : Scanner!Mode[p + 1] = Scanner!Turn(Scanner!Mode[p], text[p + 1])
  <2>1. \A p \in Nat : p + 1 \in Nat /\ p + 1 # 0 /\ (p + 1) - 1 = p
    OBVIOUS
  <2>2. \A p \in Nat : Scanner!Mode[p] = IF p = 0 THEN "plain" ELSE Scanner!Turn(Scanner!Mode[p - 1], text[p])
    BY <1>6
  <2> QED
    BY <2>1, <2>2
<1> DEFINE A == {p \in Nat : Scanner!Mode[p] \in FileModes}
<1>8. 0 \in A
  BY <1>7 DEF FileModes
<1>9. \A p \in Nat : p \in A => p + 1 \in A
  BY <1>1, <1>7
<1>10. Nat \subseteq A
  <2> HIDE DEF A
  <2> QED
    BY <1>8, <1>9, AllNumbers
<1> QED
  BY <1>7, <1>10

-----------------------------------------------------------------------------
(* Stripping.  What is emitted are the kept bytes among those consumed, and   *)
(* the lexer is where the file is; a token of two bytes is never cut, since a *)
(* byte is taken only with the one after it.                                  *)

KeptTo(n) == {p \in Scanner!Kept : p <= n}

\* s is what is kept of the first n bytes.
Holds(s, n) ==
    /\ s \in Seq(STRING)
    /\ Len(s) = Cardinality(KeptTo(n))
    /\ \A p \in KeptTo(n) : s[Cardinality(KeptTo(p))] = text[p]

LEMMA TextIs ==
  ASSUME ScanInv
  PROVE  /\ text \in Seq(STRING) /\ Len(text) \in Nat
         /\ \A p \in Scanner!Bytes : p \in Nat /\ p >= 1 /\ p <= Len(text)
         /\ \A p \in Scanner!Kept : p \in Scanner!Bytes
<1>1. text \in Seq(STRING)
  BY TextsAssumption DEF ScanInv, Scanner!ScannerAssumption
<1>2. \A p \in Scanner!Bytes : p \in Nat /\ p >= 1 /\ p <= Len(text)
  BY <1>1 DEF Scanner!Bytes
<1>3. \A p \in Scanner!Kept : p \in Scanner!Bytes
  BY DEF Scanner!Kept
<1> QED
  BY <1>1, <1>2, <1>3

LEMMA KeptIsFinite ==
  ASSUME ScanInv, NEW n
  PROVE  IsFiniteSet(KeptTo(n)) /\ Cardinality(KeptTo(n)) \in Nat
<1>1. Len(text) \in Nat
  BY TextIs
<1>2. IsFiniteSet(1..Len(text))
  <2>1. 1 \in Int /\ Len(text) \in Int
    BY <1>1
  <2> QED
    BY <2>1, FS_Interval
<1>3. KeptTo(n) \in SUBSET (1..Len(text))
  BY DEF KeptTo, Scanner!Kept, Scanner!Bytes
<1> QED
  BY <1>2, <1>3, FS_Subset, FS_CardinalityType

LEMMA HoldsNothing == ASSUME ScanInv PROVE Holds(<<>>, 0)
<1>1. KeptTo(0) = {}
  BY TextIs DEF KeptTo
<1> QED
  BY <1>1, FS_EmptySet DEF Holds

LEMMA HoldsDropped ==
  ASSUME ScanInv, NEW n \in Nat, NEW s, Holds(s, n), n + 1 \notin Scanner!Kept
  PROVE  Holds(s, n + 1)
<1>1. \A p \in Scanner!Kept : p \in Int
  BY TextIs
<1>2. KeptTo(n + 1) = KeptTo(n)
  BY <1>1 DEF KeptTo
<1> QED
  BY <1>2 DEF Holds

LEMMA HoldsKept ==
  ASSUME ScanInv, NEW n \in Nat, NEW s, Holds(s, n), n + 1 \in Scanner!Kept
  PROVE  Holds(Append(s, text[n + 1]), n + 1)
<1> DEFINE K == KeptTo(n)
           u == Append(s, text[n + 1])
<1>1. /\ text \in Seq(STRING) /\ n + 1 \in 1..Len(text)
      /\ \A p \in Scanner!Kept : p \in Int
  BY TextIs
<1>2. KeptTo(n + 1) = K \cup {n + 1} /\ n + 1 \notin K
  BY <1>1 DEF KeptTo
<1>3. Cardinality(KeptTo(n + 1)) = Cardinality(K) + 1 /\ Cardinality(K) \in Nat
  BY <1>2, KeptIsFinite, FS_AddElement
<1>4. /\ u \in Seq(STRING) /\ Len(u) = Len(s) + 1 /\ u[Len(s) + 1] = text[n + 1]
      /\ \A i \in 1..Len(s) : u[i] = s[i]
  <2>1. text[n + 1] \in STRING
    BY <1>1
  <2>2. s \in Seq(STRING)
    BY DEF Holds
  <2> QED
    BY <2>1, <2>2
<1>5. Len(s) = Cardinality(K)
  BY DEF Holds
<1>6. ASSUME NEW p \in K PROVE Cardinality(KeptTo(p)) \in 1..Cardinality(K)
  <2>1. KeptTo(p) \subseteq K /\ p \in KeptTo(p)
    <3>1. p \in Scanner!Kept /\ p <= n /\ p \in Int
      BY <1>1 DEF KeptTo
    <3>2. ASSUME NEW q \in KeptTo(p) PROVE q \in K
      <4>1. q \in Scanner!Kept /\ q <= p /\ q \in Int
        BY <1>1 DEF KeptTo
      <4>2. q <= n
        BY <3>1, <4>1
      <4> QED
        BY <4>1, <4>2 DEF KeptTo
    <3>3. p \in KeptTo(p)
      BY <3>1 DEF KeptTo
    <3> QED
      BY <3>2, <3>3
  <2>2. Cardinality(KeptTo(p)) <= Cardinality(K) /\ Cardinality(KeptTo(p)) \in Nat
    BY <2>1, KeptIsFinite, FS_Subset
  <2>3. Cardinality(KeptTo(p)) # 0
    BY <2>1, KeptIsFinite, FS_EmptySet
  <2> QED
    BY <1>3, <2>2, <2>3
<1> HIDE DEF u, K
<1>7. ASSUME NEW p \in KeptTo(n + 1) PROVE u[Cardinality(KeptTo(p))] = text[p]
  <2>1. CASE p = n + 1
    BY <1>3, <1>4, <1>5, <2>1
  <2>2. CASE p \in K
    <3>1. s[Cardinality(KeptTo(p))] = text[p]
      BY <2>2 DEF Holds, K
    <3> QED
      BY <1>4, <1>5, <1>6, <2>2, <3>1
  <2> QED
    BY <1>2, <2>1, <2>2
<1> QED
  BY <1>3, <1>4, <1>5, <1>7 DEF Holds, u

\* The lexer's mode is that of the file.
SameMode(l, m) ==
    /\ l = "plain"   => m \in {"plain", "slash"}
    /\ l = "string"  => m = "string"
    /\ l = "comment" => m \in {"comment", "star"}

StripInv ==
    lexer = "strip" =>
      /\ SameMode(lex.mode, Scanner!Mode[at])
      /\ at < Len(text) => /\ ~(Scanner!Mode[at] = "slash" /\ text[at + 1] = "*")
                           /\ ~(Scanner!Mode[at] = "star" /\ text[at + 1] = "/")
      /\ Holds(found, at)
      /\ over => at = Len(text)

LEMMA StripInvIsIt == ASSUME ScanInv, StripInv, lexer = "strip", over PROVE Scanner!IsStripped
<1>1. Len(text) \in Nat
  BY TextIs
<1>2. Holds(found, Len(text))
  BY DEF StripInv
<1>3. KeptTo(Len(text)) = Scanner!Kept
  BY <1>1 DEF KeptTo, Scanner!Kept, Scanner!Bytes
<1>4. \A S : Scanner!Cardinality(S) = Cardinality(S)
  BY DEF Scanner!Cardinality, Cardinality
<1> QED
  BY <1>2, <1>3, <1>4 DEF Holds, KeptTo, Scanner!IsStripped

LEMMA TextStays ==
  ASSUME text' = text
  PROVE  /\ Scanner!Mode' = Scanner!Mode
         /\ Scanner!Bytes' = Scanner!Bytes
         /\ Scanner!Kept' = Scanner!Kept
         /\ \A s : \A n : Holds(s, n) => Holds(s, n)'
<1>1. Scanner!Mode' = Scanner!Mode
  BY DEF Scanner!Mode
<1>2. Scanner!Bytes' = Scanner!Bytes
  BY DEF Scanner!Bytes
<1>3. Scanner!Kept' = Scanner!Kept
  BY <1>1, <1>2 DEF Scanner!Kept, Scanner!Comment
<1>4. \A n : KeptTo(n)' = KeptTo(n)
  BY <1>3 DEF KeptTo
<1>5. \A s : \A n : Holds(s, n) => Holds(s, n)'
  BY <1>4 DEF Holds
<1> QED
  BY <1>1, <1>2, <1>3, <1>5

\* Where a lexer of the next step holds what is kept and has the file's mode.
StripsTo(s, n, m) ==
    /\ Holds(s, n)
    /\ SameMode(m, Scanner!Mode[n])
    /\ n < Len(text) => /\ ~(Scanner!Mode[n] = "slash" /\ text[n + 1] = "*")
                        /\ ~(Scanner!Mode[n] = "star" /\ text[n + 1] = "/")

LEMMA StripStays ==
  ASSUME text' = text, StripsTo(found', at', lex'.mode), over' => at' = Len(text)
  PROVE  StripInv'
<1>1. PICK s, n : s = found' /\ n = at'
  OBVIOUS
<1>2. Holds(s, n)'
  BY <1>1, TextStays DEF StripsTo
<1> QED
  BY <1>1, <1>2, TextStays DEF StripInv, StripsTo, SameMode

LEMMA StripComments ==
  ASSUME ScanInv, StripInv, Scanner!StripComment
  PROVE  StripsTo(found', at', lex'.mode)
<1>1. /\ lexer = "strip" /\ lex.mode = "comment" /\ found' = found /\ at \in Nat /\ at < Len(text)
      /\ Holds(found, at) /\ Scanner!Mode[at] \in {"comment", "star"}
      /\ Scanner!Mode[at] = "star" => text[at + 1] # "/"
      /\ {"mode"} \subseteq DOMAIN lex
  BY TextIs DEF Scanner!StripComment, Scanner!Stripping, Scanner!Silent, StripInv, SameMode, ScanInv, Lexed
<1>2. /\ Scanner!Mode[at + 1] = Scanner!Turn(Scanner!Mode[at], text[at + 1])
      /\ Scanner!Mode[at + 2] = Scanner!Turn(Scanner!Mode[at + 1], text[at + 2])
  <2>1. at + 1 \in Nat /\ (at + 1) + 1 = at + 2
    BY <1>1
  <2> QED
    BY <1>1, <2>1, ModeIs
<1>3. Scanner!Mode[at + 1] = IF text[at + 1] = "*" THEN "star" ELSE "comment"
  BY <1>1, <1>2 DEF Scanner!Turn
<1>4. Holds(found, at + 1)
  <2>1. at + 1 \notin Scanner!Kept
    BY <1>3 DEF Scanner!Kept, Scanner!Comment
  <2> QED
    BY <1>1, <2>1, HoldsDropped
<1>5. CASE text[at + 1] = "*" /\ Scanner!Second = "/"
  <2>1. at' = at + 2 /\ lex'.mode = "plain" /\ text[at + 2] = "/"
    BY <1>1, <1>5 DEF Scanner!StripComment, Scanner!Byte, Scanner!Silent, Scanner!Eat, Scanner!Second, Scanner!Follow
  <2>2. Scanner!Mode[at + 2] = "plain"
    BY <1>2, <1>3, <1>5, <2>1 DEF Scanner!Turn
  <2>3. at + 2 \notin Scanner!Kept
    <3>1. (at + 2) - 1 = at + 1
      BY <1>1
    <3> QED
      BY <1>3, <1>5, <3>1 DEF Scanner!Kept, Scanner!Comment
  <2>4. Holds(found, at + 2)
    <3>1. at + 1 \in Nat /\ (at + 1) + 1 = at + 2
      BY <1>1
    <3> QED
      BY <1>4, <2>3, <3>1, HoldsDropped
  <2> QED
    BY <1>1, <2>1, <2>2, <2>4 DEF StripsTo, SameMode
<1>6. CASE ~(text[at + 1] = "*" /\ Scanner!Second = "/")
  <2>1. at' = at + 1 /\ lex' = lex
    BY <1>1, <1>6 DEF Scanner!StripComment, Scanner!Byte, Scanner!Silent, Scanner!Eat
  <2>2. at + 1 < Len(text) /\ text[at + 1] = "*" => text[at + 2] # "/"
    BY <1>1, <1>6, TextIs
       DEF Scanner!StripComment, Scanner!Stripping, Scanner!Second, Scanner!Lone, Scanner!Follow, ScanInv
  <2>3. (at + 1) + 1 = at + 2
    BY <1>1
  <2> QED
    BY <1>1, <1>3, <1>4, <2>1, <2>2, <2>3 DEF StripsTo, SameMode
<1> QED
  BY <1>5, <1>6

\* A byte outside comments that does not open one is kept.
LEMMA KeepsByte ==
  ASSUME ScanInv, at < end, NEW s, Holds(s, at),
         Scanner!Mode[at] \notin {"comment", "star"}, Scanner!Mode[at + 1] \notin {"comment", "star"},
         at + 1 < Len(text) /\ Scanner!Mode[at + 1] = "slash" => text[at + 2] # "*"
  PROVE  Holds(Append(s, text[at + 1]), at + 1)
<1>1. at \in Nat /\ at + 1 \in Nat /\ (at + 1) + 1 = at + 2 /\ (at + 1) - 1 = at
  BY DEF ScanInv
<1>2. at + 1 \in Scanner!Bytes /\ (at + 2 \in Scanner!Bytes => at + 1 < Len(text))
  BY <1>1, TextIs DEF ScanInv, Scanner!Bytes
<1>3. Scanner!Mode[at + 1] = "slash" /\ text[at + 2] # "*" => Scanner!Mode[at + 2] \notin {"comment", "star"}
  <2>1. Scanner!Mode[at + 2] = Scanner!Turn(Scanner!Mode[at + 1], text[at + 2])
    BY <1>1, ModeIs
  <2> QED
    BY <2>1 DEF Scanner!Turn
<1>4. at + 1 \in Scanner!Kept
  BY <1>1, <1>2, <1>3 DEF Scanner!Kept, Scanner!Comment
<1> QED
  BY <1>1, <1>4, HoldsKept

\* A lexer's output grows by the bytes it emits.
LEMMA EmitsOne ==
  ASSUME ScanInv, NEW s \in Seq(STRING), at < Len(text)
  PROVE  s \o SubSeq(text, at + 1, at + 1) = Append(s, text[at + 1])
<1>1. text \in Seq(STRING) /\ at \in Nat /\ Len(text) \in Nat
  BY TextIs DEF ScanInv
<1> QED
  BY <1>1

LEMMA EmitsTwo ==
  ASSUME ScanInv, NEW s \in Seq(STRING), at + 1 < Len(text)
  PROVE  s \o SubSeq(text, at + 1, at + 2) = Append(Append(s, text[at + 1]), text[at + 2])
<1>1. text \in Seq(STRING) /\ at \in Nat /\ Len(text) \in Nat
  BY TextIs DEF ScanInv
<1> QED
  BY <1>1

LEMMA LexerStays ==
  ASSUME ScanInv, [Scanner!Next]_scanVars
  PROVE  lexer' = lexer /\ text' = text
<1>1. CASE Scanner!Resolve
  BY <1>1 DEF ScanInv, Lexed, Pends, Scanner!Resolve, Scanner!Silent, Scanner!Eat
<1>2. CASE Scanner!InPlain
  BY <1>2 DEF Scanner!InPlain, Scanner!Close, Scanner!Silent, Scanner!Eat
<1>3. CASE \/ UNCHANGED scanVars \/ Scanner!HashDigit \/ Scanner!HashEnd
           \/ Scanner!OpenStatement \/ Scanner!InComment \/ Scanner!InString
  BY <1>3 DEF scanVars, Scanner!OpenStatement, Scanner!HashDigit, Scanner!HashEnd, Scanner!InComment,
              Scanner!InString, Scanner!Close, Scanner!Silent, Scanner!Eat
<1>4. CASE Scanner!StripComment \/ Scanner!StripString \/ Scanner!StripPlain
  BY <1>4 DEF Scanner!StripComment, Scanner!StripString, Scanner!StripPlain,
              Scanner!Silent, Scanner!Emit, Scanner!Eat
<1>5. CASE (\E n \in 1..Len(text) : Scanner!ReadChunk(n)) \/ Scanner!EndOfData \/ Scanner!Stripped
  BY <1>5 DEF Scanner!ReadChunk, Scanner!EndOfData, Scanner!Stripped
<1> QED
  BY <1>1, <1>2, <1>3, <1>4, <1>5 DEF Scanner!Next

LEMMA StripStrings ==
  ASSUME ScanInv, StripInv, Scanner!StripString
  PROVE  StripsTo(found', at', lex'.mode)
<1>1. /\ lexer = "strip" /\ lex.mode = "string" /\ at \in Nat /\ at < end /\ at < Len(text)
      /\ end <= Len(text)
      /\ Holds(found, at) /\ Scanner!Mode[at] = "string"
      /\ {"mode"} \subseteq DOMAIN lex
  BY TextIs DEF Scanner!StripString, Scanner!Stripping, StripInv, SameMode, ScanInv, Lexed
<1>2. /\ at + 1 \in Nat /\ (at + 1) + 1 = at + 2
      /\ Scanner!Mode[at + 1] = Scanner!Turn("string", text[at + 1])
      /\ Scanner!Mode[at + 2] = Scanner!Turn(Scanner!Mode[at + 1], text[at + 2])
  <2>1. at + 1 \in Nat /\ (at + 1) + 1 = at + 2
    BY <1>1
  <2> QED
    BY <1>1, <2>1, ModeIs
<1>3. Scanner!Mode[at + 1] = IF text[at + 1] = "'" THEN "plain" ELSE "string"
  BY <1>2 DEF Scanner!Turn
<1> DEFINE one == Append(found, text[at + 1])
<1>4. Holds(one, at + 1)
  <2>1. /\ Scanner!Mode[at] \notin {"comment", "star"}
        /\ Scanner!Mode[at + 1] \notin {"comment", "star", "slash"}
    BY <1>1, <1>3
  <2> QED
    BY <1>1, <2>1, KeepsByte
<1>5. found \in Seq(STRING) /\ one \in Seq(STRING)
  BY <1>1, <1>4 DEF Holds
<1>6. ASSUME NEW l, Scanner!Emit(1, l), SameMode(l.mode, Scanner!Mode[at + 1])
      PROVE  StripsTo(found', at', lex'.mode)
  <2>1. found' = one /\ at' = at + 1 /\ lex' = l
    BY <1>1, <1>5, <1>6, EmitsOne DEF Scanner!Emit, Scanner!Eat
  <2> HIDE DEF one
  <2> QED
    BY <1>3, <1>4, <1>6, <2>1 DEF StripsTo
<1>7. CASE text[at + 1] = "'" /\ Scanner!Second = "'"
  <2>1. /\ Scanner!Emit(2, lex) /\ text[at + 2] = "'" /\ at + 1 < end
    BY <1>1, <1>7 DEF Scanner!StripString, Scanner!Byte, Scanner!Second, Scanner!Follow, Scanner!Lone, ScanInv
  <2>2. Scanner!Mode[at + 2] = "string"
    BY <1>2, <1>3, <1>7, <2>1 DEF Scanner!Turn
  <2>3. at + 2 \in Scanner!Kept
    <3>1. at + 2 \in 1..Len(text) /\ (at + 2) - 1 = at + 1
      BY <1>1, <2>1, TextIs DEF ScanInv
    <3> QED
      BY <1>3, <1>7, <2>2, <3>1 DEF Scanner!Kept, Scanner!Comment, Scanner!Bytes
  <2>4. Holds(Append(one, text[at + 2]), at + 2)
    <3>1. PICK n \in Nat : n = at + 1 /\ n + 1 = at + 2
      BY <1>2
    <3> HIDE DEF one
    <3>2. Holds(one, n) /\ n + 1 \in Scanner!Kept
      BY <1>4, <2>3, <3>1
    <3>3. \A k : k = n + 1 => Holds(Append(one, text[k]), k)
      BY <3>2, HoldsKept
    <3> QED
      BY <3>1, <3>3
  <2>5. found' = Append(one, text[at + 2]) /\ at' = at + 2 /\ lex' = lex
    <3>1. at + 1 < Len(text)
      BY <1>1, <2>1, TextIs DEF ScanInv
    <3>2. found \o SubSeq(text, at + 1, at + 2) = Append(one, text[at + 2])
      BY <1>5, <3>1, EmitsTwo
    <3> QED
      BY <2>1, <3>2 DEF Scanner!Emit, Scanner!Eat
  <2> HIDE DEF one
  <2> QED
    BY <1>1, <2>2, <2>4, <2>5 DEF StripsTo, SameMode
<1>8. CASE text[at + 1] # "'"
  <2>1. Scanner!Emit(1, lex)
    BY <1>8 DEF Scanner!StripString, Scanner!Byte
  <2> QED
    BY <1>1, <1>3, <1>6, <1>8, <2>1 DEF SameMode
<1>9. CASE text[at + 1] = "'" /\ Scanner!Second # "'"
  <2>1. Scanner!Emit(1, [lex EXCEPT !.mode = "plain"])
    BY <1>9 DEF Scanner!StripString, Scanner!Byte
  <2>2. [lex EXCEPT !.mode = "plain"].mode = "plain"
    BY <1>1
  <2> QED
    BY <1>3, <1>6, <1>9, <2>1, <2>2 DEF SameMode
<1> QED
  BY <1>7, <1>8, <1>9

LEMMA StripPlains ==
  ASSUME ScanInv, StripInv, Scanner!StripPlain
  PROVE  StripsTo(found', at', lex'.mode)
<1>1. /\ lexer = "strip" /\ lex.mode = "plain" /\ at \in Nat /\ at < end /\ at < Len(text)
      /\ end <= Len(text) /\ (at + 1 # end \/ end = Len(text))
      /\ Holds(found, at) /\ Scanner!Mode[at] \in {"plain", "slash"}
      /\ ~(Scanner!Mode[at] = "slash" /\ text[at + 1] = "*")
      /\ {"mode"} \subseteq DOMAIN lex
  BY TextIs DEF Scanner!StripPlain, Scanner!Stripping, Scanner!Lone, StripInv, SameMode, ScanInv, Lexed
<1>2. /\ at + 1 \in Nat /\ (at + 1) + 1 = at + 2
      /\ Scanner!Mode[at + 1] = Scanner!Turn(Scanner!Mode[at], text[at + 1])
      /\ Scanner!Mode[at + 2] = Scanner!Turn(Scanner!Mode[at + 1], text[at + 2])
  <2>1. at + 1 \in Nat /\ (at + 1) + 1 = at + 2
    BY <1>1
  <2> QED
    BY <1>1, <2>1, ModeIs
<1>3. Scanner!Mode[at + 1] = IF text[at + 1] = "'" THEN "string"
                             ELSE IF text[at + 1] = "/" THEN "slash" ELSE "plain"
  BY <1>1, <1>2 DEF Scanner!Turn
<1>4. CASE text[at + 1] = "/" /\ Scanner!Second = "*"
  <2>1. /\ Scanner!Silent(2, [lex EXCEPT !.mode = "comment"]) /\ text[at + 2] = "*" /\ at + 1 < end
    BY <1>1, <1>4 DEF Scanner!StripPlain, Scanner!Byte, Scanner!Second, Scanner!Follow, Scanner!Lone, ScanInv
  <2>2. Scanner!Mode[at + 1] = "slash" /\ Scanner!Mode[at + 2] = "comment"
    BY <1>2, <1>3, <1>4, <2>1 DEF Scanner!Turn
  <2>3. at + 1 \notin Scanner!Kept /\ at + 2 \notin Scanner!Kept
    <3>1. at + 2 \in 1..Len(text) /\ (at + 1) + 1 = at + 2
      BY <1>1, <2>1, TextIs DEF ScanInv
    <3> QED
      BY <2>2, <3>1 DEF Scanner!Kept, Scanner!Comment, Scanner!Bytes
  <2>4. Holds(found, at + 1)
    BY <1>1, <2>3, HoldsDropped
  <2>5. Holds(found, at + 2)
    BY <1>2, <2>3, <2>4, HoldsDropped
  <2>6. found' = found /\ at' = at + 2 /\ lex'.mode = "comment"
    BY <1>1, <2>1 DEF Scanner!Silent, Scanner!Eat
  <2> QED
    BY <2>2, <2>5, <2>6 DEF StripsTo, SameMode
<1>5. CASE ~(text[at + 1] = "/" /\ Scanner!Second = "*")
  <2> DEFINE one == Append(found, text[at + 1])
  <2>1. at + 1 < Len(text) /\ text[at + 1] = "/" => text[at + 2] # "*"
    BY <1>1, <1>5 DEF Scanner!Second, Scanner!Lone, Scanner!Follow
  <2>2. Holds(one, at + 1)
    <3>1. /\ Scanner!Mode[at] \notin {"comment", "star"}
          /\ Scanner!Mode[at + 1] \notin {"comment", "star"}
          /\ Scanner!Mode[at + 1] = "slash" => text[at + 1] = "/"
      BY <1>1, <1>3
    <3> QED
      BY <1>1, <2>1, <3>1, KeepsByte
  <2>3. PICK l : Scanner!Emit(1, l) /\ l.mode = IF text[at + 1] = "'" THEN "string" ELSE "plain"
    <3>1. CASE text[at + 1] = "'"
      <4>1. Scanner!Emit(1, [lex EXCEPT !.mode = "string"])
        BY <3>1 DEF Scanner!StripPlain, Scanner!Byte
      <4>2. [lex EXCEPT !.mode = "string"].mode = "string"
        BY <1>1
      <4> QED
        BY <3>1, <4>1, <4>2
    <3>2. CASE text[at + 1] # "'"
      <4>1. Scanner!Emit(1, lex)
        BY <1>5, <3>2 DEF Scanner!StripPlain, Scanner!Byte
      <4> QED
        BY <1>1, <3>2, <4>1
    <3> QED
      BY <3>1, <3>2
  <2>4. found' = one /\ at' = at + 1 /\ lex' = l
    <3>1. found \in Seq(STRING)
      BY <1>1 DEF Holds
    <3> QED
      BY <1>1, <2>3, <3>1, EmitsOne DEF Scanner!Emit, Scanner!Eat
  <2> HIDE DEF one
  <2>5. SameMode(l.mode, Scanner!Mode[at + 1])
    BY <1>3, <2>3 DEF SameMode
  <2> QED
    BY <1>2, <1>3, <2>1, <2>2, <2>4, <2>5 DEF StripsTo
<1> QED
  BY <1>4, <1>5

LEMMA StripSteps ==
  ASSUME ScanInv, StripInv, [Scanner!Next]_scanVars
  PROVE  StripInv'
<1>1. SUFFICES ASSUME lexer = "strip" PROVE StripInv'
  BY LexerStays DEF StripInv
<1>2. ASSUME text' = text, at' = at, lex' = lex, found' = found, over' => over \/ at = Len(text)
      PROVE  StripInv'
  <2>1. StripsTo(found', at', lex'.mode) /\ (over' => at' = Len(text))
    BY <1>1, <1>2 DEF StripInv, StripsTo
  <2> QED
    BY <1>2, <2>1, StripStays
<1>3. ASSUME StripsTo(found', at', lex'.mode), text' = text, ~over'
      PROVE  StripInv'
  BY <1>3, StripStays
<1>4. CASE \E n \in 1..Len(text) : Scanner!ReadChunk(n)
  BY <1>2, <1>4 DEF Scanner!ReadChunk
<1>5. CASE Scanner!StripComment
  BY <1>3, <1>5, StripComments DEF Scanner!StripComment, Scanner!Stripping, Scanner!Silent, Scanner!Eat
<1>6. CASE Scanner!StripString
  <2>1. text' = text /\ ~over'
    BY <1>6 DEF Scanner!StripString, Scanner!Stripping, Scanner!Emit, Scanner!Eat
  <2> QED
    BY <1>3, <1>6, <2>1, StripStrings
<1>7. CASE Scanner!StripPlain
  <2>1. text' = text /\ ~over'
    BY <1>7 DEF Scanner!StripPlain, Scanner!Stripping, Scanner!Emit, Scanner!Silent, Scanner!Eat
  <2> QED
    BY <1>3, <1>7, <2>1, StripPlains
<1>8. CASE Scanner!Stripped
  BY <1>2, <1>8 DEF Scanner!Stripped
<1>9. CASE UNCHANGED scanVars
  BY <1>2, <1>9 DEF scanVars
<1>10. ~(Scanner!Resolve \/ Scanner!OpenStatement \/ Scanner!HashDigit \/ Scanner!HashEnd
         \/ Scanner!InComment \/ Scanner!InString \/ Scanner!InPlain \/ Scanner!EndOfData)
  BY <1>1 DEF Scanner!Resolve, Scanner!OpenStatement, Scanner!HashDigit, Scanner!HashEnd, Scanner!InComment,
          Scanner!InString, Scanner!InPlain, Scanner!EndOfData, Scanner!Inside, Scanner!Ready, Scanner!Scanning
<1> QED
  BY <1>4, <1>5, <1>6, <1>7, <1>8, <1>9, <1>10 DEF Scanner!Next

-----------------------------------------------------------------------------
(* Scanning a regular file.  The lexer is in the mode of the file, but for a  *)
(* quote or a slash that a chunk's end has left open; what it found are the   *)
(* statements up to there; and the open one has the references of the names   *)
(* it has read to their end, all of its names but the one it is reading.      *)

LexStates ==
    [open : BOOLEAN, start : Nat, mode : Modes, pend : Pends, hashing : BOOLEAN,
     hash : Seq(STRING), owner : BOOLEAN, refs : Seq(Seq(STRING))]

Statements == [start : Nat, end : Nat, refs : Seq(Seq(STRING))]

Reading(l, n) ==
    /\ l.hashing => l.mode = "plain" /\ l.pend = "none"
    /\ \/ l.mode = "plain"  /\ l.pend = "none"  /\ Scanner!Mode[n] \in {"plain", "slash"}
       \/ l.mode = "plain"  /\ l.pend = "slash" /\ Scanner!Mode[n] = "slash"
       \/ l.mode = "string" /\ l.pend = "none"  /\ Scanner!Mode[n] = "string"
       \/ l.mode = "string" /\ l.pend = "quote" /\ Scanner!Mode[n] = "plain"

FoundTo(f, n) ==
    /\ f \in Seq(Statements)
    /\ \A i \in DOMAIN f : /\ f[i].end \in Scanner!Terminators /\ f[i].end <= n
                           /\ Scanner!Lists(f[i].refs, Scanner!References(f[i].start, f[i].end))
    /\ \A t \in Scanner!Terminators : t <= n => \E i \in DOMAIN f : f[i].end = t

\* The name being read, and the names of the open statement before it.
Begun(l, n) == n - Len(l.hash)
Past(l, n)  == {r \in Scanner!Names : l.start < r /\ r <= n /\ ~(l.hashing /\ r = Begun(l, n))}

Naming(l, n) ==
    IF l.hashing
    THEN /\ Begun(l, n) \in Scanner!Names /\ l.start < Begun(l, n)
         /\ \A r \in (Begun(l, n) + 1)..n : text[r] \in Digits
         /\ \A k \in 1..Len(l.hash) : l.hash[k] = text[Begun(l, n) + k]
    ELSE l.hash = <<>>

Gathers(l, n) ==
    /\ l.start + 1 \in Scanner!Bytes /\ l.start <= n
    /\ text[l.start + 1] \notin Blanks
    /\ \A t \in Scanner!Terminators : t <= n => t <= l.start
    /\ Naming(l, n)
    /\ \A r \in Past(l, n) : \E q \in Scanner!Bytes : q <= n /\ Scanner!Ends(q, r)
    /\ l.owner <=> Past(l, n) = {}
    /\ Scanner!Lists(l.refs, Scanner!References(l.start, n))

Rests(l, n) ==
    /\ l.mode = "plain" /\ l.pend = "none" /\ ~l.hashing
    /\ \A q \in Scanner!Bytes : q <= n /\ text[q] \notin Blanks =>
          \E t \in Scanner!Terminators : q <= t /\ t <= n

ReadsTo(l, n, f) ==
    /\ l \in LexStates
    /\ Reading(l, n)
    /\ FoundTo(f, n)
    /\ IF l.open THEN Gathers(l, n) ELSE Rests(l, n)

ScanReads ==
    lexer = "scan" /\ Scanner!Regular =>
        IF over THEN Scanner!Scanned ELSE ReadsTo(lex, at, found)

\* The bytes of the grammar are no digits.
LEMMA GrammarBytes ==
  ASSUME ScanInv
  PROVE  /\ \A b \in Digits \cup Blanks : b \notin {"'", "/", "*", "#", ";", "="}
         /\ \A p \in Scanner!Bytes : p \in Nat /\ p >= 1 /\ p <= Len(text) /\ text[p] \in STRING
         /\ text \in Seq(STRING) /\ Len(text) \in Nat
         /\ \A p \in Nat : p < Len(text) => p + 1 \in Scanner!Bytes
<1>1. text \in Seq(STRING) /\ Len(text) \in Nat
  BY TextIs
<1>2. \A b \in Digits \cup Blanks : b \notin {"'", "/", "*", "#", ";", "="}
  BY TextsAssumption DEF Scanner!ScannerAssumption
<1>3. \A p \in Scanner!Bytes : p \in Nat /\ p >= 1 /\ p <= Len(text) /\ text[p] \in STRING
  BY <1>1 DEF Scanner!Bytes
<1>4. \A p \in Nat : p < Len(text) => p + 1 \in Scanner!Bytes
  BY <1>1 DEF Scanner!Bytes
<1> QED
  BY <1>1, <1>2, <1>3, <1>4

LEMMA SetsAreIn ==
  ASSUME ScanInv
  PROVE  /\ \A p \in Scanner!Names : p \in Scanner!Bytes /\ text[p] = "#" /\ Scanner!Mode[p] = "plain"
         /\ \A p \in Scanner!Terminators : p \in Scanner!Bytes /\ text[p] = ";" /\ Scanner!Mode[p] = "plain"
         /\ \A p \in Scanner!Names : p \in Nat
         /\ \A p \in Scanner!Terminators : p \in Nat
  BY GrammarBytes DEF Scanner!Names, Scanner!Terminators

\* How the mode of a regular file moves on.
LEMMA RegularModes ==
  ASSUME ScanInv, Scanner!Regular, NEW n \in Nat, n < Len(text)
  PROVE  /\ Scanner!Mode[n] \in {"plain", "slash", "string"}
         /\ Scanner!Mode[n + 1] = IF Scanner!Mode[n] = "string"
                                  THEN IF text[n + 1] = "'" THEN "plain" ELSE "string"
                                  ELSE IF text[n + 1] = "'" THEN "string"
                                  ELSE IF text[n + 1] = "/" THEN "slash" ELSE "plain"
         /\ ~(Scanner!Mode[n] = "slash" /\ text[n + 1] = "*")
<1>1. /\ Scanner!Mode[n] \in FileModes
      /\ Scanner!Mode[n + 1] = Scanner!Turn(Scanner!Mode[n], text[n + 1])
      /\ Scanner!Mode[0] = "plain"
  BY ModeIs
<1>2. n # 0 => n \in Scanner!Bytes
  BY TextIs DEF Scanner!Bytes
<1>3. n + 1 \in Scanner!Bytes
  BY GrammarBytes
<1>4. Scanner!Mode[n] \in {"plain", "slash", "string"}
  <2>1. CASE n = 0
    BY <1>1, <2>1
  <2>2. CASE n # 0
    BY <1>1, <1>2, <2>2 DEF Scanner!Regular, Scanner!Comment, FileModes
  <2> QED
    BY <2>1, <2>2
<1>5. Scanner!Mode[n + 1] \notin {"comment", "star"}
  BY <1>3 DEF Scanner!Regular, Scanner!Comment
<1> QED
  BY <1>1, <1>4, <1>5 DEF Scanner!Turn

LEMMA ReferencesAreFinite ==
  ASSUME ScanInv, NEW s, NEW n
  PROVE  /\ IsFiniteSet(Scanner!References(s, n))
         /\ Cardinality(Scanner!References(s, n)) \in Nat
<1>1. 1 \in Int /\ Len(text) \in Int
  BY TextIs
<1>2. IsFiniteSet(1..Len(text))
  BY <1>1, FS_Interval
<1>3. Scanner!References(s, n) \in SUBSET (1..Len(text))
  BY DEF Scanner!References, Scanner!Names, Scanner!Bytes
<1> QED
  BY <1>2, <1>3, FS_Subset, FS_CardinalityType

\* A name has one end, and what is between is digits.
LEMMA OneEnd ==
  ASSUME ScanInv, NEW p \in Nat, NEW q \in Nat, NEW n \in Nat, q <= n, Scanner!Ends(q, p)
  PROVE  ~Scanner!Ends(n + 1, p)
<1>1. q \in (p + 1)..((n + 1) - 1) /\ text[q] \notin Digits
  BY DEF Scanner!Ends
<1> QED
  BY <1>1 DEF Scanner!Ends

\* A reference is new with a byte only if a name ends there.
LEMMA SameReferences ==
  ASSUME ScanInv, NEW n \in Nat, NEW s \in Nat,
         \A r \in Scanner!Names : s < r => ~Scanner!Ends(n + 1, r)
  PROVE  Scanner!References(s, n + 1) = Scanner!References(s, n)
<1>1. \A p \in Nat : \A q \in (p + 2)..(n + 1) : q = n + 1 \/ q \in (p + 2)..n
  OBVIOUS
<1>2. \A p \in Nat : \A q \in (p + 2)..n : q \in (p + 2)..(n + 1)
  OBVIOUS
<1> QED
  BY <1>1, <1>2, SetsAreIn DEF Scanner!References

\* When no name is being read none ends.
LEMMA NoneEnds ==
  ASSUME ScanInv, NEW n \in Nat, NEW l \in LexStates, Gathers(l, n), ~l.hashing
  PROVE  \A r \in Scanner!Names : l.start < r => ~Scanner!Ends(n + 1, r)
<1>1. ASSUME NEW r \in Scanner!Names, l.start < r, Scanner!Ends(n + 1, r)
      PROVE  FALSE
  <2>1. r \in Nat /\ r < n + 1
    BY <1>1, SetsAreIn DEF Scanner!Ends
  <2>2. r \in Past(l, n)
    BY <1>1, <2>1 DEF Past
  <2>3. PICK q \in Scanner!Bytes : q <= n /\ Scanner!Ends(q, r)
    BY <2>2 DEF Gathers
  <2>4. q \in Nat
    BY GrammarBytes
  <2> QED
    BY <1>1, <2>1, <2>3, <2>4, OneEnd
<1> QED
  BY <1>1

\* Up to the next byte.
LEMMA NextByte ==
  ASSUME ScanInv, NEW n \in Nat
  PROVE  /\ \A t \in Scanner!Terminators : (t <= n + 1 <=> t <= n \/ t = n + 1) /\ (t <= n => t # n + 1)
         /\ \A r \in Scanner!Names : (r <= n + 1 <=> r <= n \/ r = n + 1) /\ (r <= n => r # n + 1)
         /\ \A q \in Scanner!Bytes : (q <= n + 1 <=> q <= n \/ q = n + 1) /\ (q <= n => q # n + 1)
<1>1. \A t \in Nat : (t <= n + 1 <=> t <= n \/ t = n + 1) /\ (t <= n => t # n + 1)
  OBVIOUS
<1>2. \A q \in Scanner!Bytes : q \in Nat
  BY GrammarBytes
<1> QED
  BY <1>1, <1>2, SetsAreIn

LEMMA FoundStays ==
  ASSUME ScanInv, NEW n \in Nat, NEW f, FoundTo(f, n), n + 1 \notin Scanner!Terminators
  PROVE  FoundTo(f, n + 1)
<1>1. \A t \in Scanner!Terminators : t <= n + 1 => t <= n
  BY NextByte
<1>2. \A t \in Scanner!Terminators : t <= n => t <= n + 1
  BY NextByte
<1> QED
  BY <1>1, <1>2 DEF FoundTo

LEMMA FoundGrows ==
  ASSUME ScanInv, NEW n \in Nat, NEW f, FoundTo(f, n), n + 1 \in Scanner!Terminators,
         NEW r \in Statements, r.end = n + 1,
         Scanner!Lists(r.refs, Scanner!References(r.start, n + 1))
  PROVE  FoundTo(Append(f, r), n + 1)
<1> DEFINE g == Append(f, r)
<1>1. /\ g \in Seq(Statements) /\ f \in Seq(Statements) /\ Len(f) \in Nat
      /\ DOMAIN g = 1..(Len(f) + 1) /\ DOMAIN f = 1..Len(f)
      /\ g[Len(f) + 1] = r
      /\ \A i \in 1..Len(f) : g[i] = f[i]
  BY DEF FoundTo
<1>2. \A i \in DOMAIN g : i = Len(f) + 1 \/ i \in DOMAIN f
  BY <1>1
<1>3. \A i \in DOMAIN f : i \in DOMAIN g /\ g[i] = f[i]
  BY <1>1
<1>4. Len(f) + 1 \in DOMAIN g
  BY <1>1
<1>5. \A t \in Scanner!Terminators : t <= n + 1 => t = n + 1 \/ t <= n
  BY NextByte
<1>6. \A t \in Scanner!Terminators : t <= n => t <= n + 1
  BY NextByte
<1> HIDE DEF g
<1>7. ASSUME NEW i \in DOMAIN g
      PROVE  /\ g[i].end \in Scanner!Terminators /\ g[i].end <= n + 1
             /\ Scanner!Lists(g[i].refs, Scanner!References(g[i].start, g[i].end))
  <2>1. CASE i = Len(f) + 1
    BY <1>1, <2>1
  <2>2. CASE i \in DOMAIN f
    <3>1. g[i] = f[i]
      BY <1>3, <2>2
    <3>2. /\ f[i].end \in Scanner!Terminators /\ f[i].end <= n
          /\ Scanner!Lists(f[i].refs, Scanner!References(f[i].start, f[i].end))
      BY <2>2 DEF FoundTo
    <3> QED
      BY <1>6, <3>1, <3>2
  <2> QED
    BY <1>2, <2>1, <2>2
<1>8. ASSUME NEW t \in Scanner!Terminators, t <= n + 1
      PROVE  \E i \in DOMAIN g : g[i].end = t
  <2>1. CASE t = n + 1
    BY <1>1, <1>4, <2>1
  <2>2. CASE t <= n
    BY <1>3, <2>2 DEF FoundTo
  <2> QED
    BY <1>5, <1>8, <2>1, <2>2
<1> QED
  BY <1>1, <1>7, <1>8 DEF FoundTo, g

\* The statement of l and of m are the same.
Alike(m, l) ==
    /\ m \in LexStates /\ l \in LexStates
    /\ m.open /\ l.open
    /\ m.start = l.start /\ m.owner = l.owner /\ m.refs = l.refs

\* A byte that begins or ends no name and no statement.
LEMMA Passes ==
  ASSUME ScanInv, NEW n \in Nat, NEW l, NEW m, NEW f, ReadsTo(l, n, f), Alike(m, l),
         n + 1 \notin Scanner!Terminators, n + 1 \notin Scanner!Names,
         ~l.hashing, ~m.hashing, m.hash = <<>>, Reading(m, n + 1)
  PROVE  ReadsTo(m, n + 1, f)
<1>1. Gathers(l, n) /\ FoundTo(f, n) /\ l \in LexStates /\ m \in LexStates /\ l.start \in Nat
  BY DEF ReadsTo, Alike, LexStates
<1>2. FoundTo(f, n + 1)
  BY <1>1, FoundStays
<1>3. Scanner!References(l.start, n + 1) = Scanner!References(l.start, n)
  BY <1>1, NoneEnds, SameReferences
<1>4. Past(m, n + 1) = Past(l, n)
  <2>1. \A r \in Scanner!Names : r <= n + 1 <=> r <= n
    BY NextByte
  <2> QED
    BY <2>1 DEF Past, Alike
<1>5. \A t \in Scanner!Terminators : t <= n + 1 => t <= l.start
  <2>1. \A t \in Scanner!Terminators : t <= n + 1 => t <= n
    BY NextByte
  <2> QED
    BY <1>1, <2>1 DEF Gathers
<1>6. \A q \in Scanner!Bytes : q <= n => q <= n + 1
  BY NextByte
<1>7. l.start <= n + 1
  BY <1>1 DEF Gathers
<1>8. Gathers(m, n + 1)
  <2>1. \A r \in Past(m, n + 1) : \E q \in Scanner!Bytes : q <= n + 1 /\ Scanner!Ends(q, r)
    BY <1>1, <1>4, <1>6 DEF Gathers
  <2>2. Naming(m, n + 1)
    BY DEF Naming
  <2> QED
    BY <1>1, <1>3, <1>4, <1>5, <1>7, <2>1, <2>2 DEF Gathers, Alike
<1> QED
  BY <1>1, <1>2, <1>8 DEF ReadsTo, Alike

\* A "#" outside strings begins a name.
LEMMA BeginsName ==
  ASSUME ScanInv, NEW n \in Nat, NEW l, NEW m, NEW f, ReadsTo(l, n, f), Alike(m, l),
         n + 1 \in Scanner!Names,
         ~l.hashing, m.hashing, m.hash = <<>>, Reading(m, n + 1)
  PROVE  ReadsTo(m, n + 1, f)
<1>1. /\ Gathers(l, n) /\ FoundTo(f, n) /\ l \in LexStates /\ m \in LexStates
      /\ l.start \in Nat /\ l.start <= n
  BY DEF ReadsTo, Alike, LexStates, Gathers
<1>2. n + 1 \notin Scanner!Terminators
  BY SetsAreIn
<1>3. FoundTo(f, n + 1)
  BY <1>1, <1>2, FoundStays
<1>4. Scanner!References(l.start, n + 1) = Scanner!References(l.start, n)
  BY <1>1, NoneEnds, SameReferences
<1>5. Begun(m, n + 1) = n + 1
  BY DEF Begun
<1>6. Past(m, n + 1) = Past(l, n)
  <2>1. \A r \in Scanner!Names : (r <= n + 1 /\ r # n + 1) <=> r <= n
    BY NextByte
  <2> QED
    BY <1>5, <2>1 DEF Past, Alike
<1>7. \A t \in Scanner!Terminators : t <= n + 1 => t <= l.start
  <2>1. \A t \in Scanner!Terminators : t <= n + 1 => t <= n
    BY <1>2, NextByte
  <2> QED
    BY <1>1, <2>1 DEF Gathers
<1>8. \A q \in Scanner!Bytes : q <= n => q <= n + 1
  BY NextByte
<1>9. Gathers(m, n + 1)
  <2>1. \A r \in Past(m, n + 1) : \E q \in Scanner!Bytes : q <= n + 1 /\ Scanner!Ends(q, r)
    BY <1>1, <1>6, <1>8 DEF Gathers
  <2>2. Naming(m, n + 1)
    <3>1. Len(m.hash) = 0 /\ 1..0 = {}
      OBVIOUS
    <3> QED
      BY <1>1, <1>5, <3>1 DEF Naming, Alike
  <2>3. m.start <= n + 1
    BY <1>1 DEF Alike
  <2> QED
    BY <1>1, <1>4, <1>6, <1>7, <2>1, <2>2, <2>3 DEF Gathers, Alike
<1> QED
  BY <1>1, <1>3, <1>9 DEF ReadsTo, Alike

LEMMA ReadsDigit ==
  ASSUME ScanInv, NEW n \in Nat, NEW l, NEW m, NEW f, ReadsTo(l, n, f), Alike(m, l),
         n < Len(text), text[n + 1] \in Digits,
         l.hashing, m.hashing, m.hash = Append(l.hash, text[n + 1]), Reading(m, n + 1)
  PROVE  ReadsTo(m, n + 1, f)
<1>1. /\ Gathers(l, n) /\ FoundTo(f, n) /\ l \in LexStates /\ m \in LexStates
      /\ l.start \in Nat /\ l.start <= n
  BY DEF ReadsTo, Alike, LexStates, Gathers
<1>2. n + 1 \notin Scanner!Terminators /\ n + 1 \notin Scanner!Names
  BY SetsAreIn, GrammarBytes
<1>3. FoundTo(f, n + 1)
  BY <1>1, <1>2, FoundStays
<1>4. Scanner!References(l.start, n + 1) = Scanner!References(l.start, n)
  <2>1. \A r \in Scanner!Names : ~Scanner!Ends(n + 1, r)
    BY DEF Scanner!Ends
  <2> QED
    BY <1>1, <2>1, SameReferences
<1>5. Begun(m, n + 1) = Begun(l, n)
  <2>1. Len(m.hash) = Len(l.hash) + 1 /\ Len(l.hash) \in Nat
    BY <1>1 DEF LexStates
  <2> QED
    BY <2>1 DEF Begun
<1>6. Past(m, n + 1) = Past(l, n)
  <2>1. \A r \in Scanner!Names : r <= n + 1 <=> r <= n
    BY <1>2, NextByte
  <2> QED
    BY <1>5, <2>1 DEF Past, Alike
<1>7. \A t \in Scanner!Terminators : t <= n + 1 => t <= l.start
  <2>1. \A t \in Scanner!Terminators : t <= n + 1 => t <= n
    BY <1>2, NextByte
  <2> QED
    BY <1>1, <2>1 DEF Gathers
<1>8. \A q \in Scanner!Bytes : q <= n => q <= n + 1
  BY NextByte
<1>9. Gathers(m, n + 1)
  <2>1. \A r \in Past(m, n + 1) : \E q \in Scanner!Bytes : q <= n + 1 /\ Scanner!Ends(q, r)
    BY <1>1, <1>6, <1>8 DEF Gathers
  <2>2. Naming(m, n + 1)
    <3>1. /\ Begun(l, n) \in Scanner!Names /\ l.start < Begun(l, n) /\ Begun(l, n) \in Nat
          /\ \A r \in (Begun(l, n) + 1)..n : text[r] \in Digits
      BY <1>1, SetsAreIn DEF Gathers, Naming
    <3>2. \A r \in (Begun(l, n) + 1)..(n + 1) : r = n + 1 \/ r \in (Begun(l, n) + 1)..n
      BY <3>1
    <3>3. \A k \in 1..Len(m.hash) : m.hash[k] = text[Begun(l, n) + k]
      <4>1. PICK p \in Nat, h \in Seq(STRING), b \in STRING :
               p = Begun(l, n) /\ h = l.hash /\ b = text[n + 1]
        BY <1>1, <3>1, GrammarBytes DEF LexStates
      <4>2. /\ m.hash = Append(h, b) /\ p = n - Len(h) /\ Len(h) \in Nat
            /\ \A k \in 1..Len(h) : h[k] = text[p + k]
        <5>1. m.hash = Append(h, b)
          BY <1>1, <4>1
        <5>2. \A k \in 1..Len(l.hash) : l.hash[k] = text[Begun(l, n) + k]
          BY <1>1 DEF Gathers, Naming
        <5>3. p = n - Len(h) /\ Len(h) \in Nat
          BY <4>1 DEF Begun
        <5>4. \A k \in 1..Len(h) : h[k] = text[p + k]
          BY <4>1, <5>2
        <5> QED
          BY <5>1, <5>3, <5>4
      <4>3. p + (Len(h) + 1) = n + 1
        BY <4>2
      <4>4. /\ Len(Append(h, b)) = Len(h) + 1 /\ Append(h, b)[Len(h) + 1] = b
            /\ \A k \in 1..Len(h) : Append(h, b)[k] = h[k]
        OBVIOUS
      <4>5. ASSUME NEW k \in 1..(Len(h) + 1) PROVE Append(h, b)[k] = text[p + k]
        <5>1. CASE k = Len(h) + 1
          BY <4>1, <4>3, <4>4, <5>1
        <5>2. CASE k \in 1..Len(h)
          BY <4>2, <4>4, <5>2
        <5>3. k = Len(h) + 1 \/ k \in 1..Len(h)
          BY <4>2
        <5> QED
          BY <5>1, <5>2, <5>3
      <4>6. Len(m.hash) = Len(h) + 1
        BY <4>2, <4>4
      <4> QED
        BY <4>1, <4>2, <4>5, <4>6
    <3> QED
      BY <1>5, <3>1, <3>2, <3>3 DEF Naming, Alike
  <2>3. m.start <= n + 1
    BY <1>1 DEF Alike
  <2> QED
    BY <1>1, <1>4, <1>6, <1>7, <2>1, <2>2, <2>3 DEF Gathers, Alike
<1> QED
  BY <1>1, <1>3, <1>9 DEF ReadsTo, Alike

\* What the byte after a name's digits tells: whether it is a reference.
IsReference(l, n) == ~(l.owner /\ text[n + 1] = "=") /\ l.hash # <<>>

LEMMA NameEnd ==
  ASSUME ScanInv, Scanner!Regular, NEW n \in Nat, NEW l, NEW f, ReadsTo(l, n, f),
         l.open, l.hashing, n < Len(text), text[n + 1] \notin Digits
  PROVE  /\ Scanner!Ends(n + 1, Begun(l, n)) /\ text[n + 1] \notin {"'", "#"}
         /\ Begun(l, n) \in Scanner!Names /\ l.start < Begun(l, n) /\ Begun(l, n) <= n
         /\ \A r \in Scanner!Names : l.start < r /\ r <= n => r = Begun(l, n) \/ r \in Past(l, n)
         /\ Begun(l, n) \notin Scanner!References(l.start, n)
         /\ \A r \in Scanner!References(l.start, n) : r <= Begun(l, n)
         /\ Scanner!References(l.start, n + 1) =
              Scanner!References(l.start, n) \cup (IF IsReference(l, n) THEN {Begun(l, n)} ELSE {})
<1> DEFINE p == Begun(l, n)
<1>1. Gathers(l, n) /\ l \in LexStates /\ l.start \in Nat /\ l.start <= n /\ Len(l.hash) \in Nat
      /\ (l.hash = <<>> <=> Len(l.hash) = 0)
  <2>1. Gathers(l, n) /\ l \in LexStates /\ l.start <= n
    BY DEF ReadsTo, Gathers
  <2>2. l.start \in Nat /\ l.hash \in Seq(STRING)
    BY <2>1 DEF LexStates
  <2>3. ASSUME NEW h \in Seq(STRING) PROVE h = <<>> <=> Len(h) = 0
    OBVIOUS
  <2>4. Len(l.hash) \in Nat
    BY <2>2
  <2>5. l.hash = <<>> <=> Len(l.hash) = 0
    BY <2>2, <2>3
  <2> QED
    BY <2>1, <2>2, <2>4, <2>5
<1>2. /\ p \in Scanner!Names /\ l.start < p /\ p \in Nat /\ p <= n /\ p = n - Len(l.hash)
      /\ \A r \in (p + 1)..n : text[r] \in Digits
  <2>1. /\ p \in Scanner!Names /\ l.start < p
        /\ \A r \in (p + 1)..n : text[r] \in Digits
    BY <1>1 DEF Gathers, Naming
  <2>2. p \in Nat
    BY <2>1, SetsAreIn
  <2>3. p = n - Len(l.hash)
    BY DEF Begun
  <2> HIDE DEF p
  <2>4. p <= n
    BY <1>1, <2>2, <2>3
  <2> QED
    BY <2>1, <2>2, <2>3, <2>4
<1> HIDE DEF p
<1>3. Scanner!Ends(n + 1, p)
  <2>1. (n + 1) - 1 = n /\ p < n + 1
    BY <1>2
  <2> QED
    BY <1>2, <2>1 DEF Scanner!Ends
<1>4. text[n + 1] \notin {"'", "#"}
  BY <1>2, <1>3, GrammarBytes DEF Scanner!Regular
<1>5. \A r \in Scanner!Names : l.start < r /\ r <= n => r = p \/ r \in Past(l, n)
  BY DEF Past, p
<1>6. ASSUME NEW r \in Scanner!Names, r <= n PROVE r <= p
  <2>1. text[r] \notin Digits
    BY SetsAreIn, GrammarBytes
  <2>2. r \in Nat
    BY SetsAreIn
  <2>3. r \notin (p + 1)..n
    BY <1>2, <2>1
  <2> QED
    BY <1>2, <1>6, <2>2, <2>3
<1>7. l.owner <=> \A r \in Scanner!Names : l.start < r => p <= r
  <2>1. l.owner <=> Past(l, n) = {}
    BY <1>1 DEF Gathers
  <2>2. ASSUME Past(l, n) = {}, NEW r \in Scanner!Names, l.start < r PROVE p <= r
    <3>1. r \in Nat
      BY SetsAreIn
    <3>2. r <= n => r = p
      BY <1>5, <2>2
    <3> QED
      BY <1>2, <3>1, <3>2
  <2>3. ASSUME NEW r \in Past(l, n) PROVE r \in Scanner!Names /\ l.start < r /\ ~(p <= r)
    <3>1. r \in Scanner!Names /\ l.start < r /\ r <= n /\ r # p
      BY DEF Past, p
    <3>2. r <= p /\ r \in Nat
      BY <1>6, <3>1, SetsAreIn
    <3> QED
      BY <1>2, <3>1, <3>2
  <2> QED
    BY <2>1, <2>2, <2>3
<1>8. ASSUME NEW q \in Nat, q <= n PROVE ~Scanner!Ends(q, p)
  <2>1. ASSUME Scanner!Ends(q, p) PROVE FALSE
    BY <1>2, <1>3, <1>8, <2>1, OneEnd
  <2> QED
    BY <2>1
<1>9. p \notin Scanner!References(l.start, n)
  <2>1. \A q \in (p + 2)..n : q \in Nat /\ q <= n
    BY <1>2
  <2> QED
    BY <1>8, <2>1 DEF Scanner!References
<1>10. ASSUME NEW r \in Scanner!Names, l.start < r, r # p PROVE ~Scanner!Ends(n + 1, r)
  <2>1. r \in Nat
    BY SetsAreIn
  <2>2. CASE r <= n
    <3>1. PICK q \in Scanner!Bytes : q <= n /\ Scanner!Ends(q, r)
      <4>1. r \in Past(l, n)
        BY <1>5, <1>10, <2>2
      <4> QED
        BY <1>1, <4>1 DEF Gathers
    <3>2. q \in Nat
      BY GrammarBytes
    <3> QED
      BY <2>1, <3>1, <3>2, OneEnd
  <2>3. CASE ~(r <= n)
    BY <2>1, <2>3 DEF Scanner!Ends
  <2> QED
    BY <2>2, <2>3
<1>11. \A r \in Scanner!Names : r # p => (r \in Scanner!References(l.start, n + 1) <=> r \in Scanner!References(l.start, n))
  <2>1. \A r \in Nat : \A q \in (r + 2)..(n + 1) : q = n + 1 \/ q \in (r + 2)..n
    OBVIOUS
  <2>2. \A r \in Nat : \A q \in (r + 2)..n : q \in (r + 2)..(n + 1)
    OBVIOUS
  <2> QED
    BY <1>10, <2>1, <2>2, SetsAreIn DEF Scanner!References
<1>12. p \in Scanner!References(l.start, n + 1) <=> IsReference(l, n)
  <2>1. n + 1 \in (p + 2)..(n + 1) <=> l.hash # <<>>
    BY <1>1, <1>2
  <2>2. \A q \in (p + 2)..(n + 1) : Scanner!Ends(q, p) => q = n + 1
    <3>1. \A q \in (p + 2)..(n + 1) : q = n + 1 \/ (q \in Nat /\ q <= n)
      BY <1>2
    <3> QED
      BY <1>8, <3>1
  <2>3. p \in Scanner!References(l.start, n + 1) <=>
          \E q \in (p + 2)..(n + 1) : Scanner!Ends(q, p) /\ ~(text[q] = "=" /\ l.owner)
    BY <1>2, <1>7 DEF Scanner!References
  <2> QED
    BY <1>3, <2>1, <2>2, <2>3 DEF IsReference
<1>13. Scanner!References(l.start, n + 1) =
         Scanner!References(l.start, n) \cup (IF IsReference(l, n) THEN {p} ELSE {})
  <2>1. \A k : \A r \in Scanner!References(l.start, k) : r \in Scanner!Names
    BY DEF Scanner!References
  <2>2. ASSUME NEW r \in Scanner!Names
        PROVE  r \in Scanner!References(l.start, n + 1) <=>
               r \in Scanner!References(l.start, n) \cup (IF IsReference(l, n) THEN {p} ELSE {})
    BY <1>9, <1>11, <1>12
  <2> QED
    BY <1>2, <2>1, <2>2
<1>14. \A r \in Scanner!References(l.start, n) : r <= p
  <2>1. \A r \in Nat : (r + 2)..n # {} => r <= n
    OBVIOUS
  <2>2. \A r \in Scanner!References(l.start, n) : r \in Scanner!Names /\ r \in Nat /\ (r + 2)..n # {}
    BY SetsAreIn DEF Scanner!References
  <2> QED
    BY <1>6, <2>1, <2>2
<1> QED
  BY <1>2, <1>3, <1>4, <1>5, <1>9, <1>13, <1>14 DEF p

\* Nothing is listed of nothing.
LEMMA ListsNothing == Scanner!Lists(<<>>, {})
<1>1. Scanner!Cardinality({}) = Cardinality({})
  BY DEF Scanner!Cardinality, Cardinality
<1> QED
  BY <1>1, FS_EmptySet DEF Scanner!Lists

\* A name that has ended has been read digit for digit.
LEMMA NameIsRead ==
  ASSUME ScanInv, NEW n \in Nat, n < Len(text), NEW l, Naming(l, n), l.hashing,
         l.hash \in Seq(STRING)
  PROVE  l.hash = SubSeq(text, Begun(l, n) + 1, n)
<1>1. PICK p : p = Begun(l, n)
  OBVIOUS
<1>2. PICK h \in Seq(STRING) : h = l.hash
  OBVIOUS
<1>3. /\ p \in Nat /\ p = n - Len(h) /\ Len(h) \in Nat
      /\ \A k \in 1..Len(h) : h[k] = text[p + k]
  <2>1. /\ Begun(l, n) \in Scanner!Names
        /\ \A k \in 1..Len(l.hash) : l.hash[k] = text[Begun(l, n) + k]
    BY DEF Naming
  <2>2. p \in Nat
    BY <1>1, <2>1, SetsAreIn
  <2>3. \A k \in 1..Len(h) : h[k] = text[p + k]
    BY <1>1, <1>2, <2>1
  <2>4. p = n - Len(h)
    BY <1>1, <1>2 DEF Begun
  <2>5. Len(h) \in Nat
    OBVIOUS
  <2> QED
    BY <2>2, <2>3, <2>4, <2>5
<1>4. text \in Seq(STRING) /\ Len(text) \in Nat
  BY TextIs
<1>5. h = SubSeq(text, p + 1, n)
  BY <1>3, <1>4
<1> QED
  BY <1>1, <1>2, <1>5

\* One name more, after those listed.
LEMMA ListsOneMore ==
  ASSUME ScanInv, NEW R \in SUBSET Scanner!Bytes, NEW p \in Scanner!Names, p \notin R,
         \A r \in R : r <= p,
         NEW refs \in Seq(Seq(STRING)), Scanner!Lists(refs, R),
         NEW n \in Nat, Scanner!Ends(n + 1, p), NEW h \in Seq(STRING), h = SubSeq(text, p + 1, n)
  PROVE  Scanner!Lists(Append(refs, h), R \cup {p})
<1> DEFINE T == R \cup {p}
           u == Append(refs, h)
           To(x) == {r \in R : r <= x}
<1>1. \A S : Scanner!Cardinality(S) = Cardinality(S)
  BY DEF Scanner!Cardinality, Cardinality
<1>2. /\ \A x \in T : x \in Nat
      /\ p \in Nat
      /\ \A q \in Scanner!Bytes : q \in Nat
  BY GrammarBytes, SetsAreIn
<1>3. IsFiniteSet(R) /\ Cardinality(R) \in Nat /\ Cardinality(T) = Cardinality(R) + 1
  <2>1. 1 \in Int /\ Len(text) \in Int
    BY TextIs
  <2>2. IsFiniteSet(1..Len(text))
    BY <2>1, FS_Interval
  <2>3. IsFiniteSet(R)
    BY <2>2, FS_Subset DEF Scanner!Bytes
  <2> QED
    BY <2>3, FS_AddElement, FS_CardinalityType
<1>4. /\ Len(refs) = Cardinality(R)
      /\ \A x \in R, q \in Scanner!Bytes :
            Scanner!Ends(q, x) => refs[Cardinality(To(x))] = SubSeq(text, x + 1, q - 1)
  BY <1>1 DEF Scanner!Lists
<1>5. /\ Len(u) = Cardinality(R) + 1 /\ u[Cardinality(R) + 1] = h
      /\ \A i \in 1..Cardinality(R) : u[i] = refs[i]
  BY <1>4
<1> HIDE DEF u, T
<1>6. ASSUME NEW x \in R
      PROVE  {r \in T : r <= x} = To(x) /\ Cardinality(To(x)) \in 1..Cardinality(R)
  <2>1. x <= p /\ x # p /\ x \in Nat /\ x <= x
    <3>1. x \in T
      BY DEF T
    <3>2. x \in Nat
      BY <1>2, <3>1
    <3> QED
      BY <3>2
  <2>2. ~(p <= x)
    BY <1>2, <2>1
  <2>3. {r \in T : r <= x} = To(x)
    BY <2>2 DEF T
  <2>4. To(x) \subseteq R /\ x \in To(x)
    BY <2>1
  <2> HIDE DEF To
  <2>5. /\ Cardinality(To(x)) <= Cardinality(R) /\ Cardinality(To(x)) \in Nat
        /\ Cardinality(To(x)) # 0
    BY <1>3, <2>4, FS_Subset, FS_CardinalityType, FS_EmptySet
  <2> QED
    BY <1>3, <2>3, <2>5
<1>7. {r \in T : r <= p} = T
  <2>1. p <= p
    BY <1>2
  <2> QED
    BY <2>1 DEF T
<1>8. ASSUME NEW q \in Scanner!Bytes, Scanner!Ends(q, p) PROVE q - 1 = n
  <2>1. q \in Nat
    BY <1>2
  <2>2. CASE q <= n
    BY <1>2, <1>8, <2>1, <2>2, OneEnd
  <2>3. CASE q > n + 1
    <3>1. n + 1 \in (p + 1)..(q - 1) /\ text[n + 1] \notin Digits
      BY <1>2, <2>1, <2>3 DEF Scanner!Ends
    <3> QED
      BY <1>8, <3>1 DEF Scanner!Ends
  <2> QED
    BY <2>1, <2>2, <2>3
<1> HIDE DEF To
<1>9. ASSUME NEW x \in T, NEW q \in Scanner!Bytes, Scanner!Ends(q, x)
      PROVE  u[Cardinality({r \in T : r <= x})] = SubSeq(text, x + 1, q - 1)
  <2>1. CASE x = p
    <3>1. u[Cardinality({r \in T : r <= x})] = h
      BY <1>3, <1>5, <1>7, <2>1
    <3>2. q - 1 = n
      BY <1>8, <1>9, <2>1
    <3> QED
      BY <2>1, <3>1, <3>2
  <2>2. CASE x \in R
    <3>1. u[Cardinality(To(x))] = refs[Cardinality(To(x))]
      BY <1>5, <1>6, <2>2
    <3>2. refs[Cardinality(To(x))] = SubSeq(text, x + 1, q - 1)
      BY <1>4, <1>9, <2>2
    <3> QED
      BY <1>6, <2>2, <3>1, <3>2
  <2> QED
    BY <2>1, <2>2 DEF T
<1>10. Len(u) = Cardinality(T)
  BY <1>3, <1>5
<1> QED
  BY <1>1, <1>9, <1>10 DEF Scanner!Lists, u, T

\* The statement after a name.
Named(m, l, n) ==
    /\ m \in LexStates /\ m.open /\ m.start = l.start
    /\ ~m.hashing /\ m.hash = <<>> /\ ~m.owner
    /\ m.refs = IF IsReference(l, n) THEN Append(l.refs, l.hash) ELSE l.refs

LEMMA ListsName ==
  ASSUME ScanInv, Scanner!Regular, NEW n \in Nat, NEW l, NEW m, NEW f, ReadsTo(l, n, f), Named(m, l, n),
         l.open, l.hashing, n < Len(text), text[n + 1] \notin Digits
  PROVE  Scanner!Lists(m.refs, Scanner!References(l.start, n + 1))
<1> DEFINE R == Scanner!References(l.start, n)
           p == Begun(l, n)
<1>1. /\ l.refs \in Seq(Seq(STRING)) /\ l.hash \in Seq(STRING)
      /\ Scanner!Lists(l.refs, R) /\ Naming(l, n)
  BY DEF ReadsTo, Gathers, LexStates
<1>2. CASE IsReference(l, n)
  <2>1. m.refs = Append(l.refs, l.hash)
    BY <1>2 DEF Named
  <2>2. /\ Scanner!References(l.start, n + 1) = R \cup {p} /\ p \notin R
        /\ p \in Scanner!Names /\ Scanner!Ends(n + 1, p) /\ p <= n
        /\ \A r \in R : r <= p
    BY <1>2, NameEnd
  <2>3. l.hash = SubSeq(text, p + 1, n)
    BY <1>1, <2>2, NameIsRead
  <2>4. PICK S, s, refs, h : S = R /\ s = p /\ refs = l.refs /\ h = l.hash
    OBVIOUS
  <2> HIDE DEF R, p
  <2>5. S \in SUBSET Scanner!Bytes
    BY <2>4, SetsAreIn DEF R, Scanner!References
  <2>6. /\ s \in Scanner!Names /\ s \notin S /\ \A r \in S : r <= s
        /\ refs \in Seq(Seq(STRING)) /\ Scanner!Lists(refs, S)
        /\ Scanner!Ends(n + 1, s) /\ h \in Seq(STRING) /\ h = SubSeq(text, s + 1, n)
    BY <1>1, <2>2, <2>3, <2>4
  <2>7. Scanner!Lists(Append(refs, h), S \cup {s})
    BY <2>5, <2>6, ListsOneMore
  <2> QED
    BY <2>1, <2>2, <2>4, <2>7
<1>3. CASE ~IsReference(l, n)
  <2>1. m.refs = l.refs
    BY <1>3 DEF Named
  <2>2. Scanner!References(l.start, n + 1) = R \cup {}
    BY <1>3, NameEnd
  <2>3. R \cup {} = R
    OBVIOUS
  <2> QED
    BY <1>1, <2>1, <2>2, <2>3
<1> QED
  BY <1>2, <1>3

LEMMA EndsName ==
  ASSUME ScanInv, Scanner!Regular, NEW n \in Nat, NEW l, NEW m, NEW f, ReadsTo(l, n, f), Named(m, l, n),
         l.open, l.hashing, n < Len(text), text[n + 1] \notin Digits,
         n + 1 \notin Scanner!Terminators, Reading(m, n + 1)
  PROVE  ReadsTo(m, n + 1, f)
<1> DEFINE p == Begun(l, n)
<1>1. /\ Gathers(l, n) /\ FoundTo(f, n) /\ l \in LexStates /\ m \in LexStates
      /\ l.start \in Nat /\ l.start <= n /\ m.start = l.start
  BY DEF ReadsTo, Named, LexStates, Gathers
<1>2. /\ Scanner!Ends(n + 1, p) /\ text[n + 1] # "#"
      /\ p \in Scanner!Names /\ l.start < p /\ p <= n
      /\ \A r \in Scanner!Names : l.start < r /\ r <= n => r = p \/ r \in Past(l, n)
  BY NameEnd
<1> HIDE DEF p
<1>3. FoundTo(f, n + 1)
  BY <1>1, FoundStays
<1>4. n + 1 \in Scanner!Bytes /\ n + 1 \notin Scanner!Names
  BY <1>2, GrammarBytes, SetsAreIn
<1>5. \A r \in Past(m, n + 1) : r = p \/ r \in Past(l, n)
  BY <1>1, <1>2, <1>4, NextByte DEF Past
<1>6. p \in Past(m, n + 1)
  BY <1>1, <1>2, NextByte DEF Past, Named
<1>7. \A t \in Scanner!Terminators : t <= n + 1 => t <= l.start
  <2>1. \A t \in Scanner!Terminators : t <= n + 1 => t <= n
    BY NextByte
  <2> QED
    BY <1>1, <2>1 DEF Gathers
<1>8. \A r \in Past(m, n + 1) : \E q \in Scanner!Bytes : q <= n + 1 /\ Scanner!Ends(q, r)
  <2>1. \A r \in Past(l, n) : \E q \in Scanner!Bytes : q <= n /\ Scanner!Ends(q, r)
    BY <1>1 DEF Gathers
  <2>2. \A q \in Scanner!Bytes : q <= n => q <= n + 1
    BY NextByte
  <2>3. n + 1 <= n + 1
    OBVIOUS
  <2> QED
    BY <1>2, <1>4, <1>5, <2>1, <2>2, <2>3
<1>9. Gathers(m, n + 1)
  <2>1. Naming(m, n + 1)
    BY DEF Naming, Named
  <2>2. m.start <= n + 1 /\ m.start + 1 = l.start + 1
    BY <1>1
  <2>3. m.owner <=> Past(m, n + 1) = {}
    BY <1>6 DEF Named
  <2>4. Scanner!Lists(m.refs, Scanner!References(m.start, n + 1))
    BY <1>1, ListsName
  <2>5. l.start + 1 \in Scanner!Bytes /\ text[l.start + 1] \notin Blanks
    BY <1>1 DEF Gathers
  <2> QED
    BY <1>1, <1>7, <1>8, <2>1, <2>2, <2>3, <2>4, <2>5 DEF Gathers
<1> QED
  BY <1>1, <1>3, <1>9 DEF ReadsTo, Named

\* After a terminator the lexer rests.
LEMMA Closes ==
  ASSUME ScanInv, NEW n \in Nat, n + 1 \in Scanner!Terminators, NEW m \in LexStates, NEW f,
         FoundTo(f, n + 1), ~m.open, m.mode = "plain", m.pend = "none", ~m.hashing
  PROVE  ReadsTo(m, n + 1, f)
<1>1. Scanner!Mode[n + 1] = "plain" /\ n + 1 <= n + 1
  <2>1. n + 1 <= n + 1
    OBVIOUS
  <2> QED
    BY <2>1, SetsAreIn
<1>2. Rests(m, n + 1)
  BY <1>1 DEF Rests
<1>3. Reading(m, n + 1)
  BY <1>1 DEF Reading
<1> QED
  BY <1>2, <1>3 DEF ReadsTo

LEMMA SkipsBlank ==
  ASSUME ScanInv, Scanner!Regular, NEW n \in Nat, n < Len(text), NEW l, NEW f, ReadsTo(l, n, f),
         ~l.open, text[n + 1] \in Blanks
  PROVE  ReadsTo(l, n + 1, f)
<1>1. n + 1 \notin Scanner!Terminators
  BY SetsAreIn, GrammarBytes
<1>2. FoundTo(f, n + 1)
  BY <1>1, FoundStays DEF ReadsTo
<1>3. Rests(l, n) /\ Reading(l, n)
  BY DEF ReadsTo
<1>4. Scanner!Mode[n + 1] = "plain"
  <2>1. text[n + 1] \notin {"'", "/"}
    BY GrammarBytes
  <2>2. Scanner!Mode[n] # "string"
    BY <1>3 DEF Reading, Rests
  <2> QED
    BY <2>1, <2>2, RegularModes
<1>5. Reading(l, n + 1)
  BY <1>3, <1>4 DEF Reading, Rests
<1>6. Rests(l, n + 1)
  <2>1. \A q \in Scanner!Bytes : q <= n + 1 /\ text[q] \notin Blanks => q <= n
    BY NextByte
  <2>2. \A t \in Scanner!Terminators : t <= n => t <= n + 1
    BY NextByte
  <2> QED
    BY <1>3, <2>1, <2>2 DEF Rests
<1> QED
  BY <1>2, <1>5, <1>6 DEF ReadsTo

LEMMA Opens ==
  ASSUME ScanInv, NEW n \in Nat, n < Len(text), NEW l, NEW f, ReadsTo(l, n, f),
         ~l.open, text[n + 1] \notin Blanks
  PROVE  ReadsTo([Scanner!Fresh EXCEPT !.open = TRUE, !.start = n], n, f)
<1> DEFINE m == [Scanner!Fresh EXCEPT !.open = TRUE, !.start = n]
<1>1. /\ m \in LexStates /\ m.open /\ m.start = n /\ m.mode = "plain" /\ m.pend = "none"
      /\ ~m.hashing /\ m.hash = <<>> /\ m.owner /\ m.refs = <<>>
  <2>1. <<>> \in Seq(STRING) /\ <<>> \in Seq(Seq(STRING))
    OBVIOUS
  <2>2. Scanner!Fresh \in LexStates /\ Scanner!Fresh.mode = "plain" /\ Scanner!Fresh.pend = "none"
        /\ ~Scanner!Fresh.hashing /\ Scanner!Fresh.hash = <<>> /\ Scanner!Fresh.owner /\ Scanner!Fresh.refs = <<>>
    BY <2>1 DEF Scanner!Fresh, LexStates, Modes, Pends
  <2> QED
    BY <2>2 DEF LexStates
<1> HIDE DEF m
<1>2. Rests(l, n) /\ Reading(l, n) /\ FoundTo(f, n)
  BY DEF ReadsTo
<1>3. Reading(m, n)
  BY <1>1, <1>2 DEF Reading, Rests
<1>4. \A r \in Scanner!Names : ~(n < r /\ r <= n)
  <2>1. \A r \in Nat : ~(n < r /\ r <= n)
    OBVIOUS
  <2> QED
    BY <2>1, SetsAreIn
<1>5. Past(m, n) = {}
  BY <1>1, <1>4 DEF Past
<1>6. Scanner!References(n, n) = {}
  <2>1. \A r \in Nat : n < r => (r + 2)..n = {}
    OBVIOUS
  <2> QED
    BY <2>1, SetsAreIn DEF Scanner!References
<1>7. Scanner!Lists(m.refs, Scanner!References(n, n))
  BY <1>1, <1>6, ListsNothing
<1>8. Gathers(m, n)
  <2>1. n + 1 \in Scanner!Bytes /\ n <= n
    <3>1. n <= n
      OBVIOUS
    <3> QED
      BY <3>1, GrammarBytes
  <2>2. Naming(m, n)
    BY <1>1 DEF Naming
  <2> QED
    BY <1>1, <1>5, <1>7, <2>1, <2>2 DEF Gathers
<1> QED
  BY <1>1, <1>2, <1>3, <1>8 DEF ReadsTo, m

\* A token is told apart without taking a byte.
LEMMA Tells ==
  ASSUME ScanInv, NEW n \in Nat, NEW l, NEW m, NEW f, ReadsTo(l, n, f), Alike(m, l),
         ~l.hashing, ~m.hashing, m.hash = <<>>, Reading(m, n)
  PROVE  ReadsTo(m, n, f)
<1>1. Gathers(l, n) /\ FoundTo(f, n)
  BY DEF ReadsTo, Alike
<1>2. Past(m, n) = Past(l, n) /\ Naming(m, n)
  BY DEF Past, Alike, Naming
<1>3. Gathers(m, n)
  BY <1>1, <1>2 DEF Gathers, Alike
<1> QED
  BY <1>1, <1>3 DEF ReadsTo, Alike

\* What the steps of the scan begin with.
ReadsOn ==
    /\ lexer = "scan" /\ Scanner!Regular /\ ~over /\ at < end
    /\ ReadsTo(lex, at, found)

LEMMA ReadsOnIs ==
  ASSUME ScanInv, ReadsOn
  PROVE  /\ at \in Nat /\ at < Len(text) /\ at + 1 \in Nat /\ at + 1 \in Scanner!Bytes
         /\ lex \in LexStates /\ Reading(lex, at)
         /\ lex.pend # "none" \/ lex.hashing \/ lex.mode # "plain" => lex.open
         /\ lex.open /\ ~lex.hashing => lex.hash = <<>>
         /\ text[at + 1] \in {"'", "#", "/"} => at + 1 \notin Scanner!Terminators
         /\ text[at + 1] # "#" => at + 1 \notin Scanner!Names
<1>1. at \in Nat /\ end \in Nat /\ Len(text) \in Nat /\ at < end /\ end <= Len(text)
  BY TextIs DEF ScanInv, ReadsOn
<1>2. at < Len(text) /\ at + 1 \in Nat
  BY <1>1
<1>3. at + 1 \in Scanner!Bytes
  BY <1>1, <1>2, GrammarBytes
<1>4. /\ lex \in LexStates /\ Reading(lex, at)
      /\ IF lex.open THEN Gathers(lex, at) ELSE Rests(lex, at)
  BY DEF ReadsOn, ReadsTo
<1>5. lex.pend # "none" \/ lex.hashing \/ lex.mode # "plain" => lex.open
  BY <1>4 DEF Rests
<1>6. lex.open /\ ~lex.hashing => lex.hash = <<>>
  BY <1>4 DEF Gathers, Naming
<1> QED
  BY <1>1, <1>2, <1>3, <1>4, <1>5, <1>6, SetsAreIn

LEMMA ResolveReads ==
  ASSUME ScanInv, ReadsOn, Scanner!Resolve
  PROVE  ReadsTo(lex', at', found')
<1> DEFINE l == [lex EXCEPT !.pend = "none"]
           p == [l EXCEPT !.mode = "plain"]
<1>1. /\ lex.pend # "none" /\ at \in Nat /\ at < Len(text) /\ lex \in LexStates
      /\ lex.open /\ ~lex.hashing /\ lex.hash = <<>> /\ Reading(lex, at)
      /\ ReadsTo(lex, at, found)
  <2>1. lex.pend # "none"
    BY DEF Scanner!Resolve
  <2>2. Reading(lex, at) /\ lex.open
    BY <2>1, ReadsOnIs
  <2>3. ~lex.hashing
    BY <2>1, <2>2 DEF Reading
  <2> QED
    BY <2>1, <2>2, <2>3, ReadsOnIs DEF ReadsOn
<1>2. /\ Alike(l, lex) /\ Alike(p, lex) /\ ~l.hashing /\ ~p.hashing /\ l.hash = <<>> /\ p.hash = <<>>
      /\ l.pend = "none" /\ p.pend = "none" /\ p.mode = "plain" /\ l.mode = lex.mode
  BY <1>1 DEF LexStates, Alike, Modes, Pends
<1>3. \/ lex.pend = "quote" /\ lex.mode = "string" /\ Scanner!Mode[at] = "plain"
      \/ lex.pend = "slash" /\ lex.mode = "plain" /\ Scanner!Mode[at] = "slash"
  BY <1>1 DEF Reading
<1>4. /\ lex.pend = "slash" => text[at + 1] # "*"
      /\ text[at + 1] = "'" => Scanner!Mode[at + 1] = "string" \/ Scanner!Mode[at] = "string"
  BY <1>1, <1>3, RegularModes DEF ReadsOn
<1>5. \/ text[at + 1] = "'" /\ lex.pend = "quote" /\ Scanner!Silent(1, l)
      \/ text[at + 1] # "'" /\ lex.pend = "quote" /\ Scanner!Silent(0, p)
      \/ lex.pend = "slash" /\ Scanner!Silent(0, l)
  BY <1>3, <1>4 DEF Scanner!Resolve, Scanner!Byte
<1> HIDE DEF l, p
<1>6. CASE text[at + 1] = "'" /\ lex.pend = "quote" /\ Scanner!Silent(1, l)
  <2>1. at' = at + 1 /\ lex' = l /\ found' = found
    BY <1>6 DEF Scanner!Silent, Scanner!Eat
  <2>2. Reading(l, at + 1)
    BY <1>2, <1>3, <1>4, <1>6 DEF Reading
  <2>3. at + 1 \notin Scanner!Terminators /\ at + 1 \notin Scanner!Names
    BY <1>6, ReadsOnIs
  <2>4. ReadsTo(l, at + 1, found)
    BY <1>1, <1>2, <2>2, <2>3, Passes
  <2> QED
    BY <2>1, <2>4
<1>7. CASE text[at + 1] # "'" /\ lex.pend = "quote" /\ Scanner!Silent(0, p)
  <2>1. at' = at + 0 /\ lex' = p /\ found' = found
    BY <1>7 DEF Scanner!Silent, Scanner!Eat
  <2>2. Reading(p, at)
    BY <1>2, <1>3, <1>7 DEF Reading
  <2>3. ReadsTo(p, at, found)
    BY <1>1, <1>2, <2>2, Tells
  <2>4. at + 0 = at
    BY <1>1
  <2> QED
    BY <2>1, <2>3, <2>4
<1>8. CASE lex.pend = "slash" /\ Scanner!Silent(0, l)
  <2>1. at' = at + 0 /\ lex' = l /\ found' = found
    BY <1>8 DEF Scanner!Silent, Scanner!Eat
  <2>2. Reading(l, at)
    BY <1>2, <1>3, <1>8 DEF Reading
  <2>3. ReadsTo(l, at, found)
    BY <1>1, <1>2, <2>2, Tells
  <2>4. at + 0 = at
    BY <1>1
  <2> QED
    BY <2>1, <2>3, <2>4
<1> QED
  BY <1>5, <1>6, <1>7, <1>8

LEMMA OpenReads ==
  ASSUME ScanInv, ReadsOn, Scanner!OpenStatement
  PROVE  ReadsTo(lex', at', found')
<1>1. at \in Nat /\ at < Len(text) /\ ~lex.open /\ ReadsTo(lex, at, found) /\ at + 0 = at
  BY ReadsOnIs DEF Scanner!OpenStatement, ReadsOn
<1>2. CASE text[at + 1] \in Blanks
  <2>1. at' = at + 1 /\ lex' = lex /\ found' = found
    BY <1>2 DEF Scanner!OpenStatement, Scanner!Byte, Scanner!Silent, Scanner!Eat
  <2>2. ReadsTo(lex, at + 1, found)
    BY <1>1, <1>2, SkipsBlank DEF ReadsOn
  <2> QED
    BY <2>1, <2>2
<1>3. CASE text[at + 1] \notin Blanks
  <2> DEFINE m == [Scanner!Fresh EXCEPT !.open = TRUE, !.start = at]
  <2>1. at' = at + 0 /\ lex' = m /\ found' = found
    BY <1>3 DEF Scanner!OpenStatement, Scanner!Byte, Scanner!Silent, Scanner!Eat
  <2>2. ReadsTo(m, at, found)
    BY <1>1, <1>3, Opens
  <2> HIDE DEF m
  <2> QED
    BY <1>1, <2>1, <2>2
<1> QED
  BY <1>2, <1>3

LEMMA DigitReads ==
  ASSUME ScanInv, ReadsOn, Scanner!HashDigit
  PROVE  ReadsTo(lex', at', found')
<1> DEFINE m == [lex EXCEPT !.hash = Append(@, text[at + 1])]
<1>1. /\ lex.hashing /\ text[at + 1] \in Digits /\ lex' = m /\ at' = at + 1 /\ found' = found
  BY DEF Scanner!HashDigit, Scanner!Byte, Scanner!Silent, Scanner!Eat
<1>2. /\ at \in Nat /\ at < Len(text) /\ lex \in LexStates /\ lex.open /\ Reading(lex, at)
      /\ ReadsTo(lex, at, found) /\ text[at + 1] \in STRING
  BY <1>1, ReadsOnIs, GrammarBytes DEF ReadsOn
<1>3. /\ m.hash = Append(lex.hash, text[at + 1]) /\ m.hashing
      /\ Alike(m, lex) /\ m.mode = lex.mode /\ m.pend = lex.pend
  <2>1. lex.hash \in Seq(STRING)
    BY <1>2 DEF LexStates
  <2>2. Append(lex.hash, text[at + 1]) \in Seq(STRING)
    BY <1>2, <2>1
  <2> QED
    BY <1>1, <1>2, <2>2 DEF LexStates, Alike
<1> HIDE DEF m
<1>4. lex.mode = "plain" /\ lex.pend = "none" /\ Scanner!Mode[at] \in {"plain", "slash"}
  BY <1>1, <1>2 DEF Reading
<1>5. Scanner!Mode[at + 1] = "plain"
  <2>1. text[at + 1] \notin {"'", "/"}
    BY <1>1, GrammarBytes
  <2>2. Scanner!Mode[at] # "string"
    BY <1>4
  <2> QED
    BY <1>2, <2>1, <2>2, RegularModes DEF ReadsOn
<1>6. Reading(m, at + 1)
  BY <1>3, <1>4, <1>5 DEF Reading
<1>7. ReadsTo(m, at + 1, found)
  BY <1>1, <1>2, <1>3, <1>6, ReadsDigit
<1> QED
  BY <1>1, <1>7

LEMMA HashEndReads ==
  ASSUME ScanInv, ReadsOn, Scanner!HashEnd
  PROVE  ReadsTo(lex', at', found')
<1> DEFINE isRef == ~(lex.owner /\ text[at + 1] = "=") /\ lex.hash # <<>>
           m == [lex EXCEPT !.hashing = FALSE, !.hash = <<>>, !.owner = FALSE,
                            !.refs = IF isRef THEN Append(@, lex.hash) ELSE @]
           c == [m EXCEPT !.open = FALSE]
           r == [start |-> lex.start, end |-> at + 1, refs |-> m.refs]
<1>1. /\ lex.hashing /\ text[at + 1] \notin Digits
      /\ IF text[at + 1] = ";" THEN Scanner!Close(m) ELSE Scanner!Silent(1, m)
  BY DEF Scanner!HashEnd, Scanner!Byte
<1>2. /\ at \in Nat /\ at < Len(text) /\ lex \in LexStates /\ lex.open /\ Reading(lex, at)
      /\ at + 1 \in Nat /\ at + 1 \in Scanner!Bytes /\ ReadsTo(lex, at, found)
  BY <1>1, ReadsOnIs DEF ReadsOn
<1>3. isRef <=> IsReference(lex, at)
  BY DEF IsReference
<1>4. /\ lex.hash \in Seq(STRING) /\ lex.refs \in Seq(Seq(STRING)) /\ lex.start \in Nat
      /\ Append(lex.refs, lex.hash) \in Seq(Seq(STRING)) /\ <<>> \in Seq(STRING)
  <2>1. lex.hash \in Seq(STRING) /\ lex.refs \in Seq(Seq(STRING)) /\ lex.start \in Nat
    BY <1>2 DEF LexStates
  <2>2. \A S : \A s \in Seq(S), e \in S : Append(s, e) \in Seq(S)
    OBVIOUS
  <2>3. <<>> \in Seq(STRING)
    OBVIOUS
  <2> QED
    BY <2>1, <2>2, <2>3
<1> HIDE DEF isRef
<1>5. /\ m \in LexStates /\ m.open /\ m.start = lex.start /\ ~m.hashing /\ m.hash = <<>> /\ ~m.owner
      /\ m.refs = (IF isRef THEN Append(lex.refs, lex.hash) ELSE lex.refs)
      /\ m.mode = lex.mode /\ m.pend = lex.pend
  BY <1>2, <1>4 DEF LexStates
<1>6. c \in LexStates /\ ~c.open /\ ~c.hashing /\ c.mode = lex.mode /\ c.pend = lex.pend
  BY <1>5 DEF LexStates
<1>7. r \in Statements /\ r.end = at + 1 /\ r.refs = m.refs /\ r.start = lex.start
  BY <1>2, <1>4, <1>5 DEF Statements, LexStates
<1>8. Named(m, lex, at)
  BY <1>3, <1>5 DEF Named
<1>9. Scanner!Close(m) => at' = at + 1 /\ lex' = c /\ found' = Append(found, r)
  BY <1>5 DEF Scanner!Close, Scanner!Eat
<1> HIDE DEF m, c, r
<1>10. text[at + 1] \notin {"'", "#"}
  BY <1>1, <1>2, NameEnd DEF ReadsOn
<1>11. lex.mode = "plain" /\ lex.pend = "none" /\ Scanner!Mode[at] \in {"plain", "slash"}
  BY <1>1, <1>2 DEF Reading
<1>12. Scanner!Mode[at + 1] = IF text[at + 1] = "/" THEN "slash" ELSE "plain"
  <2>1. Scanner!Mode[at] # "string"
    BY <1>11
  <2> QED
    BY <1>2, <1>10, <2>1, RegularModes DEF ReadsOn
<1>13. CASE text[at + 1] = ";"
  <2>1. at + 1 \in Scanner!Terminators
    BY <1>2, <1>12, <1>13 DEF Scanner!Terminators
  <2>2. Scanner!Lists(r.refs, Scanner!References(r.start, at + 1))
    BY <1>1, <1>2, <1>7, <1>8, ListsName DEF ReadsOn
  <2>3. FoundTo(Append(found, r), at + 1)
    BY <1>2, <1>7, <2>1, <2>2, FoundGrows DEF ReadsTo
  <2>4. ReadsTo(c, at + 1, Append(found, r))
    BY <1>2, <1>6, <1>11, <2>1, <2>3, Closes
  <2> QED
    BY <1>1, <1>9, <1>13, <2>4
<1>14. CASE text[at + 1] # ";"
  <2>1. at + 1 \notin Scanner!Terminators
    BY <1>14, SetsAreIn
  <2>2. Reading(m, at + 1)
    BY <1>5, <1>11, <1>12 DEF Reading
  <2>3. ReadsTo(m, at + 1, found)
    BY <1>1, <1>2, <1>8, <2>1, <2>2, EndsName DEF ReadsOn
  <2> QED
    BY <1>1, <1>14, <2>3 DEF Scanner!Silent, Scanner!Eat
<1> QED
  BY <1>13, <1>14

LEMMA InsideIs ==
  ASSUME ScanInv, ReadsOn, NEW m, Scanner!Inside(m)
  PROVE  /\ lex.open /\ ~lex.hashing /\ lex.mode = m /\ lex.pend = "none" /\ lex.hash = <<>>
         /\ at \in Nat /\ at < Len(text) /\ lex \in LexStates /\ Reading(lex, at)
         /\ at + 1 \in Nat /\ at + 1 \in Scanner!Bytes /\ ReadsTo(lex, at, found)
         /\ ~Scanner!Lone => at + 1 < Len(text)
<1>1. lex.open /\ ~lex.hashing /\ lex.mode = m /\ lex.pend = "none"
  BY DEF Scanner!Inside, Scanner!Ready
<1>2. ~Scanner!Lone => at + 1 < Len(text)
  BY TextIs DEF ScanInv, ReadsOn, Scanner!Lone
<1> QED
  BY <1>1, <1>2, ReadsOnIs DEF ReadsOn

\* A byte of a string or between the tokens of a statement.
LEMMA SilentReads ==
  ASSUME ScanInv, ReadsOn, NEW m, Alike(m, lex), lex.open, ~lex.hashing, ~m.hashing, m.hash = <<>>,
         Reading(m, at + 1), Scanner!Silent(1, m),
         at + 1 \notin Scanner!Terminators, at + 1 \notin Scanner!Names
  PROVE  ReadsTo(lex', at', found')
<1>1. at' = at + 1 /\ lex' = m /\ found' = found
  BY DEF Scanner!Silent, Scanner!Eat
<1>2. ReadsTo(m, at + 1, found)
  BY ReadsOnIs, Passes DEF ReadsOn
<1> QED
  BY <1>1, <1>2

LEMMA StringReads ==
  ASSUME ScanInv, ReadsOn, Scanner!InString
  PROVE  ReadsTo(lex', at', found')
<1> DEFINE q == [lex EXCEPT !.pend = "quote"]
           p == [lex EXCEPT !.mode = "plain"]
<1>1. /\ lex.open /\ ~lex.hashing /\ lex.mode = "string" /\ lex.pend = "none" /\ lex.hash = <<>>
      /\ at \in Nat /\ at < Len(text) /\ lex \in LexStates /\ Reading(lex, at)
      /\ at + 1 \in Nat /\ ReadsTo(lex, at, found)
      /\ ~Scanner!Lone => at + 1 < Len(text)
  BY InsideIs DEF Scanner!InString
<1>2. /\ Alike(q, lex) /\ Alike(p, lex) /\ Alike(lex, lex) /\ Alike(lex, q)
      /\ ~q.hashing /\ ~p.hashing /\ q.hash = <<>> /\ p.hash = <<>>
      /\ q.mode = "string" /\ q.pend = "quote" /\ p.mode = "plain" /\ p.pend = "none"
  BY <1>1 DEF LexStates, Alike, Modes, Pends
<1>3. \/ text[at + 1] # "'" /\ Scanner!Silent(1, lex)
      \/ text[at + 1] = "'" /\ Scanner!Silent(1, q)
      \/ text[at + 1] = "'" /\ ~Scanner!Lone /\ text[at + 2] = "'" /\ Scanner!Silent(2, lex)
      \/ text[at + 1] = "'" /\ Scanner!Silent(1, p)
  BY DEF Scanner!InString, Scanner!Byte, Scanner!Follow
<1> HIDE DEF q, p
<1>4. Scanner!Mode[at] = "string"
  BY <1>1 DEF Reading
<1>5. Scanner!Mode[at + 1] = IF text[at + 1] = "'" THEN "plain" ELSE "string"
  BY <1>1, <1>4, RegularModes DEF ReadsOn
<1>6. at + 1 \notin Scanner!Terminators /\ at + 1 \notin Scanner!Names
  <2>1. Scanner!Mode[at + 1] = "plain" => text[at + 1] = "'"
    BY <1>5
  <2> QED
    BY <2>1, SetsAreIn
<1>7. CASE text[at + 1] # "'" /\ Scanner!Silent(1, lex)
  <2>1. Reading(lex, at + 1)
    BY <1>1, <1>5, <1>7 DEF Reading
  <2> QED
    BY <1>1, <1>2, <1>6, <1>7, <2>1, SilentReads
<1>8. CASE text[at + 1] = "'" /\ Scanner!Silent(1, q)
  <2>1. Reading(q, at + 1)
    BY <1>2, <1>5, <1>8 DEF Reading
  <2> QED
    BY <1>1, <1>2, <1>6, <1>8, <2>1, SilentReads
<1>9. CASE text[at + 1] = "'" /\ Scanner!Silent(1, p)
  <2>1. Reading(p, at + 1)
    BY <1>2, <1>5, <1>9 DEF Reading
  <2> QED
    BY <1>1, <1>2, <1>6, <1>9, <2>1, SilentReads
\* Two quotes are read as the first and then the second.
<1>10. CASE text[at + 1] = "'" /\ ~Scanner!Lone /\ text[at + 2] = "'" /\ Scanner!Silent(2, lex)
  <2>1. Reading(q, at + 1)
    BY <1>2, <1>5, <1>10 DEF Reading
  <2>2. ReadsTo(q, at + 1, found)
    BY <1>1, <1>2, <1>6, <2>1, Passes
  <2>3. PICK n \in Nat : n = at + 1 /\ n + 1 = at + 2 /\ n < Len(text)
    BY <1>1, <1>10
  <2>4. text[n + 1] = "'"
    BY <1>10, <2>3
  <2>5. Scanner!Mode[n + 1] = "string"
    <3>1. Scanner!Mode[n] = "plain"
      BY <1>5, <1>10, <2>3
    <3> QED
      BY <2>3, <2>4, <3>1, RegularModes DEF ReadsOn
  <2>6. n + 1 \notin Scanner!Terminators /\ n + 1 \notin Scanner!Names
    BY <2>4, SetsAreIn
  <2>7. Reading(lex, n + 1)
    BY <1>1, <2>5 DEF Reading
  <2>8. ReadsTo(lex, n + 1, found)
    <3>1. ReadsTo(q, n, found)
      BY <2>2, <2>3
    <3> QED
      BY <1>1, <1>2, <2>6, <2>7, <3>1, Passes
  <2>9. at' = n + 1 /\ lex' = lex /\ found' = found
    BY <1>10, <2>3 DEF Scanner!Silent, Scanner!Eat
  <2> QED
    BY <2>8, <2>9
<1> QED
  BY <1>3, <1>7, <1>8, <1>9, <1>10

LEMMA PlainReads ==
  ASSUME ScanInv, ReadsOn, Scanner!InPlain
  PROVE  ReadsTo(lex', at', found')
<1> DEFINE h == [lex EXCEPT !.hashing = TRUE]
           s == [lex EXCEPT !.mode = "string"]
           d == [lex EXCEPT !.pend = "slash"]
           c == [lex EXCEPT !.open = FALSE]
           r == [start |-> lex.start, end |-> at + 1, refs |-> lex.refs]
<1>1. /\ lex.open /\ ~lex.hashing /\ lex.mode = "plain" /\ lex.pend = "none" /\ lex.hash = <<>>
      /\ at \in Nat /\ at < Len(text) /\ lex \in LexStates /\ Reading(lex, at)
      /\ at + 1 \in Nat /\ at + 1 \in Scanner!Bytes /\ ReadsTo(lex, at, found)
      /\ ~Scanner!Lone => at + 1 < Len(text)
  BY InsideIs DEF Scanner!InPlain
<1>2. /\ Alike(h, lex) /\ Alike(s, lex) /\ Alike(d, lex) /\ Alike(lex, lex)
      /\ h.hashing /\ ~s.hashing /\ ~d.hashing /\ h.hash = <<>> /\ s.hash = <<>> /\ d.hash = <<>>
      /\ h.mode = "plain" /\ h.pend = "none" /\ s.mode = "string" /\ s.pend = "none"
      /\ d.mode = "plain" /\ d.pend = "slash"
  BY <1>1 DEF LexStates, Alike, Modes, Pends
<1>3. c \in LexStates /\ ~c.open /\ ~c.hashing /\ c.mode = "plain" /\ c.pend = "none"
  BY <1>1 DEF LexStates
<1>4. r \in Statements /\ r.end = at + 1 /\ r.refs = lex.refs /\ r.start = lex.start
  BY <1>1 DEF Statements, LexStates
<1>5. Scanner!Close(lex) => at' = at + 1 /\ lex' = c /\ found' = Append(found, r)
  BY <1>1 DEF Scanner!Close, Scanner!Eat
<1>6. Scanner!Mode[at] \in {"plain", "slash"} /\ Scanner!Mode[at] # "string"
  BY <1>1 DEF Reading
<1>7. Scanner!Mode[at + 1] = IF text[at + 1] = "'" THEN "string"
                             ELSE IF text[at + 1] = "/" THEN "slash" ELSE "plain"
  BY <1>1, <1>6, RegularModes DEF ReadsOn
\* No comment opens in a regular file.
<1>8. ~(text[at + 1] = "/" /\ ~Scanner!Lone /\ Scanner!Follow = "*")
  <2>1. ASSUME text[at + 1] = "/", ~Scanner!Lone, Scanner!Follow = "*" PROVE FALSE
    <3>1. PICK n \in Nat : n = at + 1 /\ n + 1 = at + 2 /\ n < Len(text)
      BY <1>1, <2>1
    <3>2. text[n + 1] = "*" /\ Scanner!Mode[n] = "slash"
      BY <1>7, <2>1, <3>1 DEF Scanner!Follow
    <3> QED
      BY <3>1, <3>2, RegularModes DEF ReadsOn
  <2> QED
    BY <2>1
<1>9. \/ text[at + 1] = "#" /\ Scanner!Silent(1, h)
      \/ text[at + 1] = "'" /\ Scanner!Silent(1, s)
      \/ text[at + 1] = ";" /\ Scanner!Close(lex)
      \/ text[at + 1] = "/" /\ Scanner!Silent(1, d)
      \/ text[at + 1] \notin {"#", "'", ";"} /\ Scanner!Silent(1, lex)
  BY <1>8 DEF Scanner!InPlain, Scanner!Byte
<1> HIDE DEF h, s, d, c, r
<1>10. /\ text[at + 1] # ";" => at + 1 \notin Scanner!Terminators
       /\ text[at + 1] # "#" => at + 1 \notin Scanner!Names
  BY SetsAreIn
<1>11. CASE text[at + 1] = "#" /\ Scanner!Silent(1, h)
  <2>1. at + 1 \in Scanner!Names
    BY <1>1, <1>7, <1>11 DEF Scanner!Names
  <2>2. Reading(h, at + 1)
    BY <1>2, <1>7, <1>11 DEF Reading
  <2>3. ReadsTo(h, at + 1, found)
    BY <1>1, <1>2, <2>1, <2>2, BeginsName
  <2>4. at' = at + 1 /\ lex' = h /\ found' = found
    BY <1>11 DEF Scanner!Silent, Scanner!Eat
  <2> QED
    BY <2>3, <2>4
<1>12. CASE text[at + 1] = "'" /\ Scanner!Silent(1, s)
  <2>1. Reading(s, at + 1)
    BY <1>2, <1>7, <1>12 DEF Reading
  <2> QED
    BY <1>1, <1>2, <1>10, <1>12, <2>1, SilentReads
<1>13. CASE text[at + 1] = ";" /\ Scanner!Close(lex)
  <2>1. at + 1 \in Scanner!Terminators
    BY <1>1, <1>7, <1>13 DEF Scanner!Terminators
  <2>2. Scanner!Lists(r.refs, Scanner!References(r.start, at + 1))
    <3>1. Gathers(lex, at) /\ lex.start \in Nat
      BY <1>1 DEF ReadsTo, LexStates
    <3>2. Scanner!References(lex.start, at + 1) = Scanner!References(lex.start, at)
      BY <1>1, <3>1, NoneEnds, SameReferences
    <3> QED
      BY <1>4, <3>1, <3>2 DEF Gathers
  <2>3. FoundTo(Append(found, r), at + 1)
    BY <1>1, <1>4, <2>1, <2>2, FoundGrows DEF ReadsTo
  <2>4. ReadsTo(c, at + 1, Append(found, r))
    BY <1>1, <1>3, <2>1, <2>3, Closes
  <2> QED
    BY <1>5, <1>13, <2>4
<1>14. CASE text[at + 1] = "/" /\ Scanner!Silent(1, d)
  <2>1. Reading(d, at + 1)
    BY <1>2, <1>7, <1>14 DEF Reading
  <2> QED
    BY <1>1, <1>2, <1>10, <1>14, <2>1, SilentReads
<1>15. CASE text[at + 1] \notin {"#", "'", ";"} /\ Scanner!Silent(1, lex)
  <2>1. Reading(lex, at + 1)
    BY <1>1, <1>7, <1>15 DEF Reading
  <2> QED
    BY <1>1, <1>2, <1>10, <1>15, <2>1, SilentReads
<1> QED
  BY <1>9, <1>11, <1>12, <1>13, <1>14, <1>15

\* What is said of a text alone stays with the text.
LEMMA ScanStays ==
  ASSUME text' = text
  PROVE  /\ Scanner!Regular' <=> Scanner!Regular
         /\ Scanner!StatementEnds' = Scanner!StatementEnds
         /\ \A s : \A n : Scanner!References(s, n)' = Scanner!References(s, n)
         /\ \A rs : \A R : Scanner!Lists(rs, R)' <=> Scanner!Lists(rs, R)
         /\ \A l : \A n : \A f : ReadsTo(l, n, f) => ReadsTo(l, n, f)'
<1>1. Scanner!Mode' = Scanner!Mode /\ Scanner!Bytes' = Scanner!Bytes
  BY TextStays
<1>2. Scanner!Names' = Scanner!Names /\ Scanner!Terminators' = Scanner!Terminators
  BY <1>1 DEF Scanner!Names, Scanner!Terminators
<1>3. \A q : \A p : Scanner!Ends(q, p)' <=> Scanner!Ends(q, p)
  BY DEF Scanner!Ends
<1>4. Scanner!Regular' <=> Scanner!Regular
  BY <1>1, <1>2, <1>3 DEF Scanner!Regular, Scanner!Comment
<1>5. Scanner!StatementEnds' = Scanner!StatementEnds
  BY <1>1, <1>2 DEF Scanner!StatementEnds
<1>6. \A s : \A n : Scanner!References(s, n)' = Scanner!References(s, n)
  BY <1>2, <1>3 DEF Scanner!References
<1>8. \A rs : \A R : Scanner!Lists(rs, R)' <=> Scanner!Lists(rs, R)
  BY <1>1, <1>3 DEF Scanner!Lists
<1>7. ASSUME NEW l, NEW n, NEW f, ReadsTo(l, n, f) PROVE ReadsTo(l, n, f)'
  <2>1. Reading(l, n)' <=> Reading(l, n)
    BY <1>1 DEF Reading
  <2>2. FoundTo(f, n)' <=> FoundTo(f, n)
    BY <1>2, <1>6, <1>8 DEF FoundTo
  <2>3. Past(l, n)' = Past(l, n)
    BY <1>2 DEF Past, Begun
  <2>4. Naming(l, n)' <=> Naming(l, n)
    BY <1>2 DEF Naming, Begun
  <2>5. Gathers(l, n)' <=> Gathers(l, n)
    BY <1>1, <1>2, <1>3, <1>6, <1>8, <2>3, <2>4 DEF Gathers
  <2>6. Rests(l, n)' <=> Rests(l, n)
    BY <1>1, <1>2 DEF Rests
  <2> QED
    BY <1>7, <2>1, <2>2, <2>5, <2>6 DEF ReadsTo
<1> QED
  BY <1>4, <1>5, <1>6, <1>7, <1>8

\* What was found when the text is over.
LEMMA EndReads ==
  ASSUME ScanInv, Scanner!Regular, ReadsTo(lex, at, found), Scanner!EndOfData
  PROVE  /\ {found'[i].end : i \in DOMAIN found'} = Scanner!StatementEnds
         /\ \A i \in DOMAIN found' :
               Scanner!Lists(found'[i].refs, Scanner!References(found'[i].start, found'[i].end))
<1> DEFINE N == Len(text)
           r == [start |-> lex.start, end |-> at, refs |-> lex.refs]
<1>1. at = N /\ N \in Nat /\ found' = IF lex.open THEN Append(found, r) ELSE found
  BY TextIs DEF Scanner!EndOfData
<1>2. /\ lex \in LexStates /\ FoundTo(found, N)
      /\ lex.open => Gathers(lex, N)
      /\ ~lex.open => Rests(lex, N)
  BY <1>1 DEF ReadsTo
<1>3. \A t \in Scanner!Terminators : t <= N
  BY SetsAreIn, GrammarBytes
<1>4. /\ \A i \in DOMAIN found : /\ found[i].end \in Scanner!Terminators
                                 /\ Scanner!Lists(found[i].refs, Scanner!References(found[i].start, found[i].end))
      /\ \A t \in Scanner!Terminators : \E i \in DOMAIN found : found[i].end = t
      /\ found \in Seq(Statements)
  BY <1>2, <1>3 DEF FoundTo
<1>5. CASE ~lex.open
  <2>1. Scanner!StatementEnds = Scanner!Terminators
    <3>1. \A q \in Scanner!Bytes : text[q] \notin Blanks => \E t \in Scanner!Terminators : q <= t
      BY <1>2, <1>5, GrammarBytes DEF Rests
    <3>2. \A q \in Scanner!Bytes, t \in Scanner!Terminators : q <= t => ~(t < q)
      <4>1. \A q, t \in Nat : q <= t => ~(t < q)
        OBVIOUS
      <4> QED
        BY <4>1, GrammarBytes, SetsAreIn
    <3> QED
      BY <3>1, <3>2 DEF Scanner!StatementEnds
  <2> QED
    BY <1>1, <1>4, <1>5, <2>1
<1>6. CASE lex.open
  <2>1. Scanner!StatementEnds = Scanner!Terminators \cup {N}
    <3>1. lex.start + 1 \in Scanner!Bytes /\ text[lex.start + 1] \notin Blanks
      BY <1>2, <1>6 DEF Gathers
    <3>2. \A t \in Scanner!Terminators : t < lex.start + 1
      <4>1. \A t \in Scanner!Terminators : t <= lex.start
        BY <1>2, <1>3, <1>6 DEF Gathers
      <4>2. lex.start \in Nat
        BY <1>2 DEF LexStates
      <4>3. \A t \in Nat : t <= lex.start => t < lex.start + 1
        BY <4>2
      <4> QED
        BY <4>1, <4>3, SetsAreIn
    <3> QED
      BY <3>1, <3>2 DEF Scanner!StatementEnds
  <2> DEFINE g == Append(found, r)
  <2>2. /\ DOMAIN g = DOMAIN found \cup {Len(found) + 1}
        /\ g[Len(found) + 1] = r
        /\ \A i \in DOMAIN found : g[i] = found[i]
    BY <1>4
  <2>3. /\ r.end = N
        /\ Scanner!Lists(r.refs, Scanner!References(r.start, r.end))
    <3>1. Scanner!Lists(lex.refs, Scanner!References(lex.start, N))
      BY <1>2, <1>6 DEF Gathers
    <3> QED
      BY <1>1, <3>1
  <2>4. found' = g
    BY <1>1, <1>6
  <2> HIDE DEF g, r
  <2>5. {g[i].end : i \in DOMAIN g} = Scanner!StatementEnds
    <3>1. \A i \in DOMAIN g : g[i].end \in Scanner!StatementEnds
      BY <1>4, <2>1, <2>2, <2>3
    <3>2. ASSUME NEW t \in Scanner!StatementEnds PROVE \E i \in DOMAIN g : g[i].end = t
      <4>1. CASE t \in Scanner!Terminators
        BY <1>4, <2>2, <4>1
      <4>2. CASE t = N
        BY <2>2, <2>3, <4>2
      <4> QED
        BY <2>1, <4>1, <4>2
    <3> QED
      BY <3>1, <3>2
  <2>6. \A i \in DOMAIN g : Scanner!Lists(g[i].refs, Scanner!References(g[i].start, g[i].end))
    BY <1>4, <2>2, <2>3
  <2> QED
    BY <2>4, <2>5, <2>6
<1> QED
  BY <1>5, <1>6

LEMMA ScanReadsSteps ==
  ASSUME ScanInv, ScanReads, [Scanner!Next]_scanVars
  PROVE  ScanReads'
<1>1. lexer' = lexer /\ text' = text
  BY LexerStays
<1>2. SUFFICES ASSUME lexer = "scan", Scanner!Regular PROVE (IF over THEN Scanner!Scanned ELSE ReadsTo(lex, at, found))'
  BY <1>1, ScanStays DEF ScanReads
<1>3. IF over THEN Scanner!Scanned ELSE ReadsTo(lex, at, found)
  BY <1>2 DEF ScanReads
<1>4. \A S : Scanner!Cardinality(S) = Cardinality(S)
  BY DEF Scanner!Cardinality, Cardinality
<1>5. ASSUME ~over', ReadsTo(lex', at', found')
      PROVE  (IF over THEN Scanner!Scanned ELSE ReadsTo(lex, at, found))'
  <2>1. PICK l, n, f : l = lex' /\ n = at' /\ f = found'
    OBVIOUS
  <2>2. ReadsTo(l, n, f)'
    BY <1>1, <1>5, <2>1, ScanStays
  <2>3. ReadsTo(lex, at, found)'
    BY <2>1, <2>2 DEF ReadsTo, Reading, FoundTo, Gathers, Naming, Past, Begun, Rests
  <2> QED
    BY <1>5, <2>3
<1>6. CASE at' = at /\ lex' = lex /\ found' = found /\ over' = over
  <2>1. CASE over
    BY <1>1, <1>3, <1>6, <2>1, ScanStays, <1>4 DEF Scanner!Scanned
  <2>2. CASE ~over
    BY <1>3, <1>5, <1>6, <2>2
  <2> QED
    BY <2>1, <2>2
<1>7. ASSUME Scanner!Scanning, over' = over, ReadsOn => ReadsTo(lex', at', found')
      PROVE  (IF over THEN Scanner!Scanned ELSE ReadsTo(lex, at, found))'
  <2>1. ~over /\ at < end
    BY <1>7 DEF Scanner!Scanning
  <2>2. ReadsOn
    BY <1>2, <1>3, <2>1 DEF ReadsOn
  <2> QED
    BY <1>5, <1>7, <2>1, <2>2
<1>8. CASE \/ UNCHANGED scanVars \/ \E n \in 1..Len(text) : Scanner!ReadChunk(n)
  BY <1>6, <1>8 DEF scanVars, Scanner!ReadChunk
<1>9. CASE Scanner!Resolve
  <2>1. over' = over /\ Scanner!Scanning
    BY <1>9 DEF ScanInv, Lexed, Pends, Scanner!Resolve, Scanner!Silent, Scanner!Eat
  <2> QED
    BY <1>7, <1>9, <2>1, ResolveReads
<1>10. CASE Scanner!OpenStatement
  <2>1. over' = over /\ Scanner!Scanning
    BY <1>10 DEF Scanner!OpenStatement, Scanner!Ready, Scanner!Silent, Scanner!Eat
  <2> QED
    BY <1>7, <1>10, <2>1, OpenReads
<1>11. CASE Scanner!HashDigit
  <2>1. over' = over /\ Scanner!Scanning
    BY <1>11 DEF Scanner!HashDigit, Scanner!Ready, Scanner!Silent, Scanner!Eat
  <2> QED
    BY <1>7, <1>11, <2>1, DigitReads
<1>12. CASE Scanner!HashEnd
  <2>1. over' = over /\ Scanner!Scanning
    BY <1>12 DEF Scanner!HashEnd, Scanner!Ready, Scanner!Close, Scanner!Silent, Scanner!Eat
  <2> QED
    BY <1>7, <1>12, <2>1, HashEndReads
<1>13. CASE Scanner!InComment
  <2>1. ~over /\ at < end /\ lex.mode = "comment"
    BY <1>13 DEF Scanner!InComment, Scanner!Inside, Scanner!Ready, Scanner!Scanning
  <2>2. Reading(lex, at)
    BY <1>3, <2>1 DEF ReadsTo
  <2> QED
    BY <2>1, <2>2 DEF Reading
<1>14. CASE Scanner!InString
  <2>1. over' = over /\ Scanner!Scanning
    BY <1>14 DEF Scanner!InString, Scanner!Inside, Scanner!Ready, Scanner!Silent, Scanner!Eat
  <2> QED
    BY <1>7, <1>14, <2>1, StringReads
<1>15. CASE Scanner!InPlain
  <2>1. over' = over /\ Scanner!Scanning
    BY <1>15 DEF Scanner!InPlain, Scanner!Inside, Scanner!Ready, Scanner!Close, Scanner!Silent, Scanner!Eat
  <2> QED
    BY <1>7, <1>15, <2>1, PlainReads
<1>16. CASE Scanner!EndOfData
  <2>1. ~over /\ over'
    BY <1>16 DEF Scanner!EndOfData
  <2>2. /\ {found'[i].end : i \in DOMAIN found'} = Scanner!StatementEnds
        /\ \A i \in DOMAIN found' :
              Scanner!Lists(found'[i].refs, Scanner!References(found'[i].start, found'[i].end))
    BY <1>2, <1>3, <1>16, <2>1, EndReads
  <2>3. Scanner!Scanned'
    BY <1>1, <1>4, <2>2, ScanStays DEF Scanner!Scanned
  <2> QED
    BY <2>1, <2>3
<1>17. ~(Scanner!StripComment \/ Scanner!StripString \/ Scanner!StripPlain \/ Scanner!Stripped)
  BY <1>2 DEF Scanner!StripComment, Scanner!StripString, Scanner!StripPlain, Scanner!Stripped, Scanner!Stripping
<1> QED
  BY <1>8, <1>9, <1>10, <1>11, <1>12, <1>13, <1>14, <1>15, <1>16, <1>17 DEF Scanner!Next

\* Both lexers begin before the first byte.
LEMMA LexersBegin ==
  ASSUME ScanInv, Scanner!Init
  PROVE  StripInv /\ ScanReads
<1>1. /\ at = 0 /\ lex = Scanner!Fresh /\ found = <<>> /\ over = FALSE
      /\ Scanner!Mode[0] = "plain"
  BY ModeIs DEF Scanner!Init
<1>2. /\ lex \in LexStates /\ lex.mode = "plain" /\ lex.pend = "none" /\ ~lex.hashing /\ ~lex.open
  <2>1. <<>> \in Seq(STRING) /\ <<>> \in Seq(Seq(STRING))
    OBVIOUS
  <2> QED
    BY <1>1, <2>1 DEF Scanner!Fresh, LexStates, Modes, Pends
<1>3. StripInv
  BY <1>1, <1>2, HoldsNothing DEF StripInv, SameMode
<1>4. FoundTo(<<>>, 0)
  <2>1. <<>> \in Seq(Statements) /\ DOMAIN <<>> = {}
    OBVIOUS
  <2>2. \A t \in Scanner!Terminators : ~(t <= 0)
    <3>1. \A t \in Nat : t >= 1 => ~(t <= 0)
      OBVIOUS
    <3> QED
      BY <3>1, SetsAreIn, GrammarBytes
  <2> QED
    BY <2>1, <2>2 DEF FoundTo
<1>5. Rests(lex, 0)
  <2>1. \A q \in Scanner!Bytes : ~(q <= 0)
    <3>1. \A q \in Nat : q >= 1 => ~(q <= 0)
      OBVIOUS
    <3> QED
      BY <3>1, GrammarBytes
  <2> QED
    BY <1>2, <2>1 DEF Rests
<1>6. Reading(lex, 0)
  BY <1>1, <1>2 DEF Reading
<1>7. ReadsTo(lex, at, found)
  BY <1>1, <1>2, <1>4, <1>5, <1>6 DEF ReadsTo
<1> QED
  BY <1>1, <1>3, <1>7 DEF ScanReads

LEMMA LexersAgree ==
  ASSUME ScanInv, StripInv, ScanReads
  PROVE  Scanner!LexersIgnoreCuts
<1>1. lexer \in {"scan", "strip"}
  BY DEF ScanInv, Scanner!Lexers
<1>2. CASE lexer = "scan"
  BY <1>2 DEF ScanReads, Scanner!LexersIgnoreCuts
<1>3. CASE lexer = "strip"
  BY <1>3, StripInvIsIt DEF Scanner!LexersIgnoreCuts
<1> QED
  BY <1>1, <1>2, <1>3

(* Wherever the reads of a file end, the scan reports its statements and the   *)
(* ids they refer to, and stripping keeps what is in no comment: presplit.ts's *)
(* scanStatements and convert.ts's stripStepCommentsChunk, for every text.     *)
THEOREM LexersReadAnyCuts == ArtifactsSpec => []LexersIgnoreCuts
<1> DEFINE I == IF maker = "scanner" THEN ScanInv /\ StripInv /\ ScanReads ELSE ~over
           S == maker = "scanner" => ScanInv
<1>1. ArtifactsInit /\ S => I
  BY LexersBegin DEF ArtifactsInit, Scanner!Init
<1>2. I /\ S' /\ [ArtifactsNext]_<<maker, vars, glbVars, sliceVars, scanVars, presplitVars>> => I'
  <2> SUFFICES ASSUME I, S', [ArtifactsNext]_<<maker, vars, glbVars, sliceVars, scanVars, presplitVars>>
               PROVE  I'
    OBVIOUS
  <2>1. CASE maker = "scanner"
    <3>1. maker' = "scanner" /\ [Scanner!Next]_scanVars
      BY <2>1 DEF ArtifactsNext
    <3> QED
      BY <2>1, <3>1, StripSteps, ScanReadsSteps
  <2>2. CASE maker # "scanner"
    BY <2>2 DEF ArtifactsNext, scanVars
  <2> QED
    BY <2>1, <2>2
<1>3. I => LexersIgnoreCuts
  BY LexersAgree DEF LexersIgnoreCuts, Scanner!LexersIgnoreCuts
<1> QED
  BY <1>1, <1>2, <1>3, ScanHolds, PTL DEF ArtifactsSpec
=============================================================================
