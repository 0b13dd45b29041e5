--------------------------- MODULE VersionReports ---------------------------
(***************************************************************************)
(* What the server computes from the element rows of two versions: clashes   *)
(* (apps/api/src/routes/clash.ts) and the difference (routes/diff.ts).  Rows  *)
(* of a version come in any order; the boxes are in the version's own frame,  *)
(* whose origin is a world coordinate.                                        *)
(***************************************************************************)
EXTENDS Integers, Sequences, FiniteSets

CONSTANTS
    Versions,
    Axes,           \* the first one is swept
    Sweep,
    Contents,       \* [rows, origin], see ContentOK
    Tolerances

\* A row that is boxed has its corners; the tolerance is no less than 0 (schema).
RowOK(r)     == r.boxed \in BOOLEAN /\ (r.boxed => {r.min, r.max} \subseteq [Axes -> Int])
ContentOK(c) ==
    /\ c.origin \in [Axes -> Int]
    /\ Len(c.rows) \in Nat /\ DOMAIN c.rows = 1..Len(c.rows)
    /\ \A i \in DOMAIN c.rows : RowOK(c.rows[i])

ReportsAssumption ==
    /\ Sweep \in Axes /\ Tolerances \subseteq Nat
    /\ \A c \in Contents : ContentOK(c)

VARIABLES
    content,        \* version -> its rows and origin
    hidden,         \* versions of projects the caller is no member of
    report          \* the answer: of which kind, on which versions, and what it says

vars == <<content, hidden, report>>

NoReport == [kind |-> "none"]

TypeOK ==
    /\ content \in [Versions -> Contents] /\ hidden \subseteq Versions
    /\ report.kind \in {"none", "denied", "clashes", "diff"}

Init ==
    /\ content \in [Versions -> Contents]
    /\ hidden \in SUBSET Versions
    /\ report = NoReport

-----------------------------------------------------------------------------
Rows(v) == content[v].rows

\* Rows without geometry have no box.  The boxes of v in the frame of w:
Boxes(v) == {i \in DOMAIN Rows(v) : Rows(v)[i].boxed}
Shifted(v, w) ==
    LET delta == [x \in Axes |-> content[v].origin[x] - content[w].origin[x]]
    IN  [i \in Boxes(v) |->
            [id  |-> Rows(v)[i].id,
             min |-> [x \in Axes |-> Rows(v)[i].min[x] + delta[x]],
             max |-> [x \in Axes |-> Rows(v)[i].max[x] + delta[x]]]]

\* Their indices by their left edges.
Sorted(boxes) ==
    CHOOSE s \in [1..Cardinality(DOMAIN boxes) -> DOMAIN boxes] :
        \A i, j \in DOMAIN s : i < j =>
            s[i] # s[j] /\ boxes[s[i]].min[Sweep] <= boxes[s[j]].min[Sweep]

Least(p, q)    == IF p < q THEN p ELSE q
Greatest(p, q) == IF p < q THEN q ELSE p
Overlaps(p, q, x) == Least(p.max[x], q.max[x]) - Greatest(p.min[x], q.min[x])

\* The binary searches: the first index at which before holds no longer.
Bisect(before) ==
    LET half(r) ==
            LET mid == (r.lo + r.hi) \div 2
            IN  IF r.lo >= r.hi THEN r
                ELSE IF before[mid] THEN [lo |-> mid + 1, hi |-> r.hi]
                                    ELSE [lo |-> r.lo, hi |-> mid]
        range[n \in Nat] == IF n = 0 THEN [lo |-> 1, hi |-> Len(before) + 1]
                            ELSE half(range[n - 1])
    IN  range[Len(before)].lo

\* Mutant: equal left edges are skipped by the lower bound.
WindowLate(left, p, t) ==
    Bisect([k \in DOMAIN left |-> left[k] <= p.min[Sweep] - t])
      .. Bisect([k \in DOMAIN left |-> left[k] <= p.max[Sweep] + t]) - 1

\* The boxes that are looked at for box p, by their left edges.
Window(left, p, t) ==
    Bisect([k \in DOMAIN left |-> left[k] < p.min[Sweep] - t])
      .. Bisect([k \in DOMAIN left |-> left[k] <= p.max[Sweep] + t]) - 1

FindClashes(a, b, t) ==
    LET of     == Shifted(a, a)
        boxes  == Shifted(b, a)
        sorted == Sorted(boxes)
        left   == [k \in DOMAIN sorted |-> boxes[sorted[k]].min[Sweep]]
    IN  {p \in Boxes(a) \X Boxes(b) :
            /\ \E k \in Window(left, of[p[1]], t) : sorted[k] = p[2]
            /\ ~(a = b /\ of[p[1]].id = boxes[p[2]].id)
            /\ \A x \in Axes : Overlaps(of[p[1]], boxes[p[2]], x) > t}

\* The last row of a guid stands for it.
ByGuid(v, g) ==
    Rows(v)[CHOOSE i \in DOMAIN Rows(v) :
               Rows(v)[i].guid = g /\ \A j \in DOMAIN Rows(v) : Rows(v)[j].guid = g => j <= i]
Guids(v) == {Rows(v)[i].guid : i \in DOMAIN Rows(v)}

DiffElements(a, b) ==
    LET both  == Guids(a) \cap Guids(b)
        other == {g \in both : ByGuid(a, g).data # ByGuid(b, g).data}
    IN  [added |-> Guids(b) \ Guids(a), removed |-> Guids(a) \ Guids(b),
         changed |-> other, unchanged |-> Cardinality(both \ other)]

-----------------------------------------------------------------------------
Answer(r) == report' = r /\ UNCHANGED <<content, hidden>>

\* assertVersionAccess, for each of the two.
Deny(a, b) ==
    /\ {a, b} \cap hidden # {}
    /\ Answer([kind |-> "denied"])

DetectClashes(a, b, t) ==
    /\ {a, b} \cap hidden = {}
    /\ Answer([kind |-> "clashes", a |-> a, b |-> b, tolerance |-> t, hits |-> FindClashes(a, b, t)])

Compare(a, b) ==
    /\ {a, b} \cap hidden = {}
    /\ Answer([kind |-> "diff", a |-> a, b |-> b, diff |-> DiffElements(a, b)])

Next ==
    /\ report = NoReport
    /\ \E a, b \in Versions :
        \/ Deny(a, b)
        \/ Compare(a, b)
        \/ \E t \in Tolerances : DetectClashes(a, b, t)

Spec == Init /\ [][Next]_vars

-----------------------------------------------------------------------------
\* A box where it is in the world.
World(v, i) ==
    [min |-> [x \in Axes |-> Rows(v)[i].min[x] + content[v].origin[x]],
     max |-> [x \in Axes |-> Rows(v)[i].max[x] + content[v].origin[x]]]

TrueClashes(a, b, t) ==
    {p \in Boxes(a) \X Boxes(b) :
        /\ a = b => Rows(a)[p[1]].id # Rows(b)[p[2]].id
        /\ \A x \in Axes : Overlaps(World(a, p[1]), World(b, p[2]), x) > t}

\* Nothing but clashes; in one version each in one of its two orders at least,
\* and between two those where b's box starts no further left than the
\* tolerance before a's.
ClashesAreFound(r) ==
    /\ r.hits \subseteq TrueClashes(r.a, r.b, r.tolerance)
    /\ \A p \in TrueClashes(r.a, r.b, r.tolerance) \ r.hits :
        \/ r.a = r.b /\ <<p[2], p[1]>> \in r.hits
        \/ World(r.b, p[2]).min[Sweep] < World(r.a, p[1]).min[Sweep] - r.tolerance

\* Every guid is in one class of the difference.
DiffIsPartition(r) ==
    LET d == r.diff
    IN  /\ d.added \cup d.changed \subseteq Guids(r.b)
        /\ d.removed \cup d.changed \subseteq Guids(r.a)
        /\ Cardinality(d.added) + Cardinality(d.changed) + d.unchanged = Cardinality(Guids(r.b))
        /\ Cardinality(d.removed) + Cardinality(d.changed) + d.unchanged = Cardinality(Guids(r.a))

(* Reports agree with the models: a reported clash is an overlap in the world   *)
(* deeper than the tolerance, an overlap is reported unless the sweep's lower   *)
(* bound hides it, and a difference accounts for every element of both versions *)
(* once.                                                                        *)
ReportsAreTrue ==
    /\ report.kind = "clashes" => ClashesAreFound(report)
    /\ report.kind = "diff" => DiffIsPartition(report)

(* clash.ts:96: every box in B whose minX <= boxA.maxX + tolerance may overlap; *)
(* the lower bound skips those that start left of boxA.                          *)
EveryClashIsFound ==
    report.kind = "clashes" =>
        report.hits = TrueClashes(report.a, report.b, report.tolerance)
=============================================================================
