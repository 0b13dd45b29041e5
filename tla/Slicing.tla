------------------------------ MODULE Slicing ------------------------------
(***************************************************************************)
(* presplitIfcFile of packages/ifc/src/presplit.ts: which statements of a    *)
(* source are copied into which shard.  A statement is its entity id and the *)
(* ids it refers to; a shard stands for a structure that contains elements,  *)
(* and the last one takes what no structure reached.                         *)
(***************************************************************************)
EXTENDS Integers, FiniteSets, FiniteSetsExt

CONSTANTS
    Sources     \* [spatial, contains, aggregates, refs], see SourceOK

\* Shards are named after their structure's id; ids are positive.
Rest == 0
NoOwner == -1

VARIABLES
    src,
    shards,     \* shard -> the statements and the rewritten aggregates of its file
    outcome     \* "new", "sliced" or "crashed"

vars == <<src, shards, outcome>>

Statements == DOMAIN src.refs
Structures == {c.structure : c \in src.contains}
RefsOf(x)  == IF x \in Statements THEN src.refs[x] ELSE {}
Ids        == Statements \cup UNION {RefsOf(x) : x \in Statements}

\* What a source gives: relations are statements that refer to what they relate.
EntityIds == Nat \ {0}
SourceOK(s) ==
    /\ IsFiniteSet(DOMAIN s.refs) /\ DOMAIN s.refs \subseteq EntityIds
    /\ \A x \in DOMAIN s.refs : IsFiniteSet(s.refs[x]) /\ s.refs[x] \subseteq EntityIds
    /\ s.spatial \subseteq DOMAIN s.refs
    /\ \A c \in s.contains : c.id \in DOMAIN s.refs
                            /\ {c.structure} \cup c.elements \subseteq s.refs[c.id]
    /\ \A a \in s.aggregates : a.id \in DOMAIN s.refs
                              /\ {a.parent} \cup a.children \subseteq s.refs[a.id]

SlicingAssumption == \A s \in Sources : SourceOK(s)

TypeOK ==
    /\ src \in Sources
    /\ outcome \in {"new", "sliced", "crashed"}
    /\ outcome = "sliced" => DOMAIN shards \subseteq Structures \cup {Rest}

Init == src \in Sources /\ shards = <<>> /\ outcome = "new"

-----------------------------------------------------------------------------
\* The ids reached from `seeds` when `next` gives what each id reaches.
Closure(seeds, next) ==
    LET reached[n \in Nat] ==
            IF n = 0 THEN seeds
            ELSE LET m == reached[n - 1] IN m \cup UNION {next[x] : x \in m}
    IN  reached[Cardinality(DOMAIN next)]

Forward == [x \in Ids |-> RefsOf(x)]

Contained(e, s) == \E c \in src.contains : c.structure = s /\ e \in c.elements

SpatialKids(a) == a.children \cap src.spatial
ProductKids(a) == (a.children \cap Statements) \ src.spatial

\* Aggregates with products below them are rewritten for each shard.
Rewritten == {a \in src.aggregates : ProductKids(a) # {}}

\* The first structure, by the id of its containment, that contains a product.
Owner(e) ==
    LET holders == {c \in src.contains : e \in c.elements}
    IN  IF holders # {} THEN (CHOOSE c \in holders : \A d \in holders : c.id <= d.id).structure
        ELSE IF \E a \in Rewritten : e \in ProductKids(a) THEN Rest
        ELSE NoOwner

Foreign(x, s) == Owner(x) \notin {NoOwner, s} /\ ~Contained(x, s)

\* The spatial skeleton and all it refers to is in every shard.
Base ==
    LET kept == src.aggregates \ Rewritten
    IN  Closure(src.spatial \cup Structures
                  \cup UNION {{a.id, a.parent} \cup a.children : a \in kept}, Forward)

Seeds(s) ==
    (UNION {{c.id} \cup c.elements : c \in {d \in src.contains : d.structure = s}})
      \cup UNION {{k \in a.children : Owner(k) = s} : a \in Rewritten}

\* Mutant: what refers to a member does not join it.
MembersForward(s, seeds) == Closure(seeds, Forward)

\* expand and attract: references, and referrers of what is not in the base.
Members(s, seeds) ==
    LET base == Base
        Referrers(x) == IF x \in base THEN {}
                        ELSE {y \in Statements \ base : x \in RefsOf(y) /\ ~Foreign(y, s)}
    IN  Closure(seeds, [x \in Ids |-> RefsOf(x) \cup Referrers(x)])

\* A product below an aggregate and in no structure belongs to the last shard,
\* for which the list of seeds has no entry: its first push throws.
Orphans == UNION {{k \in a.children : Owner(k) = Rest} : a \in Rewritten}

Throw ==
    /\ outcome = "new"
    /\ Orphans # {}
    /\ outcome' = "crashed"
    /\ UNCHANGED <<src, shards>>

File(s, members) ==
    LET base  == Base
        In(x) == x \in base \/ (x \in members /\ ~Foreign(x, s))
    IN  [copied |-> {x \in Statements \ {a.id : a \in Rewritten} : In(x)},
         kids   |-> [a \in Rewritten |->
                        {k \in SpatialKids(a) \cup {p \in ProductKids(a) : Owner(p) = s} : In(k)}]]

\* The last shard takes what no structure reached, if there is any.
Files ==
    LET members == [s \in Structures |-> Members(s, Seeds(s))]
        left    == Statements \ ({a.id : a \in Rewritten} \cup Base
                                   \cup UNION {members[s] : s \in Structures})
    IN  [s \in Structures \cup (IF left = {} THEN {} ELSE {Rest}) |->
            File(s, IF s = Rest THEN Members(Rest, left) ELSE members[s])]

Slice ==
    /\ outcome = "new"
    /\ Orphans = {}
    /\ outcome' = "sliced"
    /\ shards' = Files
    /\ UNCHANGED src

Next == Slice \/ Throw

Spec == Init /\ [][Next]_vars

-----------------------------------------------------------------------------
Copies(x) == {s \in DOMAIN shards : x \in shards[s].copied}

(* Slicing loses nothing and doubles no contained product: the skeleton is in  *)
(* all shards and any other statement in one at least, a contained product in  *)
(* those of the structures that contain it, a copied statement finds what it   *)
(* refers to (rewritten aggregates are in every shard) unless that is another  *)
(* shard's product, what refers to a copied statement (styles,                 *)
(* property sets) comes along unless it is the skeleton's or another shard's,  *)
(* and each product of an aggregate stays below it in its own shard.           *)
SlicesAreWhole ==
    outcome = "sliced" =>
      LET plain == Statements \ {a.id : a \in Rewritten}
          own   == plain \ Base
      IN
      /\ \A x \in plain : IF x \in own THEN Copies(x) # {} ELSE Copies(x) = DOMAIN shards
      /\ \A c \in src.contains : \A e \in c.elements \cap own :
            Copies(e) = {s \in Structures : Contained(e, s)}
      /\ \A s \in DOMAIN shards : \A x \in shards[s].copied :
            /\ \A y \in RefsOf(x) \cap plain : y \in shards[s].copied \/ Foreign(y, s)
            /\ x \in own => \A y \in own :
                  x \in RefsOf(y) => y \in shards[s].copied \/ Foreign(y, s)
      /\ \A a \in Rewritten, k \in UNION {ProductKids(b) : b \in Rewritten} :
            k \in a.children => k \in shards[Owner(k)].kids[a]

(* presplit.ts:690-691: uncontained products land in the trailing leftover     *)
(* shard.  A source with such a product below an aggregate is not sliced.      *)
EverySourceIsSliced == outcome # "crashed"
=============================================================================
