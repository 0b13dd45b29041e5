-------------------------- MODULE ViewerChunksProofs --------------------------
(***************************************************************************)
(* The scene is that of the latest federation, for any versions, chunks,    *)
(* budget and number of loads, as long as no load starts while another      *)
(* still parses (Overlap = FALSE; what is lost otherwise is in README.md).  *)
(* A load whose parse failed has placed the models up to that file; that is  *)
(* what Short, Pending and InHand keep track of.                             *)
(*                                                                          *)
(* Viewer.ts compares loadSeq after every await; what makes that enough is   *)
(* that a chunk has a state exactly while it is fetched for this loadSeq or *)
(* has its mesh, that all fetches are of the one pass that may be under way,*)
(* and that a pass a load overtook is followed by another one.  On it rests *)
(* that residentBytes is what the scene weighs: a chunk adds to it once, and *)
(* what an eviction takes off is in the scene.                              *)
(***************************************************************************)
EXTENDS ViewerChunks, SumTheorems, TLAPS

-----------------------------------------------------------------------------
(* The models of a federation, one after the other.                          *)

\* A set of numbers has its least.
LEMMA Least ==
  ASSUME NEW S \in SUBSET Nat, S # {}
  PROVE  Min(S) \in S /\ \A y \in S : Min(S) <= y
  BY LeastNumber DEF Min

\* The index at which placing stops.
LEMMA StopIs ==
  ASSUME NEW t \in Seq(Versions)
  PROVE  \/ Stop(t) = 0 /\ \A i \in DOMAIN t : t[i] \notin Single
         \/ /\ Stop(t) \in DOMAIN t /\ t[Stop(t)] \in Single
            /\ \A i \in DOMAIN t : i < Stop(t) => t[i] \notin Single
<1> DEFINE I == {i \in 1..Len(t) : t[i] \in Single}
<1>1. I \in SUBSET Nat /\ 1..Len(t) = DOMAIN t
  OBVIOUS
<1>2. Stop(t) = IF I # {} THEN Min(I) ELSE 0
  BY DEF Stop, SelectInSeq
<1>3. CASE I = {}
  BY <1>1, <1>2, <1>3
<1>4. CASE I # {}
  <2>1. PICK m : m = Min(I)
    OBVIOUS
  <2>2. m \in I /\ \A y \in I : m <= y
    BY <1>1, <1>4, <2>1, Least
  <2>3. m \in DOMAIN t /\ t[m] \in Single
    BY <1>1, <2>2
  <2>4. ASSUME NEW i \in DOMAIN t, i < m PROVE t[i] \notin Single
    <3>1. i \notin I /\ i \in 1..Len(t)
      BY <1>1, <2>2, <2>4
    <3> QED
      BY <3>1
  <2>5. Stop(t) = m
    BY <1>2, <1>4, <2>1
  <2> QED
    BY <2>3, <2>4, <2>5
<1> QED
  BY <1>3, <1>4

Distinct(t) == \A i, j \in DOMAIN t : t[i] = t[j] => i = j

\* What a head and a tail are.
LEMMA HeadTail ==
  ASSUME NEW t \in Seq(Versions), t # <<>>, Distinct(t)
  PROVE  /\ Head(t) \in Versions /\ Tail(t) \in Seq(Versions) /\ Distinct(Tail(t))
         /\ ToSet(t) = {Head(t)} \cup ToSet(Tail(t))
         /\ Head(t) \notin ToSet(Tail(t))
<1>1. /\ Len(t) \in Nat /\ Len(t) # 0 /\ DOMAIN t = 1..Len(t)
      /\ Head(t) = t[1] /\ \A i \in DOMAIN t : t[i] \in Versions
  OBVIOUS
<1>2. /\ Tail(t) \in Seq(Versions) /\ DOMAIN Tail(t) = 1..(Len(t) - 1)
      /\ \A i \in 1..(Len(t) - 1) : Tail(t)[i] = t[i + 1]
  BY <1>1
<1>3. Distinct(Tail(t))
  BY <1>1, <1>2 DEF Distinct
<1>4. \A i \in DOMAIN t : i = 1 \/ (i - 1 \in DOMAIN Tail(t) /\ t[i] = Tail(t)[i - 1])
  BY <1>1, <1>2
<1>5. \A i \in DOMAIN Tail(t) : i + 1 \in DOMAIN t /\ Tail(t)[i] = t[i + 1] /\ i + 1 # 1
  BY <1>1, <1>2
<1>6. ToSet(t) = {Head(t)} \cup ToSet(Tail(t))
  BY <1>1, <1>4, <1>5 DEF ToSet
<1>7. Head(t) \notin ToSet(Tail(t))
  BY <1>1, <1>5 DEF ToSet, Distinct
<1> QED
  BY <1>1, <1>2, <1>3, <1>6, <1>7

\* What is placed now, and what waits for the file that is parsed.
LEMMA Placing ==
  ASSUME NEW t \in Seq(Versions), Distinct(t)
  PROVE  /\ Rest(t) \in Seq(Versions) /\ Distinct(Rest(t))
         /\ Rest(t) = <<>> => Now(t) = ToSet(t) /\ Now(t) \cap Single = {}
         /\ Rest(t) # <<>> =>
               /\ Head(Rest(t)) \in Single /\ Head(Rest(t)) \in Now(t)
               /\ Now(t) = ToSet(t) \ ToSet(Tail(Rest(t)))
               /\ ToSet(Tail(Rest(t))) \subseteq ToSet(t)
               /\ Now(t) \cap Single = {Head(Rest(t))}
<1> DEFINE n == Stop(t)
           r == SubSeq(t, n, Len(t))
           f == SubSeq(t, 1, n)
<1>1. CASE n = 0
  <2>1. Rest(t) = <<>> /\ Now(t) = ToSet(t) /\ \A i \in DOMAIN t : t[i] \notin Single
    BY <1>1, StopIs DEF Rest, Now
  <2> QED
    BY <2>1 DEF ToSet, Distinct
<1>2. CASE n # 0
  <2>1. /\ n \in DOMAIN t /\ t[n] \in Single
        /\ \A i \in DOMAIN t : i < n => t[i] \notin Single
        /\ Rest(t) = r /\ Now(t) = ToSet(f)
    BY <1>2, StopIs DEF Rest, Now
  <2>2. Len(t) \in Nat /\ DOMAIN t = 1..Len(t) /\ n \in Nat \ {0} /\ n <= Len(t)
        /\ \A i \in DOMAIN t : t[i] \in Versions
    BY <2>1
  <2>3. /\ r \in Seq(Versions) /\ Len(r) = Len(t) - n + 1 /\ DOMAIN r = 1..(Len(t) - n + 1)
        /\ \A i \in 1..(Len(t) - n + 1) : r[i] = t[n + i - 1]
    BY <2>2
  <2>4. /\ DOMAIN f = 1..n /\ \A i \in 1..n : f[i] = t[i]
    BY <2>2
  <2>5. r # <<>> /\ Head(r) = t[n] /\ Distinct(r)
    BY <2>1, <2>2, <2>3 DEF Distinct
  <2>6. /\ Head(r) \notin ToSet(Tail(r))
        /\ ToSet(r) = {Head(r)} \cup ToSet(Tail(r))
    BY <2>3, <2>5, HeadTail
  <2>7. /\ \A i \in DOMAIN r : n + i - 1 \in DOMAIN t /\ n + i - 1 >= n
        /\ \A i \in DOMAIN t : i >= n => (i - n + 1 \in DOMAIN r /\ r[i - n + 1] = t[i])
    BY <2>2, <2>3, SMTT(30)
  <2>8. ToSet(r) = {t[i] : i \in {j \in DOMAIN t : j >= n}}
    <3>1. \A i \in DOMAIN r : r[i] = t[n + i - 1]
      BY <2>3
    <3>2. ToSet(r) = {r[i] : i \in DOMAIN r}
      BY DEF ToSet
    <3>3. \A i \in DOMAIN r : r[i] \in {t[j] : j \in {j \in DOMAIN t : j >= n}}
      BY <2>7, <3>1
    <3>4. \A i \in DOMAIN t : i >= n => t[i] \in {r[j] : j \in DOMAIN r}
      BY <2>7
    <3> QED
      BY <3>2, <3>3, <3>4
  <2>9. ToSet(f) = {t[i] : i \in {j \in DOMAIN t : j <= n}}
    BY <2>2, <2>4 DEF ToSet
  <2>10. ToSet(Tail(r)) = {t[i] : i \in {j \in DOMAIN t : j > n}}
    <3>1. ToSet(Tail(r)) = ToSet(r) \ {t[n]}
      BY <2>5, <2>6
    <3> QED
      BY <3>1, <2>1, <2>2, <2>8 DEF Distinct
  <2>11. ToSet(t) = {t[i] : i \in DOMAIN t}
    BY DEF ToSet
  <2>12. ToSet(f) = ToSet(t) \ ToSet(Tail(r))
    BY <2>2, <2>9, <2>10, <2>11 DEF Distinct
  <2>13. ToSet(f) \cap Single = {t[n]}
    BY <2>1, <2>2, <2>9
  <2>14. ToSet(Tail(r)) \subseteq ToSet(t) /\ t[n] \in ToSet(f)
    BY <2>1, <2>2, <2>9, <2>10, <2>11
  <2> QED
    BY <2>1, <2>3, <2>5, <2>12, <2>13, <2>14
<1> QED
  BY <1>1, <1>2

\* The keys of chunks and of files differ, and name their versions.
LEMMA KeyFacts ==
  /\ ChunkKeys \cap SingleKeys = {} /\ Keys = ChunkKeys \cup SingleKeys
  /\ \A k \in Keys : k[1] \in Versions
  /\ \A k \in ChunkKeys : k[1] \in Chunked /\ k[1] \notin Single
  /\ \A k \in SingleKeys : k[1] \in Single /\ k = <<k[1], 0>>
  /\ \A v \in Single : <<v, 0>> \in SingleKeys /\ <<v, 0>>[1] = v
BY ViewerAssumption DEF ChunkKeys, SingleKeys, Keys, Versions

\* A federation names no version twice.
LEMMA FederationFacts ==
  ASSUME NEW m \in Federations
  PROVE  m \in Seq(Versions) /\ Distinct(m) /\ ToSet(m) \subseteq Versions
<1>1. PICK n \in 1..Cardinality(Versions) : m \in [1..n -> Versions]
  BY DEF Federations
<1>2. Cardinality(Versions) \in Nat
  BY ViewerAssumption, FS_CardinalityType
<1>3. m \in Seq(Versions)
  BY <1>1, <1>2
<1>4. Distinct(m)
  BY DEF Federations, Distinct
<1> QED
  BY <1>3, <1>4 DEF ToSet

-----------------------------------------------------------------------------
(* The invariant.                                                            *)

\* What the variables are; residentBytes is not looked at.
Typed ==
    /\ seq \in Seqs /\ models \in Seq(Versions) /\ Distinct(models)
    /\ groups \in [Versions -> Seqs]
    /\ meshes \subseteq [key : Keys, load : Loads, shown : BOOLEAN]
    /\ loads \in [Loads -> [pc : {"none", "parse", "failed", "placed", "over"},
                            models : Seq(Versions), todo : Seq(Versions)]]
    /\ visible \subseteq Keys /\ wanted \subseteq Keys
    /\ chunkStates \subseteq ChunkKeys
    /\ fetch \in [ChunkKeys -> [pc : {"none", "download", "parse"}, seq : Seqs, group : Seqs]]
    /\ apply \in [pc : {"idle", "load", "again"}, seq : Seqs,
                  todo : SUBSET ChunkKeys, batch : SUBSET ChunkKeys]
    /\ again \in BOOLEAN

\* The latest load has models to place, or ended before it had placed them.
Short == seq # 0 /\ loads[seq].pc \in {"parse", "failed"}
Over    == seq # 0 => loads[seq].pc = "over"

\* The version whose file is parsed, or could not be, and those behind it.
InHand  == IF Short THEN {Head(loads[seq].todo)} ELSE {}
Pending == IF Short THEN ToSet(Tail(loads[seq].todo)) ELSE {}

\* Only the latest load parses, and it knows what is shown.
LatestLoads ==
    /\ \A l \in Loads : loads[l].pc = "none" <=> l > seq
    /\ \A l \in Loads : loads[l].pc = "parse" => l = seq
    /\ Short =>
          /\ loads[seq].todo # <<>> /\ Distinct(loads[seq].todo)
          /\ Head(loads[seq].todo) \in Single
          /\ ToSet(loads[seq].todo) \subseteq ToSet(models)
    /\ IF seq = 0 THEN models = <<>> ELSE loads[seq].models = models

\* The scene holds what was placed of the latest federation.
Grouped ==
    /\ \A v \in Versions :
          groups[v] = IF v \in ToSet(models) \ Pending THEN seq ELSE 0
    /\ scene = (ToSet(models) \ Pending) \X {seq}

\* Every file that was parsed has its mesh; no mesh is there twice.
Meshed ==
    /\ \A b \in meshes : b.key[1] \in ToSet(models) \ Pending /\ b.load = seq
    /\ \A b, c \in meshes : b.key = c.key => b = c
    /\ \A v \in Single :
          (\E b \in meshes : b.key = <<v, 0>>) <=> v \in ToSet(models) \ (Pending \cup InHand)

\* A chunk has a state exactly while it is fetched for the latest load or
\* has its mesh, never both.
Chunky ==
    \A k \in ChunkKeys :
       LET fetched == fetch[k].pc # "none" /\ fetch[k].seq = seq
           meshed  == \E b \in meshes : b.key = k
       IN  (k \in chunkStates <=> fetched \/ meshed) /\ ~ (fetched /\ meshed)

\* What is fetched is of the batch of the pass that is under way.
Fetching ==
    /\ \A k \in ChunkKeys :
          IF fetch[k].pc = "none" THEN fetch[k] = NoFetch
          ELSE /\ apply.pc = "load" /\ k \in apply.batch /\ fetch[k].seq = apply.seq
               /\ fetch[k].seq = seq =>
                     seq # 0 /\ fetch[k].group = seq /\ k[1] \in ToSet(models) \ Pending
    /\ apply.pc = "load" => apply.seq <= seq /\ apply.todo \cap chunkStates = {}

\* Nothing is missing once a pass is through and nothing was asked since: a
\* wanted chunk is there, awaits its turn, or has failed.
Fulfilled(todo) ==
    /\ wanted = Wanted(models, visible, near)
    /\ \A k \in wanted \cap ChunkKeys : k \in todo \cup failed \cup chunkStates

\* A pass that has begun after the latest load was shown does what was asked;
\* an earlier one is followed by another.
Passing ==
    apply.pc = "load" /\ Over /\ ~ again => apply.seq = seq /\ Fulfilled(apply.todo)

Shown ==
    /\ boxed = Boxes(visible, wanted, proxies)
    /\ \A b \in meshes : b.shown <=> b.key \in wanted

Rested ==
    /\ apply.pc = "idle" => ~ again
    /\ apply.pc # "load" /\ Over /\ ~ again => Fulfilled({}) /\ Shown

IInv == /\ Typed /\ LatestLoads /\ Grouped /\ Meshed /\ Chunky /\ Fetching
        /\ Passing /\ Rested

\* The initial states.
LEMMA StartsWell == Init => IInv
<1> SUFFICES ASSUME Init PROVE IInv
  OBVIOUS
<1>1. /\ seq = 0 /\ models = <<>> /\ meshes = {} /\ scene = {} /\ wanted = {} /\ visible = {}
      /\ boxed = {} /\ proxies = {} /\ chunkStates = {} /\ again = FALSE
      /\ groups = [v \in Versions |-> 0]
      /\ loads = [l \in Loads |-> Load("none", <<>>, <<>>)]
      /\ fetch = [k \in ChunkKeys |-> NoFetch]
      /\ apply = Idle
  BY DEF Init
<1>2. MaxLoads \in Nat
  BY ViewerAssumption
<1>3. ~ Short /\ Over /\ Pending = {} /\ InHand = {} /\ ToSet(models) = {}
  BY <1>1 DEF Short, Over, Pending, InHand, ToSet
<1>4. Typed
  <2>1. loads \in [Loads -> [pc : {"none", "parse", "failed", "placed", "over"},
                             models : Seq(Versions), todo : Seq(Versions)]]
    BY <1>1 DEF Load
  <2>2. fetch \in [ChunkKeys -> [pc : {"none", "download", "parse"}, seq : Seqs, group : Seqs]]
    BY <1>1, <1>2 DEF NoFetch, Fetch, Seqs
  <2>3. apply \in [pc : {"idle", "load", "again"}, seq : Seqs,
                   todo : SUBSET ChunkKeys, batch : SUBSET ChunkKeys]
    BY <1>1, <1>2 DEF Idle, Apply, Seqs
  <2>4. models \in Seq(Versions) /\ Distinct(models)
    BY <1>1 DEF Distinct
  <2>5. seq \in Seqs /\ groups \in [Versions -> Seqs]
    BY <1>1, <1>2 DEF Seqs
  <2>6. meshes \subseteq [key : Keys, load : Loads, shown : BOOLEAN]
    BY <1>1
  <2> QED
    BY <1>1, <2>1, <2>2, <2>3, <2>4, <2>5, <2>6 DEF Typed
<1>5. LatestLoads
  <2>1. \A l \in Loads : loads[l].pc = "none" /\ l > 0
    BY <1>1, <1>2 DEF Load, Loads
  <2> QED
    BY <1>1, <1>3, <2>1 DEF LatestLoads
<1>6. Grouped /\ Meshed
  BY <1>1, <1>3 DEF Grouped, Meshed
<1>7. \A k \in ChunkKeys : fetch[k] = NoFetch /\ fetch[k].pc = "none"
  BY <1>1 DEF NoFetch, Fetch
<1>8. apply.pc = "idle"
  BY <1>1 DEF Idle, Apply
<1>9. Chunky /\ Fetching /\ Passing
  BY <1>1, <1>7, <1>8 DEF Chunky, Fetching, Passing
<1>10. Rested
  BY <1>1, <1>3 DEF Rested, Fulfilled, Shown, Wanted, KeysOf, Boxes
<1> QED
  BY <1>4, <1>5, <1>6, <1>9, <1>10 DEF IInv

-----------------------------------------------------------------------------
(* loadFederation                                                            *)

\* The models in t are placed by the load l, which is now the latest.
LEMMA PlaceFacts ==
  ASSUME NEW l \in Loads, NEW m \in Seq(Versions), NEW t \in Seq(Versions), NEW c, NEW kept,
         Typed, Distinct(t), Place(l, m, t, c, kept), seq' = l
  PROVE  /\ loads' \in [Loads -> [pc : {"none", "parse", "failed", "placed", "over"},
                                  models : Seq(Versions), todo : Seq(Versions)]]
         /\ \A i \in Loads \ {l} : loads'[i] = loads[i]
         /\ loads'[l].models = m /\ loads'[l].todo = Rest(t)
         /\ loads'[l].pc = IF Rest(t) = <<>> THEN "placed" ELSE "parse"
         /\ Rest(t) = <<>> => Pending' = {} /\ InHand' = {} /\ ~ Short'
         /\ Rest(t) # <<>> => Pending' = ToSet(Tail(Rest(t))) /\ InHand' = {Head(Rest(t))}
         /\ ~ Over'
<1>1. l # 0 /\ Rest(t) \in Seq(Versions)
  BY Placing, ViewerAssumption DEF Loads
<1>2. PICK r : r = Load(IF Rest(t) = <<>> THEN "placed" ELSE "parse", m, Rest(t))
  OBVIOUS
<1>3. /\ r \in [pc : {"none", "parse", "failed", "placed", "over"}, models : Seq(Versions), todo : Seq(Versions)]
      /\ r.models = m /\ r.todo = Rest(t) /\ r.pc = IF Rest(t) = <<>> THEN "placed" ELSE "parse"
  BY <1>1, <1>2 DEF Load
<1>4. loads' = [loads EXCEPT ![l] = r]
  BY <1>2 DEF Place
<1>5. /\ loads' \in [Loads -> [pc : {"none", "parse", "failed", "placed", "over"},
                               models : Seq(Versions), todo : Seq(Versions)]]
      /\ \A i \in Loads \ {l} : loads'[i] = loads[i]
      /\ loads'[l] = r
  BY <1>3, <1>4 DEF Typed
<1> QED
  BY <1>1, <1>3, <1>5 DEF Short, Over, Pending, InHand

\* Nothing is at rest, and no pass is of the latest load.
LEMMA LoadFederationPreserves ==
  ASSUME IInv, Overlap = FALSE, NEW m \in Federations, LoadFederation(m)
  PROVE  IInv'
<1>1. PICK l : l = seq + 1
  OBVIOUS
<1>2. l \in Loads /\ l # 0 /\ seq' = l /\ l \in Seqs /\ seq \in Nat /\ l > seq
  BY <1>1, ViewerAssumption DEF IInv, Typed, LoadFederation, Loads, Seqs
<1>3. m \in Seq(Versions) /\ Distinct(m) /\ ToSet(m) \subseteq Versions
  BY FederationFacts
<1>4. /\ models' = m /\ meshes' = {} /\ chunkStates' = {}
      /\ wanted' = Wanted(m, visible, near)
      /\ UNCHANGED <<visible, near, fetch, apply, again>>
      /\ Place(l, m, m, [v \in Versions |-> 0], scene \ {<<v, groups[v]>> : v \in Versions})
      /\ \A i \in Loads : loads[i].pc # "parse"
  BY <1>1 DEF LoadFederation, wish
<1>5. scene \ {<<v, groups[v]>> : v \in Versions} = {}
  <2>1. ToSet(models) \subseteq Versions
    BY DEF IInv, Typed, ToSet
  <2>2. \A v \in ToSet(models) \ Pending : <<v, seq>> \in {<<w, groups[w]>> : w \in Versions}
    BY <2>1 DEF IInv, Grouped
  <2> QED
    BY <2>2 DEF IInv, Grouped
<1>6. /\ loads' \in [Loads -> [pc : {"none", "parse", "failed", "placed", "over"},
                               models : Seq(Versions), todo : Seq(Versions)]]
      /\ \A i \in Loads \ {l} : loads'[i] = loads[i]
      /\ loads'[l].models = m /\ loads'[l].todo = Rest(m)
      /\ loads'[l].pc = IF Rest(m) = <<>> THEN "placed" ELSE "parse"
      /\ Rest(m) = <<>> => Pending' = {} /\ InHand' = {}
      /\ Rest(m) # <<>> => Pending' = ToSet(Tail(Rest(m))) /\ InHand' = {Head(Rest(m))}
      /\ ~ Over'
  BY <1>2, <1>3, <1>4, PlaceFacts DEF IInv
<1>7. /\ Rest(m) \in Seq(Versions) /\ Distinct(Rest(m))
      /\ Now(m) = ToSet(m) \ Pending'
      /\ Now(m) \cap Single = InHand'
      /\ Rest(m) # <<>> => Head(Rest(m)) \in Single /\ ToSet(Rest(m)) \subseteq ToSet(m)
  <2>1. CASE Rest(m) = <<>>
    BY <1>3, <1>6, <2>1, Placing
  <2>2. CASE Rest(m) # <<>>
    <3>1. /\ Rest(m) \in Seq(Versions) /\ Distinct(Rest(m))
          /\ Head(Rest(m)) \in Single /\ Head(Rest(m)) \in Now(m)
          /\ Now(m) = ToSet(m) \ ToSet(Tail(Rest(m)))
          /\ ToSet(Tail(Rest(m))) \subseteq ToSet(m)
          /\ Now(m) \cap Single = {Head(Rest(m))}
      BY <1>3, <2>2, Placing
    <3>2. ToSet(Rest(m)) = {Head(Rest(m))} \cup ToSet(Tail(Rest(m)))
      BY <2>2, <3>1, HeadTail
    <3> QED
      BY <1>6, <2>2, <3>1, <3>2
  <2> QED
    BY <2>1, <2>2
<1>8. Typed'
  <2>1. groups' \in [Versions -> Seqs]
    <3>1. groups' = [v \in Versions |-> IF v \in Now(m) THEN l ELSE [w \in Versions |-> 0][v]]
      BY <1>4 DEF Place
    <3>2. 0 \in Seqs
      BY ViewerAssumption DEF Seqs
    <3> QED
      BY <1>2, <3>1, <3>2
  <2>2. wanted' \subseteq Keys
    BY <1>4 DEF Wanted, KeysOf
  <2> QED
    BY <1>2, <1>3, <1>4, <1>6, <2>1, <2>2 DEF IInv, Typed
<1>9. LatestLoads'
  <2>1. \A i \in Loads : loads'[i].pc = "none" <=> i > seq'
    <3>1. loads'[l].pc # "none" /\ ~ (l > l)
      BY <1>1, <1>2, <1>6
    <3>2. \A i \in Loads \ {l} : i > l <=> i > seq
      BY <1>1, <1>2, ViewerAssumption DEF Loads
    <3> QED
      <4>1. \A i \in Loads \ {l} : loads'[i].pc = "none" <=> i > l
        BY <1>6, <3>2 DEF IInv, LatestLoads
      <4> QED
        BY <1>2, <3>1, <4>1
  <2>2. \A i \in Loads : loads'[i].pc = "parse" => i = seq'
    BY <1>2, <1>4, <1>6
  <2>3. Short' => /\ loads'[l].todo # <<>> /\ Distinct(loads'[l].todo)
                  /\ Head(loads'[l].todo) \in Single
                  /\ ToSet(loads'[l].todo) \subseteq ToSet(models')
    BY <1>2, <1>4, <1>6, <1>7 DEF Short
  <2> QED
    BY <1>2, <1>4, <1>6, <2>1, <2>2, <2>3 DEF LatestLoads
<1>10. Grouped'
  <2>1. groups' = [v \in Versions |-> IF v \in Now(m) THEN l ELSE [w \in Versions |-> 0][v]]
        /\ scene' = (scene \ {<<v, groups[v]>> : v \in Versions}) \cup (Now(m) \X {l})
    BY <1>4 DEF Place
  <2>2. scene' = Now(m) \X {l} /\ \A v \in Versions : groups'[v] = IF v \in Now(m) THEN l ELSE 0
    BY <1>5, <2>1
  <2> QED
    BY <1>2, <1>4, <1>7, <2>2 DEF Grouped
<1>11. Meshed'
  <2>1. \A v \in Single : v \notin ToSet(m) \ (Pending' \cup InHand')
    BY <1>7
  <2> QED
    BY <1>4, <2>1 DEF Meshed
<1>12. \A k \in ChunkKeys : fetch[k].pc # "none" => fetch[k].seq # l
  BY <1>1, <1>2 DEF IInv, Typed, Fetching, Seqs
<1>13. Chunky'
  BY <1>2, <1>4, <1>12 DEF Chunky
<1>14. Fetching'
  <2>1. apply.pc = "load" => apply.seq <= l
    BY <1>1, <1>2 DEF IInv, Typed, Fetching, Seqs
  <2> QED
    BY <1>2, <1>4, <1>12, <2>1 DEF IInv, Fetching
<1>15. Passing' /\ Rested'
  BY <1>4, <1>6 DEF IInv, Passing, Rested
<1> QED
  BY <1>8, <1>9, <1>10, <1>11, <1>13, <1>14, <1>15 DEF IInv

\* A file has its mesh, and its load goes on.
LEMMA ParsedPreserves ==
  ASSUME IInv, NEW l \in Loads, Parsed(l)
  PROVE  IInv'
<1> DEFINE t == loads[l].todo
           h == Head(t)
           q == Tail(t)
<1>1. /\ loads[l].pc = "parse" /\ l = seq /\ l # 0
      /\ t \in Seq(Versions) /\ t # <<>> /\ Distinct(t) /\ h \in Single
      /\ ToSet(t) \subseteq ToSet(models) /\ models = loads[l].models
      /\ models \in Seq(Versions)
  BY ViewerAssumption DEF Parsed, IInv, LatestLoads, Typed, Loads, Short
<1>2. /\ h \in Versions /\ q \in Seq(Versions) /\ Distinct(q)
      /\ ToSet(t) = {h} \cup ToSet(q) /\ h \notin ToSet(q)
  BY <1>1, HeadTail
<1>3. InHand = {h} /\ Pending = ToSet(q)
  BY <1>1 DEF InHand, Pending, Short
<1>4. /\ UNCHANGED <<visible, near, chunkStates, fetch, seq, models, wanted, apply, again>>
      /\ meshes' = meshes \cup {Mesh(<<h, 0>>, l, TRUE)}
      /\ Place(l, models, q, groups, scene)
  BY <1>1 DEF Parsed, wish, cache
<1>5. /\ loads' \in [Loads -> [pc : {"none", "parse", "failed", "placed", "over"},
                               models : Seq(Versions), todo : Seq(Versions)]]
      /\ \A i \in Loads \ {l} : loads'[i] = loads[i]
      /\ loads'[l].models = models /\ loads'[l].todo = Rest(q)
      /\ loads'[l].pc = IF Rest(q) = <<>> THEN "placed" ELSE "parse"
      /\ Rest(q) = <<>> => Pending' = {} /\ InHand' = {}
      /\ Rest(q) # <<>> => Pending' = ToSet(Tail(Rest(q))) /\ InHand' = {Head(Rest(q))}
      /\ ~ Over'
  <2>1. PICK m, u, c, kept : m = models /\ u = q /\ c = groups /\ kept = scene
    OBVIOUS
  <2>2. /\ m \in Seq(Versions) /\ u \in Seq(Versions) /\ Distinct(u)
        /\ Place(l, m, u, c, kept) /\ seq' = l /\ Typed
    BY <1>1, <1>2, <1>4, <2>1 DEF IInv
  <2> HIDE DEF q
  <2> QED
    BY <2>1, <2>2, PlaceFacts
<1>6. /\ Rest(q) \in Seq(Versions) /\ Distinct(Rest(q))
      /\ Now(q) = ToSet(q) \ Pending' /\ Pending' \subseteq ToSet(q)
      /\ Now(q) \cap Single = InHand'
      /\ Rest(q) # <<>> => Head(Rest(q)) \in Single /\ ToSet(Rest(q)) \subseteq ToSet(q)
  <2>1. CASE Rest(q) = <<>>
    BY <1>2, <1>5, <2>1, Placing
  <2>2. CASE Rest(q) # <<>>
    <3>1. /\ Rest(q) \in Seq(Versions) /\ Distinct(Rest(q))
          /\ Head(Rest(q)) \in Single /\ Head(Rest(q)) \in Now(q)
          /\ Now(q) = ToSet(q) \ ToSet(Tail(Rest(q)))
          /\ ToSet(Tail(Rest(q))) \subseteq ToSet(q)
          /\ Now(q) \cap Single = {Head(Rest(q))}
      BY <1>2, <2>2, Placing
    <3>2. ToSet(Rest(q)) = {Head(Rest(q))} \cup ToSet(Tail(Rest(q)))
      BY <2>2, <3>1, HeadTail
    <3> QED
      BY <1>5, <2>2, <3>1, <3>2
  <2> QED
    BY <2>1, <2>2
<1>19. Pending' \subseteq Pending
  BY <1>3, <1>6
<1>7. PICK f : f = <<h, 0>>
  OBVIOUS
<1>8. PICK b0 : b0 = Mesh(<<h, 0>>, l, TRUE)
  OBVIOUS
<1>18. /\ b0 \in [key : Keys, load : Loads, shown : BOOLEAN]
       /\ b0.key = f /\ b0.load = l /\ meshes' = meshes \cup {b0}
       /\ f \in Keys /\ f \notin ChunkKeys /\ f[1] = h
       /\ \A v \in Single : <<v, 0>> = f <=> v = h
  BY <1>1, <1>4, <1>7, <1>8, KeyFacts DEF Mesh
<1>9. Typed'
  <2>1. groups' \in [Versions -> Seqs]
    <3>1. groups' = [v \in Versions |-> IF v \in Now(q) THEN l ELSE groups[v]]
      BY <1>4 DEF Place
    <3>2. l \in Seqs /\ \A v \in Versions : groups[v] \in Seqs
      BY <1>1 DEF IInv, Typed
    <3> QED
      BY <3>1, <3>2
  <2>2. meshes' \subseteq [key : Keys, load : Loads, shown : BOOLEAN]
    BY <1>18 DEF IInv, Typed
  <2> QED
    BY <1>4, <1>5, <2>1, <2>2 DEF IInv, Typed
<1>10. LatestLoads'
  <2>1. Short' => /\ loads'[l].todo # <<>> /\ Distinct(loads'[l].todo)
                  /\ Head(loads'[l].todo) \in Single
                  /\ ToSet(loads'[l].todo) \subseteq ToSet(models)
    BY <1>1, <1>2, <1>4, <1>5, <1>6 DEF Short
  <2>2. \A i \in Loads : loads'[i].pc = "parse" => i = seq
    BY <1>1, <1>5 DEF IInv, LatestLoads
  <2>3. \A i \in Loads : loads'[i].pc = "none" <=> i > seq
    BY <1>1, <1>5 DEF IInv, LatestLoads
  <2> QED
    BY <1>1, <1>4, <1>5, <2>1, <2>2, <2>3 DEF LatestLoads
<1>11. ToSet(models) \ Pending' = (ToSet(models) \ Pending) \cup Now(q)
  BY <1>1, <1>2, <1>3, <1>6
<1>12. Grouped'
  <2>1. /\ groups' = [v \in Versions |-> IF v \in Now(q) THEN l ELSE groups[v]]
        /\ scene' = scene \cup (Now(q) \X {l})
    BY <1>4 DEF Place
  <2> QED
    BY <1>1, <1>4, <1>11, <2>1 DEF IInv, Grouped
<1>13. Meshed'
  <2>1. h \notin Pending' \cup InHand' /\ h \in ToSet(models)
    BY <1>1, <1>2, <1>6
  <2>2. \A b \in meshes : b.key # f
    BY <1>1, <1>3, <1>7 DEF IInv, Meshed
  <2>4. \A b \in meshes' : b.key[1] \in ToSet(models) \ Pending' /\ b.load = seq
    BY <1>1, <1>18, <1>19, <2>1 DEF IInv, Meshed
  <2>5. \A b, c \in meshes' : b.key = c.key => b = c
    BY <1>18, <2>2 DEF IInv, Meshed
  <2>6. \A v \in Single \ {h} : (\E b \in meshes' : b.key = <<v, 0>>)
                                   <=> (\E b \in meshes : b.key = <<v, 0>>)
    BY <1>18
  <2>7. \E b \in meshes' : b.key = <<h, 0>>
    BY <1>7, <1>18
  <2>8. \A v \in Single \ {h} : v \in ToSet(models) \ (Pending \cup InHand)
                                   <=> v \in ToSet(models) \ (Pending' \cup InHand')
    BY <1>2, <1>3, <1>6
  <2>9. ASSUME NEW v \in Single
        PROVE  (\E b \in meshes' : b.key = <<v, 0>>)
                  <=> v \in ToSet(models) \ (Pending' \cup InHand')
    <3>1. CASE v = h
      BY <2>1, <2>7, <3>1
    <3>2. CASE v # h
      BY <2>6, <2>8, <3>2 DEF IInv, Meshed
    <3> QED
      BY <3>1, <3>2
  <2>10. models' = models /\ seq' = seq
    BY <1>4
  <2> QED
    BY <2>4, <2>5, <2>9, <2>10 DEF Meshed
<1>14. \A k \in ChunkKeys : (\E b \in meshes' : b.key = k) <=> (\E b \in meshes : b.key = k)
  BY <1>18
<1>15. Chunky'
  BY <1>4, <1>14 DEF IInv, Chunky
<1>16. Fetching'
  BY <1>4, <1>19 DEF IInv, Fetching
<1>17. Passing' /\ Rested'
  BY <1>4, <1>5 DEF IInv, Passing, Rested
<1> QED
  BY <1>9, <1>10, <1>12, <1>13, <1>15, <1>16, <1>17 DEF IInv

\* The load ends, with what it has placed.
LEMMA ParseFailsPreserves ==
  ASSUME IInv, NEW l \in Loads, ParseFails(l)
  PROVE  IInv'
<1>1. /\ loads[l].pc = "parse" /\ loads' = [loads EXCEPT ![l].pc = "failed"]
      /\ UNCHANGED <<seq, models, groups, scene, meshes, visible, near, wanted>>
      /\ UNCHANGED <<chunkStates, fetch, failed, apply, again>>
  BY DEF ParseFails, wish, cache
<1>2. l = seq /\ l # 0
  BY <1>1, ViewerAssumption DEF IInv, LatestLoads, Loads
<1>3. PICK r : r = [loads[l] EXCEPT !.pc = "failed"]
  OBVIOUS
<1>4. /\ loads' = [loads EXCEPT ![l] = r]
      /\ r.pc = "failed" /\ r.models = loads[l].models /\ r.todo = loads[l].todo
      /\ r \in [pc : {"none", "parse", "failed", "placed", "over"},
                models : Seq(Versions), todo : Seq(Versions)]
  BY <1>1, <1>3 DEF IInv, Typed
<1>5. /\ loads' \in [Loads -> [pc : {"none", "parse", "failed", "placed", "over"},
                               models : Seq(Versions), todo : Seq(Versions)]]
      /\ loads'[l] = r /\ \A i \in Loads \ {l} : loads'[i] = loads[i]
  BY <1>4 DEF IInv, Typed
<1>6. Short /\ Short' /\ ~ Over'
  BY <1>1, <1>2, <1>4, <1>5 DEF Short, Over
<1>7. Pending' = Pending /\ InHand' = InHand
  BY <1>1, <1>2, <1>4, <1>5, <1>6 DEF Pending, InHand
<1>8. LatestLoads'
  <2>1. \A i \in Loads : loads'[i].pc = "none" <=> i > seq
    <3>1. /\ loads'[l].pc # "none" /\ loads[l].pc # "none"
          /\ \A i \in Loads : i # l => loads'[i].pc = loads[i].pc
      BY <1>1, <1>4, <1>5
    <3>2. \A i \in Loads : loads'[i].pc = "none" <=> loads[i].pc = "none"
      BY <3>1
    <3> QED
      BY <3>2 DEF IInv, LatestLoads
  <2>2. loads'[l].models = models /\ loads'[l].todo = loads[l].todo
    BY <1>2, <1>4, <1>5 DEF IInv, LatestLoads
  <2>3. /\ loads[l].todo # <<>> /\ Distinct(loads[l].todo)
        /\ Head(loads[l].todo) \in Single
        /\ ToSet(loads[l].todo) \subseteq ToSet(models)
    BY <1>2, <1>6 DEF IInv, LatestLoads
  <2>4. /\ loads'[l].todo # <<>> /\ Distinct(loads'[l].todo)
        /\ Head(loads'[l].todo) \in Single
        /\ ToSet(loads'[l].todo) \subseteq ToSet(models)
    BY <2>2, <2>3
  <2>5. \A i \in Loads : loads'[i].pc = "parse" => i = seq
    BY <1>1, <1>2, <1>4, <1>5 DEF IInv, LatestLoads
  <2>6. seq' = l /\ seq' = seq /\ l # 0 /\ models' = models
    BY <1>1, <1>2
  <2> QED
    BY <2>1, <2>2, <2>4, <2>5, <2>6 DEF LatestLoads
<1>9. Typed'
  BY <1>1, <1>5 DEF IInv, Typed
<1>10. Grouped' /\ Meshed'
  BY <1>1, <1>7 DEF IInv, Grouped, Meshed
<1>11. Chunky' /\ Fetching'
  BY <1>1, <1>7 DEF IInv, Chunky, Fetching
<1>12. Passing' /\ Rested'
  BY <1>1, <1>6 DEF IInv, Passing, Rested
<1> QED
  BY <1>8, <1>9, <1>10, <1>11, <1>12 DEF IInv

-----------------------------------------------------------------------------
(* setVisibleStoreyKeys                                                      *)

\* What the placed federation alone decides is kept with it.
LEMMA PlacedKept ==
  ASSUME IInv, UNCHANGED <<seq, models, groups, scene, loads>>
  PROVE  /\ LatestLoads' /\ Grouped'
         /\ Pending' = Pending /\ InHand' = InHand /\ (Over' <=> Over)
BY DEF IInv, LatestLoads, Grouped, Pending, InHand, Over, Short

\* With no pass under way nothing is fetched.
LEMMA NothingFetched ==
  ASSUME IInv, apply.pc # "load" \/ Fetched
  PROVE  \A k \in ChunkKeys : fetch[k].pc = "none" /\ fetch[k] = NoFetch
BY DEF IInv, Fetching, Fetched, NoFetch, Fetch

\* A pass begins, for what is asked by then.
LEMMA BeginPreserves ==
  ASSUME IInv, apply.pc # "load", NEW vis \in SUBSET Keys, NEW view, Begin(vis, view),
         visible' = vis, near' = view,
         UNCHANGED <<cache, seq, models, groups, scene, meshes>>,
         loads' \in [Loads -> [pc : {"none", "parse", "failed", "placed", "over"},
                               models : Seq(Versions), todo : Seq(Versions)]],
         LatestLoads', Grouped', Pending' = Pending, InHand' = InHand
  PROVE  IInv'
<1>1. \A k \in ChunkKeys : fetch[k].pc = "none" /\ fetch[k] = NoFetch
  BY NothingFetched
<1>2. PICK r : r = Apply("load", seq, (wanted' \cap ChunkKeys) \ chunkStates, {})
  OBVIOUS
<1>3. /\ apply' = r /\ again' = FALSE /\ wanted' = Wanted(models, vis, view)
      /\ r.pc = "load" /\ r.seq = seq /\ r.todo = (wanted' \cap ChunkKeys) \ chunkStates
      /\ r.batch = {}
      /\ r \in [pc : {"idle", "load", "again"}, seq : Seqs,
                todo : SUBSET ChunkKeys, batch : SUBSET ChunkKeys]
  BY <1>2 DEF Begin, Apply, IInv, Typed
<1>4. UNCHANGED <<seq, models, groups, scene, meshes, chunkStates, fetch, failed>>
  BY DEF cache
<1>5. Typed'
  <2>1. wanted' \subseteq Keys
    BY <1>3 DEF Wanted, KeysOf
  <2> QED
    BY <1>3, <1>4, <2>1 DEF IInv, Typed
<1>6. Meshed' /\ Chunky'
  BY <1>4 DEF IInv, Meshed, Chunky
<1>7. Fetching'
  BY <1>1, <1>3, <1>4 DEF Fetching, IInv, Typed, Seqs
<1>8. Passing'
  BY <1>3, <1>4 DEF Passing, Fulfilled
<1>9. Rested'
  BY <1>3 DEF Rested
<1> QED
  BY <1>5, <1>6, <1>7, <1>8, <1>9 DEF IInv

\* Asked for while a pass is busy, or as one that begins.
LEMMA SetVisiblePreserves ==
  ASSUME IInv, NEW vis \in SUBSET Keys, NEW view, SetVisible(vis, view),
         UNCHANGED <<cache, seq, models, groups, scene, meshes>>,
         loads' \in [Loads -> [pc : {"none", "parse", "failed", "placed", "over"},
                               models : Seq(Versions), todo : Seq(Versions)]],
         LatestLoads', Grouped', Pending' = Pending, InHand' = InHand
  PROVE  IInv'
<1>1. visible' = vis /\ near' = view
  BY DEF SetVisible
<1>2. CASE apply.pc = "idle"
  BY <1>1, <1>2, BeginPreserves DEF SetVisible
<1>3. CASE apply.pc # "idle"
  <2>1. again' = TRUE /\ UNCHANGED <<wanted, apply>>
    BY <1>3 DEF SetVisible
  <2>2. UNCHANGED <<seq, models, groups, scene, meshes, chunkStates, fetch, failed>>
    BY DEF cache
  <2>3. Typed'
    BY <1>1, <2>1, <2>2 DEF IInv, Typed
  <2>4. Meshed'
    BY <2>2 DEF IInv, Meshed
  <2>5. Chunky' /\ Fetching'
    BY <2>1, <2>2 DEF IInv, Chunky, Fetching
  <2>6. Passing' /\ Rested'
    BY <1>3, <2>1 DEF Passing, Rested
  <2> QED
    BY <2>3, <2>4, <2>5, <2>6 DEF IInv
<1> QED
  BY <1>2, <1>3

\* The page shows what it loaded.
LEMMA ShowPreserves ==
  ASSUME IInv, NEW l \in Loads, Show(l)
  PROVE  IInv'
<1>1. /\ loads[l].pc = "placed" /\ loads' = [loads EXCEPT ![l].pc = "over"]
      /\ UNCHANGED <<cache, seq, models, groups, scene, meshes>>
  BY DEF Show
<1>2. PICK r : r = [loads[l] EXCEPT !.pc = "over"]
  OBVIOUS
<1>3. /\ loads' = [loads EXCEPT ![l] = r]
      /\ r.pc = "over" /\ r.models = loads[l].models /\ r.todo = loads[l].todo
      /\ r \in [pc : {"none", "parse", "failed", "placed", "over"},
                models : Seq(Versions), todo : Seq(Versions)]
  BY <1>1, <1>2 DEF IInv, Typed
<1>4. /\ loads' \in [Loads -> [pc : {"none", "parse", "failed", "placed", "over"},
                               models : Seq(Versions), todo : Seq(Versions)]]
      /\ loads'[l] = r /\ \A i \in Loads \ {l} : loads'[i] = loads[i]
  BY <1>3 DEF IInv, Typed
<1>5. \A i \in Loads :
         /\ loads'[i].models = loads[i].models /\ loads'[i].todo = loads[i].todo
         /\ loads'[i].pc = "parse" <=> loads[i].pc = "parse"
         /\ loads'[i].pc = "failed" <=> loads[i].pc = "failed"
         /\ loads'[i].pc = "none" <=> loads[i].pc = "none"
  BY <1>1, <1>3, <1>4
<1>6. seq # 0 => seq \in Loads
  BY ViewerAssumption DEF IInv, Typed, Seqs, Loads
<1>7. LatestLoads' /\ Grouped' /\ Pending' = Pending /\ InHand' = InHand
  <2>1. (Short' <=> Short) /\ Pending' = Pending /\ InHand' = InHand
    <3>1. CASE seq = 0
      BY <1>1, <3>1 DEF Pending, InHand, Short
    <3>2. CASE seq # 0
      <4>1. /\ loads'[seq].todo = loads[seq].todo
            /\ loads'[seq].pc \in {"parse", "failed"} <=> loads[seq].pc \in {"parse", "failed"}
        BY <1>5, <1>6, <3>2
      <4>2. Short' <=> Short
        BY <1>1, <4>1 DEF Short
      <4> QED
        BY <1>1, <4>1, <4>2 DEF Pending, InHand
    <3> QED
      BY <3>1, <3>2
  <2>2. LatestLoads'
    <3>1. Short => seq \in Loads
      BY <1>6 DEF Short
    <3> QED
      BY <1>1, <1>5, <1>6, <2>1, <3>1 DEF IInv, LatestLoads
  <2> QED
    BY <1>1, <2>1, <2>2 DEF IInv, Grouped
<1>8. PICK vis \in (SUBSET KeysOf(loads[l].models)) \cup {visible} : SetVisible(vis, near)
  BY DEF Show
<1>9. vis \in SUBSET Keys
  BY <1>8 DEF KeysOf, IInv, Typed
<1> QED
  BY <1>1, <1>4, <1>7, <1>8, <1>9, SetVisiblePreserves

\* The user asks for something else.
LEMMA WishPreserves ==
  ASSUME IInv, Wish
  PROVE  IInv'
<1>1. UNCHANGED <<cache, seq, models, groups, scene, meshes, loads>>
  BY DEF Wish, placed
<1>2. PICK vis \in UNION {SUBSET KeysOf(m) : m \in Listed}, view \in Views :
           SetVisible(vis, view)
  BY DEF Wish
<1>3. vis \in SUBSET Keys
  BY <1>2 DEF KeysOf
<1>4. LatestLoads' /\ Grouped' /\ Pending' = Pending /\ InHand' = InHand
  BY <1>1, PlacedKept
<1>5. loads' \in [Loads -> [pc : {"none", "parse", "failed", "placed", "over"},
                            models : Seq(Versions), todo : Seq(Versions)]]
  BY <1>1 DEF IInv, Typed
<1> QED
  BY <1>1, <1>2, <1>3, <1>4, <1>5, SetVisiblePreserves

\* Boxes that arrive are drawn for what is not wanted as geometry.
LEMMA SetProxyBoxesPreserves ==
  ASSUME IInv, NEW v \in Versions, SetProxyBoxes(v)
  PROVE  IInv'
<1>1. /\ UNCHANGED <<seq, models, groups, scene, loads>>
      /\ UNCHANGED <<visible, near, chunkStates, fetch, failed, meshes, wanted, apply, again>>
      /\ boxed' = Boxes(visible, wanted, proxies')
  BY DEF SetProxyBoxes, placed, wish, cache
<1>2. LatestLoads' /\ Grouped' /\ Pending' = Pending /\ InHand' = InHand /\ (Over' <=> Over)
  BY <1>1, PlacedKept
<1>3. Typed'
  BY <1>1 DEF IInv, Typed
<1>4. Meshed' /\ Chunky' /\ Fetching'
  BY <1>1, <1>2 DEF IInv, Meshed, Chunky, Fetching
<1>5. Passing'
  BY <1>1, <1>2 DEF IInv, Passing, Fulfilled
<1>6. Rested'
  BY <1>1, <1>2 DEF IInv, Rested, Fulfilled, Shown
<1> QED
  BY <1>2, <1>3, <1>4, <1>5, <1>6 DEF IInv

\* A pass that was overtaken by a load ends.
LEMMA GotoAgainPreserves ==
  ASSUME IInv, apply.pc = "load", Fetched, apply.seq # seq, GotoAgain,
         UNCHANGED <<placed, wish, cache, meshes, wanted, proxies, boxed, again>>
  PROVE  IInv'
<1>1. /\ UNCHANGED <<seq, models, groups, scene, loads>>
      /\ UNCHANGED <<visible, near, chunkStates, fetch, failed, meshes, wanted, again>>
  BY DEF placed, wish, cache
<1>2. LatestLoads' /\ Grouped' /\ Pending' = Pending /\ InHand' = InHand /\ (Over' <=> Over)
  BY <1>1, PlacedKept
<1>3. /\ apply'.pc = "again"
      /\ apply' \in [pc : {"idle", "load", "again"}, seq : Seqs,
                     todo : SUBSET ChunkKeys, batch : SUBSET ChunkKeys]
  BY ViewerAssumption DEF GotoAgain, Apply, Seqs
<1>4. Typed'
  BY <1>1, <1>3 DEF IInv, Typed
<1>5. Meshed' /\ Chunky'
  BY <1>1, <1>2 DEF IInv, Meshed, Chunky
<1>6. Fetching'
  BY <1>1, <1>3, NothingFetched DEF Fetching
<1>7. Passing' /\ Rested'
  BY <1>1, <1>2, <1>3 DEF IInv, Passing, Rested
<1> QED
  BY <1>2, <1>4, <1>5, <1>6, <1>7 DEF IInv

\* A batch is fetched; what a load placed meanwhile has its group by then.
LEMMA NextBatchPreserves ==
  ASSUME IInv, NextBatch
  PROVE  IInv'
<1>1. /\ UNCHANGED <<seq, models, groups, scene, loads>>
      /\ UNCHANGED <<visible, near, meshes, wanted, proxies, boxed, again>>
      /\ apply.pc = "load" /\ Fetched
  BY DEF NextBatch, placed, wish
<1>2. CASE apply.seq # seq
  BY <1>1, <1>2, GotoAgainPreserves DEF NextBatch
<1>3. CASE apply.seq = seq
  <2>1. PICK batch \in SUBSET apply.todo :
          LET start == {k \in batch : groups[k[1]] # 0} IN
          /\ chunkStates' = chunkStates \cup start
          /\ failed' = failed \ start
          /\ fetch' = [k \in ChunkKeys |->
                IF k \in start THEN Fetch("download", seq, groups[k[1]]) ELSE fetch[k]]
          /\ apply' = [apply EXCEPT !.todo = @ \ batch, !.batch = batch]
    BY <1>3 DEF NextBatch, kSubset
  <2>2. PICK start : start = {k \in batch : groups[k[1]] # 0}
    OBVIOUS
  <2>3. /\ chunkStates' = chunkStates \cup start /\ failed' = failed \ start
        /\ \A k \in ChunkKeys : fetch'[k] =
              IF k \in start THEN Fetch("download", seq, groups[k[1]]) ELSE fetch[k]
    BY <2>1, <2>2
  <2>4. /\ apply'.pc = "load" /\ apply'.seq = seq
        /\ apply'.todo = apply.todo \ batch /\ apply'.batch = batch
        /\ apply' \in [pc : {"idle", "load", "again"}, seq : Seqs,
                       todo : SUBSET ChunkKeys, batch : SUBSET ChunkKeys]
    BY <1>1, <1>3, <2>1 DEF IInv, Typed
  <2>5. /\ batch \subseteq ChunkKeys /\ start \subseteq batch /\ batch \cap chunkStates = {}
        /\ \A k \in start : groups[k[1]] = seq /\ seq # 0 /\ k[1] \in ToSet(models) \ Pending
                            /\ k[1] \in Versions
    <3>1. batch \subseteq ChunkKeys /\ start \subseteq batch /\ batch \cap chunkStates = {}
      BY <1>1, <2>1, <2>2 DEF IInv, Typed, Fetching
    <3>2. \A k \in start : k[1] \in Versions /\ groups[k[1]] # 0
      BY <2>2, <3>1, KeyFacts
    <3> QED
      BY <3>1, <3>2 DEF IInv, Grouped
  <2>6. LatestLoads' /\ Grouped' /\ Pending' = Pending /\ InHand' = InHand /\ (Over' <=> Over)
    BY <1>1, PlacedKept
  <2>7. \A k \in start : /\ fetch'[k].pc = "download" /\ fetch'[k].seq = seq
                         /\ fetch'[k].group = seq
                         /\ fetch'[k] \in [pc : {"none", "download", "parse"}, seq : Seqs, group : Seqs]
    <3>1. ASSUME NEW k \in start
          PROVE  /\ fetch'[k].pc = "download" /\ fetch'[k].seq = seq
                 /\ fetch'[k].group = seq
                 /\ fetch'[k] \in [pc : {"none", "download", "parse"}, seq : Seqs, group : Seqs]
      <4>1. fetch'[k] = Fetch("download", seq, seq) /\ seq \in Seqs
        BY <2>3, <2>5 DEF IInv, Typed
      <4> QED
        BY <4>1 DEF Fetch
    <3> QED
      BY <3>1
  <2>8. \A k \in ChunkKeys \ start : fetch'[k] = NoFetch /\ fetch'[k].pc = "none"
                                     /\ fetch'[k] = fetch[k]
    BY <1>1, <2>3, NothingFetched
  <2>9. Typed'
    <3>1. chunkStates' \subseteq ChunkKeys
      BY <2>3, <2>5 DEF IInv, Typed
    <3>2. fetch' \in [ChunkKeys -> [pc : {"none", "download", "parse"}, seq : Seqs, group : Seqs]]
      <4>1. \A k \in ChunkKeys : fetch'[k] \in [pc : {"none", "download", "parse"}, seq : Seqs, group : Seqs]
        BY <2>7, <2>8 DEF IInv, Typed
      <4>2. fetch' = [k \in ChunkKeys |-> fetch'[k]]
        BY <2>1
      <4> QED
        BY <4>1, <4>2
    <3> QED
      BY <1>1, <2>4, <3>1, <3>2 DEF IInv, Typed
  <2>10. Meshed'
    BY <1>1, <2>6 DEF IInv, Meshed
  <2>11. Chunky'
    <3>1. ASSUME NEW k \in ChunkKeys, k \in start
          PROVE  k \in chunkStates' /\ ~ \E b \in meshes' : b.key = k
      BY <1>1, <2>3, <2>5, <3>1 DEF IInv, Chunky
    <3>2. ASSUME NEW k \in ChunkKeys, k \notin start
          PROVE  k \in chunkStates' <=> k \in chunkStates
      BY <2>3, <3>2
    <3> QED
      BY <1>1, <2>7, <2>8, <3>1, <3>2 DEF IInv, Chunky
  <2>12. Fetching'
    <3>1. apply'.todo \cap chunkStates' = {}
      BY <1>1, <2>3, <2>4, <2>5 DEF IInv, Fetching
    <3>2. seq <= seq
      BY DEF IInv, Typed, Seqs
    <3> QED
      BY <1>1, <2>4, <2>5, <2>6, <2>7, <2>8, <3>1, <3>2 DEF Fetching
  <2>13. Passing'
    <3>1. SUFFICES ASSUME Over, ~ again PROVE Fulfilled(apply.todo \ batch)'
      BY <1>1, <2>4, <2>6 DEF Passing, Fulfilled
    <3>2. wanted = Wanted(models, visible, near)
          /\ \A k \in wanted \cap ChunkKeys : k \in apply.todo \cup failed \cup chunkStates
      BY <1>1, <3>1 DEF IInv, Passing, Fulfilled
    <3>3. \A k \in wanted \cap ChunkKeys : k \in batch => k \in start
      <4>1. Pending = {} /\ (ToSet(models) # {} => seq # 0)
        BY <3>1 DEF Pending, Short, Over, IInv, LatestLoads, ToSet
      <4>2. \A k \in wanted : k[1] \in ToSet(models) /\ k[1] \in Versions
        BY <3>2, KeyFacts DEF Wanted, KeysOf
      <4> QED
        BY <2>2, <4>1, <4>2 DEF IInv, Grouped
    <3>4. \A k \in wanted \cap ChunkKeys :
             k \in (apply.todo \ batch) \cup failed' \cup chunkStates'
      BY <2>3, <3>2, <3>3
    <3> QED
      BY <1>1, <2>4, <3>2, <3>4 DEF Fulfilled
  <2>14. Rested'
    BY <2>4 DEF Rested
  <2> QED
    BY <2>6, <2>9, <2>10, <2>11, <2>12, <2>13, <2>14 DEF IInv
<1> QED
  BY <1>2, <1>3

\* A pass ends: what it drops had no fetch, and what it keeps is shown as wanted.
LEMMA FinishPreserves ==
  ASSUME IInv, Finish
  PROVE  IInv'
<1>1. /\ UNCHANGED <<seq, models, groups, scene, loads>>
      /\ UNCHANGED <<visible, near, wanted, proxies, fetch, again, failed>>
      /\ apply.pc = "load" /\ apply.todo = {} /\ Fetched /\ GotoAgain
  BY DEF Finish, placed, wish
<1>2. CASE apply.seq # seq
  BY <1>1, <1>2, GotoAgainPreserves DEF Finish, cache
<1>3. CASE apply.seq = seq
  <2>1. PICK out \in Evictions :
              /\ meshes' = {Mesh(b.key, b.load, b.key \in wanted) :
                               b \in {m \in meshes : m.key \notin out}}
              /\ boxed' = Boxes(visible, wanted, proxies)
              /\ chunkStates' = chunkStates \ out
    BY <1>3 DEF Finish
  <2>2. out \subseteq ChunkKeys /\ out \cap wanted = {}
    BY <2>1 DEF Evictions, Hidden, IInv, Typed
  <2>3. ASSUME NEW c \in meshes'
        PROVE  \E b \in meshes : b.key \notin out /\ c.key = b.key /\ c.load = b.load
                                 /\ (c.shown <=> b.key \in wanted)
                                 /\ c \in [key : Keys, load : Loads, shown : BOOLEAN]
    <3>1. PICK b \in meshes : b.key \notin out /\ c = Mesh(b.key, b.load, b.key \in wanted)
      BY <2>1
    <3>2. b.key \in Keys /\ b.load \in Loads /\ (b.key \in wanted) \in BOOLEAN
      BY DEF IInv, Typed
    <3> QED
      BY <3>1, <3>2 DEF Mesh
  <2>4. ASSUME NEW b \in meshes, b.key \notin out
        PROVE  \E c \in meshes' : c.key = b.key
    <3>1. PICK c : c = Mesh(b.key, b.load, b.key \in wanted)
      OBVIOUS
    <3>2. c \in meshes'
      BY <2>1, <2>4, <3>1
    <3>3. c.key = b.key
      BY <3>1 DEF Mesh
    <3> QED
      BY <3>2, <3>3
  <2>5. ASSUME NEW c \in meshes', NEW d \in meshes', c.key = d.key
        PROVE  c = d
    <3>1. PICK b \in meshes : b.key \notin out /\ c = Mesh(b.key, b.load, b.key \in wanted)
      BY <2>1
    <3>2. PICK e \in meshes : e.key \notin out /\ d = Mesh(e.key, e.load, e.key \in wanted)
      BY <2>1
    <3>3. b.key = e.key
      BY <2>5, <3>1, <3>2 DEF Mesh
    <3> QED
      BY <3>1, <3>2, <3>3 DEF IInv, Meshed
  <2>6. \A k \in Keys : (\E c \in meshes' : c.key = k)
                           <=> k \notin out /\ \E b \in meshes : b.key = k
    BY <2>3, <2>4
  <2>7. LatestLoads' /\ Grouped' /\ Pending' = Pending /\ InHand' = InHand /\ (Over' <=> Over)
    BY <1>1, PlacedKept
  <2>8. /\ apply'.pc = "again"
        /\ apply' \in [pc : {"idle", "load", "again"}, seq : Seqs,
                       todo : SUBSET ChunkKeys, batch : SUBSET ChunkKeys]
    BY <1>1, ViewerAssumption DEF GotoAgain, Apply, Seqs
  <2>9. Typed'
    <3>1. meshes' \subseteq [key : Keys, load : Loads, shown : BOOLEAN]
      BY <2>3
    <3>2. chunkStates' \subseteq ChunkKeys
      BY <2>1 DEF IInv, Typed
    <3> QED
      BY <1>1, <2>8, <3>1, <3>2 DEF IInv, Typed
  <2>10. Meshed'
    <3>1. \A b \in meshes' : b.key[1] \in ToSet(models) \ Pending /\ b.load = seq
      BY <2>3 DEF IInv, Meshed
    <3>2. ASSUME NEW v \in Single
          PROVE  (\E b \in meshes' : b.key = <<v, 0>>) <=> (\E b \in meshes : b.key = <<v, 0>>)
      <4>1. PICK k : k = <<v, 0>>
        OBVIOUS
      <4>2. k \in Keys /\ k \notin out
        BY <2>2, <4>1, KeyFacts
      <4> QED
        BY <2>6, <4>1, <4>2
    <3>3. \A v \in Single :
            (\E b \in meshes' : b.key = <<v, 0>>) <=> v \in ToSet(models) \ (Pending \cup InHand)
      BY <3>2 DEF IInv, Meshed
    <3> QED
      BY <1>1, <2>5, <2>7, <3>1, <3>3 DEF Meshed
  <2>11. \A k \in ChunkKeys : fetch[k].pc = "none" /\ fetch[k] = NoFetch
    BY <1>1, NothingFetched
  <2>12. Chunky'
    <3>1. \A k \in ChunkKeys : k \in Keys
      BY KeyFacts
    <3>2. \A k \in ChunkKeys : k \in chunkStates <=> \E b \in meshes : b.key = k
      BY <2>11 DEF IInv, Chunky
    <3> QED
      BY <1>1, <2>1, <2>6, <2>11, <3>1, <3>2 DEF Chunky
  <2>13. Fetching'
    BY <1>1, <2>8, <2>11 DEF Fetching
  <2>14. Passing'
    BY <2>8 DEF Passing
  <2>15. Rested'
    <3>1. SUFFICES ASSUME Over, ~ again PROVE Fulfilled({})' /\ Shown'
      BY <1>1, <2>7, <2>8 DEF Rested
    <3>2. Fulfilled({})
      BY <1>1, <3>1 DEF IInv, Passing, Fulfilled
    <3>3. Fulfilled({})'
      BY <1>1, <2>1, <2>2, <3>2 DEF Fulfilled
    <3>4. \A b \in meshes' : b.shown <=> b.key \in wanted
      BY <2>3
    <3>5. Shown'
      BY <1>1, <2>1, <3>4 DEF Shown
    <3> QED
      BY <3>3, <3>5
  <2> QED
    BY <2>7, <2>9, <2>10, <2>12, <2>13, <2>14, <2>15 DEF IInv
<1> QED
  BY <1>2, <1>3

\* Another pass begins if anything was asked, and else nothing is missing.
LEMMA AgainPreserves ==
  ASSUME IInv, Again
  PROVE  IInv'
<1>1. /\ UNCHANGED <<seq, models, groups, scene, loads>>
      /\ UNCHANGED <<visible, near, chunkStates, fetch, failed, meshes, proxies, boxed>>
      /\ UNCHANGED cache
      /\ apply.pc = "again"
  BY DEF Again, placed, wish, cache
<1>2. LatestLoads' /\ Grouped' /\ Pending' = Pending /\ InHand' = InHand /\ (Over' <=> Over)
  BY <1>1, PlacedKept
<1>3. CASE again
  <2>1. PICK vis, view : vis = visible /\ view = near
    OBVIOUS
  <2>2. Begin(vis, view) /\ visible' = vis /\ near' = view /\ vis \in SUBSET Keys
    BY <1>1, <1>3, <2>1 DEF Again, IInv, Typed
  <2>3. loads' \in [Loads -> [pc : {"none", "parse", "failed", "placed", "over"},
                              models : Seq(Versions), todo : Seq(Versions)]]
    BY <1>1 DEF IInv, Typed
  <2> QED
    BY <1>1, <1>2, <2>2, <2>3, BeginPreserves
<1>4. CASE ~ again
  <2>1. apply' = Idle /\ UNCHANGED <<wanted, again>>
    BY <1>4 DEF Again
  <2>2. /\ apply'.pc = "idle"
        /\ apply' \in [pc : {"idle", "load", "again"}, seq : Seqs,
                       todo : SUBSET ChunkKeys, batch : SUBSET ChunkKeys]
    BY <2>1, ViewerAssumption DEF Idle, Apply, Seqs
  <2>3. Typed'
    BY <1>1, <2>1, <2>2 DEF IInv, Typed
  <2>4. Meshed' /\ Chunky'
    BY <1>1, <1>2 DEF IInv, Meshed, Chunky
  <2>5. Fetching'
    <3>1. \A k \in ChunkKeys : fetch[k].pc = "none" /\ fetch[k] = NoFetch
      BY <1>1, NothingFetched
    <3> QED
      BY <1>1, <2>2, <3>1 DEF Fetching
  <2>6. Passing'
    BY <2>2 DEF Passing
  <2>7. Rested'
    BY <1>1, <1>2, <1>4, <2>1 DEF IInv, Rested, Fulfilled, Shown
  <2> QED
    BY <1>2, <2>3, <2>4, <2>5, <2>6, <2>7 DEF IInv
<1> QED
  BY <1>3, <1>4

-----------------------------------------------------------------------------
(* loadChunk                                                                 *)

\* One fetch has become f; the pass goes on.
LEMMA FetchPreserves ==
  ASSUME IInv, NEW k \in ChunkKeys, fetch[k].pc # "none",
         NEW f \in [pc : {"none", "download", "parse"}, seq : Seqs, group : Seqs],
         fetch' = [fetch EXCEPT ![k] = f],
         f.pc = "none" => f = NoFetch,
         f.pc # "none" => f.seq = fetch[k].seq /\ f.group = fetch[k].group,
         UNCHANGED <<placed, wish, wanted, apply, again>>,
         Meshed', Chunky', chunkStates' \subseteq chunkStates,
         meshes' \subseteq [key : Keys, load : Loads, shown : BOOLEAN],
         \A c \in ChunkKeys : c \in failed \cup chunkStates => c \in failed' \cup chunkStates'
  PROVE  IInv'
<1>1. /\ UNCHANGED <<seq, models, groups, scene, loads>>
      /\ UNCHANGED <<visible, near, wanted, apply, again>>
  BY DEF placed, wish
<1>2. LatestLoads' /\ Grouped' /\ Pending' = Pending /\ InHand' = InHand /\ (Over' <=> Over)
  BY <1>1, PlacedKept
<1>3. /\ fetch' \in [ChunkKeys -> [pc : {"none", "download", "parse"}, seq : Seqs, group : Seqs]]
      /\ fetch'[k] = f /\ \A c \in ChunkKeys \ {k} : fetch'[c] = fetch[c]
  BY DEF IInv, Typed
<1>4. Typed'
  BY <1>1, <1>3 DEF IInv, Typed
<1>5. apply.pc = "load"
  BY DEF IInv, Fetching
<1>6. Fetching'
  BY <1>1, <1>2, <1>3 DEF IInv, Fetching
<1>7. Passing'
  BY <1>1, <1>2 DEF IInv, Passing, Fulfilled
<1>8. Rested'
  BY <1>1, <1>5 DEF Rested
<1> QED
  BY <1>2, <1>4, <1>6, <1>7, <1>8 DEF IInv

LEMMA NoFetchType ==
  /\ NoFetch \in [pc : {"none", "download", "parse"}, seq : Seqs, group : Seqs]
  /\ NoFetch.pc = "none"
BY ViewerAssumption DEF NoFetch, Fetch, Seqs

\* A download is back: only for the latest load does it go on.
LEMMA DownloadedPreserves ==
  ASSUME IInv, NEW k \in ChunkKeys, Downloaded(k)
  PROVE  IInv'
<1>1. PICK f : f = IF fetch[k].seq = seq /\ k \in chunkStates
                   THEN [fetch[k] EXCEPT !.pc = "parse"] ELSE NoFetch
  OBVIOUS
<1>2. /\ fetch' = [fetch EXCEPT ![k] = f] /\ fetch[k].pc = "download"
      /\ UNCHANGED <<placed, wish, meshes, wanted, chunkStates, failed, apply, again>>
  BY <1>1 DEF Downloaded
<1>3. /\ f \in [pc : {"none", "download", "parse"}, seq : Seqs, group : Seqs]
      /\ f.pc = "none" => f = NoFetch
      /\ f.pc # "none" => f.seq = fetch[k].seq /\ f.group = fetch[k].group
      /\ fetch[k].seq = seq /\ k \in chunkStates => f.pc = "parse" /\ f.seq = seq
  BY <1>1, NoFetchType DEF IInv, Typed
<1>4. fetch'[k] = f /\ \A c \in ChunkKeys \ {k} : fetch'[c] = fetch[c]
  BY <1>2 DEF IInv, Typed
<1>5. Meshed'
  BY <1>2 DEF IInv, Meshed, placed, Pending, InHand, Short
<1>6. Chunky'
  <2>1. UNCHANGED <<seq, meshes, chunkStates>>
    BY <1>2 DEF placed
  <2>2. fetch[k].seq = seq => k \in chunkStates
    BY <1>2 DEF IInv, Chunky
  <2>3. fetch'[k].pc # "none" /\ fetch'[k].seq = seq <=> fetch[k].seq = seq
    BY <1>1, <1>3, <1>4, <2>2, NoFetchType
  <2> QED
    BY <1>2, <1>4, <2>1, <2>3 DEF IInv, Chunky
<1>7. meshes' \subseteq [key : Keys, load : Loads, shown : BOOLEAN]
  BY <1>2 DEF IInv, Typed
<1> QED
  BY <1>2, <1>3, <1>5, <1>6, <1>7, FetchPreserves

\* A chunk gets its mesh, and had none.
LEMMA AttachPreserves ==
  ASSUME IInv, NEW k \in ChunkKeys, Attach(k)
  PROVE  IInv'
<1>1. /\ fetch' = [fetch EXCEPT ![k] = NoFetch] /\ fetch[k].pc = "parse"
      /\ UNCHANGED <<placed, wish, wanted, chunkStates, failed, apply, again>>
      /\ UNCHANGED <<seq, models, loads>>
  BY DEF Attach, placed
<1>2. fetch'[k] = NoFetch /\ \A c \in ChunkKeys \ {k} : fetch'[c] = fetch[c]
  BY <1>1 DEF IInv, Typed
<1>3. Pending' = Pending /\ InHand' = InHand
  BY <1>1 DEF Pending, InHand, Short
<1>4. CASE fetch[k].seq # seq
  <2>1. meshes' = meshes
    BY <1>4 DEF Attach
  <2>2. Meshed'
    BY <1>1, <1>3, <2>1 DEF IInv, Meshed
  <2>3. Chunky'
    BY <1>1, <1>2, <1>4, <2>1, NoFetchType DEF IInv, Chunky
  <2>4. meshes' \subseteq [key : Keys, load : Loads, shown : BOOLEAN]
    BY <2>1 DEF IInv, Typed
  <2> QED
    BY <1>1, <2>2, <2>3, <2>4, NoFetchType, FetchPreserves
<1>5. CASE fetch[k].seq = seq
  <2>1. PICK b0 : b0 = Mesh(k, fetch[k].group, TRUE)
    OBVIOUS
  <2>2. meshes' = meshes \cup {b0} /\ b0.key = k /\ b0.load = fetch[k].group
        /\ b0 = [key |-> k, load |-> fetch[k].group, shown |-> TRUE]
    BY <1>5, <2>1 DEF Attach, Mesh
  <2>3. /\ fetch[k].group = seq /\ seq # 0 /\ k[1] \in ToSet(models) \ Pending
        /\ k \in chunkStates /\ \A b \in meshes : b.key # k
    BY <1>1, <1>5 DEF IInv, Fetching, Chunky
  <2>4. k \in Keys /\ \A v \in Single : <<v, 0>> # k
    BY KeyFacts
  <2>5. meshes' \subseteq [key : Keys, load : Loads, shown : BOOLEAN]
    <3>1. seq \in Loads
      BY <2>3, ViewerAssumption DEF IInv, Typed, Seqs, Loads
    <3>2. b0 \in [key : Keys, load : Loads, shown : BOOLEAN]
      BY <2>2, <2>3, <2>4, <3>1
    <3> QED
      BY <2>2, <3>2 DEF IInv, Typed
  <2>6. Meshed'
    <3>1. \A b \in meshes' : b.key[1] \in ToSet(models) \ Pending /\ b.load = seq
      BY <2>2, <2>3 DEF IInv, Meshed
    <3>2. \A b, c \in meshes' : b.key = c.key => b = c
      BY <2>2, <2>3 DEF IInv, Meshed
    <3>3. \A v \in Single : (\E b \in meshes' : b.key = <<v, 0>>)
                               <=> (\E b \in meshes : b.key = <<v, 0>>)
      BY <2>2, <2>4
    <3> QED
      BY <1>1, <1>3, <3>1, <3>2, <3>3 DEF IInv, Meshed
  <2>7. Chunky'
    <3>1. \A c \in ChunkKeys \ {k} : (\E b \in meshes' : b.key = c) <=> (\E b \in meshes : b.key = c)
      BY <2>2
    <3>2. \E b \in meshes' : b.key = k
      BY <2>2
    <3>3. chunkStates' = chunkStates
      BY <1>1
    <3> QED
      BY <1>1, <1>2, <2>3, <3>1, <3>2, <3>3, NoFetchType DEF IInv, Chunky
  <2> QED
    BY <1>1, <2>5, <2>6, <2>7, NoFetchType, FetchPreserves
<1> QED
  BY <1>4, <1>5

\* The state goes that the fetch itself had made.
LEMMA FetchFailsPreserves ==
  ASSUME IInv, NEW k \in ChunkKeys, FetchFails(k)
  PROVE  IInv'
<1>1. /\ fetch' = [fetch EXCEPT ![k] = NoFetch] /\ fetch[k].pc # "none"
      /\ UNCHANGED <<placed, wish, wanted, meshes, apply, again>>
      /\ UNCHANGED <<seq, models, loads>>
  BY DEF FetchFails, placed
<1>2. fetch'[k] = NoFetch /\ \A c \in ChunkKeys \ {k} : fetch'[c] = fetch[c]
  BY <1>1 DEF IInv, Typed
<1>3. Pending' = Pending /\ InHand' = InHand
  BY <1>1 DEF Pending, InHand, Short
<1>4. Meshed'
  BY <1>1, <1>3 DEF IInv, Meshed
<1>5. meshes' \subseteq [key : Keys, load : Loads, shown : BOOLEAN]
  BY <1>1 DEF IInv, Typed
<1>6. CASE fetch[k].seq # seq
  <2>1. chunkStates' = chunkStates /\ failed' = failed
    BY <1>6 DEF FetchFails
  <2>2. Chunky'
    BY <1>1, <1>2, <1>6, <2>1, NoFetchType DEF IInv, Chunky
  <2> QED
    BY <1>1, <1>4, <1>5, <2>1, <2>2, NoFetchType, FetchPreserves
<1>7. CASE fetch[k].seq = seq
  <2>1. chunkStates' = chunkStates \ {k} /\ failed' = failed \cup {k}
    BY <1>7 DEF FetchFails
  <2>2. Chunky'
    BY <1>1, <1>2, <1>7, <2>1, NoFetchType DEF IInv, Chunky
  <2> QED
    BY <1>1, <1>4, <1>5, <2>1, <2>2, NoFetchType, FetchPreserves
<1> QED
  BY <1>6, <1>7

-----------------------------------------------------------------------------
\* Every step preserves the invariant.
LEMMA StepPreserves ==
  ASSUME IInv, Overlap = FALSE, [Next]_vars
  PROVE  IInv'
<1>1. CASE UNCHANGED vars
  <2>1. /\ UNCHANGED <<seq, models, groups, scene, loads, meshes, visible, near, wanted>>
        /\ UNCHANGED <<proxies, boxed, chunkStates, fetch, apply, again, failed>>
    BY <1>1 DEF vars
  <2>2. LatestLoads' /\ Grouped' /\ Pending' = Pending /\ InHand' = InHand /\ (Over' <=> Over)
    BY <2>1, PlacedKept
  <2>3. Typed' /\ Meshed' /\ Chunky' /\ Fetching'
    BY <2>1, <2>2 DEF IInv, Typed, Meshed, Chunky, Fetching
  <2>4. Passing' /\ Rested'
    BY <2>1, <2>2 DEF IInv, Passing, Rested, Fulfilled, Shown
  <2> QED
    BY <2>2, <2>3, <2>4 DEF IInv
<1>2. ASSUME NEW m \in Federations, LoadFederation(m) PROVE IInv'
  BY <1>2, LoadFederationPreserves
<1>3. CASE Wish
  BY <1>3, WishPreserves
<1>4. ASSUME NEW v \in Versions, SetProxyBoxes(v) PROVE IInv'
  BY <1>4, SetProxyBoxesPreserves
<1>5. ASSUME NEW l \in Loads, Parsed(l) \/ ParseFails(l) \/ Show(l) PROVE IInv'
  BY <1>5, ParsedPreserves, ParseFailsPreserves, ShowPreserves
<1>6. CASE NextBatch \/ Finish \/ Again
  BY <1>6, NextBatchPreserves, FinishPreserves, AgainPreserves
<1>7. ASSUME NEW k \in ChunkKeys, Downloaded(k) \/ Attach(k) \/ FetchFails(k) PROVE IInv'
  BY <1>7, DownloadedPreserves, AttachPreserves, FetchFailsPreserves
<1> QED
  BY <1>1, <1>2, <1>3, <1>4, <1>5, <1>6, <1>7 DEF Next, Script

\* At rest what is wanted is drawn as geometry, and the rest as boxes.
LEMMA RestIsDrawn ==
  ASSUME IInv, AtRest, ~Cut
  PROVE  DrawnOnce
<1>1. /\ apply.pc = "idle" /\ \A l \in Loads : loads[l].pc \in {"none", "failed", "over"}
      /\ seq # 0 => seq \in Loads
  BY ViewerAssumption DEF AtRest, IInv, Typed, Seqs, Loads
<1>2. Over /\ Pending = {} /\ InHand = {}
  <2>1. seq # 0 => loads[seq].pc \notin {"none", "failed"}
    BY <1>1 DEF IInv, LatestLoads, Typed, Seqs, Cut
  <2> QED
    BY <1>1, <2>1 DEF Over, Pending, InHand, Short
<1>3. Fulfilled({}) /\ Shown
  BY <1>1, <1>2 DEF IInv, Rested
<1>4. \A k \in ChunkKeys : k \in chunkStates <=> \E b \in meshes : b.key = k
  BY <1>1, NothingFetched DEF IInv, Chunky
<1>5. ASSUME NEW k \in KeysOf(models), k \in wanted, k \notin failed
      PROVE  \E b \in meshes : b.key = k
  <2>1. k \in Keys /\ k[1] \in ToSet(models)
    BY DEF KeysOf
  <2>2. CASE k \in ChunkKeys
    BY <1>3, <1>4, <1>5, <2>2 DEF Fulfilled
  <2>3. CASE k \in SingleKeys
    <3>1. k[1] \in Single /\ k = <<k[1], 0>>
      BY <2>3, KeyFacts
    <3> QED
      BY <1>2, <2>1, <3>1 DEF IInv, Meshed
  <2> QED
    BY <2>1, <2>2, <2>3, KeyFacts
<1>6. \A b \in meshes : b.shown <=> b.key \in wanted
  BY <1>3 DEF Shown
<1>7. \A k : k \in boxed <=> k \in visible /\ k \notin wanted /\ k[1] \in proxies
  BY <1>3 DEF Shown, Boxes
<1>8. ASSUME NEW k \in visible \cap KeysOf(models), k[1] \in proxies, k \notin failed
      PROVE  (k \in boxed) # (\E b \in meshes : b.key = k /\ b.shown)
  <2>1. CASE k \in wanted
    <3>1. k \notin boxed /\ \E b \in meshes : b.key = k /\ b.shown
      BY <1>5, <1>6, <1>7, <1>8, <2>1
    <3> QED
      BY <3>1
  <2>2. CASE k \notin wanted
    <3>1. k \in boxed /\ ~ \E b \in meshes : b.key = k /\ b.shown
      BY <1>6, <1>7, <1>8, <2>2
    <3> QED
      BY <3>1
  <2> QED
    BY <2>1, <2>2
<1> QED
  BY <1>3, <1>6, <1>8 DEF DrawnOnce, Fulfilled

-----------------------------------------------------------------------------
\* Viewer.ts keeps in its scene the groups of the latest federation, without
\* the models behind a file that could not be parsed, and nothing else, draws
\* no chunk twice, and shows at rest what was asked (unless that load failed),
\* in whatever order loads, downloads, evictions and wishes come, as long as
\* no load starts while another still parses.
THEOREM SceneIsTheFederation ==
  ASSUME Overlap = FALSE
  PROVE  Spec => []SceneIsFederation
<1>1. Init => IInv
  BY StartsWell
<1>2. IInv /\ [Next]_vars => IInv'
  BY StepPreserves
<1>3. IInv => SceneIsFederation
  <2>1. SUFFICES ASSUME IInv PROVE SceneIsFederation
    OBVIOUS
  <2>2. DrawnOnce
    BY <2>1, RestIsDrawn DEF DrawnOnce
  <2>3. (\A l \in Loads : loads[l].pc # "parse") =>
           scene = (ToSet(models) \ Lost) \X {seq}
    <3>1. SUFFICES ASSUME \A l \in Loads : loads[l].pc # "parse"
                   PROVE  scene = (ToSet(models) \ Lost) \X {seq}
      OBVIOUS
    <3>2. Short <=> Cut
      BY <2>1, <3>1, ViewerAssumption DEF Short, Cut, IInv, Typed, Seqs, Loads
    <3>3. Pending = Lost
      BY <3>2 DEF Pending, Lost
    <3> QED
      BY <2>1, <3>3 DEF IInv, Grouped
  <2>4. \A b \in meshes : <<b.key[1], b.load>> \in scene /\ b.load = seq
    BY <2>1 DEF IInv, Meshed, Grouped
  <2>5. \A b, c \in meshes : b.key = c.key => b = c
    BY <2>1 DEF IInv, Meshed
  <2> QED
    BY <2>2, <2>3, <2>4, <2>5 DEF SceneIsFederation
<1> QED
  BY <1>1, <1>2, <1>3, PTL DEF Spec

-----------------------------------------------------------------------------
(* What the scene weighs.                                                    *)

KeyBytes == [k \in Keys |-> Bytes(k)]

\* Weight is the total of the bytes.
LEMMA WeightIsTotal ==
  ASSUME NEW S \in SUBSET Keys, IsFiniteSet(S)
  PROVE  Weight(S) = Total(KeyBytes, S)
<1> DEFINE Value(h, s) == IF s = {} THEN 0 ELSE
                 LET x == CHOOSE x \in s : TRUE IN Bytes(x) + h[s \ {x}]
           iter == CHOOSE h : h = [s \in SUBSET S |-> Value(h, s)]
<1>1. Weight(S) = iter[S]
  BY DEF Weight, MapThenSumSet, MapThenFoldSet
<1>2. Picks(First(S), S)
  BY DEF Picks, First
<1>3. \A h : \A s \in SUBSET S :
        (IF s = {} THEN 0 ELSE KeyBytes[First(S)[s]] + h[s \ {First(S)[s]}]) = Value(h, s)
  <2>1. ASSUME NEW s \in SUBSET S, s # {}
        PROVE  /\ First(S)[s] = CHOOSE x \in s : TRUE
               /\ First(S)[s] \in Keys
    BY <2>1 DEF First
  <2>2. \A k \in Keys : KeyBytes[k] = Bytes(k)
    BY DEF KeyBytes
  <2> QED
    BY <2>1, <2>2
<1>4. \A h : Sums(h, KeyBytes, First(S), S) <=> h = [s \in SUBSET S |-> Value(h, s)]
  <2> HIDE DEF Value
  <2> QED
    BY <1>3 DEF Sums
<1>5. \E h : h = [s \in SUBSET S |-> Value(h, s)]
  <2> HIDE DEF Value
  <2> QED
    BY <1>2, <1>4, SumsExist
<1>6. iter = [s \in SUBSET S |-> Value(iter, s)]
  <2> HIDE DEF Value
  <2> QED
    BY <1>5
<1>7. Sums(iter, KeyBytes, First(S), S)
  <2> HIDE DEF iter, Value
  <2> QED
    BY <1>4, <1>6
<1>8. Ints(KeyBytes, S)
  BY ViewerAssumption DEF Ints, KeyBytes, Bytes, Keys, ChunkKeys, SingleKeys
<1>9. iter[S] = Total(KeyBytes, S)
  <2> HIDE DEF iter
  <2> QED
    BY <1>2, <1>7, <1>8, SumIsTotal
<1> QED
  BY <1>1, <1>9

LEMMA KeysAreFinite == IsFiniteSet(Keys) /\ IsFiniteSet(ChunkKeys)
<1>1. IsFiniteSet(Single) /\ IsFiniteSet(Chunked)
  <2>1. Single \in SUBSET Versions /\ Chunked \in SUBSET Versions /\ IsFiniteSet(Versions)
    BY ViewerAssumption DEF Versions
  <2>2. IsFiniteSet(Single)
    BY <2>1, FS_Subset
  <2>3. IsFiniteSet(Chunked)
    BY <2>1, FS_Subset
  <2> QED
    BY <2>2, <2>3
<1>2. IsFiniteSet(1..Chunks)
  <2>1. 1 \in Int /\ Chunks \in Int
    BY ViewerAssumption
  <2> QED
    BY <2>1, FS_Interval
<1>4. IsFiniteSet({0})
  BY FS_Singleton
<1>3. IsFiniteSet(ChunkKeys) /\ IsFiniteSet(SingleKeys)
  BY <1>1, <1>2, <1>4, FS_Product DEF ChunkKeys, SingleKeys
<1> QED
  BY <1>3, FS_Union DEF Keys

\* What a set of keys weighs, with one more and with some fewer.
LEMMA WeightFacts ==
  /\ Weight({}) = 0
  /\ \A S \in SUBSET Keys : Weight(S) \in Int
  /\ \A S \in SUBSET Keys : \A k \in Keys \ S : Weight(S \cup {k}) = Weight(S) + Bytes(k)
  /\ \A S \in SUBSET Keys : \A T \in SUBSET S : Weight(S \ T) = Weight(S) - Weight(T)
<1>1. \A k \in Keys : KeyBytes[k] = Bytes(k) /\ Bytes(k) \in Int
  BY ViewerAssumption DEF KeyBytes, Bytes, Keys, ChunkKeys, SingleKeys
<1>2. \A S \in SUBSET Keys : IsFiniteSet(S) /\ Ints(KeyBytes, S)
  BY <1>1, KeysAreFinite, FS_Subset DEF Ints
<1>3. \A S \in SUBSET Keys : Weight(S) = Total(KeyBytes, S)
  BY <1>2, WeightIsTotal
<1>4. Weight({}) = 0
  BY <1>3, TotalOfNothing
<1>5. \A S \in SUBSET Keys : Weight(S) \in Int
  BY <1>2, <1>3, TotalIsInt
<1>6. ASSUME NEW S \in SUBSET Keys, NEW k \in Keys \ S
      PROVE  Weight(S \cup {k}) = Weight(S) + Bytes(k)
  <2>1. Total(KeyBytes, S \cup {k}) = Total(KeyBytes, S) + KeyBytes[k]
    BY <1>1, <1>2, TotalGrows
  <2>2. S \cup {k} \in SUBSET Keys
    OBVIOUS
  <2> QED
    BY <1>1, <1>3, <2>1, <2>2
<1>7. ASSUME NEW S \in SUBSET Keys, NEW T \in SUBSET S
      PROVE  Weight(S \ T) = Weight(S) - Weight(T)
  <2>1. PICK R : R = S \ T
    OBVIOUS
  <2>2. R \in SUBSET Keys /\ T \in SUBSET Keys /\ R \cap T = {} /\ R \cup T = S
    BY <2>1
  <2>3. Total(KeyBytes, R \cup T) = Total(KeyBytes, R) + Total(KeyBytes, T)
    BY <1>2, <2>2, TotalOfParts
  <2>4. Weight(S) = Weight(R) + Weight(T)
    BY <1>3, <2>2, <2>3
  <2> QED
    BY <1>5, <2>1, <2>2, <2>4
<1> QED
  BY <1>4, <1>5, <1>6, <1>7

\* Files weigh nothing: only chunks are dropped.
LEMMA FilesAreLight ==
  ASSUME NEW S \in SUBSET SingleKeys
  PROVE  Weight(S) = 0
<1> DEFINE A == {s \in SUBSET S : Weight(s) = 0}
<1>1. S \in SUBSET Keys /\ IsFiniteSet(S)
  BY KeyFacts, KeysAreFinite, FS_Subset
<1>2. ASSUME NEW s \in SUBSET S, \A t \in SUBSET s : t # s => t \in A
      PROVE  s \in A
  <2>1. CASE s = {}
    BY <2>1, WeightFacts
  <2>2. CASE s # {}
    <3>1. PICK k \in s : TRUE
      BY <2>2
    <3>2. PICK t : t = s \ {k}
      OBVIOUS
    <3>3. t \in A /\ t \in SUBSET Keys /\ k \in Keys \ t /\ s = t \cup {k}
      BY <1>1, <1>2, <3>1, <3>2
    <3>4. Weight(s) = Weight(t) + Bytes(k)
      BY <3>3, WeightFacts
    <3>5. Bytes(k) = 0
      BY <3>1, ViewerAssumption DEF Bytes, SingleKeys
    <3>6. Weight(s) = 0
      BY <3>3, <3>4, <3>5
    <3> QED
      BY <3>6
  <2> QED
    BY <2>1, <2>2
<1>3. SUBSET S \subseteq A
  <2> HIDE DEF A
  <2> QED
    BY <1>1, <1>2, AllSubsets
<1>4. S \in A
  BY <1>3
<1> QED
  BY <1>4

MeshKeys == {b.key : b \in meshes}

\* Between two passes the chunks fit the budget, or all of them are shown.
Trimmed ==
    apply.pc # "load" /\ ~ again =>
       residentBytes <= Budget \/ \A b \in meshes : b.shown

\* A pass knows what is asked until something else is, and one that a load
\* overtook has brought nothing since.
Informed ==
    apply.pc = "load" =>
       /\ ~ again => wanted = Wanted(models, visible, near)
       /\ apply.seq # seq => residentBytes = 0

BytesInv == near \in Views /\ residentBytes = Weight(MeshKeys) /\ Trimmed /\ Informed

LEMMA MeshKeysAreKeys ==
  ASSUME IInv
  PROVE  MeshKeys \in SUBSET Keys
BY DEF IInv, Typed, MeshKeys

LEMMA BytesStart == Init => BytesInv
<1> SUFFICES ASSUME Init PROVE BytesInv
  OBVIOUS
<1>1. near \in Views /\ residentBytes = 0 /\ meshes = {} /\ apply.pc # "load"
  BY DEF Init, Idle, Apply
<1>2. MeshKeys = {}
  BY <1>1 DEF MeshKeys
<1> QED
  BY <1>1, <1>2, WeightFacts DEF BytesInv, Trimmed, Informed

LEMMA LoadFederationBytes ==
  ASSUME BytesInv, NEW m \in Federations, LoadFederation(m)
  PROVE  BytesInv'
<1>1. /\ models' = m /\ wanted' = Wanted(m, visible, near)
      /\ meshes' = {} /\ residentBytes' = 0
      /\ UNCHANGED <<visible, near, apply, again>>
  BY DEF LoadFederation, wish
<1>2. MeshKeys' = {}
  BY <1>1 DEF MeshKeys
<1> QED
  BY <1>1, <1>2, WeightFacts DEF BytesInv, Trimmed, Informed

LEMMA ParsedBytes ==
  ASSUME IInv, BytesInv, NEW l \in Loads, Parsed(l)
  PROVE  BytesInv'
<1> DEFINE t == loads[l].todo
<1>1. /\ t \in Seq(Versions) /\ t # <<>> /\ Head(t) \in Single
      /\ UNCHANGED <<seq, models, wanted, visible, near, residentBytes, apply, again>>
      /\ meshes' = meshes \cup {Mesh(<<Head(t), 0>>, l, TRUE)}
  BY ViewerAssumption DEF Parsed, IInv, LatestLoads, Typed, Loads, Short, cache, wish
<1>2. PICK k, b : k = <<Head(t), 0>> /\ b = Mesh(k, l, TRUE)
  OBVIOUS
<1>3. k \in SingleKeys /\ k \in Keys /\ Bytes(k) = 0
  BY <1>1, <1>2, KeyFacts DEF Bytes
<1>4. b.key = k /\ b.shown /\ meshes' = meshes \cup {b}
  BY <1>1, <1>2 DEF Mesh
<1>5. MeshKeys' = MeshKeys \cup {k}
  BY <1>4 DEF MeshKeys
<1>6. Weight(MeshKeys \cup {k}) = Weight(MeshKeys)
  <2>1. CASE k \in MeshKeys
    <3>1. MeshKeys \cup {k} = MeshKeys
      BY <2>1
    <3> QED
      BY <3>1
  <2>2. CASE k \notin MeshKeys
    BY <1>3, <2>2, MeshKeysAreKeys, WeightFacts
  <2> QED
    BY <2>1, <2>2
<1>7. residentBytes' = Weight(MeshKeys')
  BY <1>1, <1>5, <1>6 DEF BytesInv
<1>8. Trimmed' /\ Informed'
  BY <1>1, <1>4 DEF BytesInv, Trimmed, Informed
<1> QED
  BY <1>1, <1>7, <1>8 DEF BytesInv

\* A step that leaves the scene alone and ends no pass.
LEMMA BytesKept ==
  ASSUME BytesInv, UNCHANGED <<meshes, residentBytes>>, near' \in Views, Informed',
         \/ apply'.pc = "load" \/ again'
         \/ again' = again /\ apply.pc # "load"
  PROVE  BytesInv'
<1>1. MeshKeys' = MeshKeys
  BY DEF MeshKeys
<1>2. Trimmed'
  BY DEF BytesInv, Trimmed
<1> QED
  BY <1>1, <1>2 DEF BytesInv

\* A step that concerns neither the scene nor a pass.
LEMMA BytesUntouched ==
  ASSUME BytesInv,
         UNCHANGED <<seq, models, meshes, residentBytes, visible, near, wanted, apply, again>>
  PROVE  BytesInv'
<1>1. MeshKeys' = MeshKeys
  BY DEF MeshKeys
<1>2. Trimmed' /\ Informed'
  BY DEF BytesInv, Trimmed, Informed
<1> QED
  BY <1>1, <1>2 DEF BytesInv

\* A pass that a load overtook ends with nothing in the scene that weighs.
LEMMA BytesOvertaken ==
  ASSUME BytesInv, apply.pc = "load", apply.seq # seq, GotoAgain,
         UNCHANGED <<meshes, residentBytes, near>>
  PROVE  BytesInv'
<1>1. residentBytes = 0 /\ Budget \in Nat
  BY ViewerAssumption DEF BytesInv, Informed
<1>2. MeshKeys' = MeshKeys /\ apply'.pc = "again"
  BY DEF MeshKeys, GotoAgain, Apply
<1>3. residentBytes' <= Budget
  BY <1>1
<1>4. Trimmed' /\ Informed'
  BY <1>2, <1>3 DEF Trimmed, Informed
<1> QED
  BY <1>2, <1>4 DEF BytesInv

LEMMA FinishBytes ==
  ASSUME IInv, BytesInv, Finish
  PROVE  BytesInv'
<1>1. /\ UNCHANGED <<seq, models, loads, visible, near, wanted, again>>
      /\ apply.pc = "load" /\ apply.todo = {} /\ Fetched /\ GotoAgain
  BY DEF Finish, placed, wish
<1>2. CASE apply.seq # seq
  <2>1. UNCHANGED <<meshes, residentBytes>>
    BY <1>2 DEF Finish
  <2> QED
    BY <1>1, <1>2, <2>1, BytesOvertaken
<1>3. CASE apply.seq = seq
  <2>1. PICK out \in Evictions :
              /\ meshes' = {Mesh(b.key, b.load, b.key \in wanted) :
                               b \in {m \in meshes : m.key \notin out}}
              /\ residentBytes' = residentBytes - Weight(out)
    BY <1>3 DEF Finish
  <2>2. out \subseteq Hidden /\ (residentBytes - Weight(out) <= Budget \/ out = Hidden)
    BY <2>1 DEF Evictions
  <2>3. \A k \in ChunkKeys : k \in chunkStates <=> k \in MeshKeys
    BY <1>1, NothingFetched DEF IInv, Chunky, MeshKeys
  <2>4. out \in SUBSET MeshKeys
    BY <2>2, <2>3 DEF Hidden, IInv, Typed
  <2>5. \A b \in meshes : LET c == Mesh(b.key, b.load, b.key \in wanted)
                          IN  c.key = b.key /\ c.shown = (b.key \in wanted)
    BY DEF Mesh
  <2>6. MeshKeys' = MeshKeys \ out
    <3>1. \A k \in MeshKeys' : k \in MeshKeys \ out
      BY <2>1, <2>5 DEF MeshKeys
    <3>2. ASSUME NEW k \in MeshKeys \ out PROVE k \in MeshKeys'
      <4>1. PICK b \in meshes : b.key = k /\ b.key \notin out
        BY DEF MeshKeys
      <4>2. PICK c : c = Mesh(b.key, b.load, b.key \in wanted)
        OBVIOUS
      <4>3. c \in meshes' /\ c.key = k
        BY <2>1, <2>5, <4>1, <4>2
      <4> QED
        BY <4>3 DEF MeshKeys
    <3> QED
      BY <3>1, <3>2
  <2>7. residentBytes' = Weight(MeshKeys')
    BY <2>1, <2>4, <2>6, MeshKeysAreKeys, WeightFacts DEF BytesInv
  <2>8. Trimmed'
    <3>1. SUFFICES ASSUME ~ again, ~ (residentBytes' <= Budget), NEW c \in meshes'
                   PROVE  c.shown
      BY <1>1 DEF Trimmed
    <3>2. wanted = Wanted(models, visible, near)
      BY <1>1, <3>1 DEF BytesInv, Informed
    <3>3. out = chunkStates \ wanted
      BY <2>1, <2>2, <3>1 DEF Hidden
    <3>4. \A k \in MeshKeys' : k \in wanted \/ k \in SingleKeys
      BY <2>3, <2>6, <3>3, MeshKeysAreKeys, KeyFacts
    <3>5. near # {}
      <4>1. SUFFICES ASSUME near = {} PROVE FALSE
        OBVIOUS
      <4>2. wanted = {}
        BY <3>2, <4>1 DEF Wanted
      <4>3. MeshKeys' \in SUBSET SingleKeys
        BY <3>4, <4>2
      <4>4. residentBytes' = 0
        BY <2>7, <4>3, FilesAreLight
      <4> QED
        BY <3>1, <4>4, ViewerAssumption
    <3>6. SingleKeys \subseteq near
      BY <3>5 DEF BytesInv, Views
    <3>7. PICK b \in meshes : b.key \notin out /\ c = Mesh(b.key, b.load, b.key \in wanted)
      BY <2>1
    <3>8. c.key = b.key /\ c.shown = (b.key \in wanted)
      BY <3>7 DEF Mesh
    <3>9. CASE b.key \in SingleKeys
      <4>1. b.key[1] \in ToSet(models) /\ b.key \in Keys
        BY DEF IInv, Meshed, Typed
      <4>2. b.key \in wanted
        BY <3>2, <3>6, <3>9, <4>1 DEF Wanted, KeysOf
      <4> QED
        BY <3>8, <4>2
    <3>10. CASE b.key \notin SingleKeys
      <4>1. b.key \in MeshKeys'
        BY <2>6, <3>7 DEF MeshKeys
      <4> QED
        BY <3>4, <3>8, <3>10, <4>1
    <3> QED
      BY <3>9, <3>10
  <2>9. Informed'
    BY <1>1 DEF Informed, GotoAgain, Apply
  <2> QED
    BY <1>1, <2>7, <2>8, <2>9 DEF BytesInv
<1> QED
  BY <1>2, <1>3

LEMMA AttachBytes ==
  ASSUME IInv, BytesInv, NEW k \in ChunkKeys, Attach(k)
  PROVE  BytesInv'
<1>1. /\ fetch[k].pc = "parse"
      /\ UNCHANGED <<seq, models, wanted, visible, near, apply, again>>
  BY DEF Attach, placed, wish
<1>2. apply.pc = "load" /\ fetch[k].seq = apply.seq
  BY <1>1 DEF IInv, Fetching
<1>3. Trimmed' /\ Informed'
  <2>1. apply.seq # seq => residentBytes' = residentBytes
    BY <1>2 DEF Attach
  <2> QED
    BY <1>1, <1>2, <2>1 DEF BytesInv, Trimmed, Informed
<1>4. residentBytes' = Weight(MeshKeys')
  <2>1. CASE fetch[k].seq # seq
    <3>1. UNCHANGED <<meshes, residentBytes>>
      BY <2>1 DEF Attach
    <3>2. MeshKeys' = MeshKeys
      BY <3>1 DEF MeshKeys
    <3> QED
      BY <3>1, <3>2 DEF BytesInv
  <2>2. CASE fetch[k].seq = seq
    <3>1. PICK b : b = Mesh(k, fetch[k].group, TRUE)
      OBVIOUS
    <3>2. b.key = k /\ meshes' = meshes \cup {b} /\ residentBytes' = residentBytes + Bytes(k)
      BY <2>2, <3>1 DEF Attach, Mesh
    <3>3. MeshKeys' = MeshKeys \cup {k}
      BY <3>2 DEF MeshKeys
    <3>4. k \notin MeshKeys /\ k \in Keys
      BY <1>1, <2>2, KeyFacts DEF IInv, Chunky, MeshKeys
    <3> QED
      BY <3>2, <3>3, <3>4, MeshKeysAreKeys, WeightFacts DEF BytesInv
  <2> QED
    BY <2>1, <2>2
<1> QED
  BY <1>1, <1>3, <1>4 DEF BytesInv

LEMMA BytesStep ==
  ASSUME IInv, BytesInv, [Next]_vars
  PROVE  BytesInv'
<1>1. CASE UNCHANGED vars
  BY <1>1, BytesUntouched DEF vars
<1>2. ASSUME NEW m \in Federations, LoadFederation(m) PROVE BytesInv'
  BY <1>2, LoadFederationBytes
<1>3. ASSUME NEW vis, NEW view, SetVisible(vis, view), view \in Views,
             UNCHANGED <<seq, models, meshes, residentBytes>>
      PROVE  BytesInv'
  <2>1. visible' = vis /\ near' = view /\ near' \in Views
    BY <1>3 DEF SetVisible
  <2>2. CASE apply.pc # "idle"
    <3>1. again' /\ UNCHANGED apply
      BY <1>3, <2>2 DEF SetVisible
    <3>2. Informed'
      BY <1>3, <3>1 DEF BytesInv, Informed
    <3> QED
      BY <1>3, <2>1, <3>1, <3>2, BytesKept
  <2>3. CASE apply.pc = "idle"
    <3>1. /\ apply'.pc = "load" /\ apply'.seq = seq
          /\ wanted' = Wanted(models, vis, view)
      BY <1>3, <2>3 DEF SetVisible, Begin, Apply
    <3>2. Informed'
      BY <1>3, <2>1, <3>1 DEF Informed
    <3> QED
      BY <1>3, <2>1, <3>1, <3>2, BytesKept
  <2> QED
    BY <2>2, <2>3
<1>4. CASE Wish
  <2>1. PICK vis, view : view \in Views /\ SetVisible(vis, view)
    BY <1>4 DEF Wish
  <2> QED
    BY <1>3, <1>4, <2>1 DEF Wish, placed, cache
<1>5. ASSUME NEW v \in Versions, SetProxyBoxes(v) PROVE BytesInv'
  BY <1>5, BytesUntouched DEF SetProxyBoxes, placed, wish, cache
<1>6. ASSUME NEW l \in Loads, Show(l) PROVE BytesInv'
  <2>1. PICK vis : SetVisible(vis, near)
    BY <1>6 DEF Show
  <2> QED
    BY <1>3, <1>6, <2>1 DEF Show, cache, BytesInv
<1>7. CASE NextBatch
  <2>1. /\ UNCHANGED <<seq, models, meshes, wanted, visible, near, again>>
        /\ apply.pc = "load" /\ UNCHANGED residentBytes
    BY <1>7 DEF NextBatch, placed, wish, cache
  <2>2. CASE seq # apply.seq
    BY <1>7, <2>1, <2>2, BytesOvertaken DEF NextBatch
  <2>3. CASE seq = apply.seq
    <3>1. \E batch : apply' = [apply EXCEPT !.todo = apply.todo \ batch, !.batch = batch]
      BY <1>7, <2>3 DEF NextBatch
    <3>2. apply'.pc = "load" /\ apply'.seq = apply.seq
      BY <2>1, <3>1 DEF IInv, Typed
    <3>3. Informed'
      BY <2>1, <3>2 DEF BytesInv, Informed
    <3>4. near' \in Views
      BY <2>1 DEF BytesInv
    <3> QED
      BY <2>1, <3>2, <3>3, <3>4, BytesKept
  <2> QED
    BY <2>2, <2>3
<1>8. CASE Finish
  BY <1>8, FinishBytes
<1>9. CASE Again
  <2>1. UNCHANGED <<meshes, residentBytes, visible, near, seq, models>> /\ apply.pc = "again"
    BY <1>9 DEF Again, placed, wish, cache
  <2>2. near' \in Views
    BY <2>1 DEF BytesInv
  <2>3. CASE again
    <3>1. /\ apply'.pc = "load" /\ apply'.seq = seq
          /\ wanted' = Wanted(models, visible, near)
      BY <1>9, <2>3 DEF Again, Begin, Apply
    <3>2. Informed'
      BY <2>1, <3>1 DEF Informed
    <3> QED
      BY <2>1, <2>2, <3>1, <3>2, BytesKept
  <2>4. CASE ~ again
    <3>1. apply'.pc = "idle" /\ again' = again
      BY <1>9, <2>4 DEF Again, Idle, Apply
    <3>2. Informed'
      BY <3>1 DEF Informed
    <3> QED
      BY <2>1, <2>2, <3>1, <3>2, BytesKept
  <2> QED
    BY <2>3, <2>4
<1>10. ASSUME NEW l \in Loads, Parsed(l) \/ ParseFails(l) PROVE BytesInv'
  <2>1. CASE ParseFails(l)
    BY <2>1, BytesUntouched DEF ParseFails, wish, cache
  <2> QED
    BY <1>10, <2>1, ParsedBytes
<1>11. ASSUME NEW k \in ChunkKeys, Attach(k) PROVE BytesInv'
  BY <1>11, AttachBytes
<1>12. ASSUME NEW k \in ChunkKeys, Downloaded(k) \/ FetchFails(k) PROVE BytesInv'
  BY <1>12, BytesUntouched DEF Downloaded, FetchFails, placed, wish
<1> QED
  BY <1>1, <1>2, <1>4, <1>5, <1>6, <1>7, <1>8, <1>9, <1>10, <1>11, <1>12 DEF Next, Script

\* residentBytes of Viewer.ts, on which planEvictions decides, is what the
\* chunks in the scene weigh, whatever loads, downloads and evictions do to
\* it; and at rest they fit maxResidentBytes or all of them are shown, as long
\* as no load starts while another still parses.
THEOREM BytesAreTheScene ==
  ASSUME Overlap = FALSE
  PROVE  Spec => []BytesAreExact
<1>1. Init => IInv /\ BytesInv
  BY StartsWell, BytesStart
<1>2. (IInv /\ BytesInv) /\ [Next]_vars => (IInv /\ BytesInv)'
  BY StepPreserves, BytesStep
<1>3. IInv /\ BytesInv => BytesAreExact
  <2>1. SUFFICES ASSUME IInv, BytesInv PROVE BytesAreExact
    OBVIOUS
  <2>2. AtRest => apply.pc # "load" /\ ~ again
    BY <2>1 DEF AtRest, IInv, Rested
  <2> QED
    BY <2>1, <2>2 DEF BytesAreExact, BytesInv, Trimmed, MeshKeys
<1> QED
  BY <1>1, <1>2, <1>3, PTL DEF Spec
=============================================================================
