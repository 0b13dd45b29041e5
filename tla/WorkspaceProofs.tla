--------------------------- MODULE WorkspaceProofs ---------------------------
(***************************************************************************)
(* What the parts of the workspace promise, for any number of clients,      *)
(* versions, pages, geometries and imports.  Each part has its inductive    *)
(* invariant and its lemmas, in a section of its own: RoutingInv, BlobsInv, *)
(* UploadInv, EventsInv, BuildsInv, DataInv, ReportsInv.  A part is         *)
(* its component's specification (UploadSpec and its like), so that the     *)
(* theorems follow from the components' invariants.                         *)
(*                                                                          *)
(* Where a theorem has a hypothesis on the order of requests (Serialised,   *)
(* ~ OverlapUpload, ~ OverlapImport), the code fails without it: the README *)
(* names the step at which it does.                                         *)
(***************************************************************************)
EXTENDS MCWorkspace, SumTheorems, FiniteSetTheorems, TLAPS

-----------------------------------------------------------------------------
(* Engine routing.  Inductive: a settled version has its engine stored, all  *)
(* engines stored are one, and a decision not yet stored is for that one.    *)

\* A version at work holds the lock of its model.
AtWork == {"start", "claim", "convert"}

\* The lock: one version of the model is at work.
OneAtWork ==
    \A m, n \in Versions : pc[m] \in AtWork /\ pc[n] \in AtWork => m = n

\* A settled version has its engine; who converts has claimed it.
EnginesStored ==
    \A n \in Versions :
       /\ pc[n] = "settled" => engine[n] # "null"
       /\ pc[n] = "none" => engine[n] = "null" /\ made[n].engine = "null"
       /\ pc[n] = "convert" => engine[n] = decided[n].engine

\* All engines stored are one, and so is one about to be stored.
EnginesAgree ==
    \A m, n \in Versions :
       engine[m] # "null" /\ engine[n] # "null" => engine[m] = engine[n]

DecisionAgrees ==
    \A m, n \in Versions :
       pc[n] = "claim" /\ engine[m] # "null" => decided[n].engine = engine[m]

\* The inductive invariant.
RoutingInv ==
    /\ TypeOK
    /\ OneAtWork
    /\ EnginesStored
    /\ ArtifactsMatchRow
    /\ EnginesAgree
    /\ DecisionAgrees

\* It holds first,
LEMMA InitRoutingInv == Init => RoutingInv
  BY RoutingAssumption DEF Init, RoutingInv, TypeOK, OneAtWork, AtWork, EnginesStored,
     ArtifactsMatchRow, EnginesAgree, DecisionAgrees, Undecided, Choice, Choices,
     PCs, Sizes, Engines

\* A decision agrees with every engine stored so far: that of the newest other
\* version if there is one, and it is stored because only one is at work.
LEMMA DecisionIsSticky ==
  ASSUME RoutingInv, NEW n \in Versions, pc[n] = "start",
         NEW e \in Engines,
         IF engine[n] = "null" THEN Decides(n, e) ELSE e = engine[n],
         NEW m \in Versions, engine[m] # "null"
  PROVE  e = engine[m]
<1>1. CASE engine[n] # "null"
  BY <1>1 DEF RoutingInv, EnginesAgree
<1>2. CASE engine[n] = "null"
  <2>1. m # n /\ Row(m)
    BY <1>2 DEF RoutingInv, EnginesStored, Row
  <2>2. ~ Alone(n)
    BY <2>1 DEF Alone
  <2>3. PICK k \in Versions :
           NewestOther(n, k) /\ e = (IF engine[k] = "native" THEN "native" ELSE "wasm")
    BY <1>2, <2>2 DEF Decides
  <2>4. pc[k] = "settled"
    BY <2>3 DEF RoutingInv, TypeOK, PCs, OneAtWork, AtWork, NewestOther, Row
  <2>5. engine[k] \in Engines /\ engine[k] = engine[m]
    BY <2>4 DEF RoutingInv, TypeOK, EnginesStored, EnginesAgree
  <2> QED
    BY <2>3, <2>5 DEF Engines
<1> QED
  BY <1>1, <1>2

\* Every step preserves the invariant, if versions do not overlap.
LEMMA NextRoutingInv == ASSUME Overlap = FALSE, RoutingInv, [Next]_vars PROVE RoutingInv'
<1> USE DEF RoutingInv, OneAtWork, AtWork, EnginesStored, ArtifactsMatchRow,
            EnginesAgree, DecisionAgrees
<1>1. CASE UNCHANGED vars
  BY <1>1 DEF vars, TypeOK
<1>2. ASSUME NEW n \in Versions, Upload(n) PROVE RoutingInv'
  <2>1. ~ Row(n)
    BY <1>2 DEF Upload, NextNumber, Row, Versions
  <2>2. \A m \in Versions : pc[m] \in {"none", "settled"}
    BY <1>2 DEF Upload, Calm
  <2>3. TypeOK'
    BY <1>2, <2>1 DEF Upload, TypeOK, PCs, Row
  <2> QED
    BY <1>2, <2>1, <2>2, <2>3 DEF Upload, Row, TypeOK
<1>3. ASSUME NEW n \in Versions, Route(n) PROVE RoutingInv'
  <2>1. PICK e \in Engines :
           /\ IF engine[n] = "null" THEN Decides(n, e) ELSE e = engine[n]
           /\ decided' = [decided EXCEPT ![n] =
                 Choice(e, e = "wasm" /\ (size[n] = "huge" \/ FallsBack(n)))]
    BY <1>3 DEF Route
  <2>2. \A m \in Versions : engine[m] # "null" => e = engine[m]
    BY <1>3, <2>1, DecisionIsSticky DEF Route
  <2>3. /\ pc[n] = "start" /\ pc' = [pc EXCEPT ![n] = "claim"]
        /\ UNCHANGED <<size, engine, made, native, restarts>>
    BY <1>3 DEF Route
  <2>4. decided'[n].engine = e /\ \A m \in Versions : m # n => decided'[m] = decided[m]
    BY <2>1 DEF TypeOK, Choice
  <2>5. decided' \in [Versions -> Choices]
    <3> DEFINE p == e = "wasm" /\ (size[n] = "huge" \/ FallsBack(n))
    <3>1. p \in BOOLEAN
      OBVIOUS
    <3>2. Choice(e, p) \in Choices
      <4> HIDE DEF p
      <4> QED BY <3>1 DEF Choice, Choices
    <3> QED
      BY <2>1, <3>2 DEF TypeOK
  <2>6. TypeOK'
    <3>1. pc' \in [Versions -> PCs] /\ pc'[n] = "claim"
          /\ \A m \in Versions : m # n => pc'[m] = pc[m]
      BY <2>3 DEF TypeOK, PCs
    <3>2. e # "null"
      BY DEF Engines
    <3>3. \A m \in Versions :
             decided'[m].engine = "null" <=> pc'[m] \notin {"claim", "convert"}
      <4> TAKE m \in Versions
      <4>1. CASE m = n
        BY <4>1, <3>1, <3>2, <2>4
      <4>2. CASE m # n
        BY <4>2, <3>1, <2>4 DEF TypeOK
      <4> QED
        BY <4>1, <4>2
    <3> QED
      BY <2>3, <2>5, <3>1, <3>3 DEF TypeOK
  <2> QED
    BY <2>2, <2>3, <2>4, <2>6 DEF TypeOK
<1>4. ASSUME NEW n \in Versions, Claim(n) PROVE RoutingInv'
  <2>1. decided[n].engine \in Engines
    BY <1>4 DEF Claim, TypeOK, Choices
  <2>2. TypeOK'
    BY <1>4, <2>1 DEF Claim, TypeOK, PCs
  <2> QED
    BY <1>4, <2>1, <2>2 DEF Claim, TypeOK, Engines
<1>5. ASSUME NEW n \in Versions, Convert(n) PROVE RoutingInv'
  <2>1. /\ pc[n] = "convert" /\ pc' = [pc EXCEPT ![n] = "settled"]
        /\ decided' = [decided EXCEPT ![n] = Undecided]
        /\ UNCHANGED <<size, engine, native, restarts>>
        /\ made' = [made EXCEPT ![n] = decided[n]] \/ made' = made
    BY <1>5 DEF Convert
  <2>2. TypeOK'
    BY <2>1, SMTT(30) DEF TypeOK, PCs, Undecided, Choice, Choices
  <2>3. engine[n] = decided[n].engine /\ engine[n] # "null"
    BY <2>1 DEF TypeOK
  <2> QED
    BY <2>1, <2>2, <2>3 DEF TypeOK
<1>6. ASSUME NEW n \in Versions, Reconvert(n) PROVE RoutingInv'
  <2>1. \A m \in Versions : pc[m] \in {"none", "settled"}
    BY <1>6 DEF Reconvert, Calm
  <2>2. TypeOK'
    BY <1>6 DEF Reconvert, TypeOK, PCs
  <2> QED
    BY <1>6, <2>1, <2>2 DEF Reconvert, TypeOK
<1>7. ASSUME NEW n \in Versions, Delete(n) PROVE RoutingInv'
  <2>1. TypeOK'
    BY <1>7 DEF Delete, TypeOK, PCs, Undecided, Choice, Choices
  <2> QED
    BY <1>7, <2>1 DEF Delete, TypeOK, Undecided, Choice
<1>8. CASE Restart
  <2>1. TypeOK'
    BY <1>8, RoutingAssumption DEF Restart, TypeOK, PCs, Undecided, Choice, Choices
  <2> QED
    BY <1>8, <2>1 DEF Restart, TypeOK
<1> QED
  BY <1>1, <1>2, <1>3, <1>4, <1>5, <1>6, <1>7, <1>8 DEF Next

\* One model never mixes engines (schema.prisma), one version at a time.
THEOREM ModelsDoNotMix ==
  ASSUME Overlap = FALSE
  PROVE  Spec => []NoMixing
<1>1. RoutingInv => NoMixing
  BY DEF RoutingInv, ArtifactsMatchRow, EnginesAgree, NoMixing
<1>2. RoutingInv /\ [Next]_vars => RoutingInv'
  BY NextRoutingInv
<1> QED
  BY InitRoutingInv, <1>1, <1>2, PTL DEF Spec

(* Uploads and fast imports may overlap, and deletions of versions; a crash   *)
(* may strike but between the two halves of a link or of a removal (README,   *)
(* known deviations).                                                         *)
Serialised ==
    /\ \A g \in Groups : g \subseteq {"upload", "fast"} \/ g \subseteq {"delete"}
    /\ CrashAt \cap {"count", "del_row"} = {}

\* A request under way, and one that adds a version.
Busy(c) == flow[c].pc # "idle"
Adds(c) == flow[c].kind \in {"upload", "fast"}

\* Two requests that run together both add, or both delete a version.
Compatible ==
    \A c, d \in Clients : Busy(c) /\ Busy(d) /\ c # d =>
        (Adds(c) /\ Adds(d)) \/ (flow[c].kind = "delete" /\ flow[d].kind = "delete")

\* Where a request may be, and what it has with it.
Sane(f) ==
    /\ f.pc \in {"link", "move", "create", "winner"} => f.kind = "upload"
    /\ f.pc = "version" => f.kind \in {"upload", "fast"}
    /\ f.pc = "count" => f.kind = "fast"
    /\ f.pc = "del_version" => f.kind = "delete"
    /\ f.pc = "del_model" => f.kind = "delete_model"
    /\ f.pc \in {"release", "del_file", "del_row"} => f.kind \in {"delete", "delete_model"}
    /\ f.kind = "delete" => f.left = 1
    /\ f.pc \in {"release", "del_file", "del_row"} => f.left >= 1

\* The sha256 is unique among the rows that are not deleted.
OneLiveRow == \A a, b \in Blobs : Content!LiveBlob(a) /\ Content!LiveBlob(b) => a = b

\* Nothing refers to a row that is not created yet.
NewIsUnknown ==
    \A b \in Blobs : blobRow[b] = "none" =>
        /\ \A v \in VersionIds : version[v].b # b
        /\ \A c \in Clients : flow[c].b # b

\* A version that exists links a row that exists.
LiveIsLinked == \A v \in Content!LiveVersions : Content!LiveBlob(version[v].b)

\* Uploads that counted and have no version yet, imports that have a version
\* and have yet to count, deletions that removed a version and count it still.
IsHolding(f, b)   == f.pc = "version" /\ f.kind = "upload" /\ f.b = b
IsOwing(f, b)     == f.pc = "count" /\ f.b = b
IsReleasing(f, b) == f.pc = "release" /\ f.b = b
Holding(b)   == {c \in Clients : IsHolding(flow[c], b)}
Owing(b)     == {c \in Clients : IsOwing(flow[c], b)}
Releasing(b) == {c \in Clients : IsReleasing(flow[c], b)}

\* The count and what is owed to it cover all who rely on it.
CountsCover ==
    \A b \in Blobs : Content!LiveBlob(b) =>
        refCount[b] + Cardinality(Owing(b))
          >= Cardinality(Content!Links(b)) + Cardinality(Holding(b)) + Cardinality(Releasing(b))

\* The deletion of a model releases as many references as it had versions.
Mine(m) == {v \in Content!LiveVersions : version[v].m = m}
ModelDeletion(c) ==
    /\ flow[c].pc = "del_model" =>
          /\ flow[c].left = Cardinality(Mine(flow[c].m))
          /\ \A v \in Mine(flow[c].m) : version[v].b = flow[c].b
    /\ flow[c].pc = "release" /\ flow[c].kind = "delete_model" /\ Content!LiveBlob(flow[c].b) =>
          refCount[flow[c].b] >= Cardinality(Content!Links(flow[c].b)) + flow[c].left

\* Who removes a content does it alone, and nothing is left that counts.
Removes(c) == flow[c].pc \in {"del_file", "del_row"}
RemovalIsSafe ==
    /\ \A c \in Clients : Removes(c) =>
          Content!LiveBlob(flow[c].b) /\ Content!Links(flow[c].b) = {} /\ refCount[flow[c].b] <= 0
    /\ \A c, d \in Clients : Removes(c) /\ Removes(d) => c = d

\* The file is there while a row is, or is about to be.
FileIsThere ==
    /\ (\E b \in Blobs : Content!LiveBlob(b)) /\ (\A c \in Clients : ~ Content!At(c, "del_row")) => file
    /\ \A c \in Clients : Content!At(c, "create") => file

\* What every step keeps of the rows; with the file.
KeptRows ==
    /\ Compatible
    /\ \A c \in Clients : Sane(flow[c])
    /\ OneLiveRow
    /\ NewIsUnknown
    /\ LiveIsLinked
    /\ CountsCover
    /\ \A c \in Clients : ModelDeletion(c)
    /\ RemovalIsSafe

Kept == KeptRows /\ FileIsThere

\* While uploads run, what they were started with stays.
AddsAreSound ==
    \A c \in Clients : Busy(c) /\ Adds(c) =>
       /\ flow[c].m \in models
       /\ flow[c].pc \in {"link", "version", "count"} => Content!LiveBlob(flow[c].b)

\* Until a fault the count is exact, and what nothing counts is being removed.
Exact(b) ==
    /\ (\A c \in Releasing(b) : flow[c].kind = "delete") =>
          refCount[b] + Cardinality(Owing(b))
            = Cardinality(Content!Links(b)) + Cardinality(Holding(b)) + Cardinality(Releasing(b))
    /\ \A c \in Releasing(b) : flow[c].kind = "delete_model" =>
          refCount[b] = Cardinality(Content!Links(b)) + flow[c].left
IsCounted(b) == Exact(b) /\ (refCount[b] >= 1 \/ \E c \in Clients : Removes(c))
FileIsOwned  == file => \/ \E b \in Blobs : Content!LiveBlob(b)
                        \/ \E c \in Clients : Content!At(c, "create")
NothingLeaks ==
    faults = 0 => FileIsOwned /\ \A b \in Blobs : Content!LiveBlob(b) => IsCounted(b)

\* What a deletion knows of its version is still true when it deletes the row.
DeletionKnows ==
    \A c \in Clients : Content!At(c, "del_version") =>
        /\ flow[c].b \in Blobs
        /\ flow[c].v \in Content!LiveVersions => version[flow[c].v].b = flow[c].b
\* The row of a content is removed after its file.
FileIsGone == \A c \in Clients : Content!At(c, "del_row") => ~ file

\* The inductive invariant.
BlobsInv == Content!TypeOK /\ Kept /\ AddsAreSound /\ DeletionKnows /\ FileIsGone /\ NothingLeaks

-----------------------------------------------------------------------------
(* Counting.                                                                 *)

\* The sets that are counted are finite.
LEMMA FiniteConstants ==
  ASSUME Content!BlobsAssumption
  PROVE  IsFiniteSet(Clients) /\ IsFiniteSet(VersionIds)
BY DEF Content!BlobsAssumption, Content!IsFiniteSet, IsFiniteSet

\* The versions a model's deletion reads.
LEMMA DeleteModelReads ==
  ASSUME NEW c \in Clients, Content!DeleteModel(c)
  PROVE  \E m \in models, b \in Blobs \cup {NoBlob} :
           LET mine == {v \in Content!LiveVersions : version[v].m = m /\ version[v].b # NoBlob} IN
           /\ IF mine = {} THEN b = NoBlob ELSE \E v \in mine : b = version[v].b
           /\ flow' = [flow EXCEPT ![c] =
                Content!Flow("delete_model", "del_model", m, Content!AnyVersion, b, Cardinality(mine))]
BY DEF Content!DeleteModel, Content!Cardinality, Cardinality

\* Two sets that differ at most in one element.
LEMMA OneMore ==
  ASSUME NEW S, IsFiniteSet(S), NEW c \in S, NEW A \in SUBSET S, NEW B \in SUBSET S,
         \A d \in S \ {c} : d \in A <=> d \in B
  PROVE  /\ Cardinality(A) \in Nat /\ Cardinality(B) \in Nat
         /\ Cardinality(B) + (IF c \in A THEN 1 ELSE 0)
              = Cardinality(A) + (IF c \in B THEN 1 ELSE 0)
<1>1. IsFiniteSet(A) /\ IsFiniteSet(B) /\ Cardinality(A) \in Nat /\ Cardinality(B) \in Nat
  BY FS_Subset, FS_CardinalityType
<1>2. CASE c \in A /\ c \notin B
  <2>1. B = A \ {c}
    BY <1>2
  <2> QED
    BY <1>1, <1>2, <2>1, FS_RemoveElement
<1>3. CASE c \notin A /\ c \in B
  <2>1. B = A \cup {c}
    BY <1>3
  <2> QED
    BY <1>1, <1>3, <2>1, FS_AddElement
<1>4. CASE c \in A <=> c \in B
  <2>1. B = A
    BY <1>4
  <2> QED
    BY <1>1, <1>4, <2>1
<1> QED
  BY <1>2, <1>3, <1>4

One(p) == IF p THEN 1 ELSE 0

\* A step of one request leaves the others where they are.
OnlyMoves(c) == \A d \in Clients \ {c} : flow'[d] = flow[d]

\* One request that moves changes each count by one at most.
LEMMA FlowCounts ==
  ASSUME Content!BlobsAssumption, NEW c \in Clients, OnlyMoves(c), NEW b \in Blobs
  PROVE  /\ Cardinality(Holding(b)) \in Nat /\ Cardinality(Holding(b)') \in Nat
         /\ Cardinality(Holding(b)') + One(IsHolding(flow[c], b))
              = Cardinality(Holding(b)) + One(IsHolding(flow'[c], b))
         /\ Cardinality(Owing(b)) \in Nat /\ Cardinality(Owing(b)') \in Nat
         /\ Cardinality(Owing(b)') + One(IsOwing(flow[c], b))
              = Cardinality(Owing(b)) + One(IsOwing(flow'[c], b))
         /\ Cardinality(Releasing(b)) \in Nat /\ Cardinality(Releasing(b)') \in Nat
         /\ Cardinality(Releasing(b)') + One(IsReleasing(flow[c], b))
              = Cardinality(Releasing(b)) + One(IsReleasing(flow'[c], b))
<1>1. IsFiniteSet(Clients)
  BY FiniteConstants
<1>2. /\ Cardinality(Holding(b)) \in Nat /\ Cardinality(Holding(b)') \in Nat
      /\ Cardinality(Holding(b)') + One(IsHolding(flow[c], b))
           = Cardinality(Holding(b)) + One(IsHolding(flow'[c], b))
  <2> DEFINE A == Holding(b)  B == Holding(b)'
  <2>1. A \in SUBSET Clients /\ B \in SUBSET Clients
        /\ (c \in A <=> IsHolding(flow[c], b)) /\ (c \in B <=> IsHolding(flow'[c], b))
        /\ \A d \in Clients \ {c} : d \in A <=> d \in B
    BY DEF Holding, OnlyMoves, IsHolding
  <2> HIDE DEF A, B
  <2>2. /\ Cardinality(A) \in Nat /\ Cardinality(B) \in Nat
        /\ Cardinality(B) + (IF c \in A THEN 1 ELSE 0)
              = Cardinality(A) + (IF c \in B THEN 1 ELSE 0)
    BY <1>1, <2>1, OneMore
  <2> QED
    BY <2>1, <2>2 DEF A, B, One
<1>3. /\ Cardinality(Owing(b)) \in Nat /\ Cardinality(Owing(b)') \in Nat
      /\ Cardinality(Owing(b)') + One(IsOwing(flow[c], b))
           = Cardinality(Owing(b)) + One(IsOwing(flow'[c], b))
  <2> DEFINE A == Owing(b)  B == Owing(b)'
  <2>1. A \in SUBSET Clients /\ B \in SUBSET Clients
        /\ (c \in A <=> IsOwing(flow[c], b)) /\ (c \in B <=> IsOwing(flow'[c], b))
        /\ \A d \in Clients \ {c} : d \in A <=> d \in B
    BY DEF Owing, OnlyMoves, IsOwing
  <2> HIDE DEF A, B
  <2>2. /\ Cardinality(A) \in Nat /\ Cardinality(B) \in Nat
        /\ Cardinality(B) + (IF c \in A THEN 1 ELSE 0)
              = Cardinality(A) + (IF c \in B THEN 1 ELSE 0)
    BY <1>1, <2>1, OneMore
  <2> QED
    BY <2>1, <2>2 DEF A, B, One
<1>4. /\ Cardinality(Releasing(b)) \in Nat /\ Cardinality(Releasing(b)') \in Nat
      /\ Cardinality(Releasing(b)') + One(IsReleasing(flow[c], b))
           = Cardinality(Releasing(b)) + One(IsReleasing(flow'[c], b))
  <2> DEFINE A == Releasing(b)  B == Releasing(b)'
  <2>1. A \in SUBSET Clients /\ B \in SUBSET Clients
        /\ (c \in A <=> IsReleasing(flow[c], b)) /\ (c \in B <=> IsReleasing(flow'[c], b))
        /\ \A d \in Clients \ {c} : d \in A <=> d \in B
    BY DEF Releasing, OnlyMoves, IsReleasing
  <2> HIDE DEF A, B
  <2>2. /\ Cardinality(A) \in Nat /\ Cardinality(B) \in Nat
        /\ Cardinality(B) + (IF c \in A THEN 1 ELSE 0)
              = Cardinality(A) + (IF c \in B THEN 1 ELSE 0)
    BY <1>1, <2>1, OneMore
  <2> QED
    BY <2>1, <2>2 DEF A, B, One
<1> QED
  BY <1>2, <1>3, <1>4

\* The links to a row as one version changes.
LEMMA LinkCounts ==
  ASSUME Content!BlobsAssumption, NEW v \in VersionIds,
         \A w \in VersionIds \ {v} : version'[w] = version[w], NEW b \in Blobs
  PROVE  /\ Cardinality(Content!Links(b)) \in Nat /\ Cardinality(Content!Links(b)') \in Nat
         /\ Cardinality(Content!Links(b)') + One(v \in Content!Links(b))
              = Cardinality(Content!Links(b)) + One(v \in Content!Links(b)')
<1> DEFINE A == Content!Links(b)  B == Content!Links(b)'
<1>1. A \in SUBSET VersionIds /\ B \in SUBSET VersionIds
      /\ \A w \in VersionIds \ {v} : w \in A <=> w \in B
  BY DEF Content!Links, Content!LiveVersions
<1> HIDE DEF A, B
<1>2. /\ Cardinality(A) \in Nat /\ Cardinality(B) \in Nat
      /\ Cardinality(B) + (IF v \in A THEN 1 ELSE 0)
            = Cardinality(A) + (IF v \in B THEN 1 ELSE 0)
  BY <1>1, OneMore, FiniteConstants
<1> QED
  BY <1>2 DEF A, B, One

\* All that is counted is finite.
LEMMA CountsAreNumbers ==
  ASSUME Content!BlobsAssumption, NEW b \in Blobs
  PROVE  /\ Cardinality(Content!Links(b)) \in Nat /\ IsFiniteSet(Content!Links(b))
         /\ Cardinality(Holding(b)) \in Nat /\ IsFiniteSet(Holding(b))
         /\ Cardinality(Owing(b)) \in Nat /\ IsFiniteSet(Owing(b))
         /\ Cardinality(Releasing(b)) \in Nat /\ IsFiniteSet(Releasing(b))
<1>1. /\ Content!Links(b) \subseteq VersionIds
      /\ Holding(b) \subseteq Clients /\ Owing(b) \subseteq Clients
      /\ Releasing(b) \subseteq Clients
  BY DEF Content!Links, Content!LiveVersions, Holding, Owing, Releasing
<1> QED
  BY <1>1, FS_Subset, FS_CardinalityType, FiniteConstants

-----------------------------------------------------------------------------
(* Types, and who may run with whom.                                         *)

\* The types of the rows and of a flow.
FlowType == [kind : Content!Kinds, pc : Content!PCs, m : Models, v : VersionIds,
             b : Blobs \cup {NoBlob}, left : Nat]
VersionType == [row : {"none", "live", "deleted"}, m : Models, b : Blobs \cup {NoBlob}]

\* What a step of one request does to its flow.
Moves(c, f) == flow' = [flow EXCEPT ![c] = f]

\* A request that moves to a flow of the type keeps the type.
LEMMA MovesTo ==
  ASSUME Content!TypeOK, NEW c \in Clients, NEW f, Moves(c, f)
  PROVE  OnlyMoves(c) /\ flow'[c] = f /\ (f \in FlowType => flow' \in [Clients -> FlowType])
BY DEF Moves, OnlyMoves, Content!TypeOK, FlowType

\* The requests' next places.
LEMMA NextPlace ==
  ASSUME Content!BlobsAssumption, Content!TypeOK, NEW c \in Clients
  PROVE  /\ Content!Idle \in FlowType /\ Content!Idle.pc = "idle" /\ Content!Idle.kind = "upload" /\ Content!Idle.left = 0
         /\ Content!Idle.b = NoBlob /\ Content!AnyVersion \in VersionIds
         /\ flow[c] \in FlowType
         /\ \A place \in Content!PCs : [flow[c] EXCEPT !.pc = place] \in FlowType
         /\ \A place : Content!Goto(c, place) => Moves(c, [flow[c] EXCEPT !.pc = place])
         /\ \A place, b : Content!GotoWith(c, place, b) => Moves(c, [flow[c] EXCEPT !.pc = place, !.b = b])
         /\ \A place \in Content!PCs, b \in Blobs : [flow[c] EXCEPT !.pc = place, !.b = b] \in FlowType
         /\ Content!Done(c) => Moves(c, Content!Idle)
<1>1. flow[c] \in FlowType
  BY DEF Content!TypeOK, FlowType
<1>2. Content!AnyVersion \in VersionIds /\ Content!AnyModel \in Models
  BY DEF Content!AnyModel, Content!AnyVersion, Content!BlobsAssumption
<1>3. /\ Content!Idle \in FlowType /\ Content!Idle.pc = "idle" /\ Content!Idle.kind = "upload" /\ Content!Idle.left = 0
      /\ Content!Idle.b = NoBlob
  BY <1>2 DEF Content!Idle, Content!Flow, FlowType, Content!Kinds, Content!PCs
<1>4. /\ \A place \in Content!PCs : [flow[c] EXCEPT !.pc = place] \in FlowType
      /\ \A place \in Content!PCs, b \in Blobs : [flow[c] EXCEPT !.pc = place, !.b = b] \in FlowType
  BY <1>1 DEF FlowType
<1>5. \A place : Content!Goto(c, place) => Moves(c, [flow[c] EXCEPT !.pc = place])
  BY DEF Content!Goto, Moves
<1>6. \A place, b : Content!GotoWith(c, place, b) => Moves(c, [flow[c] EXCEPT !.pc = place, !.b = b])
  BY DEF Content!GotoWith, Moves, Content!TypeOK
<1>7. Content!Done(c) => Moves(c, Content!Idle)
  BY DEF Content!Done, Moves
<1> QED
  BY <1>1, <1>2, <1>3, <1>4, <1>5, <1>6, <1>7

\* The rest of the state keeps its type.
RowsType ==
    /\ models \subseteq Models
    /\ version \in [VersionIds -> VersionType]
    /\ blobRow \in [Blobs -> {"none", "live", "deleted"}]
    /\ refCount \in [Blobs -> Int]
    /\ file \in BOOLEAN
    /\ faults \in 0..MaxFaults

\* The type invariant is that of the rows and that of the flows.
LEMMA Typed == Content!TypeOK <=> RowsType /\ flow \in [Clients -> FlowType]
BY DEF Content!TypeOK, RowsType, FlowType, VersionType

\* Each step keeps the type of the rows,
LEMMA RowsTypeStep ==
  ASSUME Content!BlobsAssumption, Content!TypeOK, Content!Next
  PROVE  RowsType'
<1> DEFINE OtherRows == /\ models' \subseteq Models
                        /\ refCount' \in [Blobs -> Int]
                        /\ file' \in BOOLEAN
                        /\ faults' \in 0..MaxFaults
<1>1. RowsType /\ flow \in [Clients -> FlowType]
  BY Typed
<1>2. ASSUME NEW c \in Clients,
             \/ Content!Upload(c) \/ Content!Link(c) \/ Content!Promote(c) \/ Content!FindWinner(c)
             \/ Content!FastImport(c) \/ Content!CountLink(c) \/ Content!DeleteVersion(c) \/ Content!DeleteModel(c)
             \/ Content!Release(c) \/ Content!RemoveFile(c)
      PROVE  RowsType'
  <2>1. version' = version /\ blobRow' = blobRow /\ models' = models /\ faults' = faults
    BY <1>2 DEF Content!Upload, Content!Link, Content!Promote, Content!FindWinner, Content!FastImport, Content!CountLink, Content!DeleteVersion,
                Content!DeleteModel, Content!Release, Content!RemoveFile
  <2>2. file' \in BOOLEAN
    BY <1>1, <1>2 DEF RowsType, Content!Upload, Content!Link, Content!Promote, Content!FindWinner, Content!FastImport, Content!CountLink,
                      Content!DeleteVersion, Content!DeleteModel, Content!Release, Content!RemoveFile
  <2>3. refCount' \in [Blobs -> Int]
    <3>1. \/ refCount' = refCount
          \/ Content!LiveBlob(flow[c].b) /\ refCount' = [refCount EXCEPT ![flow[c].b] = @ + 1]
          \/ Content!LiveBlob(flow[c].b) /\ refCount' = [refCount EXCEPT ![flow[c].b] = @ - 1]
      BY <1>2 DEF Content!Upload, Content!Link, Content!Promote, Content!FindWinner, Content!FastImport, Content!CountLink, Content!DeleteVersion,
                  Content!DeleteModel, Content!Release, Content!RemoveFile
    <3> QED
      BY <1>1, <3>1 DEF RowsType, Content!LiveBlob
  <2> QED
    BY <1>1, <2>1, <2>2, <2>3 DEF RowsType
<1>3. ASSUME NEW c \in Clients, Content!CreateBlob(c) PROVE RowsType'
  BY <1>1, <1>3 DEF RowsType, Content!CreateBlob
<1>4. ASSUME NEW c \in Clients, Content!CreateVersion(c) PROVE RowsType'
  <2>1. version' \in [VersionIds -> VersionType]
    <3>1. CASE version' = version
      BY <1>1, <3>1 DEF RowsType
    <3>2. CASE version' # version
      <4>1. PICK v \in VersionIds : version' = [version EXCEPT ![v] =
                     [row |-> "live", m |-> flow[c].m, b |-> flow[c].b]]
        BY <1>4, <3>2 DEF Content!CreateVersion
      <4>2. [row |-> "live", m |-> flow[c].m, b |-> flow[c].b] \in VersionType
        BY <1>1 DEF FlowType, VersionType
      <4> QED
        BY <1>1, <4>1, <4>2 DEF RowsType
    <3> QED
      BY <3>1, <3>2
  <2> QED
    BY <1>1, <1>4, <2>1 DEF RowsType, Content!CreateVersion
<1>5. ASSUME NEW c \in Clients, Content!CreateVersionFails(c) PROVE RowsType'
  BY <1>1, <1>5 DEF RowsType, Content!CreateVersionFails, Content!BlobsAssumption
<1>6. ASSUME NEW c \in Clients, Content!DeleteVersionRow(c) PROVE RowsType'
  <2>1. version' \in [VersionIds -> VersionType]
    BY <1>1, <1>6 DEF RowsType, Content!DeleteVersionRow, Content!LiveVersions, VersionType
  <2> QED
    BY <1>1, <1>6, <2>1 DEF RowsType, Content!DeleteVersionRow
<1>7. ASSUME NEW c \in Clients, Content!DeleteModelRow(c) PROVE RowsType'
  <2>1. version' \in [VersionIds -> VersionType]
    BY <1>1, <1>7 DEF RowsType, Content!DeleteModelRow, VersionType
  <2> QED
    BY <1>1, <1>7, <2>1 DEF RowsType, Content!DeleteModelRow
<1>8. ASSUME NEW c \in Clients, Content!RemoveRow(c) PROVE RowsType'
  <2>1. version' \in [VersionIds -> VersionType]
    BY <1>1, <1>8 DEF RowsType, Content!RemoveRow, VersionType
  <2> QED
    BY <1>1, <1>8, <2>1 DEF RowsType, Content!RemoveRow
<1>9. ASSUME Content!Crash PROVE RowsType'
  BY <1>1, <1>9 DEF RowsType, Content!Crash, Content!BlobsAssumption
<1> QED
  BY <1>2, <1>3, <1>4, <1>5, <1>6, <1>7, <1>8, <1>9 DEF Content!Next

\* Where a request begins.
LEMMA Begins ==
  ASSUME Content!BlobsAssumption, Content!TypeOK, NEW c \in Clients
  PROVE  /\ Content!Upload(c) => \E m \in models :
               \/ \E b \in Blobs : Content!LiveBlob(b) /\ Moves(c, Content!Flow("upload", "link", m, Content!AnyVersion, b, 0))
               \/ (\A b \in Blobs : ~ Content!LiveBlob(b))
                  /\ Moves(c, Content!Flow("upload", "move", m, Content!AnyVersion, NoBlob, 0))
         /\ Content!FastImport(c) => \E m \in models, b \in Blobs :
               Content!LiveBlob(b) /\ Moves(c, Content!Flow("fast", "version", m, Content!AnyVersion, b, 0))
         /\ Content!DeleteVersion(c) => \E v \in Content!LiveVersions :
               Moves(c, Content!Flow("delete", "del_version", version[v].m, v, version[v].b, 1))
         /\ Content!DeleteModel(c) => \E m \in models, b \in Blobs \cup {NoBlob} :
               LET mine == {v \in Content!LiveVersions : version[v].m = m /\ version[v].b # NoBlob} IN
               /\ IF mine = {} THEN b = NoBlob ELSE \E v \in mine : b = version[v].b
               /\ Cardinality(mine) \in Nat
               /\ Moves(c, Content!Flow("delete_model", "del_model", m, Content!AnyVersion, b, Cardinality(mine)))
<1>1. \A m : Cardinality({v \in Content!LiveVersions : version[v].m = m /\ version[v].b # NoBlob}) \in Nat
  <2>1. \A m : {v \in Content!LiveVersions : version[v].m = m /\ version[v].b # NoBlob} \subseteq VersionIds
    BY DEF Content!LiveVersions
  <2> QED
    BY <2>1, FS_Subset, FS_CardinalityType, FiniteConstants
<1>2. Content!Upload(c) => \E m \in models :
               \/ \E b \in Blobs : Content!LiveBlob(b) /\ Moves(c, Content!Flow("upload", "link", m, Content!AnyVersion, b, 0))
               \/ (\A b \in Blobs : ~ Content!LiveBlob(b))
                  /\ Moves(c, Content!Flow("upload", "move", m, Content!AnyVersion, NoBlob, 0))
  BY Zenon DEF Content!Upload, Moves
<1>3. Content!FastImport(c) => \E m \in models, b \in Blobs :
               Content!LiveBlob(b) /\ Moves(c, Content!Flow("fast", "version", m, Content!AnyVersion, b, 0))
  BY Zenon DEF Content!FastImport, Moves
<1>4. Content!DeleteVersion(c) => \E v \in Content!LiveVersions :
               Moves(c, Content!Flow("delete", "del_version", version[v].m, v, version[v].b, 1))
  BY Zenon DEF Content!DeleteVersion, Moves
<1>5. Content!DeleteModel(c) => \E m \in models, b \in Blobs \cup {NoBlob} :
               LET mine == {v \in Content!LiveVersions : version[v].m = m /\ version[v].b # NoBlob} IN
               /\ IF mine = {} THEN b = NoBlob ELSE \E v \in mine : b = version[v].b
               /\ Cardinality(mine) \in Nat
               /\ Moves(c, Content!Flow("delete_model", "del_model", m, Content!AnyVersion, b, Cardinality(mine)))
  <2>1. SUFFICES ASSUME Content!DeleteModel(c)
                  PROVE  \E m \in models, b \in Blobs \cup {NoBlob} :
               LET mine == {v \in Content!LiveVersions : version[v].m = m /\ version[v].b # NoBlob} IN
               /\ IF mine = {} THEN b = NoBlob ELSE \E v \in mine : b = version[v].b
               /\ Cardinality(mine) \in Nat
               /\ Moves(c, Content!Flow("delete_model", "del_model", m, Content!AnyVersion, b, Cardinality(mine)))
    OBVIOUS
  <2>2. PICK m \in models, b \in Blobs \cup {NoBlob} :
          LET mine == {v \in Content!LiveVersions : version[v].m = m /\ version[v].b # NoBlob} IN
          /\ IF mine = {} THEN b = NoBlob ELSE \E v \in mine : b = version[v].b
          /\ flow' = [flow EXCEPT ![c] =
                Content!Flow("delete_model", "del_model", m, Content!AnyVersion, b, Cardinality(mine))]
    BY <2>1, DeleteModelReads
  <2> QED
    BY <1>1, <2>2 DEF Moves
<1> QED
  BY <1>2, <1>3, <1>4, <1>5

\* How a removal goes on: with the next reference, or to its end.
LEMMA ReleasedMoves ==
  ASSUME Content!BlobsAssumption, Content!TypeOK, NEW c \in Clients, Content!Released(c), flow[c].left >= 1
  PROVE  \E f \in FlowType :
            /\ Moves(c, f)
            /\ flow[c].left = 1 => f = Content!Idle
            /\ flow[c].left # 1 => f = [flow[c] EXCEPT !.pc = "release", !.left = @ - 1]
<1> DEFINE f == IF flow[c].left = 1 THEN Content!Idle
                ELSE [flow[c] EXCEPT !.pc = "release", !.left = @ - 1]
<1>1. flow[c] \in FlowType /\ Content!Idle \in FlowType
  BY NextPlace
<1>2. f \in FlowType
  <2>1. CASE flow[c].left = 1
    BY <1>1, <2>1
  <2>2. CASE flow[c].left # 1
    <3>1. flow[c].left - 1 \in Nat
      BY <1>1, <2>2 DEF FlowType
    <3>2. [flow[c] EXCEPT !.pc = "release", !.left = flow[c].left - 1] \in FlowType
      BY <1>1, <3>1 DEF FlowType, Content!PCs
    <3> QED
      BY <2>2, <3>2
  <2> QED
    BY <2>1, <2>2
<1>3. Moves(c, f)
  BY <1>1 DEF Content!Released, Moves, Content!Done, Content!TypeOK
<1> QED
  BY <1>2, <1>3

\* that of the flows,
LEMMA FlowTypeStep ==
  ASSUME Content!BlobsAssumption, Content!TypeOK, \A c \in Clients : Sane(flow[c]), Content!Next
  PROVE  flow' \in [Clients -> FlowType]
<1>1. ASSUME NEW c \in Clients,
             Content!Upload(c) \/ Content!FastImport(c) \/ Content!DeleteVersion(c) \/ Content!DeleteModel(c)
      PROVE  \E f \in FlowType : Moves(c, f)
  <2>1. models \subseteq Models /\ Content!AnyVersion \in VersionIds
        /\ \A v \in Content!LiveVersions : v \in VersionIds /\ version[v].m \in Models
                                   /\ version[v].b \in Blobs \cup {NoBlob}
    BY NextPlace DEF Content!TypeOK, Content!LiveVersions
  <2> QED
    BY <1>1, <2>1, Begins DEF FlowType, Content!Flow, Content!Kinds, Content!PCs
<1>2. ASSUME NEW c \in Clients,
             \/ Content!Link(c) \/ Content!Promote(c) \/ Content!CreateBlob(c) \/ Content!FindWinner(c)
             \/ Content!CreateVersion(c) \/ Content!CreateVersionFails(c) \/ Content!CountLink(c)
             \/ Content!DeleteVersionRow(c) \/ Content!DeleteModelRow(c) \/ Content!RemoveFile(c)
      PROVE  \E f \in FlowType : Moves(c, f)
  <2>1. \/ Content!Done(c) \/ \E place \in Content!PCs : Content!Goto(c, place)
        \/ \E place \in Content!PCs, b \in Blobs : Content!GotoWith(c, place, b)
    BY <1>2 DEF Content!Link, Content!Promote, Content!CreateBlob, Content!FindWinner, Content!CreateVersion, Content!CreateVersionFails,
                Content!CountLink, Content!DeleteVersionRow, Content!DeleteModelRow, Content!RemoveFile, Content!PCs
  <2> QED
    BY <2>1, NextPlace, ZenonT(40)
<1>3. ASSUME NEW c \in Clients, Content!Release(c) \/ Content!RemoveRow(c)
      PROVE  \E f \in FlowType : Moves(c, f)
  <2>1. flow[c].left >= 1
    BY <1>3 DEF Content!Release, Content!RemoveRow, Content!At, Sane
  <2>2. Content!Goto(c, "del_file") \/ Content!Released(c)
    BY <1>3 DEF Content!Release, Content!RemoveRow
  <2> QED
    BY <2>1, <2>2, NextPlace, ReleasedMoves DEF Content!PCs
<1>4. ASSUME Content!Crash PROVE flow' \in [Clients -> FlowType]
  <2>1. CASE Clients = {}
    BY <1>4, <2>1 DEF Content!Crash
  <2>2. CASE Clients # {}
    BY <1>4, <2>2, NextPlace DEF Content!Crash
  <2> QED
    BY <2>1, <2>2
<1> QED
  BY <1>1, <1>2, <1>3, <1>4, MovesTo DEF Content!Next

\* and so the type invariant.
LEMMA BlobsTypeStep ==
  ASSUME Content!BlobsAssumption, Content!TypeOK, \A c \in Clients : Sane(flow[c]), Content!Next
  PROVE  Content!TypeOK'
<1>1. RowsType' /\ flow' \in [Clients -> FlowType]
  BY RowsTypeStep, FlowTypeStep
<1> QED
  BY <1>1 DEF Content!TypeOK, RowsType, FlowType, VersionType

\* A request goes to a place and takes along what it has,
LEMMA Goes ==
  ASSUME Content!BlobsAssumption, Content!TypeOK, NEW c \in Clients, NEW place \in Content!PCs, Content!Goto(c, place)
  PROVE  \E f \in FlowType :
            /\ Moves(c, f) /\ f.pc = place /\ f.kind = flow[c].kind
            /\ f.m = flow[c].m /\ f.b = flow[c].b /\ f.left = flow[c].left
<1> DEFINE g == [flow[c] EXCEPT !.pc = place]
<1>1. flow[c] \in FlowType /\ g \in FlowType /\ Moves(c, g)
  BY NextPlace
<1>2. /\ g.pc = place /\ g.kind = flow[c].kind
      /\ g.m = flow[c].m /\ g.b = flow[c].b /\ g.left = flow[c].left
  BY <1>1 DEF FlowType
<1> HIDE DEF g
<1> QED
  BY <1>1, <1>2

\* or gets another row on the way,
LEMMA GoesWith ==
  ASSUME Content!BlobsAssumption, Content!TypeOK, NEW c \in Clients, NEW place \in Content!PCs, NEW b \in Blobs,
         Content!GotoWith(c, place, b)
  PROVE  \E f \in FlowType :
            /\ Moves(c, f) /\ f.pc = place /\ f.kind = flow[c].kind
            /\ f.m = flow[c].m /\ f.b = b /\ f.left = flow[c].left
<1> DEFINE g == [flow[c] EXCEPT !.pc = place, !.b = b]
<1>1. flow[c] \in FlowType /\ g \in FlowType /\ Moves(c, g)
  BY NextPlace
<1>2. /\ g.pc = place /\ g.kind = flow[c].kind
      /\ g.m = flow[c].m /\ g.b = b /\ g.left = flow[c].left
  BY <1>1 DEF FlowType
<1> HIDE DEF g
<1> QED
  BY <1>1, <1>2

\* or ends,
LEMMA Ends ==
  ASSUME Content!BlobsAssumption, Content!TypeOK, NEW c \in Clients, Content!Done(c)
  PROVE  \E f \in FlowType : Moves(c, f) /\ f.pc = "idle" /\ f.b = NoBlob
BY NextPlace

\* or releases one reference and has the rest to release.
LEMMA IsReleased ==
  ASSUME Content!BlobsAssumption, Content!TypeOK, NEW c \in Clients, Content!Released(c), flow[c].left >= 1
  PROVE  \E f \in FlowType :
            /\ Moves(c, f)
            /\ \/ f.pc = "idle" /\ f.b = NoBlob /\ flow[c].left = 1
               \/ /\ f.pc = "release" /\ f.kind = flow[c].kind /\ f.b = flow[c].b
                  /\ f.left = flow[c].left - 1 /\ flow[c].left # 1
<1> DEFINE g == [flow[c] EXCEPT !.pc = "release", !.left = @ - 1]
<1>1. PICK f \in FlowType :
        /\ Moves(c, f)
        /\ flow[c].left = 1 => f = Content!Idle
        /\ flow[c].left # 1 => f = g
  BY ReleasedMoves
<1>2. flow[c] \in FlowType /\ Content!Idle.pc = "idle" /\ Content!Idle.b = NoBlob
  BY NextPlace
<1>3. g.pc = "release" /\ g.kind = flow[c].kind /\ g.b = flow[c].b /\ g.left = flow[c].left - 1
  BY <1>2 DEF FlowType
<1> HIDE DEF g
<1> QED
  BY <1>1, <1>2, <1>3

\* A request begins: nothing else changes, and nothing is counted yet.
LEMMA Beginning ==
  ASSUME Content!BlobsAssumption, Content!TypeOK, NEW c \in Clients,
         Content!Upload(c) \/ Content!FastImport(c) \/ Content!DeleteVersion(c) \/ Content!DeleteModel(c)
  PROVE  /\ OnlyMoves(c) /\ flow[c].pc = "idle"
         /\ flow'[c].pc \in {"link", "move", "version", "del_version", "del_model"}
         /\ flow'[c].pc = "version" => flow'[c].kind = "fast"
         /\ flow'[c].pc = "del_version" => Content!DeleteVersion(c)
         /\ UNCHANGED <<models, version, blobRow, refCount, file, faults>>
<1>1. \A kind, place, m, v, b, left :
         Content!Flow(kind, place, m, v, b, left).pc = place /\ Content!Flow(kind, place, m, v, b, left).kind = kind
  BY DEF Content!Flow
<1>2. PICK f : /\ Moves(c, f)
               /\ f.pc \in {"link", "move", "version", "del_version", "del_model"}
               /\ f.pc = "version" => f.kind = "fast"
               /\ f.pc = "del_version" => Content!DeleteVersion(c)
  <2>1. CASE Content!Upload(c)
    BY <1>1, <2>1, Begins
  <2>2. CASE Content!FastImport(c)
    BY <1>1, <2>2, Begins
  <2>3. CASE Content!DeleteVersion(c)
    BY <1>1, <2>3, Begins
  <2>4. CASE Content!DeleteModel(c)
    <3>1. PICK m \in models, b \in Blobs \cup {NoBlob} :
            Moves(c, Content!Flow("delete_model", "del_model", m, Content!AnyVersion, b,
              Cardinality({v \in Content!LiveVersions : version[v].m = m /\ version[v].b # NoBlob})))
      BY <2>4, DeleteModelReads DEF Moves
    <3> QED
      BY <1>1, <3>1
  <2> QED
    BY <2>1, <2>2, <2>3, <2>4
<1>3. /\ UNCHANGED <<models, version, blobRow, refCount, file, faults>>
      /\ flow[c].pc = "idle"
  BY DEF Content!Upload, Content!FastImport, Content!DeleteVersion, Content!DeleteModel, Content!MayRequest, Content!At
<1> QED
  BY <1>2, <1>3, MovesTo

\* A request that goes on, or ends, is as compatible as before.
LEMMA GoesOn ==
  ASSUME NEW c \in Clients, OnlyMoves(c), Compatible, Busy(c),
         flow'[c].pc = "idle" \/ flow'[c].kind = flow[c].kind
  PROVE  Compatible'
BY DEF Compatible, OnlyMoves, Busy, Adds

\* A request that may start is compatible with those that run.
LEMMA Starts ==
  ASSUME NEW c \in Clients, NEW kind, OnlyMoves(c), Compatible, Serialised,
         Content!MayRequest(c, kind), flow'[c].kind = kind
  PROVE  Compatible'
<1>1. \A d \in Clients : d # c /\ Busy(d) =>
         \/ kind \in {"upload", "fast"} /\ Adds(d)
         \/ kind = "delete" /\ flow[d].kind = "delete"
  BY DEF Content!MayRequest, Serialised, Busy, Adds, Content!At
<1> QED
  BY <1>1 DEF Compatible, OnlyMoves, Busy, Adds

\* While one request of a kind that runs alone is busy, no other is.
LEMMA RunsAlone ==
  ASSUME Compatible, NEW c \in Clients, Busy(c), flow[c].kind = "delete_model",
         NEW d \in Clients, Busy(d)
  PROVE  d = c
BY DEF Compatible, Adds

\* While a version is deleted, or a content removed, nothing is added.
LEMMA NoneAdds ==
  ASSUME Compatible, NEW c \in Clients, Busy(c), ~ Adds(c),
         NEW d \in Clients, Busy(d)
  PROVE  ~ Adds(d)
BY DEF Compatible, Adds
-----------------------------------------------------------------------------
(* Steps that change no row and no count.                                    *)

\* A step that moves a request and changes no row keeps the rows.
LEMMA FlowOnly ==
  ASSUME Content!BlobsAssumption, Content!TypeOK, KeptRows, Compatible',
         NEW c \in Clients, NEW f \in FlowType, Moves(c, f),
         UNCHANGED <<version, blobRow, refCount>>,
         Sane(f),
         f.b \in Blobs => blobRow[f.b] # "none",
         f.pc = "version" => f.kind # "upload",
         f.pc \notin {"count", "release"}, flow[c].pc # "count",
         f.pc = "del_model" => /\ f.left = Cardinality(Mine(f.m))
                               /\ \A v \in Mine(f.m) : version[v].b = f.b,
         f.pc \in {"del_file", "del_row"} => Removes(c) /\ f.b = flow[c].b
  PROVE  KeptRows'
<1>1. OnlyMoves(c) /\ flow'[c] = f
  BY MovesTo
<1>2. (\A d \in Clients : Sane(flow[d]))'
  BY <1>1 DEF KeptRows, OnlyMoves
<1>3. OneLiveRow' /\ LiveIsLinked'
  BY DEF KeptRows, OneLiveRow, LiveIsLinked, Content!LiveBlob, Content!LiveVersions
<1>4. NewIsUnknown'
  BY <1>1 DEF KeptRows, NewIsUnknown, OnlyMoves
<1>5. CountsCover'
  <2>1. ASSUME NEW b \in Blobs, Content!LiveBlob(b)'
        PROVE  (refCount[b] + Cardinality(Owing(b)) >= Cardinality(Content!Links(b))
                 + Cardinality(Holding(b)) + Cardinality(Releasing(b)))'
    <3>1. refCount[b] + Cardinality(Owing(b))
            >= Cardinality(Content!Links(b)) + Cardinality(Holding(b)) + Cardinality(Releasing(b))
      BY <2>1 DEF KeptRows, CountsCover, Content!LiveBlob
    <3>2. Cardinality(Content!Links(b)') = Cardinality(Content!Links(b)) /\ Cardinality(Content!Links(b)) \in Nat
          /\ refCount[b] \in Int
      BY CountsAreNumbers DEF Content!Links, Content!LiveVersions, Content!TypeOK
    <3>3. ~ IsHolding(f, b) /\ ~ IsReleasing(f, b) /\ ~ IsOwing(f, b) /\ ~ IsOwing(flow[c], b)
      BY DEF IsHolding, IsReleasing, IsOwing
    <3> QED
      BY <1>1, <3>1, <3>2, <3>3, FlowCounts DEF One
  <2> QED
    BY <2>1 DEF CountsCover
<1>6. (\A d \in Clients : ModelDeletion(d))'
  <2>1. ASSUME NEW d \in Clients PROVE ModelDeletion(d)'
    <3>1. \A m : Mine(m)' = Mine(m)
      BY DEF Mine, Content!LiveVersions
    <3>2. \A b : Content!Links(b)' = Content!Links(b) /\ (Content!LiveBlob(b)' <=> Content!LiveBlob(b))
      BY DEF Content!Links, Content!LiveVersions, Content!LiveBlob
    <3>3. CASE d = c
      BY <1>1, <3>1, <3>2, <3>3 DEF ModelDeletion
    <3>4. CASE d # c
      BY <1>1, <3>1, <3>2, <3>4 DEF ModelDeletion, OnlyMoves, KeptRows
    <3> QED
      BY <3>3, <3>4
  <2> QED
    BY <2>1
<1>7. RemovalIsSafe'
  <2>1. \A b : Content!Links(b)' = Content!Links(b) /\ (Content!LiveBlob(b)' <=> Content!LiveBlob(b))
    BY DEF Content!Links, Content!LiveVersions, Content!LiveBlob
  <2>2. \A d \in Clients : Removes(d)' => Removes(d) /\ flow'[d].b = flow[d].b
    BY <1>1 DEF Removes, OnlyMoves
  <2> QED
    BY <2>1, <2>2 DEF RemovalIsSafe, KeptRows
<1> QED
  BY <1>2, <1>3, <1>4, <1>5, <1>6, <1>7 DEF KeptRows

\* A step that adds no row and removes no file keeps the file there.
LEMMA FileKept ==
  ASSUME FileIsThere, NEW c \in Clients, OnlyMoves(c), file' = file,
         (\E b \in Blobs : Content!LiveBlob(b)') => \E b \in Blobs : Content!LiveBlob(b),
         flow'[c].pc # "create", flow[c].pc # "del_row"
  PROVE  FileIsThere'
<1>1. \A d \in Clients : Content!At(d, "create")' => Content!At(d, "create")
  BY DEF OnlyMoves, Content!At
<1>2. \A d \in Clients : Content!At(d, "del_row") => Content!At(d, "del_row")'
  BY DEF OnlyMoves, Content!At
<1> QED
  BY <1>1, <1>2 DEF FileIsThere

\* Kept, action by action.
LEMMA KeptUpload ==
  ASSUME Content!BlobsAssumption, Serialised, Content!TypeOK, Kept, NEW c \in Clients, Content!Upload(c)
  PROVE  Kept'
<1>1. PICK f \in FlowType :
         /\ Moves(c, f)
         /\ f.kind = "upload" /\ f.left = 0
         /\ \/ f.pc = "link" /\ Content!LiveBlob(f.b)
            \/ f.pc = "move" /\ f.b = NoBlob
  <2>1. PICK m \in models :
               \/ \E b \in Blobs : Content!LiveBlob(b) /\ Moves(c, Content!Flow("upload", "link", m, Content!AnyVersion, b, 0))
               \/ Moves(c, Content!Flow("upload", "move", m, Content!AnyVersion, NoBlob, 0))
    BY Begins
  <2>2. m \in Models /\ Content!AnyVersion \in VersionIds
    BY NextPlace DEF Content!TypeOK
  <2>3. /\ \A b \in Blobs : Content!Flow("upload", "link", m, Content!AnyVersion, b, 0) \in FlowType
        /\ Content!Flow("upload", "move", m, Content!AnyVersion, NoBlob, 0) \in FlowType
    BY <2>2 DEF FlowType, Content!Flow, Content!Kinds, Content!PCs
  <2> QED
    BY <2>1, <2>3 DEF Content!Flow
<1>2. OnlyMoves(c) /\ flow'[c] = f /\ Content!MayRequest(c, "upload") /\ Content!At(c, "idle")
      /\ UNCHANGED <<version, blobRow, refCount, file>>
  BY <1>1, MovesTo DEF Content!Upload, Content!MayRequest
<1>3. Compatible'
  BY <1>1, <1>2, Starts DEF Kept, KeptRows
<1>4. KeptRows'
  BY <1>1, <1>2, <1>3, FlowOnly DEF Kept, Sane, Content!At, Content!LiveBlob, Content!BlobsAssumption
<1>5. FileIsThere'
  BY <1>1, <1>2, FileKept DEF Kept, Content!At, Content!LiveBlob
<1> QED
  BY <1>4, <1>5 DEF Kept

LEMMA KeptFastImport ==
  ASSUME Content!BlobsAssumption, Serialised, Content!TypeOK, Kept, NEW c \in Clients, Content!FastImport(c)
  PROVE  Kept'
<1>1. PICK f \in FlowType :
         /\ Moves(c, f)
         /\ f.kind = "fast" /\ f.left = 0 /\ f.pc = "version" /\ Content!LiveBlob(f.b)
  <2>1. PICK m \in models, b \in Blobs :
          Content!LiveBlob(b) /\ Moves(c, Content!Flow("fast", "version", m, Content!AnyVersion, b, 0))
    BY Begins
  <2>2. m \in Models /\ Content!AnyVersion \in VersionIds
    BY NextPlace DEF Content!TypeOK
  <2>3. Content!Flow("fast", "version", m, Content!AnyVersion, b, 0) \in FlowType
    BY <2>2 DEF FlowType, Content!Flow, Content!Kinds, Content!PCs
  <2> QED
    BY <2>1, <2>3 DEF Content!Flow
<1>2. OnlyMoves(c) /\ flow'[c] = f /\ Content!MayRequest(c, "fast") /\ Content!At(c, "idle")
      /\ UNCHANGED <<version, blobRow, refCount, file>>
  BY <1>1, MovesTo DEF Content!FastImport, Content!MayRequest
<1>3. Compatible'
  BY <1>1, <1>2, Starts DEF Kept, KeptRows
<1>4. KeptRows'
  BY <1>1, <1>2, <1>3, FlowOnly DEF Kept, Sane, Content!At, Content!LiveBlob
<1>5. FileIsThere'
  BY <1>1, <1>2, FileKept DEF Kept, Content!At, Content!LiveBlob
<1> QED
  BY <1>4, <1>5 DEF Kept

LEMMA KeptDeleteVersion ==
  ASSUME Content!BlobsAssumption, Serialised, Content!TypeOK, Kept, NEW c \in Clients, Content!DeleteVersion(c)
  PROVE  Kept'
<1>1. PICK f \in FlowType :
         /\ Moves(c, f)
         /\ f.kind = "delete" /\ f.left = 1 /\ f.pc = "del_version" /\ Content!LiveBlob(f.b)
  <2>1. PICK v \in Content!LiveVersions :
               Moves(c, Content!Flow("delete", "del_version", version[v].m, v, version[v].b, 1))
    BY Begins
  <2>2. version[v] \in VersionType /\ v \in VersionIds /\ Content!LiveBlob(version[v].b)
    BY Typed DEF RowsType, Content!LiveVersions, Kept, KeptRows, LiveIsLinked
  <2> QED
    BY <2>1, <2>2 DEF FlowType, VersionType, Content!Flow, Content!Kinds, Content!PCs
<1>2. OnlyMoves(c) /\ flow'[c] = f /\ Content!MayRequest(c, "delete") /\ Content!At(c, "idle")
      /\ UNCHANGED <<version, blobRow, refCount, file>>
  BY <1>1, MovesTo DEF Content!DeleteVersion, Content!MayRequest
<1>3. Compatible'
  BY <1>1, <1>2, Starts DEF Kept, KeptRows
<1>4. KeptRows'
  BY <1>1, <1>2, <1>3, FlowOnly DEF Kept, Sane, Content!At, Content!LiveBlob
<1>5. FileIsThere'
  BY <1>1, <1>2, FileKept DEF Kept, Content!At, Content!LiveBlob
<1> QED
  BY <1>4, <1>5 DEF Kept

LEMMA KeptDeleteModel ==
  ASSUME Content!BlobsAssumption, Serialised, Content!TypeOK, Kept, NEW c \in Clients, Content!DeleteModel(c)
  PROVE  Kept'
<1>1. PICK m \in models, b \in Blobs \cup {NoBlob} :
         LET mine == {v \in Content!LiveVersions : version[v].m = m /\ version[v].b # NoBlob} IN
         /\ IF mine = {} THEN b = NoBlob ELSE \E v \in mine : b = version[v].b
         /\ Cardinality(mine) \in Nat
         /\ Moves(c, Content!Flow("delete_model", "del_model", m, Content!AnyVersion, b, Cardinality(mine)))
  BY Begins
<1>2. {v \in Content!LiveVersions : version[v].m = m /\ version[v].b # NoBlob} = Mine(m)
  BY DEF Mine, Kept, KeptRows, LiveIsLinked, Content!LiveBlob, Content!BlobsAssumption
<1> DEFINE f == Content!Flow("delete_model", "del_model", m, Content!AnyVersion, b, Cardinality(Mine(m)))
<1>3. /\ f \in FlowType /\ Moves(c, f)
      /\ f.kind = "delete_model" /\ f.pc = "del_model" /\ f.left = Cardinality(Mine(m))
      /\ f.m = m /\ f.b = b
  <2>1. models \subseteq Models /\ Content!AnyVersion \in VersionIds
    BY NextPlace DEF Content!TypeOK
  <2> QED
    BY <1>1, <1>2, <2>1 DEF FlowType, Content!Flow, Content!Kinds, Content!PCs
<1> HIDE DEF f
<1>4. \A v \in Mine(m) : version[v].b = b /\ Content!LiveBlob(b)
  BY <1>1, <1>2 DEF Mine, Kept, KeptRows, LiveIsLinked, OneLiveRow, Content!LiveBlob
<1>5. OnlyMoves(c) /\ flow'[c] = f /\ Content!MayRequest(c, "delete_model") /\ Content!At(c, "idle")
      /\ UNCHANGED <<version, blobRow, refCount, file>>
  BY <1>3, MovesTo DEF Content!DeleteModel, Content!MayRequest
<1>6. Compatible'
  BY <1>3, <1>5, Starts DEF Kept, KeptRows
<1>7. b \in Blobs => blobRow[b] # "none"
  BY <1>1, <1>2, <1>4 DEF Content!LiveBlob, Content!BlobsAssumption
<1>8. KeptRows'
  BY <1>3, <1>4, <1>5, <1>6, <1>7, FlowOnly DEF Kept, Sane, Content!At
<1>9. FileIsThere'
  BY <1>3, <1>5, FileKept DEF Kept, Content!At, Content!LiveBlob
<1> QED
  BY <1>8, <1>9 DEF Kept

\* A flow that only goes on: to the move, the loser's second look, or its end.
LEMMA KeptNoChange ==
  ASSUME Content!BlobsAssumption, Content!TypeOK, Kept, NEW c \in Clients, NEW f \in FlowType, Moves(c, f),
         Busy(c), f.pc = "idle" \/ f.kind = flow[c].kind,
         flow[c].pc \in {"link", "create", "winner", "version"},
         f.pc \in {"idle", "winner", "link"}, f.pc # "idle" => flow[c].kind = "upload",
         Sane(f), f.b \in Blobs => blobRow[f.b] # "none",
         UNCHANGED <<version, blobRow, refCount, file>>
  PROVE  Kept'
<1>1. OnlyMoves(c) /\ flow'[c] = f
  BY MovesTo
<1>2. Compatible'
  BY <1>1, GoesOn DEF Kept, KeptRows
<1>3. KeptRows'
  BY <1>1, <1>2, FlowOnly DEF Kept, Sane
<1>4. FileIsThere'
  BY <1>1, FileKept DEF Kept, Content!LiveBlob
<1> QED
  BY <1>3, <1>4 DEF Kept

\* A request that ended is idle, and has no row.
LEMMA IdleIs ==
  Content!BlobsAssumption => Content!Idle \in FlowType /\ Content!Idle.pc = "idle" /\ Content!Idle.b = NoBlob
BY DEF Content!Idle, Content!Flow, FlowType, Content!Kinds, Content!PCs, Content!AnyModel, Content!AnyVersion, Content!BlobsAssumption

LEMMA IdleFits == Content!BlobsAssumption => Sane(Content!Idle) /\ Content!Idle.b \notin Blobs
BY DEF Sane, Content!Idle, Content!Flow, Content!BlobsAssumption

LEMMA KeptPromote ==
  ASSUME Content!BlobsAssumption, Content!TypeOK, Kept, NEW c \in Clients, Content!Promote(c)
  PROVE  Kept'
<1> DEFINE f == [flow[c] EXCEPT !.pc = "create"]
<1>1. flow[c] \in FlowType /\ f \in FlowType /\ Moves(c, f)
  BY NextPlace DEF Content!Promote, Content!PCs
<1>2. f.pc = "create" /\ f.kind = flow[c].kind /\ f.b = flow[c].b /\ f.left = flow[c].left
  BY <1>1 DEF FlowType
<1> HIDE DEF f
<1>3. OnlyMoves(c) /\ flow'[c] = f /\ flow[c].pc = "move" /\ flow[c].kind = "upload"
      /\ UNCHANGED <<version, blobRow, refCount>> /\ file'
  BY <1>1, MovesTo DEF Content!Promote, Kept, KeptRows, Sane, Content!At
<1>4. Compatible'
  BY <1>2, <1>3, GoesOn DEF Kept, KeptRows, Busy
<1>5. flow[c].b \in Blobs => blobRow[flow[c].b] # "none"
  BY DEF Kept, KeptRows, NewIsUnknown
<1>6. KeptRows'
  BY <1>1, <1>2, <1>3, <1>4, <1>5, FlowOnly DEF Kept, Sane
<1> QED
  BY <1>3, <1>6, SMTT(30) DEF Kept, FileIsThere

LEMMA KeptFindWinner ==
  ASSUME Content!BlobsAssumption, Content!TypeOK, Kept, NEW c \in Clients, Content!FindWinner(c)
  PROVE  Kept'
<1>1. /\ flow[c].pc = "winner" /\ Busy(c) /\ flow[c] \in FlowType /\ flow[c].kind = "upload"
      /\ UNCHANGED <<version, blobRow, refCount, file>>
  BY NextPlace DEF Content!FindWinner, Content!At, Busy, Kept, KeptRows, Sane
<1>2. CASE Content!Done(c)
  BY <1>1, <1>2, NextPlace, IdleFits, KeptNoChange
<1>3. ASSUME NEW b \in Blobs, Content!LiveBlob(b), Content!GotoWith(c, "link", b) PROVE Kept'
  <2> DEFINE f == [flow[c] EXCEPT !.pc = "link", !.b = b]
  <2>1. f \in FlowType /\ Moves(c, f)
    BY <1>3, NextPlace DEF Content!PCs
  <2>2. f.pc = "link" /\ f.kind = "upload" /\ f.b = b
    BY <1>1 DEF FlowType
  <2> HIDE DEF f
  <2> QED
    BY <1>1, <1>3, <2>1, <2>2, KeptNoChange, SMTT(30) DEF Sane, Content!LiveBlob
<1> QED
  BY <1>2, <1>3 DEF Content!FindWinner

LEMMA KeptCreateVersionFails ==
  ASSUME Content!BlobsAssumption, Content!TypeOK, Kept, NEW c \in Clients, Content!CreateVersionFails(c)
  PROVE  Kept'
<1>1. /\ flow[c].pc = "version" /\ Busy(c) /\ Content!Done(c)
      /\ UNCHANGED <<version, blobRow, refCount, file>>
  BY DEF Content!CreateVersionFails, Content!At, Busy
<1> QED
  BY <1>1, NextPlace, IdleFits, KeptNoChange

LEMMA KeptRemoveFile ==
  ASSUME Content!BlobsAssumption, Content!TypeOK, Kept, NEW c \in Clients, Content!RemoveFile(c)
  PROVE  Kept'
<1> DEFINE f == [flow[c] EXCEPT !.pc = "del_row"]
<1>1. flow[c] \in FlowType /\ f \in FlowType /\ Moves(c, f)
  BY NextPlace DEF Content!RemoveFile, Content!PCs
<1>2. f.pc = "del_row" /\ f.kind = flow[c].kind /\ f.b = flow[c].b /\ f.left = flow[c].left
  BY <1>1 DEF FlowType
<1> HIDE DEF f
<1>3. OnlyMoves(c) /\ flow'[c] = f /\ flow[c].pc = "del_file" /\ Sane(flow[c]) /\ Removes(c)
      /\ UNCHANGED <<version, blobRow, refCount>>
  BY <1>1, MovesTo DEF Content!RemoveFile, Kept, KeptRows, Content!At, Removes
<1>4. Compatible'
  BY <1>2, <1>3, GoesOn DEF Kept, KeptRows, Busy
<1>5. flow[c].b \in Blobs => blobRow[flow[c].b] # "none"
  BY DEF Kept, KeptRows, NewIsUnknown
<1>6. KeptRows'
  BY <1>1, <1>2, <1>3, <1>4, <1>5, FlowOnly DEF Kept, Sane
<1>7. FileIsThere'
  <2>1. Content!At(c, "del_row")'
    BY <1>2, <1>3 DEF Content!At
  <2>2. ASSUME NEW d \in Clients, Content!At(d, "create")' PROVE FALSE
    <3>1. d # c /\ Content!At(d, "create")
      BY <1>2, <1>3, <2>2 DEF Content!At, OnlyMoves
    <3>2. Busy(d) /\ Adds(d) /\ Busy(c) /\ ~ Adds(c)
      BY <1>3, <3>1 DEF Busy, Adds, Content!At, Kept, KeptRows, Sane
    <3> QED
      BY <3>2, NoneAdds DEF Kept, KeptRows
  <2> QED
    BY <2>1, <2>2 DEF FileIsThere
<1> QED
  BY <1>6, <1>7, SMTT(30) DEF Kept

-----------------------------------------------------------------------------
(* Steps of an upload or an import that change a row or a count.             *)

\* While an upload or an import runs, no request removes anything.
LEMMA AdderStep ==
  ASSUME Kept, NEW c \in Clients, Busy(c), Adds(c), OnlyMoves(c),
         flow'[c].pc = "idle" \/ flow'[c].kind = flow[c].kind,
         flow'[c].pc \in {"idle", "version", "count"}
  PROVE  /\ Compatible'
         /\ \A d \in Clients : ModelDeletion(d)'
         /\ RemovalIsSafe'
         /\ \A d \in Clients : flow[d].pc # "release" /\ ~ Content!At(d, "del_row")
<1>1. Compatible'
  BY GoesOn DEF Kept, KeptRows
<1>2. \A d \in Clients : Busy(d) => Adds(d)
  BY DEF Kept, KeptRows, Compatible, Adds
<1>3. \A d \in Clients :
         flow[d].pc \notin {"del_version", "del_model", "release", "del_file", "del_row"}
  BY <1>2 DEF Busy, Adds, Kept, KeptRows, Sane
<1>4. \A d \in Clients :
         flow'[d].pc \notin {"del_version", "del_model", "release", "del_file", "del_row"}
  BY <1>3 DEF OnlyMoves
<1> QED
  BY <1>1, <1>3, <1>4 DEF ModelDeletion, RemovalIsSafe, Removes, Content!At

LEMMA KeptLink ==
  ASSUME Content!BlobsAssumption, Content!TypeOK, Kept, NEW c \in Clients, Content!Link(c)
  PROVE  Kept'
<1>1. /\ flow[c].pc = "link" /\ Busy(c) /\ flow[c] \in FlowType /\ flow[c].kind = "upload"
      /\ UNCHANGED <<version, blobRow, file>>
  BY NextPlace DEF Content!Link, Content!At, Busy, Kept, KeptRows, Sane
<1>2. CASE ~ Content!LiveBlob(flow[c].b)
  <2>1. Content!Done(c) /\ UNCHANGED refCount
    BY <1>2 DEF Content!Link
  <2> QED
    BY <1>1, <2>1, NextPlace, IdleFits, KeptNoChange
<1>3. CASE Content!LiveBlob(flow[c].b)
  <2> DEFINE b == flow[c].b
             f == [flow[c] EXCEPT !.pc = "version"]
  <2>1. f \in FlowType /\ Moves(c, f) /\ refCount' = [refCount EXCEPT ![b] = @ + 1]
        /\ b \in Blobs
    BY <1>3, NextPlace DEF Content!Link, Content!PCs, Content!LiveBlob
  <2>2. f.pc = "version" /\ f.kind = "upload" /\ f.b = b /\ f.left = flow[c].left
    BY <1>1 DEF FlowType
  <2> HIDE DEF f
  <2>3. OnlyMoves(c) /\ flow'[c] = f
    BY <2>1, MovesTo
  <2>4. Compatible' /\ (\A d \in Clients : ModelDeletion(d))' /\ RemovalIsSafe'
    BY <1>1, <2>2, <2>3, AdderStep DEF Adds
  <2>5. (\A d \in Clients : Sane(flow[d]))' /\ OneLiveRow' /\ LiveIsLinked' /\ NewIsUnknown'
    <3>1. (\A d \in Clients : Sane(flow[d]))'
      BY <2>2, <2>3 DEF Kept, KeptRows, OnlyMoves, Sane
    <3>2. OneLiveRow' /\ LiveIsLinked'
      BY <1>1 DEF Kept, KeptRows, OneLiveRow, LiveIsLinked, Content!LiveBlob, Content!LiveVersions
    <3>3. NewIsUnknown'
      BY <1>1, <2>2, <2>3 DEF Kept, KeptRows, NewIsUnknown, OnlyMoves
    <3> QED
      BY <3>1, <3>2, <3>3
  <2>6. CountsCover'
    <3>1. ASSUME NEW a \in Blobs, Content!LiveBlob(a)'
          PROVE  (refCount[a] + Cardinality(Owing(a)) >= Cardinality(Content!Links(a))
                   + Cardinality(Holding(a)) + Cardinality(Releasing(a)))'
      <4>1. a = b
        BY <1>1, <1>3, <2>1, <3>1 DEF Kept, KeptRows, OneLiveRow, Content!LiveBlob
      <4>2. refCount[a] + Cardinality(Owing(a))
              >= Cardinality(Content!Links(a)) + Cardinality(Holding(a)) + Cardinality(Releasing(a))
        BY <1>3, <4>1 DEF Kept, KeptRows, CountsCover
      <4>3. Cardinality(Content!Links(a)') = Cardinality(Content!Links(a)) /\ Cardinality(Content!Links(a)) \in Nat
            /\ refCount[a] \in Int /\ refCount'[a] = refCount[a] + 1
        BY <1>1, <2>1, <4>1, CountsAreNumbers DEF Content!Links, Content!LiveVersions, Content!TypeOK
      <4>4. /\ ~ IsHolding(flow[c], a) /\ ~ IsReleasing(flow[c], a) /\ ~ IsOwing(flow[c], a)
            /\ IsHolding(f, a) /\ ~ IsReleasing(f, a) /\ ~ IsOwing(f, a)
        BY <1>1, <2>2, <4>1 DEF IsHolding, IsReleasing, IsOwing
      <4> QED
        BY <2>3, <4>2, <4>3, <4>4, FlowCounts DEF One
    <3> QED
      BY <3>1 DEF CountsCover
  <2>7. FileIsThere'
    BY <1>1, <2>2, <2>3, FileKept DEF Kept, Content!LiveBlob
  <2> QED
    BY <2>4, <2>5, <2>6, <2>7, SMTT(30) DEF Kept, KeptRows
<1> QED
  BY <1>2, <1>3

LEMMA KeptCountLink ==
  ASSUME Content!BlobsAssumption, Content!TypeOK, Kept, NEW c \in Clients, Content!CountLink(c)
  PROVE  Kept'
<1>1. /\ flow[c].pc = "count" /\ Busy(c) /\ flow[c] \in FlowType /\ flow[c].kind = "fast"
      /\ UNCHANGED <<version, blobRow, file>> /\ Moves(c, Content!Idle)
      /\ Content!Idle \in FlowType /\ Content!Idle.pc = "idle"
  BY NextPlace DEF Content!CountLink, Content!At, Busy, Kept, KeptRows, Sane
<1>2. OnlyMoves(c) /\ flow'[c] = Content!Idle
  BY <1>1, MovesTo
<1>3. Compatible' /\ (\A d \in Clients : ModelDeletion(d))' /\ RemovalIsSafe'
  BY <1>1, <1>2, AdderStep DEF Adds
<1>4. (\A d \in Clients : Sane(flow[d]))' /\ OneLiveRow' /\ LiveIsLinked' /\ NewIsUnknown'
  <2>1. (\A d \in Clients : Sane(flow[d]))'
    BY <1>2, IdleFits DEF Kept, KeptRows, OnlyMoves
  <2>2. OneLiveRow' /\ LiveIsLinked'
    BY <1>1 DEF Kept, KeptRows, OneLiveRow, LiveIsLinked, Content!LiveBlob, Content!LiveVersions
  <2>3. NewIsUnknown'
    BY <1>1, <1>2, IdleFits DEF Kept, KeptRows, NewIsUnknown, OnlyMoves
  <2> QED
    BY <2>1, <2>2, <2>3
<1>5. CountsCover'
  <2>1. ASSUME NEW a \in Blobs, Content!LiveBlob(a)'
        PROVE  (refCount[a] + Cardinality(Owing(a)) >= Cardinality(Content!Links(a))
                 + Cardinality(Holding(a)) + Cardinality(Releasing(a)))'
    <3>1. Content!LiveBlob(a)
      BY <1>1, <2>1 DEF Content!LiveBlob
    <3>2. refCount[a] + Cardinality(Owing(a))
            >= Cardinality(Content!Links(a)) + Cardinality(Holding(a)) + Cardinality(Releasing(a))
      BY <3>1 DEF Kept, KeptRows, CountsCover
    <3>3. Cardinality(Content!Links(a)') = Cardinality(Content!Links(a)) /\ Cardinality(Content!Links(a)) \in Nat
          /\ refCount[a] \in Int
      BY <1>1, CountsAreNumbers DEF Content!Links, Content!LiveVersions, Content!TypeOK
    <3>4. refCount'[a] = refCount[a] + One(IsOwing(flow[c], a))
      <4>1. CASE flow[c].b = a
        BY <1>1, <3>1, <4>1 DEF Content!CountLink, IsOwing, One, Content!TypeOK
      <4>2. CASE flow[c].b # a
        BY <1>1, <4>2 DEF Content!CountLink, IsOwing, One, Content!LiveBlob, Content!TypeOK
      <4> QED
        BY <4>1, <4>2
    <3>5. /\ ~ IsHolding(flow[c], a) /\ ~ IsReleasing(flow[c], a)
          /\ ~ IsHolding(Content!Idle, a) /\ ~ IsReleasing(Content!Idle, a) /\ ~ IsOwing(Content!Idle, a)
      BY <1>1 DEF IsHolding, IsReleasing, IsOwing
    <3> QED
      BY <1>2, <3>2, <3>3, <3>4, <3>5, FlowCounts DEF One
  <2> QED
    BY <2>1 DEF CountsCover
<1>6. FileIsThere'
  BY <1>1, <1>2, FileKept DEF Kept, Content!LiveBlob
<1> QED
  BY <1>3, <1>4, <1>5, <1>6 DEF Kept, KeptRows

LEMMA KeptCreateBlob ==
  ASSUME Content!BlobsAssumption, Content!TypeOK, Kept, NEW c \in Clients, Content!CreateBlob(c)
  PROVE  Kept'
<1>1. /\ flow[c].pc = "create" /\ Busy(c) /\ flow[c] \in FlowType /\ flow[c].kind = "upload"
      /\ UNCHANGED <<version, file>> /\ file /\ Sane(flow[c])
  BY NextPlace DEF Content!CreateBlob, Content!At, Busy, Kept, KeptRows, Sane, FileIsThere
<1>2. CASE \E b \in Blobs : Content!LiveBlob(b)
  <2> DEFINE f == [flow[c] EXCEPT !.pc = "winner"]
  <2>1. f \in FlowType /\ Moves(c, f) /\ UNCHANGED <<blobRow, refCount>>
    BY <1>2, NextPlace DEF Content!CreateBlob, Content!PCs
  <2>2. f.pc = "winner" /\ f.kind = "upload" /\ f.b = flow[c].b /\ f.left = flow[c].left
    BY <1>1 DEF FlowType
  <2> HIDE DEF f
  <2>3. f.b \in Blobs => blobRow[f.b] # "none"
    BY <2>2 DEF Kept, KeptRows, NewIsUnknown
  <2> QED
    BY <1>1, <2>1, <2>2, <2>3, KeptNoChange, SMTT(30) DEF Sane
<1>3. CASE \A b \in Blobs : ~ Content!LiveBlob(b)
  <2>1. PICK b \in Blobs : /\ blobRow[b] = "none"
                           /\ blobRow' = [blobRow EXCEPT ![b] = "live"]
                           /\ refCount' = [refCount EXCEPT ![b] = 1]
                           /\ Content!GotoWith(c, "version", b)
    BY <1>3, SMTT(30) DEF Content!CreateBlob
  <2> DEFINE f == [flow[c] EXCEPT !.pc = "version", !.b = b]
  <2>2. f \in FlowType /\ Moves(c, f)
    BY <2>1, NextPlace DEF Content!PCs
  <2>3. f.pc = "version" /\ f.kind = "upload" /\ f.b = b /\ f.left = flow[c].left
    BY <1>1 DEF FlowType
  <2> HIDE DEF f
  <2>4. OnlyMoves(c) /\ flow'[c] = f
    BY <2>2, MovesTo
  <2>5. Compatible' /\ (\A d \in Clients : ModelDeletion(d))' /\ RemovalIsSafe'
    BY <1>1, <2>3, <2>4, AdderStep DEF Adds
  <2>6. /\ \A a \in Blobs : Content!LiveBlob(a)' <=> a = b
        /\ \A a \in Blobs : blobRow'[a] = "none" => a # b /\ blobRow[a] = "none"
        /\ refCount'[b] = 1
    BY <1>3, <2>1 DEF Content!LiveBlob, Content!TypeOK
  <2>7. Content!LiveVersions = {}
    BY <1>3 DEF Kept, KeptRows, LiveIsLinked, Content!LiveBlob
  <2>8. (\A d \in Clients : Sane(flow[d]))' /\ OneLiveRow' /\ LiveIsLinked' /\ NewIsUnknown'
    <3>1. (\A d \in Clients : Sane(flow[d]))'
      BY <1>1, <2>3, <2>4 DEF Kept, KeptRows, OnlyMoves, Sane
    <3>2. OneLiveRow' /\ LiveIsLinked'
      BY <1>1, <2>6, <2>7 DEF OneLiveRow, LiveIsLinked, Content!LiveVersions
    <3>3. NewIsUnknown'
      BY <1>1, <2>3, <2>4, <2>6 DEF Kept, KeptRows, NewIsUnknown, OnlyMoves
    <3> QED
      BY <3>1, <3>2, <3>3
  <2>9. CountsCover'
    <3>1. Content!Links(b)' = {}
      BY <1>1, <2>7 DEF Content!Links, Content!LiveVersions
    <3>2. \A d \in Clients : flow[d].b # b
      BY <2>1 DEF Kept, KeptRows, NewIsUnknown
    <3>3. Holding(b) = {} /\ Releasing(b) = {} /\ Owing(b) = {}
      BY <3>2 DEF Holding, Releasing, Owing, IsHolding, IsReleasing, IsOwing
    <3>4. /\ ~ IsHolding(flow[c], b) /\ ~ IsReleasing(flow[c], b) /\ ~ IsOwing(flow[c], b)
          /\ IsHolding(f, b) /\ ~ IsReleasing(f, b) /\ ~ IsOwing(f, b)
      BY <1>1, <2>3 DEF IsHolding, IsReleasing, IsOwing
    <3>5. Cardinality(Holding(b)) = 0 /\ Cardinality(Releasing(b)) = 0
          /\ Cardinality(Owing(b)) = 0
      BY <3>3, FS_EmptySet
    <3>6. /\ Cardinality(Holding(b)') = 1 /\ Cardinality(Releasing(b)') = 0
          /\ Cardinality(Owing(b)') = 0
      BY <2>4, <3>4, <3>5, FlowCounts DEF One
    <3> QED
      BY <2>6, <3>1, <3>6, FS_EmptySet DEF CountsCover
  <2>10. FileIsThere'
    BY <1>1 DEF FileIsThere
  <2> QED
    BY <2>5, <2>8, <2>9, <2>10 DEF Kept, KeptRows
<1> QED
  BY <1>2, <1>3

LEMMA KeptCreateVersion ==
  ASSUME Content!BlobsAssumption, Content!TypeOK, Kept, NEW c \in Clients, Content!CreateVersion(c)
  PROVE  Kept'
<1>1. /\ flow[c].pc = "version" /\ Busy(c) /\ flow[c] \in FlowType
      /\ flow[c].kind \in {"upload", "fast"} /\ Adds(c)
      /\ UNCHANGED <<blobRow, refCount, file>> /\ Sane(flow[c])
  BY NextPlace DEF Content!CreateVersion, Content!At, Busy, Adds, Kept, KeptRows, Sane
<1>2. CASE ~ (flow[c].m \in models /\ Content!LiveBlob(flow[c].b))
  <2>1. Content!Done(c) /\ UNCHANGED version
    BY <1>2 DEF Content!CreateVersion
  <2> QED
    BY <1>1, <2>1, NextPlace, IdleFits, KeptNoChange
<1>3. CASE flow[c].m \in models /\ Content!LiveBlob(flow[c].b)
  <2> DEFINE b == flow[c].b
  <2>1. PICK v \in VersionIds :
               /\ version[v].row = "none"
               /\ version' = [version EXCEPT ![v] =
                     [row |-> "live", m |-> flow[c].m, b |-> flow[c].b]]
               /\ IF flow[c].kind = "fast" THEN Content!Goto(c, "count") ELSE Content!Done(c)
    BY <1>3 DEF Content!CreateVersion
  <2>2. PICK f \in FlowType :
          /\ Moves(c, f)
          /\ flow[c].kind = "fast" =>
                f.pc = "count" /\ f.kind = "fast" /\ f.b = b /\ f.left = flow[c].left
          /\ flow[c].kind = "upload" => f = Content!Idle
    <3>1. CASE flow[c].kind = "fast"
      <4>1. [flow[c] EXCEPT !.pc = "count"] \in FlowType
            /\ Moves(c, [flow[c] EXCEPT !.pc = "count"])
        BY <2>1, <3>1, NextPlace DEF Content!PCs
      <4> QED
        BY <1>1, <3>1, <4>1, SMTT(30) DEF FlowType
    <3>2. CASE flow[c].kind = "upload"
      BY <2>1, <3>2, NextPlace
    <3> QED
      BY <1>1, <3>1, <3>2
  <2>3. OnlyMoves(c) /\ flow'[c] = f /\ b \in Blobs
    BY <1>3, <2>2, MovesTo DEF Content!LiveBlob
  <2>4. Compatible' /\ (\A d \in Clients : ModelDeletion(d))' /\ RemovalIsSafe'
    BY <1>1, <2>2, <2>3, AdderStep, NextPlace
  <2>5. /\ \A w \in VersionIds \ {v} : version'[w] = version[w]
        /\ version'[v].row = "live" /\ version'[v].b = b
    BY <2>1 DEF Content!TypeOK
  <2>6. (\A d \in Clients : Sane(flow[d]))' /\ OneLiveRow' /\ LiveIsLinked' /\ NewIsUnknown'
    <3>1. (\A d \in Clients : Sane(flow[d]))'
      BY <1>1, <2>2, <2>3, IdleFits DEF Kept, KeptRows, OnlyMoves, Sane
    <3>2. OneLiveRow' /\ LiveIsLinked'
      BY <1>1, <1>3, <2>5 DEF Kept, KeptRows, OneLiveRow, LiveIsLinked, Content!LiveBlob, Content!LiveVersions
    <3>3. NewIsUnknown'
      BY <1>1, <1>3, <2>2, <2>3, <2>5, IdleFits
         DEF Kept, KeptRows, NewIsUnknown, OnlyMoves, Content!LiveBlob
    <3> QED
      BY <3>1, <3>2, <3>3
  <2>7. CountsCover'
    <3>1. ASSUME NEW a \in Blobs, Content!LiveBlob(a)'
          PROVE  (refCount[a] + Cardinality(Owing(a)) >= Cardinality(Content!Links(a))
                   + Cardinality(Holding(a)) + Cardinality(Releasing(a)))'
      <4>1. a = b
        BY <1>1, <1>3, <2>3, <3>1 DEF Kept, KeptRows, OneLiveRow, Content!LiveBlob
      <4>2. refCount[a] + Cardinality(Owing(a))
              >= Cardinality(Content!Links(a)) + Cardinality(Holding(a)) + Cardinality(Releasing(a))
        BY <1>3, <4>1 DEF Kept, KeptRows, CountsCover
      <4>3. Cardinality(Content!Links(a)') = Cardinality(Content!Links(a)) + 1 /\ Cardinality(Content!Links(a)) \in Nat
        <5>1. v \notin Content!Links(a) /\ v \in Content!Links(a)'
          BY <2>1, <2>5, <4>1 DEF Content!Links, Content!LiveVersions
        <5> QED
          BY <2>5, <5>1, LinkCounts DEF One
      <4>4. refCount[a] \in Int /\ refCount'[a] = refCount[a]
        BY <1>1 DEF Content!TypeOK
      <4>5. ~ IsReleasing(flow[c], a) /\ ~ IsOwing(flow[c], a)
        BY <1>1 DEF IsReleasing, IsOwing
      <4>6. ~ IsReleasing(f, a) /\ ~ IsHolding(f, a)
        BY <1>1, <2>2, NextPlace DEF IsReleasing, IsHolding
      <4>7. IsHolding(flow[c], a) <=> flow[c].kind = "upload"
        BY <1>1, <4>1 DEF IsHolding
      <4>8. IsOwing(f, a) <=> flow[c].kind = "fast"
        BY <1>1, <2>2, <4>1, NextPlace DEF IsOwing
      <4> QED
        BY <1>1, <2>3, <4>2, <4>3, <4>4, <4>5, <4>6, <4>7, <4>8, FlowCounts DEF One
    <3> QED
      BY <3>1 DEF CountsCover
  <2>8. FileIsThere'
    BY <1>1, <2>2, <2>3, FileKept, NextPlace DEF Kept, Content!LiveBlob
  <2> QED
    BY <2>4, <2>6, <2>7, <2>8 DEF Kept, KeptRows
<1> QED
  BY <1>2, <1>3

-----------------------------------------------------------------------------
(* Steps of a deletion that change a row or a count.                         *)

\* While a deletion runs nothing is to be linked, counted or moved.
LEMMA DeleterStep ==
  ASSUME Kept, NEW c \in Clients, Busy(c), ~ Adds(c)
  PROVE  /\ \A b : Owing(b) = {} /\ Holding(b) = {}
         /\ \A d \in Clients : ~ Content!At(d, "create") /\ flow[d].pc # "count"
         /\ \A d \in Clients \ {c} :
               flow[d].pc # "del_model" /\ (flow[d].kind = "delete_model" => ~ Busy(d))
<1>1. \A d \in Clients : Busy(d) => ~ Adds(d)
  BY NoneAdds DEF Kept, KeptRows
<1>2. \A d \in Clients : ~ Content!At(d, "create") /\ flow[d].pc # "count"
         /\ ~ (flow[d].pc = "version" /\ flow[d].kind = "upload")
  BY <1>1 DEF Busy, Adds, Content!At, Kept, KeptRows, Sane
<1>3. \A d \in Clients \ {c} :
               flow[d].pc # "del_model" /\ (flow[d].kind = "delete_model" => ~ Busy(d))
  BY DEF Busy, Adds, Kept, KeptRows, Compatible, Sane
<1>4. \A b : Owing(b) = {} /\ Holding(b) = {}
  BY <1>2 DEF Owing, Holding, IsOwing, IsHolding
<1> QED
  BY <1>2, <1>3, <1>4

LEMMA KeptDeleteVersionRow ==
  ASSUME Content!BlobsAssumption, Content!TypeOK, Kept, NEW c \in Clients, Content!DeleteVersionRow(c)
  PROVE  Kept'
<1> DEFINE b == flow[c].b
           v == flow[c].v
<1>1. /\ flow[c].pc = "del_version" /\ Busy(c) /\ flow[c] \in FlowType /\ v \in VersionIds
      /\ flow[c].kind = "delete" /\ flow[c].left = 1 /\ ~ Adds(c)
      /\ UNCHANGED <<blobRow, refCount, file>>
  BY NextPlace DEF Content!DeleteVersionRow, Content!At, Busy, Adds, Kept, KeptRows, Sane, FlowType
<1>2. PICK f \in FlowType :
        /\ Moves(c, f)
        /\ \/ f = Content!Idle /\ f.pc = "idle"
           \/ /\ f.pc = "release" /\ f.kind = "delete" /\ f.b = b /\ f.left = 1
              /\ v \in Content!LiveVersions
  <2> DEFINE g == [flow[c] EXCEPT !.pc = "release"]
  <2>1. g \in FlowType
    BY NextPlace DEF Content!PCs
  <2>2. Moves(c, Content!Idle) \/ (Moves(c, g) /\ v \in Content!LiveVersions)
    BY NextPlace DEF Content!DeleteVersionRow
  <2>3. g.pc = "release" /\ g.kind = "delete" /\ g.b = b /\ g.left = 1
    BY <1>1 DEF FlowType
  <2> HIDE DEF g
  <2> QED
    BY <2>1, <2>2, <2>3, IdleIs, SMTT(30)
<1>3. OnlyMoves(c) /\ flow'[c] = f
  BY <1>2, MovesTo
<1>4. /\ \A w \in VersionIds \ {v} : version'[w] = version[w]
      /\ v \in Content!LiveVersions => version'[v].row = "deleted" /\ version'[v].b = version[v].b
      /\ v \notin Content!LiveVersions => version' = version
      /\ \A w \in VersionIds : version'[w].b = version[w].b
  <2>1. version \in [VersionIds -> VersionType]
    BY Typed DEF RowsType
  <2> QED
    BY <1>1, <2>1 DEF Content!DeleteVersionRow, VersionType
<1>5. Content!LiveVersions' = Content!LiveVersions \ {v} /\ \A a : Content!Links(a)' = Content!Links(a) \ {v}
  BY <1>1, <1>4 DEF Content!LiveVersions, Content!Links
<1>6. Compatible'
  BY <1>1, <1>2, <1>3, GoesOn DEF Kept, KeptRows
<1>7. (\A d \in Clients : Sane(flow[d]))' /\ OneLiveRow' /\ LiveIsLinked' /\ NewIsUnknown'
  <2>1. (\A d \in Clients : Sane(flow[d]))'
    BY <1>1, <1>2, <1>3, IdleFits DEF Kept, KeptRows, OnlyMoves, Sane
  <2>2. OneLiveRow' /\ LiveIsLinked'
    <3>1. Content!LiveVersions \subseteq VersionIds
      BY DEF Content!LiveVersions
    <3> QED
      BY <1>1, <1>4, <1>5, <3>1 DEF Kept, KeptRows, OneLiveRow, LiveIsLinked, Content!LiveBlob
  <2>3. NewIsUnknown'
    BY <1>1, <1>2, <1>3, <1>4, IdleFits DEF Kept, KeptRows, NewIsUnknown, OnlyMoves
  <2> QED
    BY <2>1, <2>2, <2>3
<1>8. CountsCover'
  <2>1. ASSUME NEW a \in Blobs, Content!LiveBlob(a)'
        PROVE  (refCount[a] + Cardinality(Owing(a)) >= Cardinality(Content!Links(a))
                 + Cardinality(Holding(a)) + Cardinality(Releasing(a)))'
    <3>1. Content!LiveBlob(a)
      BY <1>1, <2>1 DEF Content!LiveBlob
    <3>2. refCount[a] + Cardinality(Owing(a))
            >= Cardinality(Content!Links(a)) + Cardinality(Holding(a)) + Cardinality(Releasing(a))
      BY <3>1 DEF Kept, KeptRows, CountsCover
    <3>3. refCount[a] \in Int /\ refCount'[a] = refCount[a]
      BY <1>1 DEF Content!TypeOK
    <3>4. ~ IsHolding(flow[c], a) /\ ~ IsReleasing(flow[c], a) /\ ~ IsOwing(flow[c], a)
      BY <1>1 DEF IsHolding, IsReleasing, IsOwing
    <3>5. ~ IsHolding(f, a) /\ ~ IsOwing(f, a)
      BY <1>2 DEF IsHolding, IsOwing
    <3>6. IsReleasing(f, a) => v \in Content!Links(a)
      <4>1. SUFFICES ASSUME IsReleasing(f, a) PROVE v \in Content!Links(a)
        OBVIOUS
      <4>2. v \in Content!LiveVersions /\ b = a
        BY <1>2, <4>1 DEF IsReleasing
      <4>3. Content!LiveBlob(version[v].b)
        BY <4>2 DEF Kept, KeptRows, LiveIsLinked
      <4>4. version[v].b = a
        BY <3>1, <4>3 DEF Kept, KeptRows, OneLiveRow, Content!LiveBlob
      <4> QED
        BY <4>2, <4>4 DEF Content!Links
    <3>7. v \notin Content!Links(a)'
      BY <1>5
    <3>8. /\ Cardinality(Content!Links(a)) \in Nat /\ Cardinality(Content!Links(a)') \in Nat
          /\ Cardinality(Content!Links(a)') + One(v \in Content!Links(a)) = Cardinality(Content!Links(a))
      BY <1>1, <1>4, <3>7, LinkCounts DEF One
    <3> QED
      BY <1>3, <3>2, <3>3, <3>4, <3>5, <3>6, <3>8, FlowCounts DEF One
  <2> QED
    BY <2>1 DEF CountsCover
<1>9. (\A d \in Clients : ModelDeletion(d))'
  <2>1. ASSUME NEW d \in Clients PROVE ModelDeletion(d)'
    <3>1. CASE d = c
      BY <1>2, <1>3, <3>1 DEF ModelDeletion
    <3>2. CASE d # c
      BY <1>1, <1>3, <3>2, DeleterStep DEF ModelDeletion, OnlyMoves, Busy
    <3> QED
      BY <3>1, <3>2
  <2> QED
    BY <2>1
<1>10. RemovalIsSafe'
  <2>1. \A d \in Clients : Removes(d)' => Removes(d) /\ flow'[d].b = flow[d].b
    BY <1>2, <1>3 DEF Removes, OnlyMoves
  <2>2. \A a : Content!Links(a) = {} => Content!Links(a)' = {}
    BY <1>5
  <2> QED
    BY <1>1, <2>1, <2>2 DEF RemovalIsSafe, Kept, KeptRows, Content!LiveBlob
<1>11. FileIsThere'
  BY <1>1, <1>2, <1>3, FileKept DEF Kept, Content!LiveBlob
<1> QED
  BY <1>6, <1>7, <1>8, <1>9, <1>10, <1>11 DEF Kept, KeptRows

LEMMA KeptDeleteModelRow ==
  ASSUME Content!BlobsAssumption, Content!TypeOK, Kept, NEW c \in Clients, Content!DeleteModelRow(c)
  PROVE  Kept'
<1> DEFINE b == flow[c].b
           m == flow[c].m
<1>1. /\ flow[c].pc = "del_model" /\ Busy(c) /\ flow[c] \in FlowType
      /\ flow[c].kind = "delete_model" /\ ~ Adds(c)
      /\ UNCHANGED <<blobRow, refCount, file>>
      /\ flow[c].left = Cardinality(Mine(m)) /\ \A v \in Mine(m) : version[v].b = b
  BY NextPlace DEF Content!DeleteModelRow, Content!At, Busy, Adds, Kept, KeptRows, Sane, ModelDeletion
<1>2. PICK f \in FlowType :
        /\ Moves(c, f)
        /\ flow[c].left = 0 => f = Content!Idle /\ f.pc = "idle"
        /\ flow[c].left # 0 => f.pc = "release" /\ f.kind = "delete_model" /\ f.b = b
                               /\ f.left = flow[c].left
  <2> DEFINE g == [flow[c] EXCEPT !.pc = "release"]
  <2>1. g \in FlowType
    BY NextPlace DEF Content!PCs
  <2>2. IF flow[c].left > 0 THEN Moves(c, g) ELSE Moves(c, Content!Idle)
    BY NextPlace DEF Content!DeleteModelRow
  <2>3. g.pc = "release" /\ g.kind = "delete_model" /\ g.b = b /\ g.left = flow[c].left
        /\ flow[c].left \in Nat
    BY <1>1 DEF FlowType
  <2> HIDE DEF g
  <2> QED
    BY <2>1, <2>2, <2>3, IdleIs
<1>3. OnlyMoves(c) /\ flow'[c] = f /\ flow[c].left \in Nat
  BY <1>1, <1>2, MovesTo DEF FlowType
<1>4. /\ \A v \in VersionIds : version'[v].b = version[v].b
      /\ Content!LiveVersions' = Content!LiveVersions \ Mine(m)
      /\ \A a : Content!Links(a)' = Content!Links(a) \ Mine(m)
  <2>1. version \in [VersionIds -> VersionType]
    BY Typed DEF RowsType
  <2>2. \A v \in VersionIds : version'[v] =
          IF v \in Mine(m) THEN [version[v] EXCEPT !.row = "deleted"] ELSE version[v]
    BY DEF Content!DeleteModelRow, Mine, Content!LiveVersions
  <2>3. \A v \in VersionIds : version'[v].b = version[v].b
           /\ version'[v].row = IF v \in Mine(m) THEN "deleted" ELSE version[v].row
    BY <2>1, <2>2 DEF VersionType
  <2> QED
    BY <2>3 DEF Content!LiveVersions, Content!Links
<1>5. IsFiniteSet(Mine(m)) /\ (flow[c].left = 0 => Mine(m) = {})
  <2>1. Mine(m) \subseteq VersionIds
    BY DEF Mine, Content!LiveVersions
  <2> QED
    BY <1>1, <2>1, FS_Subset, FS_EmptySet, FiniteConstants
<1>6. Compatible'
  BY <1>1, <1>2, <1>3, GoesOn DEF Kept, KeptRows
<1>7. (\A d \in Clients : Sane(flow[d]))' /\ OneLiveRow' /\ LiveIsLinked' /\ NewIsUnknown'
  <2>1. (\A d \in Clients : Sane(flow[d]))'
    BY <1>1, <1>2, <1>3, IdleFits DEF Kept, KeptRows, OnlyMoves, Sane
  <2>2. OneLiveRow' /\ LiveIsLinked'
    <3>1. Content!LiveVersions \subseteq VersionIds
      BY DEF Content!LiveVersions
    <3> QED
      BY <1>1, <1>4, <3>1 DEF Kept, KeptRows, OneLiveRow, LiveIsLinked, Content!LiveBlob
  <2>3. f.b = b \/ f = Content!Idle
    BY <1>2, <1>3
  <2>4. NewIsUnknown'
    BY <1>1, <1>3, <1>4, <2>3, IdleFits DEF Kept, KeptRows, NewIsUnknown, OnlyMoves
  <2> QED
    BY <2>1, <2>2, <2>4
<1>8. ASSUME NEW a \in Blobs, Content!LiveBlob(a)
      PROVE  /\ refCount[a] >= Cardinality(Content!Links(a)')
                    + Cardinality(Holding(a)') + Cardinality(Releasing(a)')
             /\ f.pc = "release" /\ f.b = a => refCount[a] >= Cardinality(Content!Links(a)') + f.left
             /\ Cardinality(Owing(a)') \in Nat
  <2>1. refCount[a] + Cardinality(Owing(a))
          >= Cardinality(Content!Links(a)) + Cardinality(Holding(a)) + Cardinality(Releasing(a))
    BY <1>8 DEF Kept, KeptRows, CountsCover
  <2>2. refCount[a] \in Int /\ Cardinality(Owing(a)) = 0 /\ Cardinality(Holding(a)) = 0
        /\ Cardinality(Releasing(a)) \in Nat /\ IsFiniteSet(Content!Links(a))
        /\ Cardinality(Content!Links(a)) \in Nat
    BY <1>1, DeleterStep, CountsAreNumbers, FS_EmptySet DEF Content!TypeOK
  <2>3. /\ ~ IsHolding(flow[c], a) /\ ~ IsReleasing(flow[c], a) /\ ~ IsOwing(flow[c], a)
        /\ ~ IsHolding(f, a) /\ ~ IsOwing(f, a)
    <3>1. f.pc # "version" /\ f.pc # "count"
      BY <1>2, <1>3
    <3> QED
      BY <1>1, <3>1 DEF IsHolding, IsReleasing, IsOwing
  <2>4. Cardinality(Holding(a)') = 0 /\ Cardinality(Owing(a)') = 0
        /\ Cardinality(Releasing(a)') = Cardinality(Releasing(a)) + One(IsReleasing(f, a))
    <3>1. /\ Cardinality(Holding(a)') + One(IsHolding(flow[c], a))
               = Cardinality(Holding(a)) + One(IsHolding(f, a))
          /\ Cardinality(Owing(a)') + One(IsOwing(flow[c], a))
               = Cardinality(Owing(a)) + One(IsOwing(f, a))
          /\ Cardinality(Releasing(a)') + One(IsReleasing(flow[c], a))
               = Cardinality(Releasing(a)) + One(IsReleasing(f, a))
          /\ Cardinality(Holding(a)') \in Nat /\ Cardinality(Owing(a)') \in Nat
          /\ Cardinality(Releasing(a)') \in Nat
      BY <1>3, FlowCounts
    <3> QED
      BY <2>2, <2>3, <3>1 DEF One
  <2>5. CASE f.pc = "release"
    <3>1. flow[c].left # 0 /\ f.b = b /\ f.left = flow[c].left
      BY <1>2, <1>3, <2>5
    <3>2. Mine(m) # {}
      BY <1>1, <3>1, FS_EmptySet
    <3>3. Mine(m) \subseteq Content!Links(a)
      BY <1>1, <1>8, <3>2 DEF Mine, Content!Links, Kept, KeptRows, LiveIsLinked, OneLiveRow, Content!LiveBlob
    <3>4. Cardinality(Content!Links(a)') = Cardinality(Content!Links(a)) - flow[c].left
      <4>1. Content!Links(a)' = Content!Links(a) \ Mine(m) /\ Content!Links(a) \cap Mine(m) = Mine(m)
        BY <1>4, <3>3
      <4>2. Cardinality(Content!Links(a) \ Mine(m)) = Cardinality(Content!Links(a)) - Cardinality(Content!Links(a) \cap Mine(m))
        BY <2>2, FS_Difference
      <4> QED
        BY <1>1, <4>1, <4>2
    <3> QED
      BY <1>3, <2>1, <2>2, <2>4, <3>1, <3>4 DEF One
  <2>6. CASE f.pc # "release"
    <3>1. Content!Links(a)' = Content!Links(a)
      BY <1>2, <1>3, <1>4, <1>5, <2>6
    <3>2. ~ IsReleasing(f, a)
      BY <2>6 DEF IsReleasing
    <3> QED
      BY <2>1, <2>2, <2>4, <2>6, <3>1, <3>2 DEF One
  <2> QED
    BY <2>5, <2>6
<1>9. CountsCover'
  <2>1. ASSUME NEW a \in Blobs, Content!LiveBlob(a)'
        PROVE  (refCount[a] + Cardinality(Owing(a)) >= Cardinality(Content!Links(a))
                 + Cardinality(Holding(a)) + Cardinality(Releasing(a)))'
    <3>1. Content!LiveBlob(a) /\ refCount'[a] = refCount[a] /\ refCount[a] \in Int
      BY <1>1, <2>1 DEF Content!LiveBlob, Content!TypeOK
    <3>2. Content!Links(a)' \subseteq VersionIds
      BY <1>4 DEF Content!Links, Content!LiveVersions
    <3>3. Cardinality(Content!Links(a)') \in Nat
      BY <3>2, FS_Subset, FS_CardinalityType, FiniteConstants
    <3> QED
      BY <1>3, <1>8, <3>1, <3>3, FlowCounts
  <2> QED
    BY <2>1 DEF CountsCover
<1>10. (\A d \in Clients : ModelDeletion(d))'
  <2>1. ASSUME NEW d \in Clients PROVE ModelDeletion(d)'
    <3>1. CASE d = c
      <4>1. f.pc # "del_model" /\ (Content!LiveBlob(f.b)' => Content!LiveBlob(f.b) /\ f.b \in Blobs)
        BY <1>1, <1>2, <1>3 DEF Content!LiveBlob
      <4> QED
        BY <1>1, <1>3, <1>8, <3>1, <4>1 DEF ModelDeletion
    <3>2. CASE d # c
      BY <1>1, <1>3, <3>2, DeleterStep DEF ModelDeletion, OnlyMoves, Busy
    <3> QED
      BY <3>1, <3>2
  <2> QED
    BY <2>1
<1>11. RemovalIsSafe'
  <2>1. \A d \in Clients : ~ Removes(d)'
    BY <1>1, <1>2, <1>3, RunsAlone DEF Removes, OnlyMoves, Kept, KeptRows, Busy
  <2> QED
    BY <2>1 DEF RemovalIsSafe
<1>12. FileIsThere'
  BY <1>1, <1>2, <1>3, FileKept DEF Kept, Content!LiveBlob
<1> QED
  BY <1>6, <1>7, <1>9, <1>10, <1>11, <1>12 DEF Kept, KeptRows

LEMMA KeptRelease ==
  ASSUME Content!BlobsAssumption, Content!TypeOK, Kept, NEW c \in Clients, NEW b, b = flow[c].b, Content!Release(c)
  PROVE  Kept'
<1>1. /\ flow[c].pc = "release" /\ Busy(c) /\ flow[c] \in FlowType /\ Sane(flow[c])
      /\ flow[c].kind \in {"delete", "delete_model"} /\ ~ Adds(c) /\ flow[c].left >= 1
      /\ flow[c].left # 1 => flow[c].kind = "delete_model"
      /\ UNCHANGED <<version, blobRow, file>>
  BY NextPlace DEF Content!Release, Content!At, Busy, Adds, Kept, KeptRows, Sane
<1>2. PICK f \in FlowType :
        /\ Moves(c, f)
        /\ \/ /\ f = Content!Idle /\ f.pc = "idle"
              /\ flow[c].left = 1
              /\ Content!LiveBlob(b) => refCount[b] > 1
           \/ /\ f.pc = "release" /\ f.kind = "delete_model" /\ f.b = b
              /\ f.left = flow[c].left - 1 /\ f.left >= 1
              /\ Content!LiveBlob(b) => refCount[b] > 1
           \/ /\ f.pc = "del_file" /\ f.kind = flow[c].kind /\ f.b = b
              /\ f.left = flow[c].left
              /\ Content!LiveBlob(b) /\ refCount[b] <= 1
  <2>1. CASE Content!LiveBlob(b) /\ refCount[b] <= 1
    <3> DEFINE g == [flow[c] EXCEPT !.pc = "del_file"]
    <3>1. g \in FlowType /\ Moves(c, g)
      BY <2>1, NextPlace DEF Content!PCs, Content!Release
    <3>2. g.pc = "del_file" /\ g.kind = flow[c].kind /\ g.b = b /\ g.left = flow[c].left
      BY <1>1 DEF FlowType
    <3> HIDE DEF g
    <3> QED
      BY <2>1, <3>1, <3>2, SMTT(30)
  <2>2. CASE ~ (Content!LiveBlob(b) /\ refCount[b] <= 1)
    <3> DEFINE g == [flow[c] EXCEPT !.pc = "release", !.left = @ - 1]
    <3>1. PICK h \in FlowType :
            /\ Moves(c, h)
            /\ flow[c].left = 1 => h = Content!Idle
            /\ flow[c].left # 1 => h = g
      BY <1>1, <2>2, ReleasedMoves DEF Content!Release
    <3>2. /\ g.pc = "release" /\ g.kind = flow[c].kind /\ g.b = b /\ g.left = flow[c].left - 1
          /\ flow[c].left \in Nat
      BY <1>1 DEF FlowType
    <3> HIDE DEF g
    <3>3. Content!LiveBlob(b) => refCount[b] > 1
      BY <2>2 DEF Content!LiveBlob, Content!TypeOK
    <3> QED
      BY <1>1, <3>1, <3>2, <3>3, IdleIs
  <2> QED
    BY <2>1, <2>2
<1>3. OnlyMoves(c) /\ flow'[c] = f
  BY <1>2, MovesTo
<1>4. \A a : Content!Links(a)' = Content!Links(a) /\ (Content!LiveBlob(a)' <=> Content!LiveBlob(a))
  BY <1>1 DEF Content!Links, Content!LiveVersions, Content!LiveBlob
<1>5. Compatible'
  BY <1>1, <1>2, <1>3, GoesOn DEF Kept, KeptRows
<1>6. (\A d \in Clients : Sane(flow[d]))' /\ OneLiveRow' /\ LiveIsLinked' /\ NewIsUnknown'
  <2>1. Sane(f)
    BY <1>1, <1>2, IdleFits DEF Sane
  <2>2. (\A d \in Clients : Sane(flow[d]))'
    BY <1>3, <2>1 DEF Kept, KeptRows, OnlyMoves
  <2>3. OneLiveRow' /\ LiveIsLinked'
    BY <1>1 DEF Kept, KeptRows, OneLiveRow, LiveIsLinked, Content!LiveBlob, Content!LiveVersions
  <2>4. NewIsUnknown'
    BY <1>1, <1>2, <1>3, IdleFits DEF Kept, KeptRows, NewIsUnknown, OnlyMoves
  <2> QED
    BY <2>2, <2>3, <2>4
<1>7. ASSUME Content!LiveBlob(b)
      PROVE  /\ b \in Blobs /\ refCount[b] \in Int /\ Cardinality(Content!Links(b)) \in Nat
             /\ refCount'[b] = refCount[b] - 1
             /\ Cardinality(Releasing(b)) \in Nat
             /\ refCount[b] >= Cardinality(Content!Links(b)) + Cardinality(Releasing(b))
             /\ Cardinality(Releasing(b)) >= 1
  <2>1. b \in Blobs /\ refCount[b] \in Int /\ refCount'[b] = refCount[b] - 1
    BY <1>7 DEF Content!LiveBlob, Content!TypeOK, Content!Release
  <2>2. Cardinality(Owing(b)) = 0 /\ Cardinality(Holding(b)) = 0
    BY <1>1, DeleterStep, FS_EmptySet
  <2>3. /\ Cardinality(Content!Links(b)) \in Nat /\ Cardinality(Releasing(b)) \in Nat
        /\ IsFiniteSet(Releasing(b))
    BY <2>1, CountsAreNumbers
  <2>4. refCount[b] >= Cardinality(Content!Links(b)) + Cardinality(Releasing(b))
    BY <1>7, <2>1, <2>2, <2>3 DEF Kept, KeptRows, CountsCover
  <2>5. c \in Releasing(b)
    BY <1>1 DEF Releasing, IsReleasing
  <2>6. Cardinality(Releasing(b)) # 0
    BY <2>3, <2>5, FS_EmptySet
  <2> QED
    BY <2>1, <2>3, <2>4, <2>6
<1>8. CountsCover'
  <2>1. ASSUME NEW a \in Blobs, Content!LiveBlob(a)'
        PROVE  (refCount[a] + Cardinality(Owing(a)) >= Cardinality(Content!Links(a))
                 + Cardinality(Holding(a)) + Cardinality(Releasing(a)))'
    <3>1. Content!LiveBlob(a) /\ Content!Links(a)' = Content!Links(a) /\ Cardinality(Content!Links(a)) \in Nat
      BY <1>4, <2>1, CountsAreNumbers
    <3>2. Cardinality(Owing(a)) = 0 /\ Cardinality(Holding(a)) = 0
      BY <1>1, DeleterStep, FS_EmptySet
    <3>3. /\ ~ IsHolding(flow[c], a) /\ ~ IsHolding(f, a)
          /\ ~ IsOwing(flow[c], a) /\ ~ IsOwing(f, a)
      BY <1>1, <1>2 DEF IsHolding, IsOwing
    <3>4. /\ Cardinality(Holding(a)') = 0 /\ Cardinality(Owing(a)') = 0
          /\ Cardinality(Releasing(a)') \in Nat /\ Cardinality(Releasing(a)) \in Nat
          /\ Cardinality(Releasing(a)') + One(IsReleasing(flow[c], a))
               = Cardinality(Releasing(a)) + One(IsReleasing(f, a))
      <4>1. /\ Cardinality(Holding(a)') + One(IsHolding(flow[c], a))
                 = Cardinality(Holding(a)) + One(IsHolding(f, a))
            /\ Cardinality(Owing(a)') + One(IsOwing(flow[c], a))
                 = Cardinality(Owing(a)) + One(IsOwing(f, a))
            /\ Cardinality(Releasing(a)') + One(IsReleasing(flow[c], a))
                 = Cardinality(Releasing(a)) + One(IsReleasing(f, a))
            /\ Cardinality(Holding(a)') \in Nat /\ Cardinality(Owing(a)') \in Nat
            /\ Cardinality(Releasing(a)') \in Nat /\ Cardinality(Releasing(a)) \in Nat
        BY <1>3, FlowCounts
      <4> QED
        BY <3>2, <3>3, <4>1 DEF One
    <3>5. refCount[a] \in Int /\ refCount[a] >= Cardinality(Content!Links(a)) + Cardinality(Releasing(a))
      BY <3>1, <3>2, <3>4 DEF Kept, KeptRows, CountsCover, Content!TypeOK
    <3>6. CASE Content!LiveBlob(b)
      <4>1. a = b
        BY <3>1, <3>6 DEF Kept, KeptRows, OneLiveRow, Content!LiveBlob
      <4>2. IsReleasing(flow[c], a) /\ refCount'[a] = refCount[a] - 1
        BY <1>1, <1>7, <3>6, <4>1 DEF IsReleasing
      <4>3. CASE ~ IsReleasing(f, a)
        BY <3>1, <3>4, <3>5, <4>2, <4>3 DEF One
      <4>4. CASE IsReleasing(f, a)
        <5>1. f.pc = "release" /\ flow[c].kind = "delete_model" /\ f.left >= 1
              /\ f.left = flow[c].left - 1 /\ flow[c].left \in Nat
          BY <1>1, <1>2, <4>4 DEF IsReleasing, FlowType
        <5>2. refCount[a] >= Cardinality(Content!Links(a)) + flow[c].left
          BY <1>1, <3>6, <4>1, <5>1 DEF Kept, KeptRows, ModelDeletion
        <5>3. Releasing(a)' = {c}
          <6>1. \A d \in Clients \ {c} : ~ IsReleasing(flow[d], a)
            BY <1>1, <5>1, RunsAlone DEF IsReleasing, Busy, Kept, KeptRows
          <6> QED
            BY <1>3, <4>4, <6>1 DEF Releasing, OnlyMoves, IsReleasing
        <5>4. Cardinality(Releasing(a)') = 1
          BY <5>3, FS_Singleton
        <5> QED
          BY <3>1, <3>4, <3>5, <4>2, <5>1, <5>2, <5>4
      <4> QED
        BY <4>3, <4>4
    <3>7. CASE ~ Content!LiveBlob(b)
      <4>1. refCount'[a] = refCount[a] /\ a # b
        BY <3>1, <3>7 DEF Content!Release
      <4>2. ~ IsReleasing(flow[c], a) /\ ~ IsReleasing(f, a)
        BY <1>2, <4>1, IdleIs DEF IsReleasing
      <4> QED
        BY <3>1, <3>4, <3>5, <4>1, <4>2 DEF One
    <3> QED
      BY <3>6, <3>7
  <2> QED
    BY <2>1 DEF CountsCover
<1>9. (\A d \in Clients : ModelDeletion(d))'
  <2>1. ASSUME NEW d \in Clients PROVE ModelDeletion(d)'
    <3>1. CASE d # c
      BY <1>1, <1>3, <3>1, DeleterStep DEF ModelDeletion, OnlyMoves, Busy
    <3>2. CASE d = c /\ f.pc = "release" /\ Content!LiveBlob(b)
      <4>1. f.b = b /\ f.left = flow[c].left - 1 /\ flow[c].left \in Nat
            /\ flow[c].kind = "delete_model"
        BY <1>1, <1>2, <3>2 DEF FlowType
      <4>2. refCount[b] >= Cardinality(Content!Links(b)) + flow[c].left
        BY <1>1, <3>2, <4>1 DEF Kept, KeptRows, ModelDeletion
      <4>3. refCount'[b] >= Cardinality(Content!Links(b)') + f.left
        BY <1>4, <1>7, <3>2, <4>1, <4>2
      <4> QED
        BY <1>3, <3>2, <4>1, <4>3 DEF ModelDeletion
    <3>3. CASE d = c /\ ~ (f.pc = "release" /\ Content!LiveBlob(b))
      <4>1. f.pc # "del_model" /\ (f.pc = "release" => ~ Content!LiveBlob(f.b))
        BY <1>2, <3>3
      <4> QED
        BY <1>3, <1>4, <3>3, <4>1 DEF ModelDeletion
    <3> QED
      BY <3>1, <3>2, <3>3
  <2> QED
    BY <2>1
<1>10. RemovalIsSafe'
  <2>1. ASSUME NEW d \in Clients, Removes(d), Content!LiveBlob(b) PROVE FALSE
    <3>1. Content!LiveBlob(flow[d].b) /\ refCount[flow[d].b] <= 0
      BY <2>1 DEF Kept, KeptRows, RemovalIsSafe
    <3>2. flow[d].b = b
      BY <2>1, <3>1 DEF Kept, KeptRows, OneLiveRow, Content!LiveBlob
    <3> QED
      BY <1>7, <2>1, <3>1, <3>2
  <2>2. CASE Content!LiveBlob(b)
    <3>1. \A d \in Clients : Removes(d)' => d = c
      BY <1>3, <2>1, <2>2 DEF Removes, OnlyMoves
    <3>2. Removes(c)' => f.pc = "del_file" /\ f.b = b /\ refCount[b] <= 1
      BY <1>2, <1>3, <2>2 DEF Removes
    <3>3. Removes(c)' => /\ Content!LiveBlob(b)' /\ Content!Links(b)' = {} /\ refCount'[b] <= 0
      <4>1. SUFFICES ASSUME Removes(c)' PROVE Content!LiveBlob(b)' /\ Content!Links(b)' = {} /\ refCount'[b] <= 0
        OBVIOUS
      <4>2. Cardinality(Content!Links(b)) = 0 /\ refCount'[b] <= 0
        BY <1>7, <2>2, <3>2, <4>1
      <4>3. Content!Links(b) = {}
        BY <1>7, <2>2, <4>2, CountsAreNumbers, FS_EmptySet
      <4> QED
        BY <1>4, <2>2, <4>2, <4>3
    <3> QED
      BY <1>3, <3>1, <3>2, <3>3 DEF RemovalIsSafe
  <2>3. CASE ~ Content!LiveBlob(b)
    <3>1. refCount' = refCount
      BY <2>3 DEF Content!Release
    <3>2. \A d \in Clients : Removes(d)' => Removes(d) /\ flow'[d].b = flow[d].b
      BY <1>2, <1>3, <2>3 DEF Removes, OnlyMoves
    <3> QED
      BY <1>4, <3>1, <3>2 DEF RemovalIsSafe, Kept, KeptRows
  <2> QED
    BY <2>2, <2>3
<1>11. FileIsThere'
  BY <1>1, <1>2, <1>3, FileKept DEF Kept, Content!LiveBlob
<1> QED
  BY <1>5, <1>6, <1>8, <1>9, <1>10, <1>11 DEF Kept, KeptRows

LEMMA KeptRemoveRow ==
  ASSUME Content!BlobsAssumption, Content!TypeOK, Kept, NEW c \in Clients, Content!RemoveRow(c)
  PROVE  Kept'
<1> DEFINE b == flow[c].b
<1>1. /\ flow[c].pc = "del_row" /\ Busy(c) /\ flow[c] \in FlowType /\ Sane(flow[c])
      /\ flow[c].kind \in {"delete", "delete_model"} /\ ~ Adds(c) /\ flow[c].left >= 1
      /\ flow[c].left # 1 => flow[c].kind = "delete_model"
      /\ Removes(c) /\ Content!LiveBlob(b) /\ Content!Links(b) = {}
  BY NextPlace DEF Content!RemoveRow, Content!At, Busy, Adds, Removes, RemovalIsSafe, Kept, KeptRows, Sane
<1>2. PICK f \in FlowType :
        /\ Moves(c, f)
        /\ \/ f = Content!Idle /\ f.pc = "idle"
           \/ /\ f.pc = "release" /\ f.kind = "delete_model" /\ f.b = b
              /\ f.left = flow[c].left - 1 /\ f.left >= 1
  <2> DEFINE g == [flow[c] EXCEPT !.pc = "release", !.left = @ - 1]
  <2>1. PICK h \in FlowType :
            /\ Moves(c, h)
            /\ flow[c].left = 1 => h = Content!Idle
            /\ flow[c].left # 1 => h = g
    BY <1>1, ReleasedMoves DEF Content!RemoveRow
  <2>2. /\ g.pc = "release" /\ g.kind = flow[c].kind /\ g.b = b /\ g.left = flow[c].left - 1
        /\ flow[c].left \in Nat
    BY <1>1 DEF FlowType
  <2> HIDE DEF g
  <2> QED
    BY <1>1, <2>1, <2>2, IdleIs
<1>3. OnlyMoves(c) /\ flow'[c] = f
  BY <1>2, MovesTo
<1>4. /\ \A a \in Blobs : ~ Content!LiveBlob(a)'
      /\ \A a \in Blobs : blobRow'[a] = "none" => blobRow[a] = "none"
  BY <1>1 DEF Content!RemoveRow, Kept, KeptRows, OneLiveRow, Content!LiveBlob, Content!TypeOK
<1>5. Content!LiveVersions = {}
  BY <1>1 DEF Content!Links, Content!LiveVersions, Kept, KeptRows, LiveIsLinked, OneLiveRow, Content!LiveBlob
<1>6. \A v \in VersionIds : version'[v].row = version[v].row
         /\ (version'[v].b = version[v].b \/ version'[v].b = NoBlob)
  <2>1. version \in [VersionIds -> VersionType]
    BY Typed DEF RowsType
  <2> QED
    BY <2>1 DEF Content!RemoveRow, VersionType
<1>7. Compatible'
  BY <1>1, <1>2, <1>3, GoesOn DEF Kept, KeptRows
<1>8. (\A d \in Clients : Sane(flow[d]))'
  <2>1. Sane(f)
    BY <1>1, <1>2, IdleFits DEF Sane
  <2> QED
    BY <1>3, <2>1 DEF Kept, KeptRows, OnlyMoves
<1>9. OneLiveRow' /\ CountsCover'
  BY <1>4 DEF OneLiveRow, CountsCover
<1>10. LiveIsLinked'
  BY <1>5, <1>6 DEF LiveIsLinked, Content!LiveVersions
<1>11. NewIsUnknown'
  BY <1>1, <1>2, <1>3, <1>4, <1>6, IdleFits
     DEF Kept, KeptRows, NewIsUnknown, OnlyMoves, Content!BlobsAssumption
<1>12. (\A d \in Clients : ModelDeletion(d))'
  <2>1. \A a : ~ Content!LiveBlob(a)'
    BY <1>4 DEF Content!LiveBlob
  <2>2. \A d \in Clients : flow'[d].pc # "del_model"
    BY <1>1, <1>2, <1>3, DeleterStep DEF OnlyMoves
  <2> QED
    BY <2>1, <2>2 DEF ModelDeletion
<1>13. RemovalIsSafe'
  <2>1. \A d \in Clients : ~ Removes(d)'
    BY <1>1, <1>2, <1>3 DEF Removes, OnlyMoves, Kept, KeptRows, RemovalIsSafe
  <2> QED
    BY <2>1 DEF RemovalIsSafe
<1>14. FileIsThere'
  <2>1. \A d \in Clients : ~ Content!At(d, "create")'
    BY <1>1, <1>2, <1>3, DeleterStep DEF OnlyMoves, Content!At
  <2> QED
    BY <1>4, <2>1 DEF FileIsThere
<1> QED
  BY <1>7, <1>8, <1>9, <1>10, <1>11, <1>12, <1>13, <1>14 DEF Kept, KeptRows

\* A crash ends every request; none was between the halves of a step.
LEMMA KeptCrash ==
  ASSUME Content!BlobsAssumption, Serialised, Content!TypeOK, Kept, Content!Crash
  PROVE  Kept'
<1>1. /\ UNCHANGED <<version, blobRow, refCount, file>>
      /\ \A d \in Clients : flow'[d] = Content!Idle
      /\ \A d \in Clients : flow[d].pc \notin {"count", "del_row"}
  BY DEF Content!Crash, Serialised
<1>2. Content!Idle.pc = "idle" /\ Sane(Content!Idle) /\ Content!Idle.b \notin Blobs
  BY IdleIs, IdleFits
<1>3. Compatible' /\ (\A d \in Clients : Sane(flow[d]))' /\ RemovalIsSafe'
      /\ (\A d \in Clients : ModelDeletion(d))'
  BY <1>1, <1>2 DEF Compatible, Busy, RemovalIsSafe, Removes, ModelDeletion
<1>4. OneLiveRow' /\ LiveIsLinked' /\ NewIsUnknown'
  BY <1>1, <1>2 DEF Kept, KeptRows, OneLiveRow, LiveIsLinked, NewIsUnknown, Content!LiveBlob, Content!LiveVersions
<1>5. CountsCover'
  <2>1. ASSUME NEW a \in Blobs, Content!LiveBlob(a)'
        PROVE  (refCount[a] + Cardinality(Owing(a)) >= Cardinality(Content!Links(a))
                 + Cardinality(Holding(a)) + Cardinality(Releasing(a)))'
    <3>1. Content!LiveBlob(a) /\ Content!Links(a)' = Content!Links(a) /\ refCount'[a] = refCount[a]
      BY <1>1, <2>1 DEF Content!LiveBlob, Content!Links, Content!LiveVersions
    <3>2. refCount[a] + Cardinality(Owing(a))
            >= Cardinality(Content!Links(a)) + Cardinality(Holding(a)) + Cardinality(Releasing(a))
      BY <3>1 DEF Kept, KeptRows, CountsCover
    <3>3. Owing(a) = {} /\ Owing(a)' = {} /\ Holding(a)' = {} /\ Releasing(a)' = {}
      BY <1>1, <1>2 DEF Owing, Holding, Releasing, IsOwing, IsHolding, IsReleasing
    <3>4. Cardinality({}) = 0
      BY FS_EmptySet
    <3>5. refCount[a] \in Int
      BY DEF Content!TypeOK
    <3> QED
      BY <3>1, <3>2, <3>3, <3>4, <3>5, CountsAreNumbers
  <2> QED
    BY <2>1 DEF CountsCover
<1>6. FileIsThere'
  BY <1>1, <1>2 DEF Kept, FileIsThere, Content!At, Content!LiveBlob
<1> QED
  BY <1>3, <1>4, <1>5, <1>6 DEF Kept, KeptRows

-----------------------------------------------------------------------------
(* What needs no deviation: additions are sound, and nothing leaks.          *)

\* A step of one request that is not an addition's.
LEMMA SoundWhileDeleting ==
  ASSUME Kept, NEW c \in Clients, Busy(c), ~ Adds(c), OnlyMoves(c),
         flow'[c].pc = "idle" \/ flow'[c].kind = flow[c].kind
  PROVE  AddsAreSound'
<1>1. \A d \in Clients : Busy(d) => ~ Adds(d)
  BY NoneAdds DEF Kept, KeptRows
<1>2. \A d \in Clients : Busy(d)' => ~ Adds(d)'
  BY <1>1 DEF Busy, Adds, OnlyMoves
<1> QED
  BY <1>2 DEF AddsAreSound

\* AddsAreSound after a step that removes neither model nor row,
LEMMA SoundOtherwise ==
  ASSUME AddsAreSound, NEW c \in Clients, OnlyMoves(c),
         models' = models, \A b \in Blobs : Content!LiveBlob(b) => Content!LiveBlob(b)',
         Busy(c)' /\ Adds(c)' =>
            /\ flow'[c].m \in models
            /\ flow'[c].pc \in {"link", "version", "count"} => Content!LiveBlob(flow[c].b)'
  PROVE  AddsAreSound'
<1>1. ASSUME NEW d \in Clients, d # c, Busy(d)', Adds(d)'
      PROVE  /\ flow'[d].m \in models
             /\ flow'[d].pc \in {"link", "version", "count"} => Content!LiveBlob(flow[d].b)'
  <2>1. flow'[d] = flow[d] /\ Busy(d) /\ Adds(d)
    BY <1>1 DEF OnlyMoves, Busy, Adds
  <2>2. flow[d].m \in models
        /\ (flow[d].pc \in {"link", "version", "count"} => Content!LiveBlob(flow[d].b))
    BY <2>1 DEF AddsAreSound
  <2>3. Content!LiveBlob(flow[d].b) => Content!LiveBlob(flow[d].b) /\ flow[d].b \in Blobs
    BY DEF Content!LiveBlob
  <2>4. Content!LiveBlob(flow[d].b) => blobRow'[flow[d].b] = "live"
    BY <2>3 DEF Content!LiveBlob
  <2> QED
    BY <2>1, <2>2, <2>3, <2>4 DEF Content!LiveBlob
<1> QED
  BY <1>1 DEF AddsAreSound

\* and after any step.
LEMMA SoundStep ==
  ASSUME Content!BlobsAssumption, Content!TypeOK, Kept, AddsAreSound, Content!Next
  PROVE  AddsAreSound'
<1>1. ASSUME NEW c \in Clients, Content!Upload(c) PROVE AddsAreSound'
  <2>1. PICK m \in models :
               \/ \E b \in Blobs : Content!LiveBlob(b) /\ Moves(c, Content!Flow("upload", "link", m, Content!AnyVersion, b, 0))
               \/ Moves(c, Content!Flow("upload", "move", m, Content!AnyVersion, NoBlob, 0))
    BY <1>1, Begins
  <2>2. PICK f : Moves(c, f) /\ f.m = m /\ (Content!LiveBlob(f.b) \/ f.pc = "move")
    <3>1. /\ \A b : LET f == Content!Flow("upload", "link", m, Content!AnyVersion, b, 0)
                    IN  f.m = m /\ f.b = b
          /\ LET f == Content!Flow("upload", "move", m, Content!AnyVersion, NoBlob, 0)
             IN  f.m = m /\ f.pc = "move"
      BY DEF Content!Flow
    <3> QED
      BY <2>1, <3>1
  <2>3. OnlyMoves(c) /\ flow'[c] = f
    BY <2>2, MovesTo
  <2>4. models' = models /\ blobRow' = blobRow
    BY <1>1 DEF Content!Upload
  <2> QED
    BY <2>2, <2>3, <2>4, SoundOtherwise DEF Content!LiveBlob
<1>2. ASSUME NEW c \in Clients, Content!FastImport(c) PROVE AddsAreSound'
  <2>1. PICK m \in models, b \in Blobs :
          Content!LiveBlob(b) /\ Moves(c, Content!Flow("fast", "version", m, Content!AnyVersion, b, 0))
    BY <1>2, Begins
  <2>2. OnlyMoves(c) /\ flow'[c].m = m /\ flow'[c].b = b
    BY <2>1, MovesTo DEF Content!Flow
  <2>3. models' = models /\ blobRow' = blobRow
    BY <1>2 DEF Content!FastImport
  <2> QED
    BY <2>1, <2>2, <2>3, SoundOtherwise DEF Content!LiveBlob
<1>3. ASSUME NEW c \in Clients, Content!DeleteVersion(c) PROVE AddsAreSound'
  <2>1. PICK v \in Content!LiveVersions :
               Moves(c, Content!Flow("delete", "del_version", version[v].m, v, version[v].b, 1))
    BY <1>3, Begins
  <2>2. OnlyMoves(c) /\ flow'[c].kind = "delete"
    BY <2>1, MovesTo DEF Content!Flow
  <2> QED
    BY <1>3, <2>2, SoundOtherwise DEF Content!DeleteVersion, Content!LiveBlob, Adds
<1>4. ASSUME NEW c \in Clients, Content!DeleteModel(c) PROVE AddsAreSound'
  <2>1. PICK f : Moves(c, f) /\ f.kind = "delete_model"
    <3>1. PICK m \in models, b \in Blobs \cup {NoBlob} :
            LET mine == {v \in Content!LiveVersions : version[v].m = m /\ version[v].b # NoBlob} IN
            flow' = [flow EXCEPT ![c] =
                Content!Flow("delete_model", "del_model", m, Content!AnyVersion, b, Cardinality(mine))]
      BY <1>4, DeleteModelReads
    <3> DEFINE f == Content!Flow("delete_model", "del_model", m, Content!AnyVersion, b,
                         Cardinality({v \in Content!LiveVersions : version[v].m = m /\ version[v].b # NoBlob}))
    <3>2. f.kind = "delete_model"
      BY DEF Content!Flow
    <3>3. Moves(c, f)
      BY <3>1 DEF Moves
    <3> QED
      BY <3>2, <3>3
  <2>2. OnlyMoves(c) /\ flow'[c].kind = "delete_model"
    BY <2>1, MovesTo
  <2> QED
    BY <1>4, <2>2, SoundOtherwise DEF Content!DeleteModel, Content!LiveBlob, Adds
<1>5. ASSUME NEW c \in Clients,
             \/ Content!Link(c) \/ Content!Promote(c) \/ Content!CreateBlob(c) \/ Content!FindWinner(c)
             \/ Content!CreateVersion(c) \/ Content!CreateVersionFails(c) \/ Content!CountLink(c)
      PROVE  AddsAreSound'
  <2>1. /\ Busy(c) /\ Adds(c) /\ flow[c] \in FlowType /\ models' = models
        /\ flow[c].m \in models
        /\ flow[c].pc \in {"link", "version", "count"} => Content!LiveBlob(flow[c].b)
    BY <1>5, NextPlace DEF Content!Link, Content!Promote, Content!CreateBlob, Content!FindWinner, Content!CreateVersion,
       Content!CreateVersionFails, Content!CountLink, Content!At, Busy, Adds, Kept, KeptRows, Sane, AddsAreSound
  <2>2. \A b \in Blobs : Content!LiveBlob(b) => Content!LiveBlob(b)'
    <3>1. CASE Content!CreateBlob(c)
      BY <3>1 DEF Content!CreateBlob, Content!LiveBlob, Content!TypeOK
    <3>2. CASE ~ Content!CreateBlob(c)
      BY <1>5, <3>2 DEF Content!Link, Content!Promote, Content!FindWinner, Content!CreateVersion, Content!CreateVersionFails,
                        Content!CountLink, Content!LiveBlob
    <3> QED
      BY <3>1, <3>2
  <2>3. PICK f :
          /\ Moves(c, f)
          /\ \/ f.pc = "idle"
             \/ f.m = flow[c].m /\ f.b = flow[c].b /\ f.pc \in {"create", "winner"}
             \/ /\ f.m = flow[c].m /\ f.b = flow[c].b /\ f.pc \in {"version", "count"}
                /\ Content!LiveBlob(f.b)
             \/ f.m = flow[c].m /\ f.pc \in {"link", "version"} /\ Content!LiveBlob(f.b)'
    <3>1. \/ Content!Done(c) \/ Content!Goto(c, "create") \/ Content!Goto(c, "winner")
          \/ Content!LiveBlob(flow[c].b) /\ (Content!Goto(c, "version") \/ Content!Goto(c, "count"))
          \/ \E b \in Blobs : (Content!LiveBlob(b) \/ blobRow' = [blobRow EXCEPT ![b] = "live"])
                /\ (Content!GotoWith(c, "link", b) \/ Content!GotoWith(c, "version", b))
      BY <1>5 DEF Content!Link, Content!Promote, Content!CreateBlob, Content!FindWinner, Content!CreateVersion, Content!CreateVersionFails,
                  Content!CountLink
    <3>2. ASSUME NEW place \in {"create", "winner", "version", "count"}, Content!Goto(c, place)
          PROVE  \E f : Moves(c, f) /\ f.m = flow[c].m /\ f.b = flow[c].b /\ f.pc = place
      <4> DEFINE g == [flow[c] EXCEPT !.pc = place]
      <4>1. Moves(c, g) /\ g.m = flow[c].m /\ g.b = flow[c].b /\ g.pc = place
        BY <2>1, <3>2, NextPlace DEF FlowType
      <4> QED
        BY <4>1
    <3>3. ASSUME NEW b \in Blobs, NEW place \in {"link", "version"}, Content!GotoWith(c, place, b)
          PROVE  \E f : Moves(c, f) /\ f.m = flow[c].m /\ f.b = b /\ f.pc = place
      <4> DEFINE g == [flow[c] EXCEPT !.pc = place, !.b = b]
      <4>1. Moves(c, g) /\ g.m = flow[c].m /\ g.b = b /\ g.pc = place
        BY <2>1, <3>3, NextPlace DEF FlowType
      <4> QED
        BY <4>1
    <3>4. \A b \in Blobs : blobRow' = [blobRow EXCEPT ![b] = "live"] => Content!LiveBlob(b)'
      BY DEF Content!LiveBlob, Content!TypeOK
    <3>5. CASE Content!Done(c)
      BY <3>5, NextPlace
    <3>6. CASE Content!Goto(c, "create") \/ Content!Goto(c, "winner")
      BY <3>2, <3>6
    <3>7. CASE Content!LiveBlob(flow[c].b) /\ (Content!Goto(c, "version") \/ Content!Goto(c, "count"))
      <4>1. PICK place \in {"version", "count"} : Content!Goto(c, place)
        BY <3>7
      <4>2. PICK f : Moves(c, f) /\ f.m = flow[c].m /\ f.b = flow[c].b /\ f.pc = place
        BY <3>2, <4>1
      <4> QED
        BY <3>7, <4>1, <4>2
    <3>8. ASSUME NEW b \in Blobs, Content!LiveBlob(b) \/ blobRow' = [blobRow EXCEPT ![b] = "live"],
                 NEW place \in {"link", "version"}, Content!GotoWith(c, place, b)
          PROVE  \E f : Moves(c, f) /\ f.m = flow[c].m
                        /\ f.pc \in {"link", "version"} /\ Content!LiveBlob(f.b)'
      <4>1. Content!LiveBlob(b)'
        BY <2>2, <3>4, <3>8
      <4>2. PICK f : Moves(c, f) /\ f.m = flow[c].m /\ f.b = b /\ f.pc = place
        BY <3>3, <3>8
      <4> QED
        BY <4>1, <4>2
    <3> QED
      BY <3>1, <3>5, <3>6, <3>7, <3>8
  <2>4. OnlyMoves(c) /\ flow'[c] = f
    BY <2>3, MovesTo
  <2>5. Busy(c)' => /\ flow'[c].m \in models
                    /\ flow'[c].pc \in {"link", "version", "count"} => Content!LiveBlob(flow[c].b)'
    <3>1. Content!LiveBlob(f.b) => blobRow'[f.b] = "live" /\ f.b \in Blobs
      BY <2>2 DEF Content!LiveBlob
    <3> QED
      BY <2>1, <2>3, <2>4, <3>1 DEF Busy, Content!LiveBlob
  <2> QED
    BY <2>1, <2>2, <2>4, <2>5, SoundOtherwise
<1>6. ASSUME NEW c \in Clients,
             \/ Content!DeleteVersionRow(c) \/ Content!DeleteModelRow(c) \/ Content!Release(c)
             \/ Content!RemoveFile(c) \/ Content!RemoveRow(c)
      PROVE  AddsAreSound'
  <2>0. flow[c].pc \in {"del_version", "del_model", "release", "del_file", "del_row"}
    BY <1>6 DEF Content!DeleteVersionRow, Content!DeleteModelRow, Content!Release, Content!RemoveFile, Content!RemoveRow, Content!At
  <2>1. Busy(c) /\ ~ Adds(c) /\ flow[c] \in FlowType
    BY <2>0, NextPlace DEF Busy, Adds, Kept, KeptRows, Sane
  <2>2. \/ Content!Done(c) \/ (Content!Released(c) /\ flow[c].left >= 1)
        \/ \E place \in {"release", "del_file", "del_row"} : Content!Goto(c, place)
    BY <1>6 DEF Content!DeleteVersionRow, Content!DeleteModelRow, Content!Release, Content!RemoveFile, Content!RemoveRow,
                Content!At, Kept, KeptRows, Sane
  <2>3. \E f : Moves(c, f) /\ (f.pc = "idle" \/ f.kind = flow[c].kind)
    <3>1. CASE Content!Done(c)
      BY <3>1, NextPlace
    <3>2. CASE Content!Released(c) /\ flow[c].left >= 1
      <4> DEFINE g == [flow[c] EXCEPT !.pc = "release", !.left = @ - 1]
      <4>1. PICK f \in FlowType : Moves(c, f) /\ (f = Content!Idle \/ f = g)
        BY <3>2, ReleasedMoves
      <4>2. g.kind = flow[c].kind
        BY <2>1 DEF FlowType
      <4> HIDE DEF g
      <4> QED
        BY <4>1, <4>2, IdleIs
    <3>3. ASSUME NEW place \in {"release", "del_file", "del_row"}, Content!Goto(c, place)
          PROVE  \E f : Moves(c, f) /\ (f.pc = "idle" \/ f.kind = flow[c].kind)
      <4> DEFINE g == [flow[c] EXCEPT !.pc = place]
      <4>1. Moves(c, g) /\ g.kind = flow[c].kind
        BY <2>1, <3>3, NextPlace DEF FlowType
      <4> QED
        BY <4>1
    <3> QED
      BY <2>2, <3>1, <3>2, <3>3
  <2> QED
    BY <2>1, <2>3, MovesTo, SoundWhileDeleting
<1>7. ASSUME Content!Crash PROVE AddsAreSound'
  BY <1>7, IdleIs DEF Content!Crash, AddsAreSound, Busy
<1> QED
  BY <1>1, <1>2, <1>3, <1>4, <1>5, <1>6, <1>7 DEF Content!Next

\* A step that goes on with a request.
LEMMA GoingOn ==
  ASSUME Content!BlobsAssumption, Content!TypeOK, Kept, NEW c \in Clients,
         \/ Content!Link(c) \/ Content!Promote(c) \/ Content!CreateBlob(c) \/ Content!FindWinner(c)
         \/ Content!CreateVersion(c) \/ Content!CreateVersionFails(c) \/ Content!CountLink(c)
         \/ Content!DeleteVersionRow(c) \/ Content!DeleteModelRow(c)
         \/ Content!Release(c) \/ Content!RemoveFile(c) \/ Content!RemoveRow(c)
  PROVE  /\ OnlyMoves(c) /\ Busy(c)
         /\ flow'[c].pc \notin {"del_version", "del_model"}
         /\ flow'[c].pc = "del_row" => Content!RemoveFile(c)
         /\ flow'[c].pc = "idle" \/ flow'[c].kind = flow[c].kind
<1>1. Busy(c) /\ Sane(flow[c])
  BY DEF Content!Link, Content!Promote, Content!CreateBlob, Content!FindWinner, Content!CreateVersion, Content!CreateVersionFails, Content!CountLink,
         Content!DeleteVersionRow, Content!DeleteModelRow, Content!Release, Content!RemoveFile, Content!RemoveRow,
         Busy, Content!At, Kept, KeptRows
<1>2. \/ Content!Done(c) \/ (Content!Released(c) /\ flow[c].left >= 1)
      \/ Content!RemoveFile(c) /\ Content!Goto(c, "del_row")
      \/ \E place \in {"create", "winner", "version", "count", "release", "del_file"} : Content!Goto(c, place)
      \/ \E place \in {"link", "version"}, b \in Blobs : Content!GotoWith(c, place, b)
  <2>1. CASE Content!Release(c) \/ Content!RemoveRow(c)
    BY <1>1, <2>1 DEF Content!Release, Content!RemoveRow, Content!At, Sane
  <2>2. CASE ~ (Content!Release(c) \/ Content!RemoveRow(c))
    BY <2>2 DEF Content!Link, Content!Promote, Content!CreateBlob, Content!FindWinner, Content!CreateVersion, Content!CreateVersionFails,
         Content!CountLink, Content!DeleteVersionRow, Content!DeleteModelRow, Content!RemoveFile
  <2> QED
    BY <2>1, <2>2
<1>3. PICK f : /\ Moves(c, f)
               /\ f.pc \notin {"del_version", "del_model"}
               /\ f.pc = "del_row" => Content!RemoveFile(c)
               /\ f.pc = "idle" \/ f.kind = flow[c].kind
  <2>1. CASE Content!Done(c)
    BY <2>1, Ends
  <2>2. CASE Content!Released(c) /\ flow[c].left >= 1
    BY <2>2, IsReleased
  <2>3. CASE Content!RemoveFile(c) /\ Content!Goto(c, "del_row")
    BY <2>3, Goes DEF Content!PCs
  <2>4. CASE \E place \in {"create", "winner", "version", "count", "release", "del_file"} : Content!Goto(c, place)
    BY <2>4, Goes DEF Content!PCs
  <2>5. CASE \E place \in {"link", "version"}, b \in Blobs : Content!GotoWith(c, place, b)
    BY <2>5, GoesWith DEF Content!PCs
  <2> QED
    BY <1>2, <2>1, <2>2, <2>3, <2>4, <2>5
<1> QED
  BY <1>1, <1>3, MovesTo

LEMMA DeletionKnowsStep ==
  ASSUME Content!BlobsAssumption, Content!TypeOK, Kept, DeletionKnows, Content!Next
  PROVE  DeletionKnows'
<1>1. ASSUME NEW c \in Clients, OnlyMoves(c), flow'[c].pc # "del_version",
             \A v \in Content!LiveVersions' : v \in Content!LiveVersions /\ version'[v].b = version[v].b
      PROVE  DeletionKnows'
  BY <1>1 DEF DeletionKnows, OnlyMoves, Content!At
<1>2. ASSUME NEW c \in Clients, Content!DeleteVersion(c) PROVE DeletionKnows'
  <2>1. PICK v \in Content!LiveVersions :
               Moves(c, Content!Flow("delete", "del_version", version[v].m, v, version[v].b, 1))
    BY <1>2, Begins
  <2>2. /\ OnlyMoves(c) /\ flow'[c].v = v /\ flow'[c].b = version[v].b
        /\ version[v].b \in Blobs /\ version' = version
    BY <1>2, <2>1, MovesTo DEF Content!Flow, Content!DeleteVersion, Kept, KeptRows, LiveIsLinked, Content!LiveBlob
  <2> QED
    BY <2>2 DEF DeletionKnows, OnlyMoves, Content!At, Content!LiveVersions
<1>3. ASSUME NEW c \in Clients, Content!Upload(c) \/ Content!FastImport(c) \/ Content!DeleteModel(c),
             ~ Content!DeleteVersion(c)
      PROVE  DeletionKnows'
  BY <1>1, <1>3, Beginning DEF Content!LiveVersions
<1>4. ASSUME NEW c \in Clients,
             \/ Content!Link(c) \/ Content!Promote(c) \/ Content!CreateBlob(c) \/ Content!FindWinner(c)
             \/ Content!CreateVersion(c) \/ Content!CreateVersionFails(c) \/ Content!CountLink(c)
      PROVE  DeletionKnows'
  <2>1. Busy(c) /\ Adds(c)
    BY <1>4, NextPlace DEF Content!Link, Content!Promote, Content!CreateBlob, Content!FindWinner, Content!CreateVersion,
       Content!CreateVersionFails, Content!CountLink, Content!At, Busy, Adds, Kept, KeptRows, Sane
  <2>2. \A d \in Clients : flow[d].pc # "del_version"
    BY <2>1 DEF Busy, Adds, Kept, KeptRows, Compatible, Sane
  <2>3. \A d \in Clients : flow'[d].pc # "del_version"
    BY <1>4, <2>2, GoingOn DEF OnlyMoves
  <2> QED
    BY <2>3 DEF DeletionKnows, Content!At
<1>5. ASSUME NEW c \in Clients,
             Content!DeleteVersionRow(c) \/ Content!DeleteModelRow(c) \/ Content!Release(c) \/ Content!RemoveFile(c)
      PROVE  DeletionKnows'
  <2>1. version \in [VersionIds -> VersionType]
    BY Typed DEF RowsType
  <2>2. \A v \in VersionIds : version'[v] = version[v]
           \/ (version'[v].row = "deleted" /\ version'[v].b = version[v].b)
    BY <1>5, <2>1 DEF Content!DeleteVersionRow, Content!DeleteModelRow, Content!Release, Content!RemoveFile, VersionType
  <2> QED
    BY <1>1, <1>5, <2>2, GoingOn DEF Content!LiveVersions
<1>6. ASSUME NEW c \in Clients, Content!RemoveRow(c) PROVE DeletionKnows'
  <2>1. version \in [VersionIds -> VersionType]
    BY Typed DEF RowsType
  <2>2. \A v \in VersionIds : version'[v].row = version[v].row
           /\ (version[v].b # flow[c].b => version'[v] = version[v])
    BY <1>6, <2>1 DEF Content!RemoveRow, VersionType
  <2>3. Content!Links(flow[c].b) = {}
    BY <1>6 DEF Content!RemoveRow, Content!At, Kept, KeptRows, RemovalIsSafe, Removes
  <2> QED
    BY <1>1, <1>6, <2>2, <2>3, GoingOn DEF Content!LiveVersions, Content!Links
<1>7. ASSUME Content!Crash PROVE DeletionKnows'
  BY <1>7, IdleIs DEF Content!Crash, DeletionKnows, Content!At
<1> QED
  BY <1>2, <1>3, <1>4, <1>5, <1>6, <1>7 DEF Content!Next

LEMMA FileIsGoneStep ==
  ASSUME Content!BlobsAssumption, Content!TypeOK, Kept, FileIsGone, Content!Next
  PROVE  FileIsGone'
<1>1. ASSUME NEW c \in Clients, OnlyMoves(c), flow'[c].pc # "del_row", file' = file
      PROVE  FileIsGone'
  BY <1>1 DEF FileIsGone, OnlyMoves, Content!At
<1>2. ASSUME NEW c \in Clients,
             Content!Upload(c) \/ Content!FastImport(c) \/ Content!DeleteVersion(c) \/ Content!DeleteModel(c)
      PROVE  FileIsGone'
  BY <1>1, <1>2, Beginning
<1>3. ASSUME NEW c \in Clients, Content!RemoveFile(c) PROVE FileIsGone'
  BY <1>3 DEF Content!RemoveFile, FileIsGone
<1>4. ASSUME NEW c \in Clients, Content!Promote(c) PROVE FileIsGone'
  <2>1. Busy(c) /\ Adds(c)
    BY <1>4 DEF Content!Promote, Content!At, Busy, Adds, Kept, KeptRows, Sane
  <2>2. \A d \in Clients : flow[d].pc # "del_row"
    BY <2>1 DEF Busy, Adds, Kept, KeptRows, Compatible, Sane
  <2>3. flow'[c].pc # "del_row"
    BY <1>4, Goes, MovesTo DEF Content!Promote, Content!PCs
  <2> QED
    BY <1>4, <2>2, <2>3, GoingOn DEF FileIsGone, OnlyMoves, Content!At
<1>5. ASSUME NEW c \in Clients,
             \/ Content!Link(c) \/ Content!CreateBlob(c) \/ Content!FindWinner(c)
             \/ Content!CreateVersion(c) \/ Content!CreateVersionFails(c) \/ Content!CountLink(c)
             \/ Content!DeleteVersionRow(c) \/ Content!DeleteModelRow(c) \/ Content!Release(c) \/ Content!RemoveRow(c)
      PROVE  FileIsGone'
  <2>1. file' = file /\ ~ Content!RemoveFile(c)
    <3>1. file' = file
      BY <1>5 DEF Content!Link, Content!CreateBlob, Content!FindWinner, Content!CreateVersion, Content!CreateVersionFails, Content!CountLink,
                  Content!DeleteVersionRow, Content!DeleteModelRow, Content!Release, Content!RemoveRow
    <3>2. ~ Content!At(c, "del_file")
      BY <1>5 DEF Content!Link, Content!CreateBlob, Content!FindWinner, Content!CreateVersion, Content!CreateVersionFails, Content!CountLink,
                  Content!DeleteVersionRow, Content!DeleteModelRow, Content!Release, Content!RemoveRow, Content!At
    <3> QED
      BY <3>1, <3>2 DEF Content!RemoveFile
  <2> QED
    BY <1>1, <1>5, <2>1, GoingOn
<1>6. ASSUME Content!Crash PROVE FileIsGone'
  BY <1>6, IdleIs DEF Content!Crash, FileIsGone, Content!At
<1> QED
  BY <1>2, <1>3, <1>4, <1>5, <1>6 DEF Content!Next

LEMMA FileIsOwnedStep ==
  ASSUME Content!BlobsAssumption, Content!TypeOK, Kept, FileIsOwned, FileIsGone, Content!Next, faults' = faults
  PROVE  FileIsOwned'
<1>1. ASSUME NEW c \in Clients, OnlyMoves(c), ~ Content!At(c, "create"), file' = file,
             blobRow' = blobRow
      PROVE  FileIsOwned'
  BY <1>1 DEF FileIsOwned, OnlyMoves, Content!At, Content!LiveBlob
<1>2. ASSUME NEW c \in Clients,
             Content!Upload(c) \/ Content!FastImport(c) \/ Content!DeleteVersion(c) \/ Content!DeleteModel(c)
      PROVE  FileIsOwned'
  BY <1>1, <1>2, Beginning DEF Content!At
<1>3. ASSUME NEW c \in Clients,
             \/ Content!Link(c) \/ Content!FindWinner(c)
             \/ Content!CreateVersion(c) \/ Content!CreateVersionFails(c) \/ Content!CountLink(c)
             \/ Content!DeleteVersionRow(c) \/ Content!DeleteModelRow(c) \/ Content!Release(c)
      PROVE  FileIsOwned'
  <2>1. file' = file /\ blobRow' = blobRow /\ ~ Content!At(c, "create")
    BY <1>3 DEF Content!Link, Content!FindWinner, Content!CreateVersion, Content!CreateVersionFails, Content!CountLink,
                Content!DeleteVersionRow, Content!DeleteModelRow, Content!Release, Content!At
  <2> QED
    BY <1>1, <1>3, <2>1, GoingOn
<1>4. ASSUME NEW c \in Clients, Content!Promote(c) PROVE FileIsOwned'
  <2>1. flow'[c].pc = "create"
    BY <1>4, Goes, MovesTo DEF Content!Promote, Content!PCs
  <2> QED
    BY <2>1 DEF FileIsOwned, Content!At
<1>5. ASSUME NEW c \in Clients, Content!CreateBlob(c) PROVE FileIsOwned'
  BY <1>5 DEF Content!CreateBlob, FileIsOwned, Content!LiveBlob, Content!TypeOK
<1>6. ASSUME NEW c \in Clients, Content!RemoveFile(c) PROVE FileIsOwned'
  BY <1>6 DEF Content!RemoveFile, FileIsOwned
<1>7. ASSUME NEW c \in Clients, Content!RemoveRow(c) PROVE FileIsOwned'
  BY <1>7 DEF Content!RemoveRow, FileIsOwned, FileIsGone
<1>8. ~ Content!Crash
  BY DEF Content!Crash, Content!TypeOK, Content!BlobsAssumption
<1> QED
  BY <1>2, <1>3, <1>4, <1>5, <1>6, <1>7, <1>8 DEF Content!Next

-----------------------------------------------------------------------------
(* Until a fault, the counts are exact.                                      *)

\* Exact counts, action by action: a step that moves nobody who counts,
LEMMA CountedFrame ==
  ASSUME Content!BlobsAssumption, Content!TypeOK, NEW c \in Clients, OnlyMoves(c),
         UNCHANGED <<version, refCount>>,
         NEW b \in Blobs, IsCounted(b),
         ~ IsHolding(flow[c], b), ~ IsOwing(flow[c], b), ~ IsReleasing(flow[c], b),
         ~ IsHolding(flow'[c], b), ~ IsOwing(flow'[c], b), ~ IsReleasing(flow'[c], b),
         Removes(c) => Removes(c)'
  PROVE  IsCounted(b)'
<1>1. Content!Links(b)' = Content!Links(b)
  BY DEF Content!Links, Content!LiveVersions
<1>2. Holding(b)' = Holding(b) /\ Owing(b)' = Owing(b) /\ Releasing(b)' = Releasing(b)
  BY DEF Holding, Owing, Releasing, OnlyMoves
<1>3. \A d \in Releasing(b) : flow'[d] = flow[d]
  BY DEF Releasing, OnlyMoves
<1>4. (\E d \in Clients : Removes(d)) => \E d \in Clients : Removes(d)'
  BY DEF Removes, OnlyMoves
<1>5. Exact(b)'
  BY <1>1, <1>2, <1>3 DEF IsCounted, Exact
<1> QED
  BY <1>4, <1>5 DEF IsCounted

\* While something is added nothing is released, and the count is simple.
LEMMA CountedAdding ==
  ASSUME Content!BlobsAssumption, Content!TypeOK, Kept, NEW c \in Clients, Busy(c), Adds(c), OnlyMoves(c),
         flow'[c].pc \in {"idle", "version", "count"},
         NEW b \in Blobs
  PROVE  /\ Releasing(b)' = {} /\ Cardinality(Releasing(b)') = 0
         /\ IsCounted(b) =>
               /\ refCount[b] + Cardinality(Owing(b))
                    = Cardinality(Content!Links(b)) + Cardinality(Holding(b))
               /\ refCount[b] >= 1
<1>1. \A d \in Clients : flow[d].pc \notin {"release", "del_file", "del_row"}
  BY DEF Busy, Adds, Kept, KeptRows, Compatible, Sane
<1>2. Releasing(b) = {} /\ Releasing(b)' = {}
  BY <1>1 DEF Releasing, IsReleasing, OnlyMoves
<1>3. \A d \in Clients : ~ Removes(d)
  BY <1>1 DEF Removes
<1>4. Cardinality(Releasing(b)) = 0 /\ Cardinality(Releasing(b)') = 0
  BY <1>2, FS_EmptySet
<1>5. ASSUME IsCounted(b)
      PROVE  /\ refCount[b] + Cardinality(Owing(b))
                    = Cardinality(Content!Links(b)) + Cardinality(Holding(b))
             /\ refCount[b] >= 1
  <2>1. refCount[b] + Cardinality(Owing(b))
          = Cardinality(Content!Links(b)) + Cardinality(Holding(b)) + Cardinality(Releasing(b))
    BY <1>2, <1>5 DEF IsCounted, Exact
  <2>2. Cardinality(Content!Links(b)) \in Nat /\ Cardinality(Holding(b)) \in Nat
    BY CountsAreNumbers
  <2> QED
    BY <1>3, <1>4, <1>5, <2>1, <2>2 DEF IsCounted
<1> QED
  BY <1>2, <1>4, <1>5

\* and those that change a count or a link.
LEMMA CountedLink ==
  ASSUME Content!BlobsAssumption, Content!TypeOK, Kept, AddsAreSound, NEW c \in Clients, Content!Link(c),
         NEW b \in Blobs, Content!LiveBlob(b), IsCounted(b)
  PROVE  IsCounted(b)'
<1>1. /\ flow[c].pc = "link" /\ Busy(c) /\ Adds(c) /\ Content!LiveBlob(flow[c].b)
      /\ flow[c].kind = "upload"
  BY DEF Content!Link, Content!At, Busy, Adds, Kept, KeptRows, Sane, AddsAreSound
<1>2. flow[c].b = b
  BY <1>1 DEF Kept, KeptRows, OneLiveRow, Content!LiveBlob
<1>3. /\ refCount'[b] = refCount[b] + 1 /\ refCount[b] \in Int /\ Content!Goto(c, "version")
      /\ version' = version
  BY <1>1, <1>2 DEF Content!Link, Content!TypeOK
<1>4. PICK f \in FlowType : /\ Moves(c, f) /\ f.pc = "version" /\ f.kind = "upload"
                            /\ f.b = b
  BY <1>1, <1>2, <1>3, Goes DEF Content!PCs
<1>5. OnlyMoves(c) /\ flow'[c] = f
  BY <1>4, MovesTo
<1>6. Content!Links(b)' = Content!Links(b) /\ Cardinality(Content!Links(b)) \in Nat
  BY <1>3, CountsAreNumbers DEF Content!Links, Content!LiveVersions
<1>7. /\ ~ IsHolding(flow[c], b) /\ ~ IsOwing(flow[c], b)
      /\ IsHolding(f, b) /\ ~ IsOwing(f, b)
  BY <1>1, <1>4 DEF IsHolding, IsOwing
<1>8. /\ Cardinality(Holding(b)') = Cardinality(Holding(b)) + 1
      /\ Cardinality(Owing(b)') = Cardinality(Owing(b))
      /\ Cardinality(Owing(b)) \in Nat /\ Cardinality(Holding(b)) \in Nat
  BY <1>5, <1>7, FlowCounts DEF One
<1>9. /\ Releasing(b)' = {} /\ Cardinality(Releasing(b)') = 0
      /\ refCount[b] + Cardinality(Owing(b)) = Cardinality(Content!Links(b)) + Cardinality(Holding(b))
      /\ refCount[b] >= 1
  BY <1>1, <1>4, <1>5, CountedAdding
<1> QED
  BY <1>3, <1>6, <1>8, <1>9 DEF IsCounted, Exact

LEMMA CountedCountLink ==
  ASSUME Content!BlobsAssumption, Content!TypeOK, Kept, AddsAreSound, NEW c \in Clients, Content!CountLink(c),
         NEW b \in Blobs, Content!LiveBlob(b), IsCounted(b)
  PROVE  IsCounted(b)'
<1>1. flow[c].pc = "count" /\ Busy(c) /\ Adds(c) /\ Content!LiveBlob(flow[c].b)
  BY DEF Content!CountLink, Content!At, Busy, Adds, Kept, KeptRows, Sane, AddsAreSound
<1>2. flow[c].b = b
  BY <1>1 DEF Kept, KeptRows, OneLiveRow, Content!LiveBlob
<1>3. /\ refCount'[b] = refCount[b] + 1 /\ refCount[b] \in Int /\ Content!Done(c)
      /\ version' = version
  BY <1>1, <1>2 DEF Content!CountLink, Content!TypeOK
<1>4. PICK f \in FlowType : Moves(c, f) /\ f.pc = "idle"
  BY <1>3, Ends
<1>5. OnlyMoves(c) /\ flow'[c] = f
  BY <1>4, MovesTo
<1>6. Content!Links(b)' = Content!Links(b) /\ Cardinality(Content!Links(b)) \in Nat
  BY <1>3, CountsAreNumbers DEF Content!Links, Content!LiveVersions
<1>7. /\ ~ IsHolding(flow[c], b) /\ IsOwing(flow[c], b)
      /\ ~ IsHolding(f, b) /\ ~ IsOwing(f, b)
  BY <1>1, <1>2, <1>4 DEF IsHolding, IsOwing
<1>8. /\ Cardinality(Holding(b)') = Cardinality(Holding(b))
      /\ Cardinality(Owing(b)') + 1 = Cardinality(Owing(b))
      /\ Cardinality(Owing(b)') \in Nat /\ Cardinality(Holding(b)) \in Nat
  BY <1>5, <1>7, FlowCounts DEF One
<1>9. /\ Releasing(b)' = {} /\ Cardinality(Releasing(b)') = 0
      /\ refCount[b] + Cardinality(Owing(b)) = Cardinality(Content!Links(b)) + Cardinality(Holding(b))
      /\ refCount[b] >= 1
  BY <1>1, <1>4, <1>5, CountedAdding
<1> QED
  BY <1>3, <1>6, <1>8, <1>9 DEF IsCounted, Exact

LEMMA CountedCreateVersion ==
  ASSUME Content!BlobsAssumption, Content!TypeOK, Kept, AddsAreSound, NEW c \in Clients, Content!CreateVersion(c),
         NEW b \in Blobs, Content!LiveBlob(b), IsCounted(b)
  PROVE  IsCounted(b)'
<1>1. /\ flow[c].pc = "version" /\ Busy(c) /\ Adds(c) /\ Content!LiveBlob(flow[c].b)
      /\ flow[c].m \in models
  BY DEF Content!CreateVersion, Content!At, Busy, Adds, Kept, KeptRows, Sane, AddsAreSound
<1>2. flow[c].b = b
  BY <1>1 DEF Kept, KeptRows, OneLiveRow, Content!LiveBlob
<1>3. PICK v \in VersionIds :
         /\ version[v].row = "none"
         /\ version' = [version EXCEPT ![v] = [row |-> "live", m |-> flow[c].m, b |-> flow[c].b]]
         /\ IF flow[c].kind = "fast" THEN Content!Goto(c, "count") ELSE Content!Done(c)
  BY <1>1 DEF Content!CreateVersion
<1>4. refCount' = refCount /\ refCount[b] \in Int
  BY DEF Content!CreateVersion, Content!TypeOK
<1>5. PICK f \in FlowType :
         /\ Moves(c, f)
         /\ IF flow[c].kind = "fast" THEN f.pc = "count" /\ f.b = b ELSE f.pc = "idle"
  <2>1. CASE flow[c].kind = "fast"
    BY <1>2, <1>3, <2>1, Goes DEF Content!PCs
  <2>2. CASE flow[c].kind # "fast"
    BY <1>3, <2>2, Ends
  <2> QED
    BY <2>1, <2>2
<1>6. OnlyMoves(c) /\ flow'[c] = f
  BY <1>5, MovesTo
<1>7. Cardinality(Content!Links(b)') = Cardinality(Content!Links(b)) + 1 /\ Cardinality(Content!Links(b)) \in Nat
  <2>1. v \notin Content!Links(b) /\ v \in Content!Links(b)' /\ \A w \in VersionIds \ {v} : version'[w] = version[w]
    BY <1>2, <1>3 DEF Content!Links, Content!LiveVersions, Content!TypeOK
  <2> QED
    BY <2>1, LinkCounts DEF One
<1>8. /\ IsHolding(flow[c], b) <=> flow[c].kind # "fast"
      /\ ~ IsOwing(flow[c], b)
      /\ ~ IsHolding(f, b)
      /\ IsOwing(f, b) <=> flow[c].kind = "fast"
  BY <1>1, <1>2, <1>5 DEF IsHolding, IsOwing, Adds
<1>9. /\ Cardinality(Holding(b)') + One(flow[c].kind # "fast") = Cardinality(Holding(b))
      /\ Cardinality(Owing(b)') = Cardinality(Owing(b)) + One(flow[c].kind = "fast")
      /\ Cardinality(Owing(b)) \in Nat /\ Cardinality(Holding(b)') \in Nat
  BY <1>6, <1>8, FlowCounts DEF One
<1>10. /\ Releasing(b)' = {} /\ Cardinality(Releasing(b)') = 0
       /\ refCount[b] + Cardinality(Owing(b)) = Cardinality(Content!Links(b)) + Cardinality(Holding(b))
       /\ refCount[b] >= 1
  BY <1>1, <1>5, <1>6, CountedAdding
<1>11. refCount'[b] + Cardinality(Owing(b)')
         = Cardinality(Content!Links(b)') + Cardinality(Holding(b)') + Cardinality(Releasing(b)')
  BY <1>4, <1>7, <1>9, <1>10 DEF One
<1> QED
  BY <1>4, <1>10, <1>11 DEF IsCounted, Exact

LEMMA CountedCreateBlob ==
  ASSUME Content!BlobsAssumption, Content!TypeOK, Kept, NEW c \in Clients, Content!CreateBlob(c),
         NEW b \in Blobs, Content!LiveBlob(b)', Content!LiveBlob(b) => IsCounted(b)
  PROVE  IsCounted(b)'
<1>1. flow[c].pc = "create" /\ Busy(c) /\ Adds(c) /\ flow[c].kind = "upload"
  BY DEF Content!CreateBlob, Content!At, Busy, Adds, Kept, KeptRows, Sane
<1>2. CASE \E a \in Blobs : Content!LiveBlob(a)
  <2>1. Content!Goto(c, "winner") /\ UNCHANGED <<version, blobRow, refCount>>
    BY <1>2 DEF Content!CreateBlob
  <2>2. PICK f \in FlowType : Moves(c, f) /\ f.pc = "winner"
    BY <2>1, Goes DEF Content!PCs
  <2>3. OnlyMoves(c) /\ flow'[c] = f
    BY <2>2, MovesTo
  <2>4. /\ ~ IsHolding(flow[c], b) /\ ~ IsOwing(flow[c], b) /\ ~ IsReleasing(flow[c], b)
        /\ ~ IsHolding(f, b) /\ ~ IsOwing(f, b) /\ ~ IsReleasing(f, b) /\ ~ Removes(c)
        /\ Content!LiveBlob(b)
    BY <1>1, <2>1, <2>2 DEF IsHolding, IsOwing, IsReleasing, Removes, Content!LiveBlob
  <2> QED
    BY <2>1, <2>3, <2>4, CountedFrame
<1>3. CASE \A a \in Blobs : ~ Content!LiveBlob(a)
  <2>1. PICK a \in Blobs : /\ blobRow[a] = "none"
                           /\ blobRow' = [blobRow EXCEPT ![a] = "live"]
                           /\ refCount' = [refCount EXCEPT ![a] = 1]
                           /\ Content!GotoWith(c, "version", a)
    BY <1>3 DEF Content!CreateBlob
  <2>2. a = b /\ refCount'[b] = 1 /\ version' = version
    BY <1>3, <2>1 DEF Content!LiveBlob, Content!TypeOK, Content!CreateBlob
  <2>3. PICK f \in FlowType : Moves(c, f) /\ f.pc = "version" /\ f.kind = "upload" /\ f.b = b
    BY <1>1, <2>1, <2>2, GoesWith DEF Content!PCs
  <2>4. OnlyMoves(c) /\ flow'[c] = f
    BY <2>3, MovesTo
  <2>5. /\ \A d \in Clients : flow[d].b # b
        /\ \A v \in VersionIds : version[v].b # b
    BY <2>1, <2>2 DEF Kept, KeptRows, NewIsUnknown
  <2>6. Content!Links(b)' = {} /\ Holding(b) = {} /\ Owing(b) = {}
    BY <2>2, <2>5 DEF Content!Links, Content!LiveVersions, Holding, Owing, IsHolding, IsOwing
  <2>7. Cardinality(Content!Links(b)') = 0 /\ Cardinality(Holding(b)) = 0 /\ Cardinality(Owing(b)) = 0
    BY <2>6, FS_EmptySet
  <2>8. ~ IsHolding(flow[c], b) /\ ~ IsOwing(flow[c], b) /\ IsHolding(f, b) /\ ~ IsOwing(f, b)
    BY <1>1, <2>3 DEF IsHolding, IsOwing
  <2>9. Cardinality(Holding(b)') = 1 /\ Cardinality(Owing(b)') = 0
    BY <2>4, <2>7, <2>8, FlowCounts DEF One
  <2>10. Releasing(b)' = {} /\ Cardinality(Releasing(b)') = 0
    BY <1>1, <2>3, <2>4, CountedAdding
  <2> QED
    BY <2>2, <2>7, <2>9, <2>10 DEF IsCounted, Exact
<1> QED
  BY <1>2, <1>3

\* While something is deleted nothing is to be linked or to be counted.
LEMMA CountedDeleting ==
  ASSUME Content!BlobsAssumption, Content!TypeOK, Kept, NEW c \in Clients, Busy(c), ~ Adds(c), OnlyMoves(c),
         flow'[c].pc \notin {"version", "count"},
         NEW b \in Blobs
  PROVE  /\ Cardinality(Owing(b)) = 0 /\ Cardinality(Holding(b)) = 0
         /\ Cardinality(Owing(b)') = 0 /\ Cardinality(Holding(b)') = 0
         /\ Cardinality(Content!Links(b)) \in Nat
         /\ Cardinality(Releasing(b)) \in Nat /\ Cardinality(Releasing(b)') \in Nat
         /\ Cardinality(Releasing(b)') + One(IsReleasing(flow[c], b))
              = Cardinality(Releasing(b)) + One(IsReleasing(flow'[c], b))
<1>1. Owing(b) = {} /\ Holding(b) = {}
  BY DeleterStep
<1>2. Owing(b)' = {} /\ Holding(b)' = {}
  BY <1>1 DEF Owing, Holding, IsOwing, IsHolding, OnlyMoves
<1> QED
  BY <1>1, <1>2, FS_EmptySet, FlowCounts, CountsAreNumbers

LEMMA CountedDeleteVersionRow ==
  ASSUME Content!BlobsAssumption, Content!TypeOK, Kept, DeletionKnows,
         NEW c \in Clients, Content!DeleteVersionRow(c),
         NEW b \in Blobs, Content!LiveBlob(b), IsCounted(b)
  PROVE  IsCounted(b)'
<1>1. /\ flow[c].pc = "del_version" /\ Busy(c) /\ flow[c].kind = "delete" /\ ~ Adds(c)
      /\ flow[c].b \in Blobs /\ flow[c].b # NoBlob
      /\ refCount' = refCount /\ refCount[b] \in Int
  BY DEF Content!DeleteVersionRow, Content!At, Busy, Adds, Kept, KeptRows, Sane, DeletionKnows,
         Content!BlobsAssumption, Content!TypeOK
<1>2. \A d \in Clients : Busy(d) => flow[d].kind = "delete"
  BY <1>1 DEF Kept, KeptRows, Compatible, Adds
<1>3. CASE flow[c].v \notin Content!LiveVersions
  <2>1. Content!Done(c) /\ version' = version
    BY <1>3 DEF Content!DeleteVersionRow
  <2>2. PICK f \in FlowType : Moves(c, f) /\ f.pc = "idle"
    BY <2>1, Ends
  <2>3. OnlyMoves(c) /\ flow'[c] = f
    BY <2>2, MovesTo
  <2>4. /\ ~ IsHolding(flow[c], b) /\ ~ IsOwing(flow[c], b) /\ ~ IsReleasing(flow[c], b)
        /\ ~ IsHolding(f, b) /\ ~ IsOwing(f, b) /\ ~ IsReleasing(f, b) /\ ~ Removes(c)
    BY <1>1, <2>2 DEF IsHolding, IsOwing, IsReleasing, Removes
  <2> QED
    BY <1>1, <2>1, <2>3, <2>4, CountedFrame
<1>4. CASE flow[c].v \in Content!LiveVersions
  <2> DEFINE v == flow[c].v
  <2>1. Content!Goto(c, "release") /\ v \in VersionIds
        /\ version' = [version EXCEPT ![v].row = "deleted"]
    BY <1>1, <1>4 DEF Content!DeleteVersionRow, Content!LiveVersions
  <2>2. version[v].b = flow[c].b /\ flow[c].b = b
    BY <1>1, <1>4 DEF DeletionKnows, Content!At, Kept, KeptRows, LiveIsLinked, OneLiveRow, Content!LiveBlob
  <2>3. PICK f \in FlowType : Moves(c, f) /\ f.pc = "release" /\ f.b = b /\ f.kind = "delete"
    BY <1>1, <2>1, <2>2, Goes DEF Content!PCs
  <2>4. OnlyMoves(c) /\ flow'[c] = f
    BY <2>3, MovesTo
  <2>5. PICK w \in VersionIds : w = v
    BY <2>1
  <2>6. Cardinality(Content!Links(b)') + 1 = Cardinality(Content!Links(b)) /\ Cardinality(Content!Links(b)') \in Nat
    <3>1. w \in Content!Links(b) /\ w \notin Content!Links(b)' /\ \A u \in VersionIds \ {w} : version'[u] = version[u]
      BY <1>4, <2>1, <2>2, <2>5 DEF Content!Links, Content!LiveVersions, Content!TypeOK
    <3> QED
      BY <3>1, LinkCounts DEF One
  <2>7. ~ IsReleasing(flow[c], b) /\ IsReleasing(f, b)
    BY <1>1, <2>3 DEF IsReleasing
  <2>8. /\ Cardinality(Owing(b)) = 0 /\ Cardinality(Holding(b)) = 0
        /\ Cardinality(Owing(b)') = 0 /\ Cardinality(Holding(b)') = 0
        /\ Cardinality(Releasing(b)) \in Nat /\ Cardinality(Content!Links(b)) \in Nat
        /\ Cardinality(Releasing(b)') = Cardinality(Releasing(b)) + 1
    BY <1>1, <2>3, <2>4, <2>7, CountedDeleting DEF One
  <2>9. \A d \in Releasing(b) : flow[d].kind = "delete"
    BY <1>2 DEF Releasing, IsReleasing, Busy
  <2>10. \A d \in Releasing(b)' : flow'[d].kind = "delete"
    BY <2>3, <2>4, <2>9 DEF Releasing, OnlyMoves
  <2>11. refCount[b] + Cardinality(Owing(b))
           = Cardinality(Content!Links(b)) + Cardinality(Holding(b)) + Cardinality(Releasing(b))
    BY <2>9 DEF IsCounted, Exact
  <2>12. refCount'[b] + Cardinality(Owing(b)')
           = Cardinality(Content!Links(b)') + Cardinality(Holding(b)') + Cardinality(Releasing(b)')
    BY <1>1, <2>6, <2>8, <2>11
  <2>13. (\E d \in Clients : Removes(d)) => \E d \in Clients : Removes(d)'
    BY <1>1, <2>4 DEF Removes, OnlyMoves
  <2> QED
    BY <1>1, <2>10, <2>12, <2>13 DEF IsCounted, Exact
<1> QED
  BY <1>3, <1>4

\* A deletion of a model is the only one to release.
LEMMA ReleasesAlone ==
  ASSUME Kept, NEW c \in Clients, Busy(c), flow[c].kind = "delete_model", OnlyMoves(c)
  PROVE  \A d \in Clients \ {c} : ~ Busy(d) /\ flow'[d] = flow[d]
BY RunsAlone DEF Kept, KeptRows, OnlyMoves

LEMMA CountedDeleteModelRow ==
  ASSUME Content!BlobsAssumption, Content!TypeOK, Kept, NEW c \in Clients, Content!DeleteModelRow(c),
         NEW b \in Blobs, Content!LiveBlob(b), IsCounted(b)
  PROVE  IsCounted(b)'
<1> DEFINE m == flow[c].m
<1>1. /\ flow[c].pc = "del_model" /\ Busy(c) /\ flow[c].kind = "delete_model" /\ ~ Adds(c)
      /\ refCount' = refCount /\ refCount[b] \in Int /\ flow[c].left \in Nat
      /\ flow[c].left = Cardinality(Mine(m))
      /\ \A v \in Mine(m) : version[v].b = flow[c].b
  BY DEF Content!DeleteModelRow, Content!At, Busy, Adds, Kept, KeptRows, Sane, ModelDeletion, Content!TypeOK
<1>2. PICK f \in FlowType :
        /\ Moves(c, f)
        /\ IF flow[c].left > 0
           THEN f.pc = "release" /\ f.kind = "delete_model" /\ f.b = flow[c].b
                /\ f.left = flow[c].left
           ELSE f.pc = "idle"
  <2>1. CASE flow[c].left > 0
    BY <1>1, <2>1, Goes DEF Content!PCs, Content!DeleteModelRow
  <2>2. CASE ~ (flow[c].left > 0)
    BY <2>2, Ends DEF Content!DeleteModelRow
  <2> QED
    BY <2>1, <2>2
<1>3. OnlyMoves(c) /\ flow'[c] = f
  BY <1>2, MovesTo
<1>4. \A d \in Clients \ {c} : flow[d].pc = "idle" /\ flow'[d].pc = "idle"
  BY <1>1, <1>3, ReleasesAlone DEF Busy
<1>5. Releasing(b) = {} /\ Cardinality(Releasing(b)) = 0 /\ \A d \in Clients : ~ Removes(d)
  <2>1. Releasing(b) = {}
    BY <1>1, <1>4 DEF Releasing, IsReleasing
  <2> QED
    BY <1>1, <1>4, <2>1, FS_EmptySet DEF Removes
<1>6. /\ Cardinality(Owing(b)) = 0 /\ Cardinality(Holding(b)) = 0
      /\ Cardinality(Owing(b)') = 0 /\ Cardinality(Holding(b)') = 0
      /\ Cardinality(Content!Links(b)) \in Nat
  BY <1>1, <1>2, <1>3, CountedDeleting
<1>7. refCount[b] = Cardinality(Content!Links(b)) /\ refCount[b] >= 1
  BY <1>1, <1>5, <1>6 DEF IsCounted, Exact
<1>8. Content!Links(b)' = Content!Links(b) \ Mine(m)
  <2>1. version \in [VersionIds -> VersionType]
    BY Typed DEF RowsType
  <2>2. \A v \in VersionIds : version'[v] =
          IF v \in Mine(m) THEN [version[v] EXCEPT !.row = "deleted"] ELSE version[v]
    BY DEF Content!DeleteModelRow, Mine, Content!LiveVersions
  <2>3. \A v \in VersionIds : version'[v].b = version[v].b
           /\ version'[v].row = IF v \in Mine(m) THEN "deleted" ELSE version[v].row
    BY <2>1, <2>2 DEF VersionType
  <2> QED
    BY <2>3 DEF Content!LiveVersions, Content!Links
<1>9. IsFiniteSet(Mine(m)) /\ IsFiniteSet(Content!Links(b))
  <2>1. Mine(m) \subseteq VersionIds
    BY DEF Mine, Content!LiveVersions
  <2> QED
    BY <2>1, FS_Subset, CountsAreNumbers, FiniteConstants
<1>10. CASE flow[c].left > 0
  <2>1. Mine(m) # {}
    BY <1>1, <1>10, FS_EmptySet
  <2>2. Mine(m) \subseteq Content!Links(b) /\ flow[c].b = b
    BY <1>1, <2>1 DEF Mine, Content!Links, Kept, KeptRows, LiveIsLinked, OneLiveRow, Content!LiveBlob
  <2>3. Cardinality(Content!Links(b)') = Cardinality(Content!Links(b)) - flow[c].left
    <3>1. Content!Links(b) \cap Mine(m) = Mine(m)
      BY <2>2
    <3>2. Cardinality(Content!Links(b) \ Mine(m)) = Cardinality(Content!Links(b)) - Cardinality(Content!Links(b) \cap Mine(m))
      BY <1>9, FS_Difference
    <3> QED
      BY <1>1, <1>8, <3>1, <3>2
  <2>4. Releasing(b)' = {c}
    BY <1>2, <1>3, <1>4, <1>10, <2>2 DEF Releasing, IsReleasing
  <2>5. refCount'[b] = Cardinality(Content!Links(b)') + f.left
    BY <1>1, <1>2, <1>6, <1>7, <1>10, <2>3
  <2> QED
    BY <1>1, <1>2, <1>3, <1>7, <1>10, <2>4, <2>5 DEF IsCounted, Exact
<1>11. CASE ~ (flow[c].left > 0)
  <2>1. Content!Links(b)' = Content!Links(b)
    BY <1>1, <1>8, <1>9, <1>11, FS_EmptySet
  <2>2. Releasing(b)' = {}
    BY <1>2, <1>3, <1>4, <1>11 DEF Releasing, IsReleasing
  <2>3. Cardinality(Releasing(b)') = 0
    BY <2>2, FS_EmptySet
  <2> QED
    BY <1>1, <1>6, <1>7, <2>1, <2>2, <2>3 DEF IsCounted, Exact
<1> QED
  BY <1>10, <1>11

LEMMA CountedRelease ==
  ASSUME Content!BlobsAssumption, Content!TypeOK, Kept, NEW c \in Clients, Content!Release(c),
         NEW b \in Blobs, Content!LiveBlob(b), IsCounted(b)
  PROVE  IsCounted(b)'
<1>1. /\ flow[c].pc = "release" /\ Busy(c) /\ Sane(flow[c]) /\ ~ Adds(c)
      /\ flow[c].kind \in {"delete", "delete_model"} /\ flow[c].left >= 1
      /\ flow[c].left \in Nat
      /\ flow[c].left # 1 => flow[c].kind = "delete_model"
      /\ version' = version /\ refCount[b] \in Int /\ Content!Links(b)' = Content!Links(b)
  BY DEF Content!Release, Content!At, Busy, Adds, Kept, KeptRows, Sane, Content!TypeOK, Content!Links, Content!LiveVersions
<1>2. CASE flow[c].b # b
  <2>1. ~ Content!LiveBlob(flow[c].b)
    BY <1>2 DEF Kept, KeptRows, OneLiveRow, Content!LiveBlob
  <2>2. refCount' = refCount /\ Content!Released(c)
    BY <2>1 DEF Content!Release
  <2>3. PICK f \in FlowType :
            /\ Moves(c, f)
            /\ f.pc = "idle" \/ (f.pc = "release" /\ f.b = flow[c].b)
    BY <1>1, <2>2, IsReleased
  <2>4. OnlyMoves(c) /\ flow'[c] = f
    BY <2>3, MovesTo
  <2>5. /\ ~ IsHolding(flow[c], b) /\ ~ IsOwing(flow[c], b) /\ ~ IsReleasing(flow[c], b)
        /\ ~ IsHolding(f, b) /\ ~ IsOwing(f, b) /\ ~ IsReleasing(f, b) /\ ~ Removes(c)
    BY <1>1, <1>2, <2>3 DEF IsHolding, IsOwing, IsReleasing, Removes
  <2> QED
    BY <1>1, <2>2, <2>4, <2>5, CountedFrame
<1>3. CASE flow[c].b = b
  <2>1. refCount'[b] = refCount[b] - 1
    BY <1>3 DEF Content!Release, Content!TypeOK
  <2>2. PICK f \in FlowType :
          /\ Moves(c, f)
          /\ \/ refCount[b] <= 1 /\ f.pc = "del_file"
             \/ refCount[b] > 1 /\ f.pc = "idle" /\ flow[c].left = 1
             \/ /\ refCount[b] > 1 /\ f.pc = "release" /\ f.b = b
                /\ f.kind = flow[c].kind /\ f.left = flow[c].left - 1 /\ flow[c].left # 1
    <3>1. CASE refCount[b] <= 1
      BY <1>3, <3>1, Goes DEF Content!Release, Content!PCs
    <3>2. CASE ~ (refCount[b] <= 1)
      <4>1. Content!Released(c) /\ refCount[b] > 1
        BY <1>1, <1>3, <3>2 DEF Content!Release
      <4> QED
        BY <1>1, <1>3, <4>1, IsReleased
    <3> QED
      BY <3>1, <3>2
  <2>3. OnlyMoves(c) /\ flow'[c] = f
    BY <2>2, MovesTo
  <2>4. IsReleasing(flow[c], b) /\ c \in Releasing(b)
    BY <1>1, <1>3 DEF IsReleasing, Releasing
  <2>5. /\ Cardinality(Owing(b)) = 0 /\ Cardinality(Holding(b)) = 0
        /\ Cardinality(Owing(b)') = 0 /\ Cardinality(Holding(b)') = 0
        /\ Cardinality(Releasing(b)) \in Nat /\ Cardinality(Content!Links(b)) \in Nat
        /\ Cardinality(Releasing(b)') \in Nat
        /\ Cardinality(Releasing(b)') + 1 = Cardinality(Releasing(b)) + One(IsReleasing(f, b))
    <3>1. f.pc \notin {"version", "count"}
      BY <2>2
    <3> QED
      BY <1>1, <2>3, <2>4, <3>1, CountedDeleting DEF One
  <2>6. CASE flow[c].kind = "delete"
    <3>1. \A d \in Clients : Busy(d) => flow[d].kind = "delete"
      BY <1>1, <2>6 DEF Kept, KeptRows, Compatible, Adds
    <3>2. f.pc # "release"
      BY <1>1, <2>2, <2>6
    <3>3. \A d \in Releasing(b) : flow[d].kind = "delete"
      BY <3>1 DEF Releasing, IsReleasing, Busy
    <3>4. \A d \in Releasing(b)' : flow'[d].kind = "delete"
      BY <2>3, <3>2, <3>3 DEF Releasing, IsReleasing, OnlyMoves
    <3>5. refCount[b] = Cardinality(Content!Links(b)) + Cardinality(Releasing(b))
      BY <1>1, <2>5, <3>3 DEF IsCounted, Exact
    <3>6. refCount'[b] + Cardinality(Owing(b)')
            = Cardinality(Content!Links(b)') + Cardinality(Holding(b)') + Cardinality(Releasing(b)')
      <4>1. ~ IsReleasing(f, b)
        BY <3>2 DEF IsReleasing
      <4> QED
        BY <1>1, <2>1, <2>5, <3>5, <4>1 DEF One
    <3>7. refCount'[b] >= 1 \/ Removes(c)'
      BY <1>1, <2>1, <2>2, <2>3 DEF Removes
    <3> QED
      BY <3>4, <3>6, <3>7 DEF IsCounted, Exact
  <2>7. CASE flow[c].kind = "delete_model"
    <3>1. \A d \in Clients \ {c} : flow[d].pc = "idle" /\ flow'[d].pc = "idle"
      BY <1>1, <2>3, <2>7, ReleasesAlone DEF Busy
    <3>2. refCount[b] = Cardinality(Content!Links(b)) + flow[c].left
      BY <2>4, <2>7 DEF IsCounted, Exact
    <3>3. refCount'[b] >= 1 \/ Removes(c)'
      BY <1>1, <2>1, <2>2, <2>3 DEF Removes
    <3>4. CASE f.pc = "release"
      <4>1. Releasing(b)' = {c}
        BY <2>2, <2>3, <3>1, <3>4 DEF Releasing, IsReleasing
      <4>2. refCount'[b] = Cardinality(Content!Links(b)') + f.left /\ f.kind = "delete_model"
        BY <1>1, <2>1, <2>2, <2>5, <2>7, <3>2, <3>4
      <4> QED
        BY <2>3, <3>3, <4>1, <4>2 DEF IsCounted, Exact
    <3>5. CASE f.pc # "release"
      <4>1. Releasing(b)' = {}
        BY <2>3, <3>1, <3>5 DEF Releasing, IsReleasing
      <4>2. Cardinality(Releasing(b)') = 0
        BY <4>1, FS_EmptySet
      <4>3. flow[c].left = 1
        BY <1>1, <2>2, <2>5, <3>2, <3>5
      <4>4. refCount'[b] = Cardinality(Content!Links(b)')
        BY <1>1, <2>1, <2>5, <3>2, <4>3
      <4> QED
        BY <1>1, <2>5, <3>3, <4>1, <4>2, <4>4 DEF IsCounted, Exact
    <3> QED
      BY <3>4, <3>5
  <2> QED
    BY <1>1, <2>6, <2>7
<1> QED
  BY <1>2, <1>3

LEMMA NothingLeaksStep ==
  ASSUME Content!BlobsAssumption, Content!TypeOK, Kept, AddsAreSound, DeletionKnows, FileIsGone, NothingLeaks,
         Content!Next
  PROVE  NothingLeaks'
<1>1. SUFFICES ASSUME faults' = 0 PROVE NothingLeaks'
  BY DEF NothingLeaks
<1>2. faults = 0 /\ ~ Content!Crash /\ \A c \in Clients : ~ Content!CreateVersionFails(c)
  <2>1. faults' = faults \/ faults' = faults + 1
    BY DEF Content!Next, Content!Upload, Content!Link, Content!Promote, Content!CreateBlob, Content!FindWinner, Content!CreateVersion,
           Content!CreateVersionFails, Content!FastImport, Content!CountLink, Content!DeleteVersion, Content!DeleteVersionRow,
           Content!DeleteModel, Content!DeleteModelRow, Content!Release, Content!RemoveFile, Content!RemoveRow, Content!Crash
  <2>2. faults \in Nat
    BY DEF Content!TypeOK, Content!BlobsAssumption
  <2> QED
    BY <1>1, <2>1, <2>2 DEF Content!Crash, Content!CreateVersionFails
<1>3. FileIsOwned'
  BY <1>1, <1>2, FileIsOwnedStep DEF NothingLeaks
<1>4. SUFFICES ASSUME NEW b \in Blobs, Content!LiveBlob(b)' PROVE IsCounted(b)'
  BY <1>3 DEF NothingLeaks
<1>5. Content!LiveBlob(b) => IsCounted(b)
  BY <1>2 DEF NothingLeaks
<1>6. ASSUME NEW c \in Clients, OnlyMoves(c), UNCHANGED <<version, blobRow, refCount>>,
             flow[c].pc \notin {"version", "count", "release"},
             flow'[c].pc = "version" => flow'[c].kind # "upload",
             flow'[c].pc \notin {"count", "release"},
             Removes(c) => Removes(c)'
      PROVE  IsCounted(b)'
  <2>1. /\ ~ IsHolding(flow[c], b) /\ ~ IsOwing(flow[c], b) /\ ~ IsReleasing(flow[c], b)
        /\ ~ IsHolding(flow'[c], b) /\ ~ IsOwing(flow'[c], b) /\ ~ IsReleasing(flow'[c], b)
    BY <1>6 DEF IsHolding, IsOwing, IsReleasing
  <2>2. IsCounted(b)
    BY <1>4, <1>5, <1>6 DEF Content!LiveBlob
  <2> QED
    BY <1>6, <2>1, <2>2, CountedFrame
<1>7. ASSUME NEW c \in Clients,
             Content!Upload(c) \/ Content!FastImport(c) \/ Content!DeleteVersion(c) \/ Content!DeleteModel(c)
      PROVE  IsCounted(b)'
  BY <1>6, <1>7, Beginning DEF Removes
<1>8. ASSUME NEW c \in Clients, Content!Promote(c) PROVE IsCounted(b)'
  <2>1. PICK f : Moves(c, f) /\ f.pc = "create"
    BY <1>8, Goes DEF Content!Promote, Content!PCs
  <2> QED
    BY <1>6, <1>8, <2>1, MovesTo DEF Content!Promote, Content!At, Removes
<1>9. ASSUME NEW c \in Clients, Content!FindWinner(c) PROVE IsCounted(b)'
  <2>1. PICK f : Moves(c, f) /\ f.pc \in {"link", "idle"}
    BY <1>9, GoesWith, Ends DEF Content!FindWinner, Content!PCs
  <2> QED
    BY <1>6, <1>9, <2>1, MovesTo DEF Content!FindWinner, Content!At, Removes
<1>10. ASSUME NEW c \in Clients, Content!RemoveFile(c) PROVE IsCounted(b)'
  <2>1. PICK f : Moves(c, f) /\ f.pc = "del_row"
    BY <1>10, Goes DEF Content!RemoveFile, Content!PCs
  <2> QED
    BY <1>6, <1>10, <2>1, MovesTo DEF Content!RemoveFile, Content!At, Removes
<1>11. ASSUME NEW c \in Clients, Content!CreateBlob(c) PROVE IsCounted(b)'
  BY <1>4, <1>5, <1>11, CountedCreateBlob
<1>12. ASSUME NEW c \in Clients,
              \/ Content!Link(c) \/ Content!CreateVersion(c) \/ Content!CountLink(c)
              \/ Content!DeleteVersionRow(c) \/ Content!DeleteModelRow(c) \/ Content!Release(c)
       PROVE  IsCounted(b)'
  <2>1. Content!LiveBlob(b)
    BY <1>4, <1>12 DEF Content!Link, Content!CreateVersion, Content!CountLink, Content!DeleteVersionRow, Content!DeleteModelRow,
                       Content!Release, Content!LiveBlob
  <2> QED
    BY <1>5, <1>12, <2>1, CountedLink, CountedCreateVersion, CountedCountLink,
       CountedDeleteVersionRow, CountedDeleteModelRow, CountedRelease
<1>13. ASSUME NEW c \in Clients, Content!RemoveRow(c) PROVE IsCounted(b)'
  \* The only live row is the one removed.
  <2>1. Content!LiveBlob(flow[c].b)
    BY <1>13 DEF Content!RemoveRow, Content!At, Kept, KeptRows, RemovalIsSafe, Removes
  <2>2. ~ Content!LiveBlob(b)'
    BY <1>13, <2>1 DEF Content!RemoveRow, Kept, KeptRows, OneLiveRow, Content!LiveBlob, Content!TypeOK
  <2> QED
    BY <1>4, <2>2
<1> QED
  BY <1>2, <1>7, <1>8, <1>9, <1>10, <1>11, <1>12, <1>13 DEF Content!Next

\* The invariant holds first, after each step, and always.
LEMMA BlobsInit ==
  ASSUME Content!BlobsAssumption, Content!Init
  PROVE  BlobsInv
<1>1. /\ Content!Idle \in FlowType /\ Content!Idle.pc = "idle" /\ Content!Idle.b = NoBlob /\ Sane(Content!Idle)
      /\ Content!AnyModel \in Models
  BY IdleIs, IdleFits DEF Content!AnyModel, Content!BlobsAssumption
<1>2. Content!TypeOK
  <2>1. flow \in [Clients -> FlowType]
    BY <1>1 DEF Content!Init
  <2>2. version \in [VersionIds -> VersionType]
    BY <1>1 DEF Content!Init, VersionType
  <2>3. models \subseteq Models /\ refCount \in [Blobs -> Int] /\ file \in BOOLEAN
        /\ blobRow \in [Blobs -> {"none", "live", "deleted"}] /\ faults \in 0..MaxFaults
    <3>1. models = Models /\ faults = 0
      BY DEF Content!Init
    <3>2. refCount \in [Blobs -> Int]
      BY DEF Content!Init
    <3>3. blobRow \in [Blobs -> {"none", "live", "deleted"}]
      BY DEF Content!Init
    <3>4. MaxFaults \in Nat
      BY DEF Content!BlobsAssumption
    <3>5. file \in BOOLEAN
      BY Zenon DEF Content!Init
    <3> QED
      BY <3>1, <3>2, <3>3, <3>4, <3>5
  <2> QED
    BY <2>1, <2>2, <2>3, Typed DEF RowsType
<1>3. /\ \A c \in Clients : flow[c].pc = "idle" /\ flow[c].b = NoBlob /\ Sane(flow[c])
      /\ \A v \in VersionIds : version[v].row = "none" /\ version[v].b = NoBlob
      /\ \A b : ~ Content!LiveBlob(b)
      /\ Content!LiveVersions = {} /\ ~ file
  BY <1>1 DEF Content!Init, Content!LiveBlob, Content!LiveVersions
<1>4. KeptRows
  BY <1>3 DEF KeptRows, Compatible, Busy, OneLiveRow, NewIsUnknown, LiveIsLinked, CountsCover,
              ModelDeletion, RemovalIsSafe, Removes, Content!BlobsAssumption
<1>5. FileIsThere /\ AddsAreSound /\ DeletionKnows /\ FileIsGone /\ NothingLeaks
  BY <1>3 DEF FileIsThere, AddsAreSound, DeletionKnows, FileIsGone, NothingLeaks, FileIsOwned,
              Content!At, Busy
<1> QED
  BY <1>2, <1>4, <1>5 DEF BlobsInv, Kept

LEMMA BlobsStep ==
  ASSUME Content!BlobsAssumption, Serialised, BlobsInv, [Content!Next]_blobVars
  PROVE  BlobsInv'
<1>1. CASE Content!Next
  <2>1. Content!TypeOK /\ Kept /\ AddsAreSound /\ DeletionKnows /\ FileIsGone /\ NothingLeaks
    BY DEF BlobsInv
  <2>2. Content!TypeOK'
    BY <1>1, <2>1, BlobsTypeStep DEF Kept, KeptRows
  <2>3. Kept'
    BY <1>1, <2>1, KeptUpload, KeptLink, KeptPromote, KeptCreateBlob, KeptFindWinner,
       KeptCreateVersion, KeptCreateVersionFails, KeptFastImport, KeptCountLink,
       KeptDeleteVersion, KeptDeleteVersionRow, KeptDeleteModel, KeptDeleteModelRow,
       KeptRelease, KeptRemoveFile, KeptRemoveRow, KeptCrash DEF Content!Next
  <2>4. AddsAreSound' /\ DeletionKnows' /\ FileIsGone' /\ NothingLeaks'
    BY <1>1, <2>1, SoundStep, DeletionKnowsStep, FileIsGoneStep, NothingLeaksStep
  <2> QED
    BY <2>2, <2>3, <2>4 DEF BlobsInv
<1>2. CASE UNCHANGED blobVars
  <2>1. models' = models /\ version' = version /\ blobRow' = blobRow /\ refCount' = refCount
        /\ file' = file /\ flow' = flow /\ faults' = faults
    BY <1>2 DEF blobVars
  <2>2. Content!TypeOK' /\ FileIsThere' /\ AddsAreSound' /\ DeletionKnows' /\ FileIsGone'
    BY <2>1 DEF BlobsInv, Content!TypeOK, Kept, FileIsThere, AddsAreSound, DeletionKnows, FileIsGone,
                Content!LiveBlob, Content!LiveVersions, Content!At, Busy, Adds
  <2>3. /\ \A b : Content!Links(b)' = Content!Links(b) /\ Holding(b)' = Holding(b) /\ Owing(b)' = Owing(b)
                  /\ Releasing(b)' = Releasing(b) /\ (Content!LiveBlob(b)' <=> Content!LiveBlob(b))
        /\ \A m : Mine(m)' = Mine(m)
    BY <2>1 DEF Content!Links, Holding, Owing, Releasing, Content!LiveBlob, Content!LiveVersions, Mine
  <2>4. /\ Compatible' /\ OneLiveRow' /\ NewIsUnknown' /\ LiveIsLinked' /\ CountsCover'
        /\ \A c \in Clients : ModelDeletion(c)'
        /\ RemovalIsSafe' /\ (\A c \in Clients : Sane(flow[c]))'
    BY <2>1, <2>3 DEF BlobsInv, Kept, KeptRows, Compatible, OneLiveRow, NewIsUnknown,
       LiveIsLinked, CountsCover, ModelDeletion, RemovalIsSafe, Removes, Busy, Adds, Content!LiveVersions
  <2>5. NothingLeaks'
    BY <2>1, <2>3 DEF BlobsInv, NothingLeaks, FileIsOwned, IsCounted, Exact, Removes, Content!At
  <2> QED
    BY <2>2, <2>4, <2>5 DEF BlobsInv, Kept, KeptRows
<1> QED
  BY <1>1, <1>2

LEMMA BlobsInvAlways ==
  ASSUME Content!BlobsAssumption, Serialised
  PROVE  Content!Spec => []BlobsInv
<1>1. Content!Init => BlobsInv
  BY BlobsInit
<1>2. BlobsInv /\ [Content!Next]_blobVars => BlobsInv'
  BY BlobsStep
<1> QED
  BY <1>1, <1>2, PTL DEF Content!Spec, Content!vars, blobVars

\* A version that is there has its content row and its file.
LEMMA VersionsHaveContent ==
  ASSUME BlobsInv
  PROVE  Content!VersionHasContent
<1>1. ASSUME NEW v \in Content!LiveVersions PROVE Content!LiveBlob(version[v].b) /\ file
  <2>1. Content!LiveBlob(version[v].b) /\ version[v].b \in Blobs
    BY DEF BlobsInv, Kept, KeptRows, LiveIsLinked, Content!LiveBlob
  <2>2. \A c \in Clients : ~ Content!At(c, "del_row")
    <3>1. SUFFICES ASSUME NEW c \in Clients, Content!At(c, "del_row") PROVE FALSE
      OBVIOUS
    <3>2. Content!LiveBlob(flow[c].b) /\ Content!Links(flow[c].b) = {}
      BY <3>1 DEF BlobsInv, Kept, KeptRows, RemovalIsSafe, Removes, Content!At
    <3>3. flow[c].b = version[v].b
      BY <2>1, <3>2 DEF BlobsInv, Kept, KeptRows, OneLiveRow, Content!LiveBlob
    <3> QED
      BY <3>2, <3>3 DEF Content!Links
  <2> QED
    BY <2>1, <2>2 DEF BlobsInv, Kept, FileIsThere
<1> QED
  BY <1>1 DEF Content!VersionHasContent

\* What the theorems on the contents need of it.
LEMMA ReferencesAreCounted ==
  ASSUME Content!BlobsAssumption, BlobsInv
  PROVE  Content!RefsAreCounted
<1>1. SUFFICES ASSUME \A c \in Clients : Content!At(c, "idle") PROVE Content!RefsAreCounted
  BY DEF Content!RefsAreCounted
<1>2. \A b \in Blobs : /\ Holding(b) = {} /\ Owing(b) = {} /\ Releasing(b) = {}
                       /\ Cardinality(Content!Links(b)) \in Nat /\ refCount[b] \in Int
  BY <1>1, CountsAreNumbers
     DEF Holding, Owing, Releasing, IsHolding, IsOwing, IsReleasing, Content!At, BlobsInv, Content!TypeOK
<1>3. Cardinality({}) = 0
  BY FS_EmptySet
<1>4. \A b \in Blobs : Content!LiveBlob(b) => refCount[b] >= Cardinality(Content!Links(b))
  BY <1>2, <1>3 DEF BlobsInv, Kept, KeptRows, CountsCover
<1>5. ASSUME faults = 0
      PROVE  /\ \A b \in Blobs : Content!LiveBlob(b) => refCount[b] = Cardinality(Content!Links(b))
             /\ file <=> Content!LiveVersions # {}
             /\ file <=> \E b \in Blobs : Content!LiveBlob(b)
  <2>1. \A c \in Clients : ~ Removes(c) /\ ~ Content!At(c, "create") /\ ~ Content!At(c, "del_row")
    BY <1>1 DEF Removes, Content!At
  <2>2. ASSUME NEW b \in Blobs, Content!LiveBlob(b)
        PROVE  refCount[b] = Cardinality(Content!Links(b)) /\ refCount[b] >= 1
    <3>1. IsCounted(b)
      BY <1>5, <2>2 DEF BlobsInv, NothingLeaks
    <3>2. refCount[b] >= 1
      BY <2>1, <3>1 DEF IsCounted
    <3>3. refCount[b] + Cardinality(Owing(b))
            = Cardinality(Content!Links(b)) + Cardinality(Holding(b)) + Cardinality(Releasing(b))
      BY <1>2, <3>1 DEF IsCounted, Exact
    <3> QED
      BY <1>2, <1>3, <3>2, <3>3
  <2>3. file <=> \E b \in Blobs : Content!LiveBlob(b)
    BY <1>5, <2>1 DEF BlobsInv, NothingLeaks, FileIsOwned, Kept, FileIsThere
  <2>4. (\E b \in Blobs : Content!LiveBlob(b)) => Content!LiveVersions # {}
    <3>1. SUFFICES ASSUME NEW b \in Blobs, Content!LiveBlob(b) PROVE Content!LiveVersions # {}
      OBVIOUS
    <3>2. Content!Links(b) # {}
      BY <1>3, <2>2, <3>1
    <3> QED
      BY <3>2 DEF Content!Links
  <2>5. Content!LiveVersions # {} => \E b \in Blobs : Content!LiveBlob(b)
    BY DEF BlobsInv, Kept, KeptRows, LiveIsLinked, Content!LiveBlob
  <2> QED
    BY <2>2, <2>3, <2>4, <2>5
<1> QED
  BY <1>4, <1>5 DEF Content!RefsAreCounted, Content!Cardinality, Cardinality

LEMMA LiveContentStays ==
  ASSUME BlobsInv, [Content!Next]_blobVars
  PROVE  file /\ ~ file' => \A b \in Blobs : Content!LiveBlob(b) => Content!Links(b) = {}
<1>1. SUFFICES ASSUME file, ~ file', NEW b \in Blobs, Content!LiveBlob(b) PROVE Content!Links(b) = {}
  OBVIOUS
<1>2. PICK c \in Clients : Content!RemoveFile(c)
  BY <1>1 DEF Content!Next, blobVars, Content!Upload, Content!Link, Content!Promote, Content!CreateBlob, Content!FindWinner, Content!CreateVersion,
     Content!CreateVersionFails, Content!FastImport, Content!CountLink, Content!DeleteVersion, Content!DeleteVersionRow, Content!DeleteModel,
     Content!DeleteModelRow, Content!Release, Content!RemoveRow, Content!Crash
<1>3. Content!LiveBlob(flow[c].b) /\ Content!Links(flow[c].b) = {}
  BY <1>2 DEF Content!RemoveFile, Content!At, BlobsInv, Kept, KeptRows, RemovalIsSafe, Removes
<1>4. flow[c].b = b
  BY <1>1, <1>3 DEF BlobsInv, Kept, KeptRows, OneLiveRow, Content!LiveBlob
<1> QED
  BY <1>3, <1>4

-----------------------------------------------------------------------------
(* The chunked upload.  Inductive: while a complete merges nothing arrives,  *)
(* and nobody else merges; what its stream has written is what it hashed;    *)
(* the temporary file is no version's file, and an inode that is in use was  *)
(* opened by the complete it is named for, so no complete creates it again.  *)

\* What may get into a version.
Fits(b) == b = "good" \/ (b = "bad" /\ ~ checked)

\* A complete past its checks.
Works(c) == upPc[c] \in {"read", "write", "remove", "store", "version", "session"}

\* A part that arrives shows up cut short until it is all there.
PartsArrive ==
    \A p \in Upload_!Parts :
       /\ putting[p] # "none" => upPart[p] = "cut" /\ Fits(putting[p])
       /\ upPart[p] \in {"none", "cut"} \/ Fits(upPart[p])

\* Completes do not overlap, and no part arrives while one merges.
OneMerges ==
    \A c, d \in Completes : Works(c) /\ Works(d) => c = d

PartsRest ==
    \A c \in Completes : Works(c) => \A p \in Upload_!Parts : upPart[p] # "cut"

\* Up to where the stream is, the hash has read parts that fit;
HashFits(c) ==
    /\ upPc[c] = "new" => next[c] = 1 /\ sink[c] = NoFile /\ hash[c] = Upload_!Nothing
    /\ upPc[c] = "read" => \A p \in Upload_!Parts :
          IF p < next[c] THEN Fits(hash[c][p]) ELSE hash[c][p] = "none"
    /\ upPc[c] \in {"write", "remove"} =>
          /\ next[c] <= PartsTotal
          /\ \A p \in Upload_!Parts : IF p <= next[c] THEN Fits(hash[c][p]) ELSE hash[c][p] = "none"
    /\ upPc[c] \in {"store", "version", "session"} => \A p \in Upload_!Parts : Fits(hash[c][p])

\* what the stream wrote is what it hashed;
StreamIsHashed(c) ==
    /\ upPc[c] \in {"read", "write"} /\ sink[c] = NoFile => next[c] = 1
    /\ upPc[c] \in {"remove", "store"} => sink[c] # NoFile
    /\ upPc[c] \in {"read", "write", "remove", "store"} /\ sink[c] # NoFile =>
          /\ tmp = sink[c]
          /\ \A p \in Upload_!Parts : bytes[sink[c]][p] =
                IF upPc[c] = "write" /\ p = next[c] THEN "none" ELSE hash[c][p]

\* a stored file has its hash's bytes and is not the temporary one;
FilesAreKept ==
    /\ \A h \in Upload_!Contents : content[h] # NoFile =>
          bytes[content[h]] = h /\ content[h] # tmp /\ sink[content[h]] # NoFile
    /\ tmp # NoFile => sink[tmp] # NoFile

\* and a version's hash has a stored file, made of parts that fit.
VersionsFit ==
    /\ \A c \in Completes : upPc[c] = "version" => content[hash[c]] # NoFile
    /\ \A h \in uploaded : content[h] # NoFile /\ \A p \in Upload_!Parts : Fits(h[p])

\* The inductive invariant.
UploadInv ==
    /\ Upload_!TypeOK
    /\ PartsArrive
    /\ OneMerges
    /\ PartsRest
    /\ \A c \in Completes : HashFits(c)
    /\ \A c \in Completes : StreamIsHashed(c)
    /\ FilesAreKept
    /\ VersionsFit

\* The file that has no part yet.
LEMMA NothingIs == Upload_!Nothing \in Upload_!Contents /\ \A p \in Upload_!Parts : Upload_!Nothing[p] = "none"
BY DEF Upload_!Nothing, Upload_!Contents, Upload_!Bytes

\* The invariant holds first, and is kept action by action.
LEMMA UploadInit == ASSUME Upload_!UploadAssumption, Upload_!Init PROVE UploadInv
<1>1. Upload_!TypeOK
  <2>1. /\ upPart \in Upload_!Contents /\ putting \in Upload_!Contents /\ session \in {"none", "open", "gone"}
        /\ hash \in [Completes -> Upload_!Contents] /\ bytes \in [Completes -> Upload_!Contents]
        /\ upPc \in [Completes -> Upload_!PCs] /\ sink \in [Completes -> Completes \cup {NoFile}]
        /\ content \in [Upload_!Contents -> Completes \cup {NoFile}] /\ uploaded \subseteq Upload_!Contents
    BY NothingIs DEF Upload_!Init, Upload_!PCs
  <2>2. next \in [Completes -> 1..PartsTotal + 1] /\ upCrashes \in 0..MaxCrashes
    BY DEF Upload_!Init, Upload_!UploadAssumption
  <2>3. checked \in BOOLEAN /\ tmp \in Completes \cup {NoFile}
    BY DEF Upload_!Init
  <2> QED
    BY <2>1, <2>2, <2>3 DEF Upload_!TypeOK
<1>2. \A p \in Upload_!Parts : upPart[p] = "none" /\ putting[p] = "none"
  BY NothingIs DEF Upload_!Init
<1>3. /\ \A c \in Completes : upPc[c] = "new" /\ next[c] = 1 /\ sink[c] = NoFile /\ hash[c] = Upload_!Nothing
      /\ \A h \in Upload_!Contents : content[h] = NoFile
      /\ tmp = NoFile /\ uploaded = {}
  BY DEF Upload_!Init
<1> QED
  BY <1>1, <1>2, <1>3 DEF UploadInv, PartsArrive, OneMerges, PartsRest, HashFits, StreamIsHashed,
     FilesAreKept, VersionsFit, Works

LEMMA MergingIs ==
  ASSUME Upload_!TypeOK
  PROVE  Upload_!Merging <=> \E c \in Completes : Works(c)
BY DEF Upload_!Merging, Works, Upload_!TypeOK, Upload_!PCs

LEMMA UploadCreate == ASSUME UploadInv, Upload_!Create PROVE UploadInv'
<1>1. session' = "open" /\ UNCHANGED <<checked, upPart, putting, Upload_!merge, upCrashes>>
  BY DEF Upload_!Create
<1>2. UNCHANGED <<upPc, next, sink, hash, tmp, bytes, content, uploaded>>
  BY <1>1 DEF Upload_!merge
<1>3. Upload_!TypeOK'
  BY <1>1, <1>2 DEF UploadInv, Upload_!TypeOK
<1> QED
  BY <1>1, <1>2, <1>3 DEF UploadInv, PartsArrive, OneMerges, PartsRest, HashFits, StreamIsHashed,
     FilesAreKept, VersionsFit, Works, Fits

LEMMA UploadPut ==
  ASSUME ~ OverlapUpload, UploadInv, NEW p \in Upload_!Parts, NEW b \in {"good", "bad"}, Upload_!Put(p, b)
  PROVE  UploadInv'
<1>1. /\ upPart' = [upPart EXCEPT ![p] = "cut"] /\ putting' = [putting EXCEPT ![p] = b]
      /\ UNCHANGED <<session, checked, upCrashes, upPc, next, sink, hash, tmp, bytes, content, uploaded>>
      /\ Fits(b)
  BY DEF Upload_!Put, Upload_!upload, Upload_!merge, Fits
<1>2. \A c \in Completes : ~ Works(c)
  BY MergingIs DEF Upload_!Put, UploadInv
<1>3. Upload_!TypeOK'
  BY <1>1 DEF UploadInv, Upload_!TypeOK, Upload_!Contents, Upload_!Bytes
<1>4. /\ upPart'[p] = "cut" /\ putting'[p] = b
      /\ \A q \in Upload_!Parts \ {p} : upPart'[q] = upPart[q] /\ putting'[q] = putting[q]
  BY <1>1 DEF UploadInv, Upload_!TypeOK, Upload_!Contents
<1>5. PartsArrive'
  BY <1>1, <1>4 DEF UploadInv, PartsArrive, Fits
<1>6. OneMerges' /\ PartsRest'
  BY <1>1, <1>2 DEF OneMerges, PartsRest, Works
<1> QED
  BY <1>1, <1>3, <1>5, <1>6 DEF UploadInv, HashFits, StreamIsHashed, FilesAreKept, VersionsFit, Fits

LEMMA UploadPutEnds ==
  ASSUME UploadInv, NEW p \in Upload_!Parts, Upload_!PutEnds(p)
  PROVE  UploadInv'
<1>1. /\ upPart' = [upPart EXCEPT ![p] = putting[p]] /\ putting' = [putting EXCEPT ![p] = "none"]
      /\ UNCHANGED <<session, checked, upCrashes, upPc, next, sink, hash, tmp, bytes, content, uploaded>>
      /\ putting[p] # "none"
  BY DEF Upload_!PutEnds, Upload_!upload, Upload_!merge
<1>2. upPart[p] = "cut" /\ Fits(putting[p])
  BY <1>1 DEF UploadInv, PartsArrive
<1>3. \A c \in Completes : ~ Works(c)
  BY <1>2 DEF UploadInv, PartsRest
<1>4. Upload_!TypeOK'
  BY <1>1 DEF UploadInv, Upload_!TypeOK, Upload_!Contents, Upload_!Bytes
<1>5. /\ upPart'[p] = putting[p] /\ putting'[p] = "none"
      /\ \A q \in Upload_!Parts \ {p} : upPart'[q] = upPart[q] /\ putting'[q] = putting[q]
  BY <1>1 DEF UploadInv, Upload_!TypeOK, Upload_!Contents
<1>6. PartsArrive'
  BY <1>1, <1>2, <1>5 DEF UploadInv, PartsArrive, Fits
<1>7. OneMerges' /\ PartsRest'
  BY <1>1, <1>3 DEF OneMerges, PartsRest, Works
<1> QED
  BY <1>1, <1>4, <1>6, <1>7 DEF UploadInv, HashFits, StreamIsHashed, FilesAreKept, VersionsFit, Fits

LEMMA UploadComplete ==
  ASSUME ~ OverlapUpload, UploadInv, NEW c \in Completes, Upload_!Complete(c)
  PROVE  UploadInv'
<1>1. /\ upPc[c] = "new" /\ upPc' = [upPc EXCEPT ![c] = "read"]
      /\ UNCHANGED <<session, checked, upCrashes, upPart, putting, next, sink, hash, tmp, bytes, content,
                     uploaded>>
      /\ \A p \in Upload_!Parts : upPart[p] # "cut"
  BY DEF Upload_!Complete, Upload_!upload
<1>2. \A d \in Completes : ~ Works(d)
  BY MergingIs DEF Upload_!Complete, UploadInv
<1>3. Upload_!TypeOK'
  BY <1>1 DEF UploadInv, Upload_!TypeOK, Upload_!PCs
<1>4. upPc'[c] = "read" /\ \A d \in Completes \ {c} : upPc'[d] = upPc[d]
  BY <1>1 DEF UploadInv, Upload_!TypeOK
<1>5. PartsArrive' /\ PartsRest' /\ FilesAreKept'
  BY <1>1 DEF UploadInv, PartsArrive, PartsRest, FilesAreKept, Fits
<1>6. OneMerges'
  BY <1>2, <1>4 DEF OneMerges, Works
<1>7. next[c] = 1 /\ sink[c] = NoFile /\ \A p \in Upload_!Parts : hash[c][p] = "none" /\ ~ (p < 1)
  BY <1>1, NothingIs DEF UploadInv, HashFits, Upload_!Parts
<1>8. ASSUME NEW d \in Completes PROVE HashFits(d)' /\ StreamIsHashed(d)'
  <2>1. CASE d = c
    BY <1>1, <1>4, <1>7, <2>1 DEF HashFits, StreamIsHashed
  <2>2. CASE d # c
    BY <1>1, <1>4, <2>2 DEF UploadInv, HashFits, StreamIsHashed, Fits
  <2> QED
    BY <2>1, <2>2
<1>9. VersionsFit'
  BY <1>1, <1>4 DEF UploadInv, VersionsFit, Fits
<1> QED
  BY <1>3, <1>5, <1>6, <1>8, <1>9 DEF UploadInv

\* The others do not work while one complete does, and stay as they are.
LEMMA OthersRest ==
  ASSUME UploadInv, NEW c \in Completes, Works(c), UNCHANGED checked,
         \A d \in Completes \ {c} :
            upPc'[d] = upPc[d] /\ next'[d] = next[d] /\ sink'[d] = sink[d] /\ hash'[d] = hash[d]
  PROVE  /\ OneMerges'
         /\ \A d \in Completes \ {c} : HashFits(d)' /\ StreamIsHashed(d)' /\ ~ Works(d) /\ ~ Works(d)'
<1>1. \A d \in Completes \ {c} : ~ Works(d)
  BY DEF UploadInv, OneMerges
<1>2. \A d \in Completes \ {c} : ~ Works(d)'
  BY <1>1 DEF Works
<1>3. \A d \in Completes \ {c} : HashFits(d)' /\ StreamIsHashed(d)'
  BY <1>1, <1>2 DEF UploadInv, HashFits, StreamIsHashed, Works
<1> QED
  BY <1>1, <1>2, <1>3 DEF OneMerges

LEMMA UploadOpen ==
  ASSUME Upload_!UploadAssumption, UploadInv, NEW c \in Completes, Upload_!Open(c)
  PROVE  UploadInv'
<1>1. /\ upPc[c] \in {"read", "write"} /\ sink[c] = NoFile
      /\ tmp' = (IF tmp = NoFile THEN c ELSE tmp)
      /\ sink' = [sink EXCEPT ![c] = tmp']
      /\ bytes' = [bytes EXCEPT ![tmp'] = Upload_!Nothing]
      /\ UNCHANGED <<session, checked, upCrashes, upPart, putting, upPc, next, hash, content, uploaded>>
  BY DEF Upload_!Open, Upload_!upload
<1>2. tmp' \in Completes /\ tmp' # NoFile
  BY <1>1 DEF UploadInv, Upload_!TypeOK, Upload_!UploadAssumption
<1>3. /\ sink'[c] = tmp' /\ bytes'[tmp'] = Upload_!Nothing
      /\ \A d \in Completes \ {c} : sink'[d] = sink[d]
      /\ \A d \in Completes \ {tmp'} : bytes'[d] = bytes[d]
  BY <1>1, <1>2 DEF UploadInv, Upload_!TypeOK
<1>4. Upload_!TypeOK'
  BY <1>1, <1>2, NothingIs DEF UploadInv, Upload_!TypeOK
<1>5. Works(c) /\ next[c] = 1
  BY <1>1 DEF UploadInv, StreamIsHashed, Works
<1>6. /\ OneMerges'
      /\ \A d \in Completes \ {c} : HashFits(d)' /\ StreamIsHashed(d)'
  BY <1>1, <1>3, <1>5, OthersRest
<1>7. HashFits(c)'
  BY <1>1 DEF UploadInv, HashFits, Fits
<1>8. StreamIsHashed(c)'
  <2>1. \A p \in Upload_!Parts : Upload_!Nothing[p] = IF upPc[c] = "write" /\ p = 1 THEN "none" ELSE hash[c][p]
    <3>1. SUFFICES ASSUME NEW p \in Upload_!Parts, ~ (upPc[c] = "write" /\ p = 1) PROVE hash[c][p] = "none"
      BY NothingIs
    <3>2. p \in Nat /\ p >= 1
      BY DEF Upload_!Parts
    <3> QED
      BY <1>1, <1>5, <3>1, <3>2 DEF UploadInv, HashFits
  <2> QED
    BY <1>1, <1>2, <1>3, <1>5, <2>1 DEF StreamIsHashed
<1>9. FilesAreKept'
  <2>1. ASSUME NEW h \in Upload_!Contents, content[h] # NoFile
        PROVE  bytes'[content[h]] = h /\ content[h] # tmp' /\ sink'[content[h]] # NoFile
    <3>1. /\ bytes[content[h]] = h /\ content[h] # tmp /\ sink[content[h]] # NoFile
          /\ content[h] \in Completes
      BY <2>1 DEF UploadInv, FilesAreKept, Upload_!TypeOK
    <3>2. content[h] # c
      BY <1>1, <3>1
    <3>3. content[h] # tmp'
      BY <1>1, <3>1, <3>2
    <3> QED
      BY <1>3, <3>1, <3>2, <3>3
  <2>2. sink'[tmp'] # NoFile
    BY <1>1, <1>2, <1>3 DEF UploadInv, FilesAreKept
  <2> QED
    BY <1>1, <2>1, <2>2 DEF FilesAreKept
<1>10. PartsArrive' /\ PartsRest' /\ VersionsFit'
  BY <1>1 DEF UploadInv, PartsArrive, PartsRest, VersionsFit, Works, Fits
<1> QED
  BY <1>4, <1>6, <1>7, <1>8, <1>9, <1>10 DEF UploadInv

LEMMA UploadRead ==
  ASSUME Upload_!UploadAssumption, UploadInv, NEW c \in Completes, Upload_!Read(c)
  PROVE  UploadInv'
<1> DEFINE n == next[c]
<1>1. /\ upPc[c] = "read" /\ n <= PartsTotal /\ upPart[n] # "none"
      /\ hash' = [hash EXCEPT ![c][n] = upPart[n]]
      /\ upPc' = [upPc EXCEPT ![c] = "write"]
      /\ UNCHANGED <<session, checked, upCrashes, upPart, putting, next, sink, tmp, bytes, content, uploaded>>
  BY DEF Upload_!Read, Upload_!upload
<1>2. n \in Upload_!Parts /\ n \in Nat /\ PartsTotal \in Nat
  BY <1>1 DEF UploadInv, Upload_!TypeOK, Upload_!Parts, Upload_!UploadAssumption
<1>3. Works(c) /\ next'[c] = n
  BY <1>1 DEF Works
<1> HIDE DEF n
<1>4. Fits(upPart[n])
  BY <1>1, <1>2, <1>3 DEF UploadInv, PartsArrive, PartsRest
<1>5. /\ upPc'[c] = "write" /\ hash'[c][n] = upPart[n]
      /\ \A p \in Upload_!Parts \ {n} : hash'[c][p] = hash[c][p]
      /\ \A d \in Completes \ {c} : upPc'[d] = upPc[d] /\ hash'[d] = hash[d]
  BY <1>1, <1>2 DEF UploadInv, Upload_!TypeOK, Upload_!Contents
<1>6. Upload_!TypeOK'
  BY <1>1, <1>2 DEF UploadInv, Upload_!TypeOK, Upload_!Contents, Upload_!PCs
<1>7. /\ OneMerges'
      /\ \A d \in Completes \ {c} : HashFits(d)' /\ StreamIsHashed(d)'
      /\ Works(c)' /\ \A d \in Completes \ {c} : ~ Works(d)'
  BY <1>1, <1>3, <1>5, OthersRest DEF Works
<1>8. \A p \in Upload_!Parts : IF p < n THEN Fits(hash[c][p]) ELSE hash[c][p] = "none"
  BY <1>1 DEF UploadInv, HashFits, n
<1>9. HashFits(c)'
  <2>1. ASSUME NEW p \in Upload_!Parts
        PROVE  IF p <= n THEN Fits(hash'[c][p]) ELSE hash'[c][p] = "none"
    <3>1. CASE p = n
      BY <1>2, <1>4, <1>5, <3>1
    <3>2. CASE p # n
      BY <1>2, <1>5, <1>8, <3>2 DEF Upload_!Parts
    <3> QED
      BY <3>1, <3>2
  <2> QED
    BY <1>1, <1>3, <1>5, <2>1 DEF HashFits, Fits
<1>10. StreamIsHashed(c)'
  <2>1. ~ (n < n)
    BY <1>2
  <2> QED
    BY <1>1, <1>2, <1>3, <1>5, <1>8, <2>1 DEF UploadInv, StreamIsHashed, n
<1>11. PartsArrive' /\ FilesAreKept'
  BY <1>1 DEF UploadInv, PartsArrive, FilesAreKept, Fits
<1>12. PartsRest'
  BY <1>1, <1>3 DEF UploadInv, PartsRest
<1>13. VersionsFit'
  BY <1>1, <1>5, <1>7 DEF UploadInv, VersionsFit, Fits, Works
<1> QED
  BY <1>6, <1>7, <1>9, <1>10, <1>11, <1>12, <1>13 DEF UploadInv

LEMMA UploadMissing ==
  ASSUME UploadInv, NEW c \in Completes, Upload_!Missing(c)
  PROVE  UploadInv'
<1>1. /\ upPc[c] = "read" /\ upPc' = [upPc EXCEPT ![c] = "over"]
      /\ UNCHANGED <<session, checked, upCrashes, upPart, putting, next, sink, hash, tmp, bytes, content,
                     uploaded>>
  BY DEF Upload_!Missing, Upload_!upload
<1>2. Works(c) /\ upPc'[c] = "over" /\ \A d \in Completes \ {c} : upPc'[d] = upPc[d]
  BY <1>1 DEF UploadInv, Upload_!TypeOK, Works
<1>3. Upload_!TypeOK'
  BY <1>1 DEF UploadInv, Upload_!TypeOK, Upload_!PCs
<1>4. /\ OneMerges'
      /\ \A d \in Completes \ {c} : HashFits(d)' /\ StreamIsHashed(d)' /\ ~ Works(d)'
  BY <1>1, <1>2, OthersRest
<1>5. HashFits(c)' /\ StreamIsHashed(c)'
  BY <1>2 DEF HashFits, StreamIsHashed
<1>6. PartsArrive' /\ FilesAreKept' /\ PartsRest' /\ VersionsFit'
  BY <1>1, <1>2, <1>4 DEF UploadInv, PartsArrive, FilesAreKept, PartsRest, VersionsFit, Fits, Works
<1> QED
  BY <1>3, <1>4, <1>5, <1>6 DEF UploadInv

LEMMA UploadWrite ==
  ASSUME Upload_!UploadAssumption, UploadInv, NEW c \in Completes, Upload_!Write(c)
  PROVE  UploadInv'
<1> DEFINE n == next[c]  s == sink[c]
<1>1. /\ upPc[c] = "write" /\ s # NoFile
      /\ bytes' = [bytes EXCEPT ![s][n] = hash[c][n]]
      /\ upPc' = [upPc EXCEPT ![c] = "remove"]
      /\ UNCHANGED <<session, checked, upCrashes, upPart, putting, next, sink, hash, tmp, content, uploaded>>
  BY DEF Upload_!Write, Upload_!upload
<1>2. /\ n \in Upload_!Parts /\ s \in Completes /\ s = tmp
      /\ \A p \in Upload_!Parts : bytes[s][p] = IF p = n THEN "none" ELSE hash[c][p]
  BY <1>1 DEF UploadInv, Upload_!TypeOK, HashFits, StreamIsHashed, Upload_!Parts, Upload_!UploadAssumption
<1>3. Works(c) /\ next'[c] = n /\ sink'[c] = s
  BY <1>1 DEF Works
<1> HIDE DEF n, s
<1>4. /\ bytes'[s][n] = hash[c][n] /\ \A p \in Upload_!Parts \ {n} : bytes'[s][p] = bytes[s][p]
      /\ \A d \in Completes \ {s} : bytes'[d] = bytes[d]
      /\ upPc'[c] = "remove" /\ \A d \in Completes \ {c} : upPc'[d] = upPc[d]
  BY <1>1, <1>2 DEF UploadInv, Upload_!TypeOK, Upload_!Contents
<1>5. Upload_!TypeOK'
  <2>1. hash[c] \in Upload_!Contents /\ hash[c][n] \in Upload_!Bytes
    BY <1>2 DEF UploadInv, Upload_!TypeOK, Upload_!Contents
  <2>2. bytes' \in [Completes -> Upload_!Contents]
    BY <1>1, <1>2, <2>1 DEF UploadInv, Upload_!TypeOK, Upload_!Contents
  <2>3. upPc' \in [Completes -> Upload_!PCs]
    BY <1>1 DEF UploadInv, Upload_!TypeOK, Upload_!PCs
  <2> QED
    BY <1>1, <2>2, <2>3 DEF UploadInv, Upload_!TypeOK
<1>6. /\ OneMerges'
      /\ \A d \in Completes \ {c} : HashFits(d)' /\ StreamIsHashed(d)' /\ ~ Works(d)'
  BY <1>1, <1>3, <1>4, OthersRest
<1>7. HashFits(c)'
  BY <1>1, <1>4 DEF UploadInv, HashFits, Fits
<1>8. StreamIsHashed(c)'
  BY <1>1, <1>2, <1>3, <1>4 DEF StreamIsHashed
<1>9. FilesAreKept'
  <2>1. ASSUME NEW h \in Upload_!Contents, content[h] # NoFile
        PROVE  bytes'[content[h]] = h /\ content[h] # tmp /\ sink[content[h]] # NoFile
    BY <1>2, <1>4, <2>1 DEF UploadInv, FilesAreKept, Upload_!TypeOK
  <2> QED
    BY <1>1, <2>1 DEF UploadInv, FilesAreKept
<1>10. PartsArrive' /\ PartsRest' /\ VersionsFit'
  BY <1>1, <1>3, <1>4, <1>6 DEF UploadInv, PartsArrive, PartsRest, VersionsFit, Fits, Works
<1> QED
  BY <1>5, <1>6, <1>7, <1>8, <1>9, <1>10 DEF UploadInv

LEMMA UploadRemove ==
  ASSUME Upload_!UploadAssumption, UploadInv, NEW c \in Completes, Upload_!Remove(c)
  PROVE  UploadInv'
<1> DEFINE n == next[c]  place == IF n = PartsTotal THEN "store" ELSE "read"
<1>1. /\ upPc[c] = "remove"
      /\ upPart' = [upPart EXCEPT ![n] = "none"]
      /\ next' = [next EXCEPT ![c] = n + 1]
      /\ upPc' = [upPc EXCEPT ![c] = place]
      /\ UNCHANGED <<session, checked, upCrashes, putting, sink, hash, tmp, bytes, content, uploaded>>
  BY DEF Upload_!Remove, Upload_!upload
<1>2. /\ n \in Upload_!Parts /\ n \in Nat /\ n <= PartsTotal /\ PartsTotal \in Nat
      /\ \A p \in Upload_!Parts : IF p <= n THEN Fits(hash[c][p]) ELSE hash[c][p] = "none"
  BY <1>1 DEF UploadInv, Upload_!TypeOK, HashFits, Upload_!Parts, Upload_!UploadAssumption
<1>3. /\ Works(c) /\ place \in {"store", "read"} /\ (place = "store" => n = PartsTotal)
  BY <1>1 DEF Works
<1> HIDE DEF n, place
<1>4. /\ next'[c] = n + 1 /\ upPc'[c] = place
      /\ \A d \in Completes \ {c} : upPc'[d] = upPc[d] /\ next'[d] = next[d]
      /\ upPart'[n] = "none" /\ \A p \in Upload_!Parts \ {n} : upPart'[p] = upPart[p]
  BY <1>1, <1>2 DEF UploadInv, Upload_!TypeOK, Upload_!Contents
<1>5. Upload_!TypeOK'
  <2>1. n + 1 \in 1..PartsTotal + 1
    BY <1>2
  <2>2. upPart' \in Upload_!Contents /\ upPc' \in [Completes -> Upload_!PCs]
    BY <1>1, <1>2, <1>3 DEF UploadInv, Upload_!TypeOK, Upload_!Contents, Upload_!Bytes, Upload_!PCs
  <2>3. next' \in [Completes -> 1..PartsTotal + 1]
    BY <1>1, <2>1 DEF UploadInv, Upload_!TypeOK
  <2> QED
    BY <1>1, <2>2, <2>3 DEF UploadInv, Upload_!TypeOK
<1>6. /\ OneMerges'
      /\ \A d \in Completes \ {c} : HashFits(d)' /\ StreamIsHashed(d)' /\ ~ Works(d)'
  BY <1>1, <1>3, <1>4, OthersRest
<1>7. HashFits(c)'
  <2>1. ASSUME place = "read", NEW p \in Upload_!Parts
        PROVE  IF p < n + 1 THEN Fits(hash[c][p]) ELSE hash[c][p] = "none"
    BY <1>2 DEF Upload_!Parts
  <2>2. ASSUME place = "store", NEW p \in Upload_!Parts PROVE Fits(hash[c][p])
    <3>1. p <= n
      BY <1>2, <1>3, <2>2 DEF Upload_!Parts
    <3> QED
      BY <1>2, <3>1
  <2> QED
    BY <1>1, <1>3, <1>4, <2>1, <2>2 DEF HashFits, Fits
<1>8. StreamIsHashed(c)'
  BY <1>1, <1>3, <1>4 DEF UploadInv, StreamIsHashed
<1>9. PartsArrive'
  <2>1. putting[n] = "none"
    BY <1>2, <1>3 DEF UploadInv, PartsArrive, PartsRest
  <2> QED
    BY <1>1, <1>4, <2>1 DEF UploadInv, PartsArrive, Fits
<1>10. PartsRest'
  BY <1>3, <1>4 DEF UploadInv, PartsRest
<1>11. FilesAreKept' /\ VersionsFit'
  BY <1>1, <1>3, <1>4, <1>6 DEF UploadInv, FilesAreKept, VersionsFit, Fits, Works
<1> QED
  BY <1>5, <1>6, <1>7, <1>8, <1>9, <1>10, <1>11 DEF UploadInv

LEMMA UploadStore ==
  ASSUME Upload_!UploadAssumption, UploadInv, NEW c \in Completes, Upload_!Store(c)
  PROVE  UploadInv'
<1> DEFINE h == hash[c]
<1>1. /\ upPc[c] = "store" /\ tmp' = NoFile /\ h \in Upload_!Contents
      /\ UNCHANGED <<session, checked, upCrashes, upPart, putting, next, sink, hash, bytes, uploaded>>
  BY DEF Upload_!Store, Upload_!upload, UploadInv, Upload_!TypeOK
<1>2. /\ tmp = sink[c] /\ tmp # NoFile /\ tmp \in Completes
      /\ \A p \in Upload_!Parts : bytes[tmp][p] = h[p]
  BY <1>1 DEF UploadInv, StreamIsHashed, Upload_!TypeOK
<1>3. bytes[tmp] = h
  BY <1>1, <1>2 DEF UploadInv, Upload_!TypeOK, Upload_!Contents
<1>4. /\ upPc' = [upPc EXCEPT ![c] = "version"]
      /\ content' = IF content[h] = NoFile THEN [content EXCEPT ![h] = tmp] ELSE content
  BY <1>2 DEF Upload_!Store
<1>5. Works(c) /\ \A p \in Upload_!Parts : Fits(h[p])
  BY <1>1 DEF UploadInv, HashFits, Works
<1>6. hash'[c] = h
  BY <1>1
<1> HIDE DEF h
<1>7. /\ upPc'[c] = "version" /\ \A d \in Completes \ {c} : upPc'[d] = upPc[d]
      /\ content'[h] # NoFile
      /\ \A g \in Upload_!Contents : content'[g] = content[g] \/ (g = h /\ content'[g] = tmp)
      /\ \A g \in Upload_!Contents : content[g] # NoFile => content'[g] = content[g]
  BY <1>1, <1>2, <1>4 DEF UploadInv, Upload_!TypeOK
<1>8. Upload_!TypeOK'
  BY <1>1, <1>2, <1>4 DEF UploadInv, Upload_!TypeOK, Upload_!PCs
<1>9. /\ OneMerges'
      /\ \A d \in Completes \ {c} : HashFits(d)' /\ StreamIsHashed(d)' /\ ~ Works(d)'
  BY <1>1, <1>5, <1>7, OthersRest
<1>10. HashFits(c)' /\ StreamIsHashed(c)'
  BY <1>1, <1>5, <1>6, <1>7 DEF HashFits, StreamIsHashed, Fits
<1>11. FilesAreKept'
  <2>1. ASSUME NEW g \in Upload_!Contents, content'[g] # NoFile
        PROVE  bytes[content'[g]] = g /\ content'[g] # NoFile /\ sink[content'[g]] # NoFile
    <3>1. CASE content'[g] = content[g]
      BY <2>1, <3>1 DEF UploadInv, FilesAreKept
    <3>2. CASE g = h /\ content'[g] = tmp
      BY <1>2, <1>3, <3>2 DEF UploadInv, FilesAreKept
    <3> QED
      BY <1>7, <3>1, <3>2
  <2> QED
    BY <1>1, <2>1 DEF FilesAreKept
<1>12. VersionsFit'
  <2>1. \A d \in Completes \ {c} : upPc'[d] # "version"
    BY <1>9 DEF Works
  <2>2. \A g \in uploaded : g \in Upload_!Contents
    BY DEF UploadInv, Upload_!TypeOK
  <2> QED
    BY <1>1, <1>6, <1>7, <2>1, <2>2 DEF UploadInv, VersionsFit, Fits
<1>13. PartsArrive' /\ PartsRest'
  BY <1>1, <1>5 DEF UploadInv, PartsArrive, PartsRest, Fits
<1> QED
  BY <1>8, <1>9, <1>10, <1>11, <1>12, <1>13 DEF UploadInv

LEMMA UploadEnds ==
  ASSUME UploadInv, NEW c \in Completes, Upload_!CreateVersion(c) \/ Upload_!DeleteSession(c)
  PROVE  UploadInv'
<1>1. PICK place \in {"session", "over"} :
        /\ upPc[c] \in {"version", "session"} /\ upPc' = [upPc EXCEPT ![c] = place]
        /\ UNCHANGED <<checked, upCrashes, upPart, putting, next, sink, hash, tmp, bytes, content>>
        /\ session' \in {"none", "open", "gone"}
        /\ \/ uploaded' = uploaded
           \/ upPc[c] = "version" /\ uploaded' = uploaded \cup {hash[c]}
  BY DEF Upload_!CreateVersion, Upload_!DeleteSession, Upload_!upload, UploadInv, Upload_!TypeOK
<1>2. Works(c) /\ upPc'[c] = place /\ \A d \in Completes \ {c} : upPc'[d] = upPc[d]
  BY <1>1 DEF UploadInv, Upload_!TypeOK, Works
<1>3. Upload_!TypeOK'
  <2>1. uploaded' \subseteq Upload_!Contents /\ upPc' \in [Completes -> Upload_!PCs]
    BY <1>1 DEF UploadInv, Upload_!TypeOK, Upload_!PCs
  <2> QED
    BY <1>1, <2>1 DEF UploadInv, Upload_!TypeOK
<1>4. /\ OneMerges'
      /\ \A d \in Completes \ {c} : HashFits(d)' /\ StreamIsHashed(d)' /\ ~ Works(d)'
  BY <1>1, <1>2, OthersRest
<1>5. \A p \in Upload_!Parts : Fits(hash[c][p])
  BY <1>1 DEF UploadInv, HashFits
<1>6. HashFits(c)' /\ StreamIsHashed(c)'
  BY <1>1, <1>2, <1>5 DEF HashFits, StreamIsHashed, Fits
<1>7. VersionsFit'
  <2>1. \A d \in Completes : upPc'[d] # "version"
    BY <1>2, <1>4 DEF Works
  <2>2. ASSUME NEW g \in uploaded' PROVE content[g] # NoFile /\ \A p \in Upload_!Parts : Fits(g[p])
    BY <1>1, <1>5, <2>2 DEF UploadInv, VersionsFit
  <2> QED
    BY <1>1, <2>1, <2>2 DEF VersionsFit, Fits
<1>8. PartsArrive' /\ FilesAreKept' /\ PartsRest'
  BY <1>1, <1>2 DEF UploadInv, PartsArrive, FilesAreKept, PartsRest, Fits
<1> QED
  BY <1>3, <1>4, <1>6, <1>7, <1>8 DEF UploadInv

LEMMA UploadCrash ==
  ASSUME Upload_!UploadAssumption, UploadInv, Upload_!Crash
  PROVE  UploadInv'
<1>1. /\ putting' = Upload_!Nothing /\ upCrashes' \in 0..MaxCrashes
      /\ upPc' = [c \in Completes |-> IF upPc[c] = "new" THEN "new" ELSE "over"]
      /\ UNCHANGED <<session, checked, upPart, next, sink, hash, tmp, bytes, content, uploaded>>
  BY DEF Upload_!Crash, UploadInv, Upload_!TypeOK, Upload_!UploadAssumption
<1>2. Upload_!TypeOK'
  BY <1>1, NothingIs DEF UploadInv, Upload_!TypeOK, Upload_!PCs
<1>3. \A c \in Completes : ~ Works(c)' /\ upPc'[c] \in {"new", "over"} /\ (upPc'[c] = "new" => upPc[c] = "new")
  BY <1>1 DEF Works
<1>4. PartsArrive'
  BY <1>1, NothingIs DEF UploadInv, PartsArrive, Fits
<1>5. OneMerges' /\ PartsRest'
  BY <1>3 DEF OneMerges, PartsRest
<1>6. \A c \in Completes : HashFits(c)' /\ StreamIsHashed(c)'
  BY <1>1, <1>3 DEF UploadInv, HashFits, StreamIsHashed
<1>7. FilesAreKept' /\ VersionsFit'
  BY <1>1, <1>3 DEF UploadInv, FilesAreKept, VersionsFit, Fits
<1> QED
  BY <1>2, <1>4, <1>5, <1>6, <1>7 DEF UploadInv

\* Every step keeps it, and so it holds always.
LEMMA UploadStep ==
  ASSUME Upload_!UploadAssumption, ~ OverlapUpload, UploadInv, [Upload_!Next]_uploadVars
  PROVE  UploadInv'
<1>1. CASE Upload_!Next
  BY <1>1, UploadCreate, UploadPut, UploadPutEnds, UploadComplete, UploadOpen, UploadRead,
     UploadMissing, UploadWrite, UploadRemove, UploadStore, UploadEnds, UploadCrash DEF Upload_!Next
<1>2. CASE UNCHANGED uploadVars
  BY <1>2 DEF uploadVars, UploadInv, Upload_!TypeOK, PartsArrive, OneMerges, PartsRest, HashFits, StreamIsHashed,
     FilesAreKept, VersionsFit, Works, Fits
<1> QED
  BY <1>1, <1>2

LEMMA UploadInvAlways ==
  ASSUME Upload_!UploadAssumption, ~ OverlapUpload
  PROVE  Upload_!Spec => []UploadInv
<1>1. Upload_!Init => UploadInv
  BY UploadInit
<1>2. UploadInv /\ [Upload_!Next]_uploadVars => UploadInv'
  BY UploadStep
<1> QED
  BY <1>1, <1>2, PTL DEF Upload_!Spec, Upload_!vars, uploadVars

\* A version has the parts its hash was made of.
LEMMA UploadsAreFiles == UploadInv => Upload_!UploadIsTheFile
BY DEF UploadInv, Upload_!UploadIsTheFile, Upload_!MergeIsVerified, FilesAreKept, VersionsFit, Fits, Upload_!TypeOK

-----------------------------------------------------------------------------
(* Version events.  What a page will show when it has received what is on   *)
(* its way is the row, unless an event is due or the last change was missed. *)

Heard == IF wire = <<>> THEN shown ELSE wire[Len(wire)]

\* The inductive invariant.
EventsInv ==
    /\ wire \in Seq(Events!Statuses)
    /\ due # Events!NoReply => due = row
    /\ page # "live" => wire = <<>>
    /\ page = "asked" => reply = row \/ due # Events!NoReply \/ missed
    /\ page \in {"listed", "live", "probe"} => Heard = row \/ due # Events!NoReply \/ missed
    /\ row \in Events!Statuses /\ due \in Events!Statuses \cup {Events!NoReply}

\* A reply is told from none.
LEMMA StatusIsNoNoReply == Events!NoReply \notin Events!Statuses
BY DEF Events!NoReply, Events!Statuses

\* The invariant holds first, is kept action by action, and holds always.
LEMMA EventsInit == Events!Init => EventsInv
BY DEF Events!Init, EventsInv, Heard, Events!Statuses, Events!NoReply

\* The row changes: an event is due, or a page that read the list missed it.
LEMMA EventsWrite ==
  ASSUME EventsInv, NEW status \in Events!Statuses, NEW event \in BOOLEAN, Events!Write(status, event),
         UNCHANGED Events!viewer
  PROVE  EventsInv'
<1>1. /\ row' = status /\ due = Events!NoReply
      /\ due' = (IF event THEN status ELSE Events!NoReply)
      /\ missed' = (missed \/ (~ event /\ Events!Unheard))
  BY DEF Events!Write
<1>2. page' = page /\ reply' = reply /\ shown' = shown /\ wire' = wire /\ Heard' = Heard
  BY DEF Events!viewer, Heard
<1>3. page \in {"asked", "listed", "live", "probe"} => due' # Events!NoReply \/ missed'
  BY <1>1, StatusIsNoNoReply DEF Events!Unheard
<1> QED
  BY <1>1, <1>2, <1>3 DEF EventsInv

LEMMA EventsEmit == EventsInv /\ Events!Emit => EventsInv'
<1> SUFFICES ASSUME EventsInv, Events!Emit PROVE EventsInv'
  OBVIOUS
<1>1. /\ due # Events!NoReply /\ due = row /\ due' = Events!NoReply /\ row' = row /\ row \in Events!Statuses
      /\ page' = page /\ reply' = reply /\ shown' = shown
  BY DEF EventsInv, Events!Emit
<1>2. CASE page = "live"
  <2>1. wire' = Append(wire, due) /\ wire \in Seq(Events!Statuses) /\ due \in Events!Statuses
    BY <1>1, <1>2 DEF EventsInv, Events!Emit
  <2>2. wire' \in Seq(Events!Statuses) /\ wire' # <<>> /\ wire'[Len(wire')] = due
    BY <2>1
  <2>3. Heard' = row'
    BY <1>1, <2>2 DEF Heard
  <2> QED
    BY <1>1, <1>2, <2>2, <2>3 DEF EventsInv
<1>3. CASE page # "live"
  <2>1. wire' = wire /\ wire = <<>> /\ (page \in {"asked", "listed", "probe"} => missed')
    BY <1>3 DEF EventsInv, Events!Emit, Events!Unheard
  <2> QED
    BY <1>1, <1>3, <2>1 DEF EventsInv
<1> QED
  BY <1>2, <1>3

LEMMA EventsReceive == EventsInv /\ Events!Receive => EventsInv'
<1> SUFFICES ASSUME EventsInv, Events!Receive PROVE EventsInv'
  OBVIOUS
<1>1. /\ wire # <<>> /\ shown' = Head(wire) /\ wire' = Tail(wire) /\ wire \in Seq(Events!Statuses)
      /\ UNCHANGED <<row, due, page, reply, missed>> /\ page = "live"
  BY DEF EventsInv, Events!Receive
<1>2. wire' \in Seq(Events!Statuses)
  BY <1>1
<1>3. Heard' = Heard
  <2>1. CASE Len(wire) = 1
    <3>1. Len(wire') = 0 /\ Head(wire) = wire[Len(wire)] /\ wire' \in Seq(Events!Statuses)
      BY <1>1, <2>1
    <3>2. wire' = <<>>
      BY <3>1
    <3> QED
      BY <1>1, <3>1, <3>2 DEF Heard
  <2>2. CASE Len(wire) # 1
    <3>1. Len(wire) \in Nat /\ Len(wire) > 1 /\ Len(wire') = Len(wire) - 1
      <4>1. Len(wire) \in Nat /\ Len(wire) # 0
        BY <1>1
      <4>2. Len(Tail(wire)) = Len(wire) - 1
        BY <1>1
      <4> QED
        BY <1>1, <2>2, <4>1, <4>2
    <3>2. \A n \in 1..Len(wire') : wire'[n] = wire[n + 1]
      BY <1>1, <3>1
    <3>3. wire' # <<>> /\ wire'[Len(wire')] = wire[Len(wire)]
      BY <3>1, <3>2
    <3> QED
      BY <1>1, <3>3 DEF Heard
  <2> QED
    BY <2>1, <2>2
<1> QED
  BY <1>1, <1>2, <1>3 DEF EventsInv

LEMMA EventsRestart == EventsInv /\ Events!Restart => EventsInv'
<1> SUFFICES ASSUME EventsInv, Events!Restart PROVE EventsInv'
  OBVIOUS
<1>1. /\ row' = (IF row = "PROCESSING" THEN "PENDING" ELSE row) /\ due' = Events!NoReply
      /\ missed' = (missed \/ wire # <<>> \/ (Events!Unheard /\ (due # Events!NoReply \/ row' # row)))
      /\ reply' = reply /\ shown' = shown
      /\ page' = (IF page = "live" THEN "probe" ELSE page)
  BY DEF Events!Restart, Events!Break
<1>2. wire' = <<>>
  BY DEF Events!Restart, Events!Break, EventsInv
<1>3. row' \in Events!Statuses /\ wire' \in Seq(Events!Statuses)
  BY <1>1, <1>2 DEF EventsInv, Events!Statuses
<1>4. page = "asked" => reply = row' \/ missed'
  BY <1>1 DEF EventsInv, Events!Unheard
<1>5. page \in {"listed", "live", "probe"} => shown = row' \/ missed'
  <2>1. SUFFICES ASSUME page \in {"listed", "live", "probe"}, ~ missed' PROVE shown = row'
    OBVIOUS
  <2>2. wire = <<>> /\ due = Events!NoReply /\ row' = row /\ ~ missed
    BY <1>1, <2>1 DEF Events!Unheard
  <2> QED
    BY <2>1, <2>2 DEF EventsInv, Heard
<1> QED
  BY <1>1, <1>2, <1>3, <1>4, <1>5 DEF EventsInv, Heard

LEMMA EventsStep == EventsInv /\ [Events!Next]_eventVars => EventsInv'
<1> SUFFICES ASSUME EventsInv, [Events!Next]_eventVars PROVE EventsInv'
  OBVIOUS
<1>1. CASE Events!Claim
  BY <1>1, EventsWrite DEF Events!Claim, Events!Statuses
<1>2. ASSUME NEW status \in {"READY", "FAILED"}, Events!Settle(status) PROVE EventsInv'
  BY <1>2, EventsWrite DEF Events!Settle, Events!Statuses
<1>3. CASE Events!Throw
  BY <1>3, EventsWrite DEF Events!Throw, Events!Statuses
<1>4. CASE Events!Reconvert
  BY <1>4, EventsWrite DEF Events!Reconvert, Events!Statuses
<1>5. CASE Events!List \/ Events!Listed \/ Events!Connect
  BY <1>5 DEF Events!List, Events!Listed, Events!Connect, EventsInv, Heard
<1>6. ASSUME NEW ok \in BOOLEAN, Events!Probe(ok) PROVE EventsInv'
  BY <1>6 DEF Events!Probe, EventsInv, Heard
<1>7. CASE Events!Drop
  <2>1. /\ page = "live" /\ page' = "probe" /\ wire' = <<>> /\ missed' = (missed \/ wire # <<>>)
        /\ UNCHANGED <<row, due, reply, shown>>
    BY <1>7 DEF Events!Drop, Events!Break
  <2>2. wire' \in Seq(Events!Statuses)
    BY <2>1
  <2>3. shown = row \/ due # Events!NoReply \/ missed'
    BY <2>1 DEF EventsInv, Heard
  <2> QED
    BY <2>1, <2>2, <2>3 DEF EventsInv, Heard
<1>8. CASE Events!Leave
  <2>1. page' = "left" /\ wire' = <<>> /\ UNCHANGED <<row, due>>
    BY <1>8 DEF Events!Leave
  <2>2. wire' \in Seq(Events!Statuses)
    BY <2>1
  <2> QED
    BY <2>1, <2>2 DEF EventsInv
<1>9. CASE UNCHANGED eventVars
  BY <1>9 DEF eventVars, EventsInv, Heard
<1> QED
  BY <1>1, <1>2, <1>3, <1>4, <1>5, <1>6, <1>7, <1>8, <1>9, EventsEmit, EventsReceive, EventsRestart
     DEF Events!Next, Events!Convert, Events!Page

LEMMA EventsInvAlways == Events!Spec => []EventsInv
BY EventsInit, EventsStep, PTL DEF Events!Spec, Events!vars, eventVars

\* What a live page shows, with nothing on its way.
LEMMA LivePagesAreCurrent == EventsInv => Events!LivePageIsCurrent
BY DEF EventsInv, Events!LivePageIsCurrent, Heard

\* The type invariant of the events.
LEMMA EventsTypeInit == ASSUME Events!EventsAssumption, Events!Init PROVE Events!TypeOK
<1>1. runs \in 0..MaxRuns /\ drops \in 0..MaxDrops /\ evRestarts \in 0..MaxApiRestarts
  BY DEF Events!EventsAssumption, Events!Init
<1>2. missed \in BOOLEAN
  BY Zenon DEF Events!Init
<1>3. wire \in Seq(Events!Statuses)
  BY DEF Events!Init
<1> QED
  BY <1>1, <1>2, <1>3 DEF Events!Init, Events!TypeOK, Events!Statuses, Events!PagePCs

LEMMA EventsTypeStep == ASSUME Events!EventsAssumption, Events!TypeOK, [Events!Next]_eventVars PROVE Events!TypeOK'
<1>1. MaxRuns \in Nat /\ MaxDrops \in Nat /\ MaxApiRestarts \in Nat
  BY DEF Events!EventsAssumption
<1>2. wire' \in Seq(Events!Statuses)
  <2>1. wire \in Seq(Events!Statuses) /\ (due # Events!NoReply => due \in Events!Statuses)
    BY DEF Events!TypeOK
  <2>2. \/ wire' = wire \/ wire' = <<>>
        \/ wire' = Tail(wire) /\ wire # <<>>
        \/ wire' = Append(wire, due) /\ due # Events!NoReply
    BY DEF Events!Next, Events!Convert, Events!Page, Events!Claim, Events!Emit, Events!Settle, Events!Throw, Events!Reconvert, Events!Restart, Events!List, Events!Listed,
           Events!Connect, Events!Receive, Events!Probe, Events!Drop, Events!Leave, Events!Break, Events!viewer, eventVars
  <2>3. CASE wire' = <<>>
    BY <2>3
  <2>4. CASE wire' = Tail(wire) /\ wire # <<>>
    BY <2>1, <2>4
  <2>5. CASE wire' = Append(wire, due) /\ due # Events!NoReply
    BY <2>1, <2>5
  <2> QED
    BY <2>1, <2>2, <2>3, <2>4, <2>5
<1>3. shown' \in Events!Statuses \cup {Events!NoReply}
  <2>1. wire \in Seq(Events!Statuses) /\ shown \in Events!Statuses \cup {Events!NoReply} /\ reply \in Events!Statuses \cup {Events!NoReply}
    BY DEF Events!TypeOK
  <2>2. shown' = shown \/ shown' = reply \/ (shown' = Head(wire) /\ wire # <<>>)
    BY DEF Events!Next, Events!Convert, Events!Page, Events!Claim, Events!Emit, Events!Settle, Events!Throw, Events!Reconvert, Events!Restart, Events!List, Events!Listed,
           Events!Connect, Events!Receive, Events!Probe, Events!Drop, Events!Leave, Events!viewer, eventVars
  <2>3. wire # <<>> => Head(wire) \in Events!Statuses
    BY <2>1
  <2> QED
    BY <2>1, <2>2, <2>3
<1>4. reply' \in Events!Statuses \cup {Events!NoReply} /\ row' \in Events!Statuses /\ due' \in Events!Statuses \cup {Events!NoReply}
  <2>1. reply' \in {reply, row, Events!NoReply}
    BY DEF Events!Next, Events!Convert, Events!Page, Events!Claim, Events!Emit, Events!Settle, Events!Throw, Events!Reconvert, Events!Restart, Events!List, Events!Listed,
           Events!Connect, Events!Receive, Events!Probe, Events!Drop, Events!Leave, Events!viewer, eventVars
  <2>2. row' \in Events!Statuses
    BY DEF Events!TypeOK, Events!Statuses, Events!Next, Events!Convert, Events!Page, Events!Claim, Events!Emit, Events!Settle, Events!Throw, Events!Reconvert, Events!Restart, Events!List,
           Events!Listed, Events!Connect, Events!Receive, Events!Probe, Events!Drop, Events!Leave, Events!Write, Events!viewer, eventVars
  <2>3. due' \in {due, row', Events!NoReply}
    BY DEF Events!Next, Events!Convert, Events!Page, Events!Claim, Events!Emit, Events!Settle, Events!Throw, Events!Reconvert, Events!Restart, Events!List, Events!Listed,
           Events!Connect, Events!Receive, Events!Probe, Events!Drop, Events!Leave, Events!Write, Events!viewer, eventVars
  <2> QED
    BY <2>1, <2>2, <2>3 DEF Events!TypeOK
<1>5. missed' \in BOOLEAN
  BY Zenon DEF Events!TypeOK, Events!Next, Events!Convert, Events!Page, Events!Claim, Events!Emit, Events!Settle, Events!Throw, Events!Reconvert, Events!Restart, Events!List,
     Events!Listed, Events!Connect, Events!Receive, Events!Probe, Events!Drop, Events!Leave, Events!Write, Events!viewer, eventVars
<1>6. page' \in Events!PagePCs
  BY DEF Events!TypeOK, Events!PagePCs, Events!Next, Events!Convert, Events!Page, Events!Claim, Events!Emit, Events!Settle, Events!Throw, Events!Reconvert, Events!Restart, Events!List,
         Events!Listed, Events!Connect, Events!Receive, Events!Probe, Events!Drop, Events!Leave, Events!Break, Events!viewer, eventVars
<1>7. runs' \in 0..MaxRuns /\ drops' \in 0..MaxDrops /\ evRestarts' \in 0..MaxApiRestarts
  <2>1. /\ runs' = runs \/ (runs < MaxRuns /\ runs' = runs + 1)
        /\ drops' = drops \/ (drops < MaxDrops /\ drops' = drops + 1)
        /\ evRestarts' = evRestarts \/ (evRestarts < MaxApiRestarts /\ evRestarts' = evRestarts + 1)
    BY DEF Events!Next, Events!Convert, Events!Page, Events!Claim, Events!Emit, Events!Settle, Events!Throw, Events!Reconvert, Events!Restart, Events!List, Events!Listed,
           Events!Connect, Events!Receive, Events!Probe, Events!Drop, Events!Leave, Events!viewer, eventVars
  <2>2. runs \in 0..MaxRuns /\ drops \in 0..MaxDrops /\ evRestarts \in 0..MaxApiRestarts
    BY DEF Events!TypeOK
  <2> QED
    BY <1>1, <2>1, <2>2
<1> QED
  BY <1>2, <1>3, <1>4, <1>5, <1>6, <1>7 DEF Events!TypeOK

LEMMA EventsTyped ==
  ASSUME Events!EventsAssumption
  PROVE  Events!Spec => []Events!TypeOK
<1>1. Events!Init => Events!TypeOK
  BY EventsTypeInit
<1>2. Events!TypeOK /\ [Events!Next]_eventVars => Events!TypeOK'
  BY EventsTypeStep
<1> QED
  BY <1>1, <1>2, PTL DEF Events!Spec, Events!vars, eventVars

-----------------------------------------------------------------------------
(* The picking structures.  Inductive: a request id is in one message, and a *)
(* message that somebody waits for is the one its key is building.           *)

LEMMA TailIs ==
  ASSUME NEW S, NEW s \in Seq(S), s # <<>>
  PROVE  /\ Tail(s) \in Seq(S) /\ Head(s) = s[1] /\ s[1] \in S /\ 1 \in DOMAIN s
         /\ \A i \in DOMAIN Tail(s) : i + 1 \in DOMAIN s /\ Tail(s)[i] = s[i + 1]
         /\ \A i \in DOMAIN s : i # 1 => i - 1 \in DOMAIN Tail(s) /\ Tail(s)[i - 1] = s[i]
         /\ DOMAIN s \subseteq Nat /\ DOMAIN Tail(s) \subseteq Nat /\ 0 \notin DOMAIN Tail(s)
<1>1. Len(s) \in Nat /\ DOMAIN s = 1..Len(s)
  OBVIOUS
<1>2. Len(s) # 0
  OBVIOUS
<1>3. Tail(s) \in Seq(S) /\ Len(Tail(s)) = Len(s) - 1
  BY <1>1, <1>2
<1>4. DOMAIN Tail(s) = 1..Len(s) - 1
  BY <1>3
<1>5. \A i \in 1..Len(s) - 1 : Tail(s)[i] = s[i + 1]
  BY <1>1, <1>2
<1>6. Head(s) = s[1] /\ s[1] \in S
  BY <1>1, <1>2
<1> QED
  BY <1>1, <1>2, <1>3, <1>4, <1>5, <1>6

LEMMA AppendIs ==
  ASSUME NEW S, NEW s \in Seq(S), NEW e \in S
  PROVE  /\ Append(s, e) \in Seq(S)
         /\ DOMAIN Append(s, e) = DOMAIN s \cup {Len(s) + 1}
         /\ Len(s) + 1 \notin DOMAIN s
         /\ Append(s, e)[Len(s) + 1] = e
         /\ \A i \in DOMAIN s : Append(s, e)[i] = s[i]
<1>1. Len(s) \in Nat /\ DOMAIN s = 1..Len(s)
  OBVIOUS
<1>2. Append(s, e) \in Seq(S) /\ Len(Append(s, e)) = Len(s) + 1
  OBVIOUS
<1>3. DOMAIN Append(s, e) = 1..Len(s) + 1
  BY <1>2
<1> QED
  BY <1>1, <1>2, <1>3

\* A message has an id that was given out; its build is its key's.
IsMessage(m) == m.id \in 1..nextId - 1 /\ (m.id \in slots => building[m.key] = m.id)

MessagesAreSound ==
    /\ \A i \in DOMAIN worker : IsMessage(worker[i])
    /\ \A i \in DOMAIN replies : IsMessage(replies[i])

\* An id is in one message.
IdsAreOnce ==
    /\ \A i, j \in DOMAIN worker : worker[i].id = worker[j].id => i = j
    /\ \A i, j \in DOMAIN replies : replies[i].id = replies[j].id => i = j
    /\ \A i \in DOMAIN worker, j \in DOMAIN replies : worker[i].id # replies[j].id

\* A build under way has its slot and its message, and no structure yet.
IsPosted(k) ==
    \/ \E i \in DOMAIN worker : worker[i].id = building[k] /\ worker[i].key = k
    \/ \E i \in DOMAIN replies : replies[i].id = building[k] /\ replies[i].key = k

BuildsArePosted ==
    \A k \in Keys : building[k] # 0 =>
       building[k] \in slots /\ cache[k] = Bvh!NoTree /\ IsPosted(k)

\* Who waits has a build to wait for.
WaitersHaveBuilds ==
    \A g \in Bvh!Geometries : ensuring[g] = "wait" => building[Bvh!KeyOf(g)] # 0

\* The inductive invariant.
BuildsInv ==
    /\ Bvh!TypeOK
    /\ MessagesAreSound
    /\ IdsAreOnce
    /\ BuildsArePosted
    /\ WaitersHaveBuilds

\* The invariant holds first, and is kept action by action.
LEMMA BuildsInit == ASSUME Bvh!BuildsAssumption, Bvh!Init PROVE BuildsInv
<1>1. worker \in Seq(Bvh!Messages) /\ replies \in Seq(Bvh!Messages)
      /\ DOMAIN worker = {} /\ DOMAIN replies = {}
  BY DEF Bvh!Init
<1>2. Bvh!TypeOK
  <2>1. artifact \in Bvh!Artifacts /\ Bvh!NoTree \in Bvh!Trees /\ 0 \in Bvh!Artifacts /\ bvhFaults \in 0..MaxFaults
    BY DEF Bvh!Init, Bvh!Artifacts, Bvh!NoTree, Bvh!Trees, Bvh!BuildsAssumption
  <2>2. Bvh!Geometry(0, FALSE, Bvh!NoTree) \in [data : Bvh!Artifacts, alive : BOOLEAN, tree : Bvh!Trees]
    BY <2>1 DEF Bvh!Geometry
  <2>3. /\ geometry \in [Bvh!Geometries -> [data : Bvh!Artifacts, alive : BOOLEAN, tree : Bvh!Trees]]
        /\ ensuring \in [Bvh!Geometries -> {"new", "wait", "attached", "gone", "failed"}]
        /\ cache \in [Keys -> Bvh!Trees] /\ building \in [Keys -> Nat]
    BY <2>1, <2>2 DEF Bvh!Init
  <2>4. slots \subseteq 1..(nextId - 1) /\ nextId \in Nat \ {0}
    BY DEF Bvh!Init
  <2> QED
    BY <1>1, <2>1, <2>3, <2>4 DEF Bvh!TypeOK
<1> QED
  BY <1>1, <1>2 DEF Bvh!Init, BuildsInv, MessagesAreSound, IdsAreOnce, BuildsArePosted, WaitersHaveBuilds

\* A geometry has a key.
LEMMA KeysOf == \A g \in Bvh!Geometries : Bvh!KeyOf(g) \in Keys
BY DEF Bvh!Geometries, Bvh!KeyOf

LEMMA BuildsAttach ==
  ASSUME Bvh!BuildsAssumption, BuildsInv, NEW g \in Bvh!Geometries, Bvh!Attach(g)
  PROVE  BuildsInv'
<1> DEFINE k == Bvh!KeyOf(g)  m == Bvh!Message(nextId, k, artifact)
           starts == cache[k] = Bvh!NoTree /\ building[k] = 0
<1>1. /\ geometry' = [geometry EXCEPT ![g] = Bvh!Geometry(artifact, TRUE, cache[k])]
      /\ ensuring' = [ensuring EXCEPT ![g] = IF cache[k] # Bvh!NoTree THEN "attached" ELSE "wait"]
      /\ UNCHANGED <<artifact, cache, replies, bvhFaults>>
  BY DEF Bvh!Attach
<1>2. IF ~ starts THEN UNCHANGED <<building, slots, worker, nextId>>
      ELSE /\ building' = [building EXCEPT ![k] = nextId] /\ slots' = slots \cup {nextId}
           /\ worker' = Append(worker, m) /\ nextId' = nextId + 1
  BY DEF Bvh!Attach
<1>3. /\ k \in Keys /\ m \in Bvh!Messages /\ m.id = nextId /\ m.key = k
      /\ nextId \in Nat /\ nextId # 0 /\ slots \subseteq 1..nextId - 1
      /\ Bvh!Geometry(artifact, TRUE, cache[k]) \in [data : Bvh!Artifacts, alive : BOOLEAN, tree : Bvh!Trees]
  BY KeysOf DEF BuildsInv, Bvh!TypeOK, Bvh!Message, Bvh!Messages, Bvh!Trees, Bvh!Geometry
<1>4. /\ geometry' \in [Bvh!Geometries -> [data : Bvh!Artifacts, alive : BOOLEAN, tree : Bvh!Trees]]
      /\ ensuring' \in [Bvh!Geometries -> {"new", "wait", "attached", "gone", "failed"}]
  BY <1>1, <1>3 DEF BuildsInv, Bvh!TypeOK
<1>5. /\ starts => building'[k] # 0
      /\ \A h \in Bvh!Geometries : ensuring'[h] = "wait" => ensuring[h] = "wait" \/ (h = g /\ cache[k] = Bvh!NoTree)
  BY <1>1, <1>2, <1>3 DEF BuildsInv, Bvh!TypeOK
<1>6. Bvh!KeyOf(g) = k
  OBVIOUS
<1> HIDE DEF k, m
<1>7. CASE ~ starts
  <2>1. Bvh!TypeOK'
    BY <1>1, <1>2, <1>4, <1>7 DEF BuildsInv, Bvh!TypeOK
  <2>2. WaitersHaveBuilds'
    BY <1>1, <1>2, <1>5, <1>6, <1>7 DEF BuildsInv, WaitersHaveBuilds
  <2> QED
    BY <1>1, <1>2, <1>7, <2>1, <2>2 DEF BuildsInv, MessagesAreSound, IsMessage, IdsAreOnce,
       BuildsArePosted, IsPosted
<1>8. CASE starts
  <2> DEFINE n == Len(worker) + 1
  <2>1. /\ worker' \in Seq(Bvh!Messages) /\ DOMAIN worker' = DOMAIN worker \cup {n}
        /\ n \notin DOMAIN worker /\ worker'[n] = m
        /\ \A i \in DOMAIN worker : worker'[i] = worker[i]
    <3>1. worker \in Seq(Bvh!Messages) /\ worker' = Append(worker, m)
      BY <1>2, <1>8 DEF BuildsInv, Bvh!TypeOK
    <3> QED
      BY <1>3, <3>1, AppendIs
  <2> HIDE DEF n
  <2>2. /\ building' \in [Keys -> Nat] /\ building'[k] = nextId
        /\ \A l \in Keys \ {k} : building'[l] = building[l]
        /\ slots' = slots \cup {nextId} /\ nextId' = nextId + 1
    BY <1>2, <1>3, <1>8 DEF BuildsInv, Bvh!TypeOK
  <2>3. /\ \A i \in DOMAIN worker : worker[i] \in Bvh!Messages
        /\ \A i \in DOMAIN replies : replies[i] \in Bvh!Messages
    BY DEF BuildsInv, Bvh!TypeOK
  <2>4. Bvh!TypeOK'
    <3>1. slots' \subseteq 1..nextId' - 1 /\ nextId' \in Nat \ {0}
      <4>1. nextId' \in Nat \ {0} /\ nextId' - 1 = nextId /\ nextId \in 1..nextId
        BY <1>3, <2>2
      <4>2. \A i \in 1..nextId - 1 : i \in 1..nextId
        BY <1>3
      <4> QED
        BY <1>3, <2>2, <4>1, <4>2
    <3> QED
      BY <1>1, <1>4, <2>1, <2>2, <3>1 DEF BuildsInv, Bvh!TypeOK
  <2>5. ASSUME NEW x \in Bvh!Messages, IsMessage(x) PROVE IsMessage(x)' /\ x.id # nextId
    <3>1. x.id \in 1..nextId - 1 /\ x.key \in Keys
      BY <2>5 DEF IsMessage, Bvh!Messages
    <3>2. x.id # nextId /\ x.id \in 1..nextId' - 1
      BY <1>3, <2>2, <3>1
    <3>3. x.id \in slots' => building'[x.key] = x.id
      <4>1. SUFFICES ASSUME x.id \in slots' PROVE building'[x.key] = x.id
        OBVIOUS
      <4>2. building[x.key] = x.id /\ x.id # 0
        BY <2>2, <2>5, <3>1, <3>2, <4>1, <1>3 DEF IsMessage
      <4>3. x.key # k
        BY <1>8, <4>2
      <4> QED
        BY <2>2, <3>1, <4>2, <4>3
    <3> QED
      BY <3>2, <3>3 DEF IsMessage
  <2>6. /\ \A i \in DOMAIN worker : IsMessage(worker[i])' /\ worker[i].id # nextId
        /\ \A i \in DOMAIN replies : IsMessage(replies[i])' /\ replies[i].id # nextId
    <3>1. ASSUME NEW i \in DOMAIN worker
          PROVE  worker[i].id # nextId /\ worker[i].id \in 1..nextId' - 1
                 /\ (worker[i].id \in slots' => building'[worker[i].key] = worker[i].id)
      BY <2>3, <2>5 DEF BuildsInv, MessagesAreSound, IsMessage
    <3>2. ASSUME NEW i \in DOMAIN replies
          PROVE  replies[i].id # nextId /\ replies[i].id \in 1..nextId' - 1
                 /\ (replies[i].id \in slots' => building'[replies[i].key] = replies[i].id)
      BY <2>3, <2>5 DEF BuildsInv, MessagesAreSound, IsMessage
    <3> QED
      BY <1>1, <2>1, <3>1, <3>2 DEF IsMessage
  <2>7. MessagesAreSound'
    <3>1. m.id \in 1..nextId' - 1 /\ building'[m.key] = m.id
      BY <1>3, <2>2
    <3> QED
      BY <1>1, <2>1, <2>6, <3>1 DEF MessagesAreSound, IsMessage
  <2>8. IdsAreOnce'
    BY <1>1, <1>3, <2>1, <2>6 DEF BuildsInv, IdsAreOnce
  <2>9. BuildsArePosted'
    <3>1. SUFFICES ASSUME NEW l \in Keys, building'[l] # 0
                   PROVE  building'[l] \in slots' /\ cache[l] = Bvh!NoTree /\ IsPosted(l)'
      BY <1>1 DEF BuildsArePosted, Bvh!NoTree
    <3>2. CASE l = k
      BY <1>3, <1>8, <2>1, <2>2, <3>2 DEF IsPosted
    <3>3. CASE l # k
      <4>1. building[l] \in slots /\ cache[l] = Bvh!NoTree /\ IsPosted(l) /\ building'[l] = building[l]
        BY <2>2, <3>1, <3>3 DEF BuildsInv, BuildsArePosted
      <4>2. IsPosted(l)'
        BY <1>1, <2>1, <4>1 DEF IsPosted
      <4> QED
        BY <2>2, <4>1, <4>2
    <3> QED
      BY <3>2, <3>3
  <2>10. WaitersHaveBuilds'
    <3>1. ASSUME NEW h \in Bvh!Geometries, ensuring'[h] = "wait" PROVE building'[Bvh!KeyOf(h)] # 0
      <4>1. CASE Bvh!KeyOf(h) = k
        BY <1>3, <2>2, <4>1
      <4>2. CASE Bvh!KeyOf(h) # k
        BY <1>5, <1>6, <2>2, <3>1, <4>2, KeysOf DEF BuildsInv, WaitersHaveBuilds
      <4> QED
        BY <4>1, <4>2
    <3> QED
      BY <3>1 DEF WaitersHaveBuilds, Bvh!KeyOf
  <2> QED
    BY <2>4, <2>7, <2>8, <2>9, <2>10 DEF BuildsInv
<1> QED
  BY <1>7, <1>8

\* What settling leaves.
LEMMA SettleIs ==
  ASSUME BuildsInv, NEW ks \in SUBSET Keys, NEW payload \in Bvh!Trees, Bvh!Settle(ks, payload)
  PROVE  /\ geometry' \in [Bvh!Geometries -> [data : Bvh!Artifacts, alive : BOOLEAN, tree : Bvh!Trees]]
         /\ ensuring' \in [Bvh!Geometries -> {"new", "wait", "attached", "gone", "failed"}]
         /\ building' \in [Keys -> Nat] /\ cache' \in [Keys -> Bvh!Trees]
         /\ \A k \in Keys : /\ building'[k] = IF k \in ks THEN 0 ELSE building[k]
                            /\ k \notin ks => cache'[k] = cache[k]
         /\ \A g \in Bvh!Geometries : ensuring'[g] = "wait" => ensuring[g] = "wait" /\ Bvh!KeyOf(g) \notin ks
<1>1. /\ building' = [k \in Keys |-> IF k \in ks THEN 0 ELSE building[k]]
      /\ cache' = [k \in Keys |-> IF k \in ks /\ payload # Bvh!NoTree THEN payload ELSE cache[k]]
      /\ ensuring' = [g \in Bvh!Geometries |->
            IF ~ (ensuring[g] = "wait" /\ Bvh!KeyOf(g) \in ks) THEN ensuring[g]
            ELSE IF payload = Bvh!NoTree THEN "failed"
            ELSE IF geometry[g].alive THEN "attached" ELSE "gone"]
      /\ geometry' = [g \in Bvh!Geometries |->
            IF (ensuring[g] = "wait" /\ Bvh!KeyOf(g) \in ks) /\ geometry[g].alive /\ payload # Bvh!NoTree
            THEN [geometry[g] EXCEPT !.tree = payload] ELSE geometry[g]]
  BY DEF Bvh!Settle
<1>2. /\ building' \in [Keys -> Nat] /\ cache' \in [Keys -> Bvh!Trees]
      /\ ensuring' \in [Bvh!Geometries -> {"new", "wait", "attached", "gone", "failed"}]
  BY <1>1 DEF BuildsInv, Bvh!TypeOK
<1>3. geometry' \in [Bvh!Geometries -> [data : Bvh!Artifacts, alive : BOOLEAN, tree : Bvh!Trees]]
  <2>1. \A g \in Bvh!Geometries : geometry[g] \in [data : Bvh!Artifacts, alive : BOOLEAN, tree : Bvh!Trees]
    BY DEF BuildsInv, Bvh!TypeOK
  <2>2. \A g \in Bvh!Geometries : [geometry[g] EXCEPT !.tree = payload]
                                 \in [data : Bvh!Artifacts, alive : BOOLEAN, tree : Bvh!Trees]
    BY <2>1
  <2> QED
    BY <1>1, <2>1, <2>2
<1>4. \A g \in Bvh!Geometries : ensuring'[g] = "wait" => ensuring[g] = "wait" /\ Bvh!KeyOf(g) \notin ks
  BY <1>1
<1> QED
  BY <1>1, <1>2, <1>3, <1>4

LEMMA BuildsOnMessage ==
  ASSUME Bvh!BuildsAssumption, BuildsInv, Bvh!OnMessage
  PROVE  BuildsInv'
<1> DEFINE m == Head(replies)
<1>1. /\ replies # <<>> /\ replies' = Tail(replies) /\ UNCHANGED <<artifact, worker, nextId, bvhFaults>>
      /\ IF m.id \in slots
         THEN slots' = slots \ {m.id} /\ Bvh!Settle({m.key}, m.payload)
         ELSE UNCHANGED <<slots, building, cache, ensuring, geometry>>
  BY DEF Bvh!OnMessage
<1>2. /\ replies' \in Seq(Bvh!Messages) /\ m = replies[1] /\ m \in Bvh!Messages /\ 1 \in DOMAIN replies
      /\ \A i \in DOMAIN replies' : i + 1 \in DOMAIN replies /\ replies'[i] = replies[i + 1]
      /\ \A i \in DOMAIN replies : i # 1 => i - 1 \in DOMAIN replies' /\ replies'[i - 1] = replies[i]
      /\ DOMAIN replies' \subseteq Nat /\ 0 \notin DOMAIN replies'
  BY <1>1, TailIs DEF BuildsInv, Bvh!TypeOK
<1>3. m.id \in Nat /\ m.key \in Keys /\ m.payload \in Bvh!Trees /\ IsMessage(m)
  BY <1>2 DEF Bvh!Messages, BuildsInv, MessagesAreSound
<1> HIDE DEF m
<1>4. IdsAreOnce'
  <2>1. \A i, j \in DOMAIN replies' : replies'[i].id = replies'[j].id => i = j
    <3>1. SUFFICES ASSUME NEW i \in DOMAIN replies', NEW j \in DOMAIN replies',
                          replies'[i].id = replies'[j].id
                   PROVE  i = j
      OBVIOUS
    <3>2. i + 1 = j + 1
      BY <1>2, <3>1 DEF BuildsInv, IdsAreOnce
    <3> QED
      BY <1>2, <3>2
  <2>2. \A i \in DOMAIN worker, j \in DOMAIN replies' : worker[i].id # replies'[j].id
    BY <1>2 DEF BuildsInv, IdsAreOnce
  <2> QED
    BY <1>1, <2>1, <2>2 DEF BuildsInv, IdsAreOnce
\* The message received is the only one of its id.
<1>5. /\ \A i \in DOMAIN worker : worker[i].id # m.id
      /\ \A i \in DOMAIN replies' : replies'[i].id # m.id
  <2>1. \A i \in DOMAIN replies' : i + 1 # 1
    BY <1>2
  <2> QED
    BY <1>2, <2>1 DEF BuildsInv, IdsAreOnce
<1>6. ASSUME NEW k \in Keys, IsPosted(k), building[k] # m.id, building'[k] = building[k]
      PROVE  IsPosted(k)'
  <2>1. CASE \E i \in DOMAIN worker : worker[i].id = building[k] /\ worker[i].key = k
    BY <1>1, <1>6, <2>1 DEF IsPosted
  <2>2. ASSUME NEW i \in DOMAIN replies, replies[i].id = building[k], replies[i].key = k
        PROVE  IsPosted(k)'
    <3>1. i # 1
      BY <1>2, <1>6, <2>2
    <3>2. i - 1 \in DOMAIN replies' /\ replies'[i - 1] = replies[i]
      BY <1>2, <3>1
    <3> QED
      BY <1>6, <2>2, <3>2 DEF IsPosted
  <2> QED
    BY <1>6, <2>1, <2>2 DEF IsPosted
<1>7. CASE m.id \notin slots
  <2>1. UNCHANGED <<slots, building, cache, ensuring, geometry, artifact, worker, nextId, bvhFaults>>
    BY <1>1, <1>7
  <2>2. Bvh!TypeOK'
    BY <1>2, <2>1 DEF BuildsInv, Bvh!TypeOK
  <2>3. MessagesAreSound'
    BY <1>2, <2>1 DEF BuildsInv, MessagesAreSound, IsMessage
  <2>4. BuildsArePosted'
    BY <1>6, <1>7, <2>1 DEF BuildsInv, BuildsArePosted, Bvh!NoTree
  <2>5. WaitersHaveBuilds'
    BY <2>1 DEF BuildsInv, WaitersHaveBuilds
  <2> QED
    BY <1>4, <2>2, <2>3, <2>4, <2>5 DEF BuildsInv
<1>8. CASE m.id \in slots
  <2>1. /\ slots' = slots \ {m.id} /\ Bvh!Settle({m.key}, m.payload) /\ building[m.key] = m.id
    BY <1>1, <1>3, <1>8 DEF IsMessage
  <2>2. /\ geometry' \in [Bvh!Geometries -> [data : Bvh!Artifacts, alive : BOOLEAN, tree : Bvh!Trees]]
        /\ ensuring' \in [Bvh!Geometries -> {"new", "wait", "attached", "gone", "failed"}]
        /\ building' \in [Keys -> Nat] /\ cache' \in [Keys -> Bvh!Trees]
        /\ building'[m.key] = 0
        /\ \A k \in Keys \ {m.key} : building'[k] = building[k] /\ cache'[k] = cache[k]
        /\ \A g \in Bvh!Geometries : ensuring'[g] = "wait" => ensuring[g] = "wait" /\ Bvh!KeyOf(g) # m.key
    <3>1. \E ks \in SUBSET Keys, payload \in Bvh!Trees :
             Bvh!Settle(ks, payload) /\ ks = {m.key}
      BY <1>3, <2>1, Zenon
    <3>2. PICK ks \in SUBSET Keys, payload \in Bvh!Trees : Bvh!Settle(ks, payload) /\ ks = {m.key}
      BY <3>1
    <3>3. m.key \in ks /\ \A k : k # m.key => k \notin ks
      BY <3>2
    <3> QED
      BY <1>3, <3>2, <3>3, SettleIs, ZenonT(40)
  <2>3. Bvh!TypeOK'
    BY <1>1, <1>2, <2>1, <2>2 DEF BuildsInv, Bvh!TypeOK
  <2>4. ASSUME NEW x \in Bvh!Messages, IsMessage(x), x.id # m.id
        PROVE  x.id \in 1..nextId' - 1 /\ (x.id \in slots' => building'[x.key] = x.id)
    <3>1. SUFFICES ASSUME x.id \in slots' PROVE building'[x.key] = x.id
      BY <1>1, <2>4 DEF IsMessage
    <3>2. building[x.key] = x.id /\ x.key \in Keys
      BY <2>1, <2>4, <3>1 DEF IsMessage, Bvh!Messages
    <3>3. x.key # m.key
      BY <2>1, <2>4, <3>2
    <3> QED
      BY <2>2, <3>2, <3>3
  <2>5. MessagesAreSound'
    <3>1. /\ \A i \in DOMAIN worker : worker[i] \in Bvh!Messages /\ IsMessage(worker[i])
          /\ \A i \in DOMAIN replies : replies[i] \in Bvh!Messages /\ IsMessage(replies[i])
      BY DEF BuildsInv, Bvh!TypeOK, MessagesAreSound
    <3>2. ASSUME NEW i \in DOMAIN worker PROVE IsMessage(worker[i])'
      <4>1. /\ worker[i].id \in 1..nextId' - 1
            /\ (worker[i].id \in slots' => building'[worker[i].key] = worker[i].id)
        BY <1>5, <2>4, <3>1
      <4> QED
        BY <1>1, <4>1 DEF IsMessage
    <3>3. ASSUME NEW i \in DOMAIN replies' PROVE IsMessage(replies[i])'
      <4> DEFINE x == replies[i + 1]
      <4>1. x \in Bvh!Messages /\ IsMessage(x) /\ replies'[i] = x /\ x.id # m.id
        BY <1>2, <1>5, <3>1
      <4> HIDE DEF x
      <4>2. x.id \in 1..nextId' - 1 /\ (x.id \in slots' => building'[x.key] = x.id)
        BY <2>4, <4>1
      <4> QED
        BY <4>1, <4>2 DEF IsMessage
    <3> QED
      BY <1>1, <3>2, <3>3 DEF MessagesAreSound
  <2>6. BuildsArePosted'
    <3>1. SUFFICES ASSUME NEW k \in Keys, building'[k] # 0
                   PROVE  building'[k] \in slots' /\ cache'[k] = Bvh!NoTree /\ IsPosted(k)'
      BY DEF BuildsArePosted, Bvh!NoTree
    <3>2. k # m.key
      BY <2>2, <3>1
    <3>3. /\ building'[k] = building[k] /\ building[k] \in slots /\ cache'[k] = Bvh!NoTree /\ IsPosted(k)
      BY <2>2, <3>1, <3>2 DEF BuildsInv, BuildsArePosted
    <3>4. building[k] # m.id
      BY <1>2, <1>5, <3>2, <3>3, <1>3 DEF IsPosted, BuildsInv, IdsAreOnce
    <3> QED
      BY <1>6, <2>1, <3>3, <3>4
  <2>7. WaitersHaveBuilds'
    <3>1. ASSUME NEW g \in Bvh!Geometries, ensuring'[g] = "wait" PROVE building'[Bvh!KeyOf(g)] # 0
      BY <2>2, <3>1, KeysOf DEF BuildsInv, WaitersHaveBuilds
    <3> QED
      BY <3>1 DEF WaitersHaveBuilds, Bvh!KeyOf
  <2> QED
    BY <1>4, <2>3, <2>5, <2>6, <2>7 DEF BuildsInv
<1> QED
  BY <1>7, <1>8

LEMMA BuildsFail ==
  ASSUME Bvh!BuildsAssumption, BuildsInv, Bvh!Fail
  PROVE  BuildsInv'
<1> DEFINE ks == {k \in Keys : building[k] \in slots}
<1>1. /\ slots' = {} /\ worker' = <<>> /\ replies' = <<>> /\ Bvh!Settle(ks, Bvh!NoTree)
      /\ UNCHANGED <<artifact, nextId>> /\ bvhFaults' \in 0..MaxFaults
  BY DEF Bvh!Fail, BuildsInv, Bvh!TypeOK, Bvh!BuildsAssumption
<1>2. ks \in SUBSET Keys /\ Bvh!NoTree \in Bvh!Trees /\ \A k \in Keys : building[k] # 0 => k \in ks
  BY DEF Bvh!Trees, BuildsInv, BuildsArePosted
<1> HIDE DEF ks
<1>3. /\ geometry' \in [Bvh!Geometries -> [data : Bvh!Artifacts, alive : BOOLEAN, tree : Bvh!Trees]]
      /\ ensuring' \in [Bvh!Geometries -> {"new", "wait", "attached", "gone", "failed"}]
      /\ building' \in [Keys -> Nat] /\ cache' \in [Keys -> Bvh!Trees]
      /\ \A k \in Keys : building'[k] = 0
      /\ \A g \in Bvh!Geometries : ensuring'[g] # "wait"
  <2>1. \A k \in Keys : k \notin ks => building[k] = 0
    BY <1>2
  <2> QED
    BY <1>1, <1>2, <2>1, SettleIs, KeysOf, ZenonT(40) DEF BuildsInv, WaitersHaveBuilds
<1>4. worker' \in Seq(Bvh!Messages) /\ replies' \in Seq(Bvh!Messages)
      /\ DOMAIN worker' = {} /\ DOMAIN replies' = {}
  BY <1>1
<1>5. Bvh!TypeOK'
  BY <1>1, <1>3, <1>4 DEF BuildsInv, Bvh!TypeOK
<1> QED
  BY <1>3, <1>4, <1>5 DEF BuildsInv, MessagesAreSound, IdsAreOnce, BuildsArePosted, WaitersHaveBuilds

LEMMA BuildsBuild ==
  ASSUME Bvh!BuildsAssumption, BuildsInv, NEW ok \in BOOLEAN, Bvh!Build(ok)
  PROVE  BuildsInv'
<1> DEFINE m == Head(worker)  r == IF ok THEN m ELSE [m EXCEPT !.payload = Bvh!NoTree]
           n == Len(replies) + 1
<1>1. /\ worker # <<>> /\ worker' = Tail(worker) /\ replies' = Append(replies, r)
      /\ UNCHANGED <<artifact, geometry, ensuring, cache, building, slots, nextId>>
  BY DEF Bvh!Build
<1>2. bvhFaults' \in 0..MaxFaults
  BY DEF Bvh!Build, BuildsInv, Bvh!TypeOK, Bvh!BuildsAssumption
<1>3. /\ worker' \in Seq(Bvh!Messages) /\ m = worker[1] /\ m \in Bvh!Messages /\ 1 \in DOMAIN worker
      /\ \A i \in DOMAIN worker' : i + 1 \in DOMAIN worker /\ worker'[i] = worker[i + 1]
      /\ \A i \in DOMAIN worker : i # 1 => i - 1 \in DOMAIN worker' /\ worker'[i - 1] = worker[i]
      /\ DOMAIN worker' \subseteq Nat /\ 0 \notin DOMAIN worker'
  BY <1>1, TailIs DEF BuildsInv, Bvh!TypeOK
<1>4. r \in Bvh!Messages /\ r.id = m.id /\ r.key = m.key
  BY <1>3 DEF Bvh!Messages, Bvh!Trees
<1> HIDE DEF m, r
<1>5. /\ replies' \in Seq(Bvh!Messages) /\ DOMAIN replies' = DOMAIN replies \cup {n}
      /\ n \notin DOMAIN replies /\ replies'[n] = r
      /\ \A i \in DOMAIN replies : replies'[i] = replies[i]
  BY <1>1, <1>4, AppendIs DEF BuildsInv, Bvh!TypeOK
<1> HIDE DEF n
<1>6. Bvh!TypeOK'
  BY <1>1, <1>2, <1>3, <1>5 DEF BuildsInv, Bvh!TypeOK
<1>7. MessagesAreSound'
  BY <1>1, <1>3, <1>4, <1>5 DEF BuildsInv, MessagesAreSound, IsMessage
<1>8. IdsAreOnce'
  <2>1. \A i, j \in DOMAIN worker' : worker'[i].id = worker'[j].id => i = j
    <3>1. SUFFICES ASSUME NEW i \in DOMAIN worker', NEW j \in DOMAIN worker',
                          worker'[i].id = worker'[j].id
                   PROVE  i = j
      OBVIOUS
    <3>2. i + 1 = j + 1
      BY <1>3, <3>1 DEF BuildsInv, IdsAreOnce
    <3> QED
      BY <1>3, <3>2
  <2>2. \A i \in DOMAIN worker' : worker'[i].id # m.id
    <3>1. \A i \in DOMAIN worker' : i + 1 # 1
      BY <1>3
    <3> QED
      BY <1>3, <3>1 DEF BuildsInv, IdsAreOnce
  <2>3. \A i \in DOMAIN replies : replies[i].id # m.id
    BY <1>3 DEF BuildsInv, IdsAreOnce
  <2>4. \A i, j \in DOMAIN replies' : replies'[i].id = replies'[j].id => i = j
    BY <1>4, <1>5, <2>3 DEF BuildsInv, IdsAreOnce
  <2>5. \A i \in DOMAIN worker', j \in DOMAIN replies' : worker'[i].id # replies'[j].id
    BY <1>3, <1>4, <1>5, <2>2 DEF BuildsInv, IdsAreOnce
  <2> QED
    BY <2>1, <2>4, <2>5 DEF IdsAreOnce
<1>9. BuildsArePosted'
  <2>1. SUFFICES ASSUME NEW k \in Keys, IsPosted(k) PROVE IsPosted(k)'
    BY <1>1 DEF BuildsInv, BuildsArePosted, Bvh!NoTree
  <2>2. ASSUME NEW i \in DOMAIN worker, worker[i].id = building[k], worker[i].key = k
        PROVE  IsPosted(k)'
    <3>1. CASE i = 1
      BY <1>1, <1>3, <1>4, <1>5, <2>2, <3>1 DEF IsPosted
    <3>2. CASE i # 1
      <4>1. i - 1 \in DOMAIN worker' /\ worker'[i - 1] = worker[i]
        BY <1>3, <3>2
      <4> QED
        BY <1>1, <2>2, <4>1 DEF IsPosted
    <3> QED
      BY <3>1, <3>2
  <2>3. CASE \E i \in DOMAIN replies : replies[i].id = building[k] /\ replies[i].key = k
    BY <1>1, <1>5, <2>3 DEF IsPosted
  <2> QED
    BY <2>1, <2>2, <2>3 DEF IsPosted
<1>10. WaitersHaveBuilds'
  BY <1>1 DEF BuildsInv, WaitersHaveBuilds
<1> QED
  BY <1>6, <1>7, <1>8, <1>9, <1>10 DEF BuildsInv

\* Every step keeps it, and so it holds always.
LEMMA BuildsStep ==
  ASSUME Bvh!BuildsAssumption, BuildsInv, [Bvh!Next]_bvhVars
  PROVE  BuildsInv'
<1>1. ASSUME NEW g \in Bvh!Geometries, Bvh!Evict(g) PROVE BuildsInv'
  <2>1. /\ geometry' = [geometry EXCEPT ![g].alive = FALSE]
        /\ UNCHANGED <<artifact, ensuring, cache, building, slots, worker, replies, nextId, bvhFaults>>
    BY <1>1 DEF Bvh!Evict
  <2>2. geometry' \in [Bvh!Geometries -> [data : Bvh!Artifacts, alive : BOOLEAN, tree : Bvh!Trees]]
    BY <2>1 DEF BuildsInv, Bvh!TypeOK
  <2>3. Bvh!TypeOK'
    BY <2>1, <2>2 DEF BuildsInv, Bvh!TypeOK
  <2> QED
    BY <2>1, <2>3 DEF BuildsInv, MessagesAreSound, IsMessage, IdsAreOnce, BuildsArePosted, IsPosted,
       WaitersHaveBuilds
<1>2. CASE Bvh!Reconvert \/ UNCHANGED bvhVars
  <2>1. /\ artifact' \in Bvh!Artifacts
        /\ UNCHANGED <<geometry, ensuring, cache, building, slots, worker, replies, nextId, bvhFaults>>
    BY <1>2 DEF Bvh!Reconvert, bvhVars, BuildsInv, Bvh!TypeOK, Bvh!Artifacts, Bvh!BuildsAssumption
  <2>2. Bvh!TypeOK'
    BY <2>1 DEF BuildsInv, Bvh!TypeOK
  <2> QED
    BY <2>1, <2>2 DEF BuildsInv, MessagesAreSound, IsMessage, IdsAreOnce, BuildsArePosted, IsPosted,
       WaitersHaveBuilds
<1> QED
  BY <1>1, <1>2, BuildsAttach, BuildsOnMessage, BuildsFail, BuildsBuild DEF Bvh!Next

LEMMA BuildsInvAlways ==
  ASSUME Bvh!BuildsAssumption
  PROVE  Bvh!Spec => []BuildsInv
<1>1. Bvh!Init => BuildsInv
  BY BuildsInit
<1>2. BuildsInv /\ [Bvh!Next]_bvhVars => BuildsInv'
  BY BuildsStep
<1> QED
  BY <1>1, <1>2, PTL DEF Bvh!Spec, Bvh!vars, bvhVars

LEMMA BuildsAreOnce == ASSUME BuildsInv PROVE Bvh!BuiltOnce
<1> DEFINE messages == worker \o replies  n == Len(worker)
<1>1. worker \in Seq(Bvh!Messages) /\ replies \in Seq(Bvh!Messages) /\ n \in Nat
  BY DEF BuildsInv, Bvh!TypeOK
<1>2. /\ messages \in Seq(Bvh!Messages) /\ Len(messages) = n + Len(replies)
      /\ \A i \in DOMAIN messages : messages[i] = IF i <= n THEN worker[i] ELSE replies[i - n]
  BY <1>1
<1>3. DOMAIN messages \subseteq Nat
      /\ \A i \in DOMAIN messages : IF i <= n THEN i \in DOMAIN worker ELSE i - n \in DOMAIN replies
  BY <1>1, <1>2
<1>4. /\ \A i \in DOMAIN worker : i \in DOMAIN messages /\ i <= n
      /\ \A i \in DOMAIN replies : i + n \in DOMAIN messages /\ ~ (i + n <= n) /\ (i + n) - n = i
  BY <1>1, <1>2
<1> HIDE DEF messages, n
<1>5. \A i \in DOMAIN messages : messages[i] \in Bvh!Messages /\ IsMessage(messages[i])
  BY <1>1, <1>2, <1>3 DEF BuildsInv, MessagesAreSound
<1>6. ASSUME NEW i \in DOMAIN messages, NEW j \in DOMAIN messages,
             messages[i].id \in slots, messages[j].id \in slots, messages[i].key = messages[j].key
      PROVE  i = j
  <2>1. messages[i].id = messages[j].id
    BY <1>5, <1>6 DEF IsMessage
  <2>2. CASE i <= n /\ j <= n
    BY <1>2, <1>3, <2>1, <2>2 DEF BuildsInv, IdsAreOnce
  <2>3. CASE i <= n /\ ~ (j <= n)
    BY <1>2, <1>3, <2>1, <2>3 DEF BuildsInv, IdsAreOnce
  <2>4. CASE ~ (i <= n) /\ j <= n
    BY <1>2, <1>3, <2>1, <2>4 DEF BuildsInv, IdsAreOnce
  <2>5. CASE ~ (i <= n) /\ ~ (j <= n)
    <3>1. i - n = j - n
      BY <1>2, <1>3, <2>1, <2>5 DEF BuildsInv, IdsAreOnce
    <3> QED
      BY <1>1, <1>3, <3>1
  <2> QED
    BY <2>2, <2>3, <2>4, <2>5
<1>7. ASSUME NEW i \in DOMAIN messages, messages[i].id \in slots
      PROVE  cache[messages[i].key] = Bvh!NoTree
  <2>1. messages[i].key \in Keys /\ messages[i].id # 0 /\ building[messages[i].key] = messages[i].id
    BY <1>5, <1>7 DEF Bvh!Messages, IsMessage, BuildsInv, Bvh!TypeOK
  <2> QED
    BY <2>1 DEF BuildsInv, BuildsArePosted
<1>8. ASSUME NEW g \in Bvh!Geometries, ensuring[g] = "wait"
      PROVE  \E i \in DOMAIN messages : messages[i].id \in slots /\ messages[i].id = building[Bvh!KeyOf(g)]
  <2>1. Bvh!KeyOf(g) \in Keys /\ building[Bvh!KeyOf(g)] \in slots /\ IsPosted(Bvh!KeyOf(g))
    BY <1>8, KeysOf DEF BuildsInv, WaitersHaveBuilds, BuildsArePosted
  <2>2. CASE \E i \in DOMAIN worker : worker[i].id = building[Bvh!KeyOf(g)]
    BY <1>2, <1>4, <2>1, <2>2
  <2>3. ASSUME NEW i \in DOMAIN replies, replies[i].id = building[Bvh!KeyOf(g)]
        PROVE  \E j \in DOMAIN messages :
                  messages[j].id \in slots /\ messages[j].id = building[Bvh!KeyOf(g)]
    <3>1. i + n \in DOMAIN messages /\ messages[i + n] = replies[i]
      BY <1>2, <1>4, <2>3
    <3> QED
      BY <2>1, <2>3, <3>1
  <2> QED
    BY <2>1, <2>2, <2>3 DEF IsPosted
<1> QED
  BY <1>6, <1>7, <1>8 DEF Bvh!BuiltOnce, messages

-----------------------------------------------------------------------------
(* Imports of issues.  Inductive: one import runs at a time, so a guid it    *)
(* found free stays free until it creates the issue, and the snapshot it     *)
(* stored is still there then; an issue without comments is one whose import *)
(* is about to write them, or failed.                                        *)

\* Imports do not overlap, and one that runs is at a topic of its file.
OneImports ==
    \A i, j \in Imports : Data!Running(i) /\ Data!Running(j) => i = j

AtTopics ==
    \A i \in Imports : Data!Running(i) =>
       import[i].topic \in Data!Guids /\ import[i].project \in Projects

\* An issue has the snapshot that its import stored.
IssuesComeFromFiles ==
    \A g \in Data!Guids : issue[g] # Data!NoIssue =>
       /\ issue[g].project \in Projects /\ issue[g].from \in Imports
       /\ import[issue[g].from].pc # "new"
       /\ snapshot[<<issue[g].project, g>>] = issue[g].from

\* An issue without comments waits for them, or its import failed.
CommentsFollow ==
    \A g \in Data!Guids : issue[g] # Data!NoIssue /\ ~ issue[g].comments =>
       \/ import[issue[g].from].pc = "failed"
       \/ import[issue[g].from].pc = "comment" /\ import[issue[g].from].topic = g

\* A guid found free is free until the issue is created.
GuidIsFree ==
    \A i \in Imports :
       /\ import[i].pc \in {"put", "create"} => issue[import[i].topic] = Data!NoIssue
       /\ import[i].pc = "create" => snapshot[<<import[i].project, import[i].topic>>] = i

\* While no project is deleted, the topics passed have their issues.
TopicsAreThere ==
    (\A p \in Projects : project[p] # "gone") =>
       \A i \in Imports, g \in Data!Guids : g < import[i].topic => issue[g] # Data!NoIssue

\* The inductive invariant.
DataInv ==
    /\ Data!TypeOK
    /\ OneImports
    /\ AtTopics
    /\ IssuesComeFromFiles
    /\ CommentsFollow
    /\ GuidIsFree
    /\ TopicsAreThere

\* The types of an issue and of an import.
IssueType  == [project : Projects \cup {NoOne}, from : Imports \cup {NoOne}, comments : BOOLEAN]
ImportType == [pc : Data!ImportPCs, project : Projects \cup {NoOne}, topic : 1..Topics + 1]

\* The issue that is not there.
LEMMA NoIssueIs ==
  /\ Data!NoIssue \in IssueType
  /\ Data!NoIssue.project = NoOne /\ Data!NoIssue.from = NoOne /\ Data!NoIssue.comments = FALSE
BY DEF Data!NoIssue, Data!Issue, IssueType

\* The invariant holds first, and is kept action by action.
LEMMA DataInit == ASSUME Data!DataAssumption, Data!Init PROVE DataInv
<1>1. /\ Data!Run("new", NoOne, 1) \in ImportType
      /\ \A i \in Imports : import[i].pc = "new" /\ import[i].topic = 1
  BY DEF Data!Run, ImportType, Data!ImportPCs, Data!DataAssumption, Data!Init
<1>2. Data!TypeOK
  <2>1. issue \in [Data!Guids -> IssueType] /\ import \in [Imports -> ImportType]
    BY <1>1, NoIssueIs DEF Data!Init
  <2>2. /\ account \in [Users -> {"none", "first", "later", "ADMIN", "USER"}]
        /\ project \in [Projects -> {"none", "open", "gone"}]
        /\ member \in [Projects -> [Users -> Data!Roles \cup {NoOne}]]
        /\ snapshot \in [Projects \X Data!Guids -> Imports \cup {NoOne}]
    BY DEF Data!Init
  <2>3. changes \in 0..MaxChanges /\ dbCrashes \in 0..MaxCrashes
    BY DEF Data!Init, Data!DataAssumption
  <2> QED
    BY <2>1, <2>2, <2>3 DEF Data!TypeOK, IssueType, ImportType
<1>3. /\ \A i \in Imports : ~ Data!Running(i)
      /\ \A g \in Data!Guids : issue[g] = Data!NoIssue /\ ~ (g < 1)
  BY <1>1 DEF Data!Running, Data!Init, Data!Guids, Data!DataAssumption
<1> QED
  BY <1>1, <1>2, <1>3 DEF DataInv, OneImports, AtTopics, IssuesComeFromFiles, CommentsFollow,
     GuidIsFree, TopicsAreThere

\* One import moves on.
Steps(i, place, topic) ==
    \E f \in ImportType :
       /\ import' = [import EXCEPT ![i] = f]
       /\ f.pc = place /\ f.project = import[i].project /\ f.topic = topic

\* An import goes to a place of its topic, or on to its next topic.
LEMMA ImportGoes ==
  ASSUME Data!TypeOK, NEW i \in Imports, NEW place \in Data!ImportPCs, Data!Goto(i, place)
  PROVE  Steps(i, place, import[i].topic)
<1> DEFINE f == [import[i] EXCEPT !.pc = place]
<1>1. import[i] \in ImportType
  BY DEF Data!TypeOK, ImportType
<1>2. /\ f \in ImportType /\ f.pc = place /\ f.project = import[i].project
      /\ f.topic = import[i].topic
  BY <1>1 DEF ImportType
<1>3. import' = [import EXCEPT ![i] = f]
  BY DEF Data!Goto
<1> HIDE DEF f
<1> QED
  BY <1>2, <1>3 DEF Steps

LEMMA ImportGoesOn ==
  ASSUME Data!DataAssumption, Data!TypeOK, NEW i \in Imports, import[i].topic \in Data!Guids, Data!NextTopic(i)
  PROVE  \E place \in {"done", "find"} :
           /\ Steps(i, place, import[i].topic + 1)
           /\ place = "find" => import[i].topic + 1 \in Data!Guids
<1> DEFINE f == IF import[i].topic = Topics THEN Data!Run("done", import[i].project, Topics + 1)
                ELSE Data!Run("find", import[i].project, import[i].topic + 1)
           place == IF import[i].topic = Topics THEN "done" ELSE "find"
<1>1. import[i] \in ImportType /\ import[i].topic \in 1..Topics /\ Topics \in Nat
  BY DEF Data!TypeOK, ImportType, Data!Guids, Data!DataAssumption
<1>2. /\ f \in ImportType /\ f.pc = place /\ f.project = import[i].project
      /\ f.topic = import[i].topic + 1
  BY <1>1 DEF ImportType, Data!Run, Data!ImportPCs
<1>3. import' = [import EXCEPT ![i] = f]
  BY DEF Data!NextTopic
<1>4. place \in {"done", "find"} /\ (place = "find" => import[i].topic + 1 \in Data!Guids)
  BY <1>1 DEF Data!Guids
<1> HIDE DEF f, place
<1> QED
  BY <1>2, <1>3, <1>4 DEF Steps

\* What a step of the running import leaves true, when it does not touch the
\* issues of others.
LEMMA ImportSteps ==
  ASSUME Data!DataAssumption, DataInv, NEW i \in Imports, Data!Running(i),
         NEW place \in Data!ImportPCs \ {"new"}, NEW topic, Steps(i, place, topic),
         UNCHANGED Data!people
  PROVE  /\ import' \in [Imports -> ImportType]
         /\ import'[i].pc = place /\ import'[i].topic = topic
         /\ import'[i].project = import[i].project
         /\ \A j \in Imports \ {i} : import'[j] = import[j] /\ ~ Data!Running(j) /\ ~ Data!Running(j)'
         /\ issue' \in [Data!Guids -> IssueType] /\ snapshot' \in [Projects \X Data!Guids -> Imports \cup {NoOne}]
               /\ dbCrashes' \in 0..MaxCrashes => Data!TypeOK'
         /\ OneImports'
         /\ (place \in {"done", "failed"} \/ topic \in Data!Guids) => AtTopics'
<1>1. PICK f \in ImportType : /\ import' = [import EXCEPT ![i] = f]
       /\ f.pc = place /\ f.project = import[i].project /\ f.topic = topic
  BY DEF Steps
<1>2. import \in [Imports -> ImportType] /\ import[i].project \in Projects
  BY DEF DataInv, Data!TypeOK, ImportType, AtTopics
<1>3. /\ import' \in [Imports -> ImportType]
      /\ import'[i].pc = place /\ import'[i].topic = topic
      /\ import'[i].project = import[i].project
      /\ \A j \in Imports \ {i} : import'[j] = import[j] /\ ~ Data!Running(j)
  BY <1>1, <1>2 DEF DataInv, OneImports
<1>4. \A j \in Imports \ {i} : ~ Data!Running(j)'
  BY <1>3 DEF Data!Running
<1>5. OneImports'
  BY <1>4 DEF OneImports
<1>6. ASSUME place \in {"done", "failed"} \/ topic \in Data!Guids PROVE AtTopics'
  BY <1>2, <1>3, <1>4, <1>6 DEF AtTopics, Data!Running
<1>7. ASSUME issue' \in [Data!Guids -> IssueType], dbCrashes' \in 0..MaxCrashes,
             snapshot' \in [Projects \X Data!Guids -> Imports \cup {NoOne}]
      PROVE  Data!TypeOK'
  BY <1>3, <1>7 DEF DataInv, Data!TypeOK, IssueType, ImportType, Data!people
<1> QED
  BY <1>3, <1>4, <1>5, <1>6, <1>7

LEMMA DataFind ==
  ASSUME Data!DataAssumption, DataInv, NEW i \in Imports, Data!Find(i)
  PROVE  DataInv'
<1>1. /\ Data!Running(i) /\ import[i].pc = "find" /\ import[i].topic \in Data!Guids
      /\ UNCHANGED <<issue, snapshot, dbCrashes>> /\ UNCHANGED Data!people
  BY DEF Data!Find, DataInv, AtTopics, Data!Running, Data!people
<1>2. PICK place \in {"done", "find", "put"}, topic \in 1..Topics + 1 :
         /\ Steps(i, place, topic)
         /\ IF issue[import[i].topic] # Data!NoIssue
            THEN place # "put" /\ topic = import[i].topic + 1 ELSE place = "put" /\ topic = import[i].topic
         /\ place # "done" => topic \in Data!Guids
  <2>1. CASE issue[import[i].topic] # Data!NoIssue
    <3>1. Data!NextTopic(i)
      BY <2>1 DEF Data!Find
    <3>2. import[i].topic + 1 \in 1..Topics + 1
      BY <1>1 DEF Data!Guids, Data!DataAssumption
    <3> QED
      BY <1>1, <2>1, <3>1, <3>2, ImportGoesOn DEF DataInv
  <2>2. CASE ~ issue[import[i].topic] # Data!NoIssue
    <3>1. Data!Goto(i, "put")
      BY <2>2 DEF Data!Find
    <3>2. import[i].topic \in 1..Topics + 1
      BY DEF DataInv, Data!TypeOK
    <3> QED
      BY <1>1, <2>2, <3>1, <3>2, ImportGoes DEF DataInv, Data!ImportPCs
  <2> QED
    BY <2>1, <2>2
<1>3. /\ import'[i].pc = place /\ import'[i].topic = topic
      /\ import'[i].project = import[i].project
      /\ \A j \in Imports \ {i} : import'[j] = import[j] /\ ~ Data!Running(j) /\ ~ Data!Running(j)'
      /\ OneImports' /\ AtTopics' /\ Data!TypeOK'
  <2>1. place \in Data!ImportPCs \ {"new"}
    BY DEF Data!ImportPCs
  <2>2. issue' \in [Data!Guids -> IssueType] /\ dbCrashes' \in 0..MaxCrashes
        /\ snapshot' \in [Projects \X Data!Guids -> Imports \cup {NoOne}]
    BY <1>1 DEF DataInv, Data!TypeOK, IssueType
  <2> QED
    BY <1>1, <1>2, <2>1, <2>2, ImportSteps
<1>4. IssuesComeFromFiles'
  BY <1>1, <1>3 DEF DataInv, IssuesComeFromFiles
<1>5. CommentsFollow'
  BY <1>1, <1>3 DEF DataInv, CommentsFollow, IssuesComeFromFiles
<1>6. GuidIsFree'
  BY <1>1, <1>2, <1>3 DEF DataInv, GuidIsFree, Data!Running
<1>7. TopicsAreThere'
  <2>1. ASSUME \A p \in Projects : project[p] # "gone",
               NEW j \in Imports, NEW g \in Data!Guids, g < import'[j].topic
        PROVE  issue[g] # Data!NoIssue
    <3>1. CASE j # i
      BY <1>3, <2>1, <3>1 DEF DataInv, TopicsAreThere
    <3>2. CASE j = i
      <4>1. g < import[i].topic \/ (g = import[i].topic /\ issue[g] # Data!NoIssue)
        BY <1>1, <1>2, <1>3, <2>1, <3>2 DEF Data!Guids, Data!DataAssumption
      <4> QED
        BY <2>1, <4>1 DEF DataInv, TopicsAreThere
    <3> QED
      BY <3>1, <3>2
  <2> QED
    BY <1>1, <2>1 DEF TopicsAreThere, Data!people
<1> QED
  BY <1>3, <1>4, <1>5, <1>6, <1>7 DEF DataInv

LEMMA DataPutSnapshot ==
  ASSUME Data!DataAssumption, DataInv, NEW i \in Imports, Data!PutSnapshot(i)
  PROVE  DataInv'
<1> DEFINE p == import[i].project  g == import[i].topic
<1>1. /\ Data!Running(i) /\ import[i].pc = "put" /\ g \in Data!Guids /\ p \in Projects
      /\ UNCHANGED <<issue, dbCrashes>> /\ UNCHANGED Data!people /\ Data!Goto(i, "create")
      /\ snapshot' = [snapshot EXCEPT ![<<p, g>>] = i]
      /\ issue[g] = Data!NoIssue
  BY DEF Data!PutSnapshot, DataInv, AtTopics, GuidIsFree, Data!Running, Data!people
<1> HIDE DEF p, g
<1>2. Steps(i, "create", g)
  BY <1>1, ImportGoes DEF DataInv, Data!ImportPCs, g
<1>3. /\ import'[i].pc = "create" /\ import'[i].topic = g
      /\ import'[i].project = p
      /\ \A j \in Imports \ {i} : import'[j] = import[j] /\ ~ Data!Running(j) /\ ~ Data!Running(j)'
      /\ OneImports' /\ AtTopics' /\ Data!TypeOK'
  <2>1. "create" \in Data!ImportPCs \ {"new"}
    BY DEF Data!ImportPCs
  <2>2. issue' \in [Data!Guids -> IssueType] /\ dbCrashes' \in 0..MaxCrashes
        /\ snapshot' \in [Projects \X Data!Guids -> Imports \cup {NoOne}]
    BY <1>1 DEF DataInv, Data!TypeOK, IssueType
  <2> QED
    BY <1>1, <1>2, <2>1, <2>2, ImportSteps DEF p
<1>4. \A h \in Data!Guids, q \in Projects : <<q, h>> # <<p, g>> => snapshot'[<<q, h>>] = snapshot[<<q, h>>]
  BY <1>1 DEF DataInv, Data!TypeOK
<1>5. snapshot'[<<p, g>>] = i
  BY <1>1 DEF DataInv, Data!TypeOK
<1>6. IssuesComeFromFiles'
  <2>1. SUFFICES ASSUME NEW h \in Data!Guids, issue[h] # Data!NoIssue
                 PROVE  /\ issue[h].project \in Projects /\ issue[h].from \in Imports
                        /\ import'[issue[h].from].pc # "new"
                        /\ snapshot'[<<issue[h].project, h>>] = issue[h].from
    BY <1>1 DEF IssuesComeFromFiles
  <2>2. h # g
    BY <1>1, <2>1
  <2> QED
    BY <1>3, <1>4, <2>1, <2>2 DEF DataInv, IssuesComeFromFiles
<1>7. CommentsFollow'
  BY <1>1, <1>3, ZenonT(40) DEF DataInv, CommentsFollow, IssuesComeFromFiles
<1>8. GuidIsFree'
  BY <1>1, <1>3, <1>5 DEF DataInv, GuidIsFree, Data!Running
<1>9. TopicsAreThere'
  BY <1>1, <1>3 DEF DataInv, TopicsAreThere, Data!people, g
<1> QED
  BY <1>3, <1>6, <1>7, <1>8, <1>9 DEF DataInv

LEMMA DataCreateIssue ==
  ASSUME Data!DataAssumption, DataInv, NEW i \in Imports, Data!CreateIssue(i)
  PROVE  DataInv'
<1> DEFINE p == import[i].project  g == import[i].topic  e == Data!Issue(p, i, FALSE)
<1>1. /\ Data!Running(i) /\ import[i].pc = "create" /\ g \in Data!Guids /\ p \in Projects
      /\ UNCHANGED <<snapshot, dbCrashes>> /\ UNCHANGED Data!people
      /\ issue[g] = Data!NoIssue /\ snapshot[<<p, g>>] = i
  BY DEF Data!CreateIssue, DataInv, AtTopics, GuidIsFree, Data!Running, Data!people
<1>2. \/ issue' = [issue EXCEPT ![g] = e] /\ Data!Goto(i, "comment")
      \/ issue' = issue /\ Data!Goto(i, "failed")
  BY DEF Data!CreateIssue
<1>3. /\ e \in IssueType /\ e.project = p /\ e.from = i /\ e.comments = FALSE /\ e # Data!NoIssue
      /\ issue \in [Data!Guids -> IssueType]
  BY <1>1, NoIssueIs DEF Data!Issue, IssueType, DataInv, Data!TypeOK, Data!DataAssumption
<1> HIDE DEF p, g, e
<1>4. PICK place \in {"comment", "failed"} :
        /\ Steps(i, place, g)
        /\ IF place = "comment" THEN issue' = [issue EXCEPT ![g] = e] ELSE issue' = issue
  BY <1>2, ImportGoes DEF DataInv, Data!ImportPCs, g
<1>5. /\ import'[i].pc = place /\ import'[i].topic = g
      /\ import'[i].project = p
      /\ \A j \in Imports \ {i} : import'[j] = import[j] /\ ~ Data!Running(j) /\ ~ Data!Running(j)'
      /\ OneImports' /\ AtTopics' /\ Data!TypeOK'
  <2>1. place \in Data!ImportPCs \ {"new"}
    BY DEF Data!ImportPCs
  <2>2. issue' \in [Data!Guids -> IssueType] /\ dbCrashes' \in 0..MaxCrashes
        /\ snapshot' \in [Projects \X Data!Guids -> Imports \cup {NoOne}]
    BY <1>1, <1>3, <1>4 DEF DataInv, Data!TypeOK, IssueType
  <2> QED
    BY <1>1, <1>4, <2>1, <2>2, ImportSteps DEF p
<1>6. /\ \A h \in Data!Guids \ {g} : issue'[h] = issue[h]
      /\ issue'[g] = IF place = "comment" THEN e ELSE Data!NoIssue
  BY <1>1, <1>3, <1>4
<1>7. IssuesComeFromFiles'
  <2>1. SUFFICES ASSUME NEW h \in Data!Guids, issue'[h] # Data!NoIssue
                 PROVE  /\ issue'[h].project \in Projects /\ issue'[h].from \in Imports
                        /\ import'[issue'[h].from].pc # "new"
                        /\ snapshot[<<issue'[h].project, h>>] = issue'[h].from
    BY <1>1 DEF IssuesComeFromFiles
  <2>2. CASE h = g
    BY <1>1, <1>3, <1>5, <1>6, <2>1, <2>2
  <2>3. CASE h # g
    BY <1>5, <1>6, <2>1, <2>3 DEF DataInv, IssuesComeFromFiles
  <2> QED
    BY <2>2, <2>3
<1>8. CommentsFollow'
  <2>1. SUFFICES ASSUME NEW h \in Data!Guids, issue'[h] # Data!NoIssue, ~ issue'[h].comments
                 PROVE  \/ import'[issue'[h].from].pc = "failed"
                        \/ import'[issue'[h].from].pc = "comment" /\ import'[issue'[h].from].topic = h
    BY DEF CommentsFollow
  <2>2. CASE h = g
    BY <1>3, <1>5, <1>6, <2>1, <2>2
  <2>3. CASE h # g
    <3>1. issue[h] # Data!NoIssue /\ ~ issue[h].comments /\ issue'[h].from = issue[h].from
      BY <1>6, <2>1, <2>3
    <3>2. /\ issue[h].from \in Imports
          /\ \/ import[issue[h].from].pc = "failed"
             \/ import[issue[h].from].pc = "comment" /\ import[issue[h].from].topic = h
      BY <3>1 DEF DataInv, IssuesComeFromFiles, CommentsFollow
    <3>3. issue[h].from # i
      BY <1>1, <3>2
    <3> QED
      BY <1>5, <3>1, <3>2, <3>3
  <2> QED
    BY <2>2, <2>3
<1>9. GuidIsFree'
  BY <1>1, <1>5 DEF GuidIsFree, Data!Running
<1>10. TopicsAreThere'
  BY <1>1, <1>5, <1>6, <1>3 DEF DataInv, TopicsAreThere, Data!people, g
<1> QED
  BY <1>5, <1>7, <1>8, <1>9, <1>10 DEF DataInv

LEMMA DataCreateComments ==
  ASSUME Data!DataAssumption, DataInv, NEW i \in Imports, Data!CreateComments(i)
  PROVE  DataInv'
<1> DEFINE g == import[i].topic
<1>1. /\ Data!Running(i) /\ import[i].pc = "comment" /\ g \in Data!Guids
      /\ UNCHANGED <<snapshot, dbCrashes>> /\ UNCHANGED Data!people
  BY DEF Data!CreateComments, DataInv, AtTopics, Data!Running, Data!people
<1>2. IF issue[g].from = i
      THEN issue' = [issue EXCEPT ![g].comments = TRUE] /\ Data!NextTopic(i)
      ELSE issue' = issue /\ Data!Goto(i, "failed")
  BY DEF Data!CreateComments
<1>3. issue \in [Data!Guids -> IssueType] /\ NoOne # i
  BY DEF DataInv, Data!TypeOK, IssueType, Data!DataAssumption
<1> HIDE DEF g
<1>4. CASE issue[g].from = i
  <2>1. /\ issue' \in [Data!Guids -> IssueType]
        /\ \A h \in Data!Guids \ {g} : issue'[h] = issue[h]
        /\ issue'[g].project = issue[g].project /\ issue'[g].from = i /\ issue'[g].comments
    BY <1>1, <1>2, <1>3, <1>4 DEF IssueType
  <2>2. issue[g] # Data!NoIssue /\ issue'[g] # Data!NoIssue
    BY <1>3, <1>4, <2>1, NoIssueIs
  <2>3. PICK place \in {"done", "find"} :
           Steps(i, place, g + 1) /\ (place = "find" => g + 1 \in Data!Guids)
    BY <1>1, <1>2, <1>4, ImportGoesOn DEF DataInv, g
  <2>4. /\ import'[i].pc = place /\ import'[i].topic = g + 1
        /\ \A j \in Imports \ {i} : import'[j] = import[j] /\ ~ Data!Running(j) /\ ~ Data!Running(j)'
        /\ OneImports' /\ AtTopics' /\ Data!TypeOK'
    <3>1. place \in Data!ImportPCs \ {"new"}
      BY DEF Data!ImportPCs
    <3>2. dbCrashes' \in 0..MaxCrashes
          /\ snapshot' \in [Projects \X Data!Guids -> Imports \cup {NoOne}]
      BY <1>1 DEF DataInv, Data!TypeOK
    <3> QED
      BY <1>1, <2>1, <2>3, <3>1, <3>2, ImportSteps
  <2>5. IssuesComeFromFiles'
    <3>1. SUFFICES ASSUME NEW h \in Data!Guids, issue'[h] # Data!NoIssue
                   PROVE  /\ issue'[h].project \in Projects /\ issue'[h].from \in Imports
                          /\ import'[issue'[h].from].pc # "new"
                          /\ snapshot[<<issue'[h].project, h>>] = issue'[h].from
      BY <1>1 DEF IssuesComeFromFiles
    <3>2. issue[h] # Data!NoIssue /\ issue'[h].project = issue[h].project /\ issue'[h].from = issue[h].from
      BY <1>4, <2>1, <2>2, <3>1
    <3> QED
      BY <2>4, <3>1, <3>2 DEF DataInv, IssuesComeFromFiles
  <2>6. CommentsFollow'
    <3>1. SUFFICES ASSUME NEW h \in Data!Guids, issue'[h] # Data!NoIssue, ~ issue'[h].comments
                   PROVE  \/ import'[issue'[h].from].pc = "failed"
                          \/ import'[issue'[h].from].pc = "comment" /\ import'[issue'[h].from].topic = h
      BY DEF CommentsFollow
    <3>2. h # g /\ issue'[h] = issue[h]
      BY <2>1, <3>1
    <3>3. /\ issue[h].from \in Imports
          /\ \/ import[issue[h].from].pc = "failed"
             \/ import[issue[h].from].pc = "comment" /\ import[issue[h].from].topic = h
      BY <3>1, <3>2 DEF DataInv, IssuesComeFromFiles, CommentsFollow
    <3>4. issue[h].from # i
      BY <1>1, <3>2, <3>3 DEF g
    <3> QED
      BY <2>4, <3>2, <3>3, <3>4
  <2>7. GuidIsFree'
    BY <2>4 DEF GuidIsFree, Data!Running
  <2>8. TopicsAreThere'
    <3>1. ASSUME \A p \in Projects : project[p] # "gone",
                 NEW j \in Imports, NEW h \in Data!Guids, h < import'[j].topic
          PROVE  issue'[h] # Data!NoIssue
      <4>1. CASE h = g
        BY <2>2, <4>1
      <4>2. CASE h # g /\ j # i
        BY <2>1, <2>4, <3>1, <4>2 DEF DataInv, TopicsAreThere
      <4>3. CASE h # g /\ j = i
        <5>1. h < g
          BY <1>1, <2>4, <3>1, <4>3 DEF Data!Guids, Data!DataAssumption
        <5> QED
          BY <2>1, <3>1, <4>3, <5>1 DEF DataInv, TopicsAreThere, g
      <4> QED
        BY <4>1, <4>2, <4>3
    <3> QED
      BY <1>1, <3>1 DEF TopicsAreThere, Data!people
  <2> QED
    BY <2>4, <2>5, <2>6, <2>7, <2>8 DEF DataInv
<1>5. CASE issue[g].from # i
  <2>1. issue' = issue /\ Steps(i, "failed", g)
    BY <1>2, <1>5, ImportGoes DEF DataInv, Data!ImportPCs, g
  <2>2. /\ import'[i].pc = "failed" /\ import'[i].topic = g
        /\ \A j \in Imports \ {i} : import'[j] = import[j] /\ ~ Data!Running(j) /\ ~ Data!Running(j)'
        /\ OneImports' /\ AtTopics' /\ Data!TypeOK'
    <3>1. "failed" \in Data!ImportPCs \ {"new"}
      BY DEF Data!ImportPCs
    <3>2. dbCrashes' \in 0..MaxCrashes /\ issue' \in [Data!Guids -> IssueType]
          /\ snapshot' \in [Projects \X Data!Guids -> Imports \cup {NoOne}]
      BY <1>1, <1>3, <2>1 DEF DataInv, Data!TypeOK
    <3> QED
      BY <1>1, <2>1, <3>1, <3>2, ImportSteps
  <2>3. IssuesComeFromFiles'
    BY <1>1, <2>1, <2>2 DEF DataInv, IssuesComeFromFiles
  <2>4. CommentsFollow'
    <3>1. SUFFICES ASSUME NEW h \in Data!Guids, issue[h] # Data!NoIssue, ~ issue[h].comments
                   PROVE  \/ import'[issue[h].from].pc = "failed"
                          \/ import'[issue[h].from].pc = "comment" /\ import'[issue[h].from].topic = h
      BY <2>1 DEF CommentsFollow
    <3>2. /\ issue[h].from \in Imports
          /\ \/ import[issue[h].from].pc = "failed"
             \/ import[issue[h].from].pc = "comment" /\ import[issue[h].from].topic = h
      BY <3>1 DEF DataInv, IssuesComeFromFiles, CommentsFollow
    <3>3. issue[h].from # i
      BY <1>1, <1>5, <3>2 DEF g
    <3> QED
      BY <2>2, <3>2, <3>3
  <2>5. GuidIsFree'
    BY <2>2 DEF GuidIsFree, Data!Running
  <2>6. TopicsAreThere'
    BY <1>1, <2>1, <2>2 DEF DataInv, TopicsAreThere, Data!people, g
  <2> QED
    BY <2>2, <2>3, <2>4, <2>5, <2>6 DEF DataInv
<1> QED
  BY <1>4, <1>5

LEMMA DataBeginImport ==
  ASSUME Data!DataAssumption, ~ OverlapImport, DataInv,
         NEW i \in Imports, NEW u \in Users, NEW p \in Projects, Data!BeginImport(i, u, p)
  PROVE  DataInv'
<1> DEFINE f == Data!Run("find", p, 1)
<1>1. /\ import[i].pc = "new" /\ \A j \in Imports : ~ Data!Running(j)
      /\ import' = [import EXCEPT ![i] = f]
      /\ UNCHANGED <<issue, snapshot, dbCrashes>> /\ UNCHANGED Data!people
  BY DEF Data!BeginImport
<1>2. f \in ImportType /\ f.pc = "find" /\ f.project = p /\ f.topic = 1 /\ 1 \in Data!Guids
  BY DEF Data!Run, ImportType, Data!ImportPCs, Data!DataAssumption, Data!Guids
<1> HIDE DEF f
<1>3. /\ import' \in [Imports -> ImportType]
      /\ import'[i].pc = "find" /\ import'[i].project = p /\ import'[i].topic = 1
      /\ \A j \in Imports \ {i} : import'[j] = import[j]
  BY <1>1, <1>2 DEF DataInv, Data!TypeOK, ImportType
<1>4. \A j \in Imports \ {i} : ~ Data!Running(j)'
  BY <1>1, <1>3 DEF Data!Running
<1>5. Data!TypeOK'
  BY <1>1, <1>3 DEF DataInv, Data!TypeOK, Data!people, ImportType
<1>6. OneImports' /\ AtTopics'
  BY <1>2, <1>3, <1>4 DEF OneImports, AtTopics
<1>7. IssuesComeFromFiles' /\ CommentsFollow'
  BY <1>1, <1>3 DEF DataInv, IssuesComeFromFiles, CommentsFollow
<1>8. GuidIsFree'
  BY <1>3, <1>4 DEF GuidIsFree, Data!Running
<1>9. TopicsAreThere'
  <2>1. \A g \in Data!Guids : ~ (g < 1)
    BY DEF Data!Guids, Data!DataAssumption
  <2> QED
    BY <1>1, <1>3, <2>1 DEF DataInv, TopicsAreThere, Data!people
<1> QED
  BY <1>5, <1>6, <1>7, <1>8, <1>9 DEF DataInv

LEMMA DataCrash ==
  ASSUME Data!DataAssumption, DataInv, Data!Crash
  PROVE  DataInv'
<1>1. /\ UNCHANGED <<project, member, issue, snapshot, changes>>
      /\ dbCrashes' \in 0..MaxCrashes
      /\ import' = [i \in Imports |->
            IF Data!Running(i) THEN [import[i] EXCEPT !.pc = "failed"] ELSE import[i]]
  BY DEF Data!Crash, DataInv, Data!TypeOK, Data!DataAssumption
<1>2. \A i \in Imports : import[i] \in ImportType
  BY DEF DataInv, Data!TypeOK, ImportType
<1>3. \A i \in Imports :
        /\ import'[i] \in ImportType
        /\ import'[i].pc = IF Data!Running(i) THEN "failed" ELSE import[i].pc
        /\ import'[i].topic = import[i].topic
  BY <1>1, <1>2 DEF ImportType, Data!ImportPCs
<1>4. account' \in [Users -> {"none", "first", "later", "ADMIN", "USER"}]
  BY DEF Data!Crash, DataInv, Data!TypeOK
<1>5. Data!TypeOK'
  <2>1. import' \in [Imports -> ImportType]
    BY <1>1, <1>3
  <2> QED
    BY <1>1, <1>4, <2>1 DEF DataInv, Data!TypeOK, ImportType
<1>6. \A i \in Imports : ~ Data!Running(i)'
  BY <1>3 DEF Data!Running
<1>7. OneImports' /\ AtTopics' /\ GuidIsFree'
  BY <1>6 DEF OneImports, AtTopics, GuidIsFree, Data!Running
<1>8. IssuesComeFromFiles' /\ CommentsFollow'
  <2>1. IssuesComeFromFiles'
    BY <1>1, <1>3 DEF DataInv, IssuesComeFromFiles, Data!Running
  <2>2. ASSUME NEW g \in Data!Guids, issue[g] # Data!NoIssue, ~ issue[g].comments
        PROVE  import'[issue[g].from].pc = "failed"
    <3>1. issue[g].from \in Imports /\ import[issue[g].from].pc \in {"failed", "comment"}
      BY <2>2 DEF DataInv, IssuesComeFromFiles, CommentsFollow
    <3> QED
      BY <1>3, <3>1 DEF Data!Running
  <2> QED
    BY <1>1, <2>1, <2>2 DEF CommentsFollow
<1>9. TopicsAreThere'
  BY <1>1, <1>3 DEF DataInv, TopicsAreThere
<1> QED
  BY <1>5, <1>7, <1>8, <1>9 DEF DataInv

LEMMA DataDeleteProject ==
  ASSUME Data!DataAssumption, DataInv, NEW u \in Users, NEW p \in Projects, Data!DeleteProject(u, p)
  PROVE  DataInv'
<1>1. /\ UNCHANGED <<account, snapshot, import, changes, dbCrashes>>
      /\ project' = [project EXCEPT ![p] = "gone"]
      /\ member' = [member EXCEPT ![p] = [w \in Users |-> NoOne]]
      /\ issue' = [g \in Data!Guids |-> IF issue[g].project = p THEN Data!NoIssue ELSE issue[g]]
  BY DEF Data!DeleteProject
<1>2. \A g \in Data!Guids : issue'[g] = Data!NoIssue \/ issue'[g] = issue[g]
  BY <1>1
<1>3. Data!TypeOK'
  <2>1. issue' \in [Data!Guids -> IssueType]
    BY <1>1, NoIssueIs DEF DataInv, Data!TypeOK, IssueType
  <2>2. project' \in [Projects -> {"none", "open", "gone"}]
        /\ member' \in [Projects -> [Users -> Data!Roles \cup {NoOne}]]
    BY <1>1 DEF DataInv, Data!TypeOK
  <2> QED
    BY <1>1, <2>1, <2>2 DEF DataInv, Data!TypeOK, IssueType
<1>4. project'[p] = "gone"
  BY <1>1 DEF DataInv, Data!TypeOK
<1>5. OneImports' /\ AtTopics'
  BY <1>1 DEF DataInv, OneImports, AtTopics, Data!Running
<1>6. IssuesComeFromFiles' /\ CommentsFollow'
  BY <1>1, <1>2 DEF DataInv, IssuesComeFromFiles, CommentsFollow
<1>7. GuidIsFree'
  BY <1>1, <1>2 DEF DataInv, GuidIsFree, AtTopics, Data!Running
<1>8. TopicsAreThere'
  BY <1>4 DEF TopicsAreThere
<1> QED
  BY <1>3, <1>5, <1>6, <1>7, <1>8 DEF DataInv

\* The steps that touch neither imports, issues nor snapshots, and delete no
\* project.
LEMMA DataFrame ==
  ASSUME DataInv, Data!TypeOK', UNCHANGED <<issue, snapshot, import>>,
         \A p \in Projects : project[p] = "gone" => project'[p] = "gone"
  PROVE  DataInv'
BY DEF DataInv, OneImports, AtTopics, IssuesComeFromFiles, CommentsFollow, GuidIsFree,
       TopicsAreThere, Data!Running

LEMMA DataPeople ==
  ASSUME Data!DataAssumption, DataInv, NEW u \in Users,
         \/ Data!Register(u) \/ Data!CreateUser(u)
         \/ \E p \in Projects : Data!CreateProject(u, p)
         \/ \E p \in Projects, w \in Users, role \in Data!Roles \cup {NoOne} : Data!ChangeMember(u, p, w, role)
  PROVE  DataInv'
<1>1. CASE Data!Register(u) \/ Data!CreateUser(u)
  <2>1. account' \in [Users -> {"none", "first", "later", "ADMIN", "USER"}]
    BY <1>1 DEF Data!Register, Data!CreateUser, DataInv, Data!TypeOK
  <2>2. UNCHANGED <<project, member, issue, snapshot, import, changes, dbCrashes>>
    BY <1>1 DEF Data!Register, Data!CreateUser
  <2>3. Data!TypeOK'
    BY <2>1, <2>2 DEF DataInv, Data!TypeOK
  <2> QED
    BY <2>2, <2>3, DataFrame
<1>2. ASSUME NEW p \in Projects, Data!CreateProject(u, p) PROVE DataInv'
  <2>1. /\ project[p] = "none" /\ project' = [project EXCEPT ![p] = "open"]
        /\ member' = [member EXCEPT ![p][u] = "OWNER"]
        /\ UNCHANGED <<account, issue, snapshot, import, changes, dbCrashes>>
    BY <1>2 DEF Data!CreateProject
  <2>2. project' \in [Projects -> {"none", "open", "gone"}]
    BY <2>1 DEF DataInv, Data!TypeOK
  <2>3. member' \in [Projects -> [Users -> Data!Roles \cup {NoOne}]]
    BY <2>1 DEF DataInv, Data!TypeOK, Data!Roles
  <2>4. Data!TypeOK'
    BY <2>1, <2>2, <2>3 DEF DataInv, Data!TypeOK
  <2>5. \A q \in Projects : project[q] = "gone" => project'[q] = "gone"
    BY <2>1 DEF DataInv, Data!TypeOK
  <2> QED
    BY <2>1, <2>4, <2>5, DataFrame
<1>3. ASSUME NEW p \in Projects, NEW w \in Users, NEW role \in Data!Roles \cup {NoOne},
             Data!ChangeMember(u, p, w, role)
      PROVE  DataInv'
  <2>1. /\ member' = [member EXCEPT ![p][w] = role]
        /\ UNCHANGED <<account, project, issue, snapshot, import, dbCrashes>>
        /\ changes' \in 0..MaxChanges
    BY <1>3 DEF Data!ChangeMember, DataInv, Data!TypeOK, Data!DataAssumption
  <2>2. member' \in [Projects -> [Users -> Data!Roles \cup {NoOne}]]
    BY <2>1 DEF DataInv, Data!TypeOK
  <2>3. Data!TypeOK'
    BY <2>1, <2>2 DEF DataInv, Data!TypeOK
  <2> QED
    BY <2>1, <2>3, DataFrame
<1> QED
  BY <1>1, <1>2, <1>3

\* Every step keeps it, and so it holds always.
LEMMA DataStep ==
  ASSUME Data!DataAssumption, ~ OverlapImport, DataInv, [Data!Next]_dataVars
  PROVE  DataInv'
<1>1. CASE Data!Next
  BY <1>1, DataPeople, DataDeleteProject, DataBeginImport, DataFind, DataPutSnapshot,
     DataCreateIssue, DataCreateComments, DataCrash DEF Data!Next
<1>2. CASE UNCHANGED dataVars
  <2>1. UNCHANGED <<issue, snapshot, import>> /\ project' = project /\ Data!TypeOK'
    BY <1>2 DEF dataVars, DataInv, Data!TypeOK
  <2> QED
    BY <2>1, DataFrame
<1> QED
  BY <1>1, <1>2

LEMMA DataInvAlways ==
  ASSUME Data!DataAssumption, ~ OverlapImport
  PROVE  Data!Spec => []DataInv
<1>1. Data!Init => DataInv
  BY DataInit
<1>2. DataInv /\ [Data!Next]_dataVars => DataInv'
  BY DataStep
<1> QED
  BY <1>1, <1>2, PTL DEF Data!Spec, Data!vars, dataVars

\* What the theorem on issues needs of it.
LEMMA IssuesStayWhole == DataInv => Data!IssuesAreWhole
BY DEF DataInv, Data!IssuesAreWhole, IssuesComeFromFiles, CommentsFollow, TopicsAreThere

-----------------------------------------------------------------------------
(* The parts of the workspace: each is its component's specification, so     *)
(* what is invariant in the component is invariant in the workspace.         *)

LEMMA UploadSpec == WorkspaceSpec => Upload_!Spec
<1>1. WorkspaceInit => Upload_!Init
  BY DEF WorkspaceInit
<1>2. [WorkspaceNext]_<<part, vars, blobVars, uploadVars, eventVars, bvhVars, dataVars, reportVars>>
        => [Upload_!Next]_uploadVars
  BY DEF WorkspaceNext, uploadVars
<1> QED
  BY <1>1, <1>2, PTL DEF WorkspaceSpec, Upload_!Spec, Upload_!vars, uploadVars

LEMMA EventsSpec == WorkspaceSpec => Events!Spec
<1>1. WorkspaceInit => Events!Init
  BY DEF WorkspaceInit
<1>2. [WorkspaceNext]_<<part, vars, blobVars, uploadVars, eventVars, bvhVars, dataVars, reportVars>>
        => [Events!Next]_eventVars
  BY DEF WorkspaceNext, eventVars
<1> QED
  BY <1>1, <1>2, PTL DEF WorkspaceSpec, Events!Spec, Events!vars, eventVars

LEMMA BuildsSpec == WorkspaceSpec => Bvh!Spec
<1>1. WorkspaceInit => Bvh!Init
  BY DEF WorkspaceInit
<1>2. [WorkspaceNext]_<<part, vars, blobVars, uploadVars, eventVars, bvhVars, dataVars, reportVars>>
        => [Bvh!Next]_bvhVars
  BY DEF WorkspaceNext, bvhVars
<1> QED
  BY <1>1, <1>2, PTL DEF WorkspaceSpec, Bvh!Spec, Bvh!vars, bvhVars

LEMMA DataSpec == WorkspaceSpec => Data!Spec
<1>1. WorkspaceInit => Data!Init
  BY DEF WorkspaceInit
<1>2. [WorkspaceNext]_<<part, vars, blobVars, uploadVars, eventVars, bvhVars, dataVars, reportVars>>
        => [Data!Next]_dataVars
  BY DEF WorkspaceNext, dataVars
<1> QED
  BY <1>1, <1>2, PTL DEF WorkspaceSpec, Data!Spec, Data!vars, dataVars

\* apps/api/src/routes/models.ts, the chunked upload: when no complete overlaps
\* another or a PUT, whatever arrives damaged, again or in any order, and
\* wherever the API crashes, a version has the bytes that its hash was made of,
\* and with checksums they are the user's.
THEOREM UploadsAreWhole ==
  ASSUME ~ OverlapUpload
  PROVE  WorkspaceSpec => []UploadIsTheFile
<1>1. Upload_!Spec => []UploadInv
  BY UploadInvAlways, UploadAssumption
<1>2. UploadInv => UploadIsTheFile
  BY UploadsAreFiles DEF UploadIsTheFile
<1> QED
  BY <1>1, <1>2, UploadSpec, PTL

\* routes/events.ts and ViewerPage.tsx: a page that listens, with nothing on
\* its way, shows the version's row, or missed a change made while it did not
\* listen or made in silence; for any number of conversions, breaks and restarts.
THEOREM PagesAreCurrent == WorkspaceSpec => []LivePageIsCurrent
<1>1. EventsInv => LivePageIsCurrent
  BY LivePagesAreCurrent DEF LivePageIsCurrent
<1> QED
  BY <1>1, EventsInvAlways, EventsSpec, PTL

\* apps/web/src/viewer/bvhManager.ts: a key has one build under way at most,
\* none once it has a structure, and whoever waits has a build to wait for.
THEOREM StructuresAreBuiltOnce == WorkspaceSpec => []BuiltOnce
<1>1. Bvh!Spec => []BuildsInv
  BY BuildsInvAlways, BuildsAssumption
<1>2. BuildsInv => BuiltOnce
  BY BuildsAreOnce DEF BuiltOnce
<1> QED
  BY <1>1, <1>2, BuildsSpec, PTL

\* routes/issues.ts, the import of a BCF file: when imports do not overlap,
\* whatever fails, crashes or is deleted, an issue has the snapshot of the file
\* it comes from, an import that ended left all comments, and none of its topics
\* is without an issue unless a project was deleted.
THEOREM ImportsLeaveWholeIssues ==
  ASSUME ~ OverlapImport
  PROVE  WorkspaceSpec => []IssuesAreWhole
<1>1. Data!Spec => []DataInv
  BY DataInvAlways, DataAssumption
<1>2. DataInv => IssuesAreWhole
  BY IssuesStayWhole DEF IssuesAreWhole
<1> QED
  BY <1>1, <1>2, DataSpec, PTL

\* The content blobs' part of the workspace is their specification.
LEMMA ContentSpec == WorkspaceSpec => Content!Spec
<1>1. WorkspaceInit => Content!Init
  BY DEF WorkspaceInit
<1>2. [WorkspaceNext]_<<part, vars, blobVars, uploadVars, eventVars, bvhVars, dataVars, reportVars>>
        => [Content!Next]_blobVars
  BY DEF WorkspaceNext, blobVars
<1> QED
  BY <1>1, <1>2, PTL DEF WorkspaceSpec, Content!Spec, Content!vars, blobVars

\* apps/api/src/routes/models.ts: a version that exists has its blob row and
\* its file, whatever uploads, imports and deletions run and fail.
THEOREM ContentIsThere ==
  ASSUME Serialised
  PROVE  WorkspaceSpec => []VersionHasContent
<1>1. Content!Spec => []BlobsInv
  BY BlobsInvAlways, BlobsAssumption
<1>2. BlobsInv => VersionHasContent
  BY VersionsHaveContent DEF VersionHasContent
<1> QED
  BY <1>1, <1>2, ContentSpec, PTL

\* ... : between requests the reference count covers the versions that link
\* the row, and until a fault it is exact and nothing leaks.
THEOREM CountsAreKept ==
  ASSUME Serialised
  PROVE  WorkspaceSpec => []RefsAreCounted
<1>1. Content!Spec => []BlobsInv
  BY BlobsInvAlways, BlobsAssumption
<1>2. BlobsInv => RefsAreCounted
  BY ReferencesAreCounted, BlobsAssumption DEF RefsAreCounted
<1> QED
  BY <1>1, <1>2, ContentSpec, PTL

\* releaseBlobRef: the file of a content is removed only while nothing links
\* its row.
THEOREM LinkedContentIsKept ==
  ASSUME Serialised
  PROVE  WorkspaceSpec => LiveContentIsKept
<1>1. Content!Spec => []BlobsInv
  BY BlobsInvAlways, BlobsAssumption
<1>2. BlobsInv /\ [Content!Next]_blobVars =>
         [file /\ ~ file' => \A b \in Blobs : Content!LiveBlob(b) => Content!Links(b) = {}]_blobVars
  BY LiveContentStays DEF Content!vars, blobVars
<1> QED
  BY <1>1, <1>2, ContentSpec, PTL
     DEF LiveContentIsKept, Content!LiveContentIsKept, Content!Spec, Content!vars, blobVars

\* An answer is of one of the kinds the routes give; the models stay.
LEMMA ReportsTyped ==
  ASSUME part \in Parts, part = "reports" => Reports!TypeOK,
         [WorkspaceNext]_<<part, vars, blobVars, uploadVars, eventVars, bvhVars, dataVars, reportVars>>
  PROVE  part' = part /\ (part = "reports" => Reports!TypeOK')
<1>1. part' = part
  BY DEF WorkspaceNext
<1>2. SUFFICES ASSUME part = "reports", Reports!TypeOK PROVE Reports!TypeOK'
  BY <1>1
<1>3. UNCHANGED <<tables, hidden>> /\ (report' = report \/ Reports!Next)
  BY <1>2 DEF WorkspaceNext, reportVars, Reports!Next, Reports!Deny, Reports!Compare,
              Reports!DetectClashes, Reports!Answer
<1>4. report'.kind \in {"none", "denied", "clashes", "diff"}
  <2>1. CASE report' = report
    BY <1>2, <2>1 DEF Reports!TypeOK
  <2>2. CASE Reports!Next
    <3>1. report'.kind \in {"denied", "clashes", "diff"}
      BY <2>2 DEF Reports!Next, Reports!Deny, Reports!Compare, Reports!DetectClashes, Reports!Answer
    <3> QED
      BY <3>1
  <2> QED
    BY <1>3, <2>1, <2>2
<1> QED
  BY <1>2, <1>3, <1>4 DEF Reports!TypeOK

\* The type invariant of every part, where its requests are in the order the
\* workspace runs them in.
THEOREM WorkspaceIsTyped ==
  ASSUME Overlap = FALSE, Serialised, ~ OverlapUpload, ~ OverlapImport
  PROVE  WorkspaceSpec => []WorkspaceTypeOK
<1> DEFINE Typed_ == part \in Parts /\ (part = "reports" => Reports!TypeOK)
<1>1. WorkspaceSpec => []Typed_
  <2>1. WorkspaceInit => Typed_
    <3>1. SUFFICES ASSUME WorkspaceInit, part = "reports" PROVE Reports!TypeOK
      BY DEF WorkspaceInit
    <3>2. Reports!Init
      BY <3>1 DEF WorkspaceInit
    <3> QED
      BY <3>2 DEF Reports!Init, Reports!TypeOK, Reports!NoReport
  <2>2. Typed_ /\ [WorkspaceNext]_<<part, vars, blobVars, uploadVars, eventVars, bvhVars, dataVars,
                                   reportVars>>
          => Typed_'
    BY ReportsTyped
  <2> QED
    BY <2>1, <2>2, PTL DEF WorkspaceSpec
<1>2. WorkspaceSpec => []TypeOK
  <2>1. WorkspaceInit => RoutingInv
    BY InitRoutingInv DEF WorkspaceInit
  <2>2. RoutingInv /\ [WorkspaceNext]_<<part, vars, blobVars, uploadVars, eventVars, bvhVars, dataVars,
                                       reportVars>>
          => RoutingInv'
    <3>1. [WorkspaceNext]_<<part, vars, blobVars, uploadVars, eventVars, bvhVars, dataVars, reportVars>>
            => [Next]_vars
      BY DEF WorkspaceNext
    <3> QED
      BY <3>1, NextRoutingInv
  <2>3. RoutingInv => TypeOK
    BY DEF RoutingInv
  <2> QED
    BY <2>1, <2>2, <2>3, PTL DEF WorkspaceSpec
<1>3. /\ WorkspaceSpec => []BlobsInv
      /\ WorkspaceSpec => []UploadInv
      /\ WorkspaceSpec => []Events!TypeOK
      /\ WorkspaceSpec => []BuildsInv
      /\ WorkspaceSpec => []DataInv
  <2>1. WorkspaceSpec => []BlobsInv
    BY BlobsInvAlways, BlobsAssumption, ContentSpec, PTL
  <2>2. WorkspaceSpec => []UploadInv
    BY UploadInvAlways, UploadAssumption, UploadSpec, PTL
  <2>3. WorkspaceSpec => []Events!TypeOK
    BY EventsTyped, EventsAssumption, EventsSpec, PTL
  <2>4. WorkspaceSpec => []BuildsInv
    BY BuildsInvAlways, BuildsAssumption, BuildsSpec, PTL
  <2>5. WorkspaceSpec => []DataInv
    BY DataInvAlways, DataAssumption, DataSpec, PTL
  <2> QED
    BY <2>1, <2>2, <2>3, <2>4, <2>5
<1>4. Typed_ /\ TypeOK /\ BlobsInv /\ UploadInv /\ Events!TypeOK /\ BuildsInv /\ DataInv
        => WorkspaceTypeOK
  BY DEF WorkspaceTypeOK, Parts, BlobsInv, UploadInv, BuildsInv, DataInv
<1> QED
  BY <1>1, <1>2, <1>3, <1>4, PTL

-----------------------------------------------------------------------------
(* Reports.  The binary search: an interval that is halved as often as it is *)
(* long has become empty, and where it is the predicate changes.             *)

Halve(before, r) ==
    LET mid == (r.lo + r.hi) \div 2
    IN  IF r.lo >= r.hi THEN r
        ELSE IF before[mid] THEN [lo |-> mid + 1, hi |-> r.hi] ELSE [lo |-> r.lo, hi |-> mid]

Halves(f, before) ==
    f = [n \in Nat |-> IF n = 0 THEN [lo |-> 1, hi |-> Len(before) + 1]
                       ELSE Halve(before, f[n - 1])]

HalvesTo(f, n, before) ==
    f[0] = [lo |-> 1, hi |-> Len(before) + 1] /\ \A i \in 1..n : f[i] = Halve(before, f[i - 1])

LEMMA HalvesAgree ==
  ASSUME NEW before, NEW n \in Nat, NEW f, NEW g,
         HalvesTo(f, n, before), HalvesTo(g, n, before)
  PROVE  f[n] = g[n]
<1> DEFINE A == {k \in Nat : k <= n => f[k] = g[k]}
<1>1. 0 \in A
  BY DEF HalvesTo
<1>2. ASSUME NEW k \in Nat, k \in A PROVE k + 1 \in A
  <2>1. CASE k + 1 <= n
    <3>1. k + 1 \in 1..n /\ (k + 1) - 1 = k /\ f[k] = g[k]
      BY <1>2, <2>1
    <3> QED
      BY <3>1 DEF HalvesTo
  <2> QED
    BY <2>1
<1> HIDE DEF A
<1>3. Nat \subseteq A
  BY <1>1, <1>2, AllNumbers
<1> QED
  BY <1>3 DEF A

LEMMA HalvesExist == ASSUME NEW before PROVE \E f : Halves(f, before)
<1> DEFINE x == [lo |-> 1, hi |-> Len(before) + 1]
           A == {n \in Nat : \E f : HalvesTo(f, n, before)}
<1>1. 0 \in A
  <2>1. HalvesTo([i \in Nat |-> x], 0, before)
    BY DEF HalvesTo
  <2> QED
    BY <2>1
<1>2. ASSUME NEW n \in Nat, n \in A PROVE n + 1 \in A
  <2>1. PICK f : HalvesTo(f, n, before)
    BY <1>2
  <2> DEFINE g == [i \in Nat |-> IF i <= n THEN f[i] ELSE Halve(before, f[n])]
  <2>2. g[0] = x /\ \A i \in 1..n : g[i] = Halve(before, g[i - 1])
    BY <2>1 DEF HalvesTo
  <2>3. g[n + 1] = Halve(before, g[n])
    OBVIOUS
  <2>4. \A i \in 1..(n + 1) : i \in 1..n \/ (i = n + 1 /\ i - 1 = n)
    OBVIOUS
  <2> HIDE DEF g
  <2>5. HalvesTo(g, n + 1, before)
    BY <2>2, <2>3, <2>4 DEF HalvesTo
  <2> QED
    BY <2>5
<1> HIDE DEF A
<1>3. Nat \subseteq A
  BY <1>1, <1>2, AllNumbers
<1> DEFINE W(n) == CHOOSE f : HalvesTo(f, n, before)
           F    == [n \in Nat |-> W(n)[n]]
<1>4. \A n \in Nat : HalvesTo(W(n), n, before)
  BY <1>3 DEF A
<1> HIDE DEF W
<1>5. F[0] = x
  BY <1>4 DEF HalvesTo
<1>6. ASSUME NEW n \in Nat \ {0} PROVE F[n] = Halve(before, F[n - 1])
  <2>1. n - 1 \in Nat /\ n \in Nat /\ n \in 1..n /\ 1..(n - 1) \subseteq 1..n
    OBVIOUS
  <2>2. W(n)[n] = Halve(before, W(n)[n - 1])
    BY <1>4, <2>1 DEF HalvesTo
  <2>3. HalvesTo(W(n), n - 1, before) /\ HalvesTo(W(n - 1), n - 1, before)
    BY <1>4, <2>1 DEF HalvesTo
  <2>4. W(n)[n - 1] = W(n - 1)[n - 1]
    BY <2>1, <2>3, HalvesAgree
  <2> QED
    BY <2>1, <2>2, <2>4
<1>7. Halves(F, before)
  <2>1. \A n \in Nat : F[n] = IF n = 0 THEN x ELSE Halve(before, F[n - 1])
    BY <1>5, <1>6
  <2>2. F = [n \in Nat |-> F[n]]
    OBVIOUS
  <2> HIDE DEF F
  <2> QED
    BY <2>1, <2>2 DEF Halves
<1> QED
  BY <1>7

LEMMA BisectHalves ==
  ASSUME NEW before
  PROVE  \E f : Halves(f, before) /\ Reports!Bisect(before) = f[Len(before)].lo
<1> DEFINE f == CHOOSE g : Halves(g, before)
<1>1. Halves(f, before)
  BY HalvesExist
<1>2. Reports!Bisect(before) = f[Len(before)].lo
  BY DEF Reports!Bisect, Halves, Halve
<1> QED
  BY <1>1, <1>2

\* A predicate that holds up to some index changes where the search ends.
LEMMA BisectFinds ==
  ASSUME NEW n \in Nat, NEW S, NEW before \in [1..n -> S],
         \A i, j \in 1..n : i < j /\ before[j] => before[i]
  PROVE  /\ Reports!Bisect(before) \in 1..(n + 1)
         /\ \A i \in 1..n : before[i] <=> i < Reports!Bisect(before)
<1>1. Len(before) = n
  OBVIOUS
<1>2. PICK f : Halves(f, before) /\ Reports!Bisect(before) = f[n].lo
  BY <1>1, BisectHalves
<1>3. f[0] = [lo |-> 1, hi |-> n + 1] /\ \A k \in Nat : f[k + 1] = Halve(before, f[k])
  <2>1. \A k \in Nat : k + 1 \in Nat /\ k + 1 # 0 /\ (k + 1) - 1 = k
    OBVIOUS
  <2>2. f = [k \in Nat |-> IF k = 0 THEN [lo |-> 1, hi |-> n + 1] ELSE Halve(before, f[k - 1])]
    BY <1>1, <1>2 DEF Halves
  <2>3. \A k \in Nat : f[k] = IF k = 0 THEN [lo |-> 1, hi |-> n + 1] ELSE Halve(before, f[k - 1])
    BY <2>2
  <2> QED
    BY <2>1, <2>3
<1> DEFINE Around(r) == /\ r.lo \in 1..(n + 1) /\ r.hi \in 1..(n + 1) /\ r.lo <= r.hi
                      /\ \A i \in 1..n : (i < r.lo => before[i]) /\ (i >= r.hi => ~ before[i])
           A == {k \in Nat : Around(f[k]) /\ (f[k].lo = f[k].hi \/ f[k].hi - f[k].lo <= n - k)}
<1>4. 0 \in A
  <2>1. f[0].lo = 1 /\ f[0].hi = n + 1
    BY <1>3
  <2> QED
    BY <2>1
<1>5. ASSUME NEW k \in Nat, k \in A PROVE k + 1 \in A
  <2> DEFINE r == f[k]
             s == f[k + 1]
             mid == (r.lo + r.hi) \div 2
  <2>1. s = Halve(before, r) /\ Around(r) /\ (r.lo = r.hi \/ r.hi - r.lo <= n - k)
    BY <1>3, <1>5
  <2> HIDE DEF r, s
  <2> SUFFICES Around(s) /\ (s.lo = s.hi \/ s.hi - s.lo <= n - (k + 1))
    BY DEF s
  <2>2. CASE r.lo >= r.hi
    BY <2>1, <2>2 DEF Halve
  <2>3. CASE r.lo < r.hi
    <3>1. mid \in Int /\ r.lo <= mid /\ mid < r.hi
      <4>1. r.lo \in Int /\ r.hi \in Int
        BY <2>1
      <4>2. \A p, q \in Int : p < q => (p + q) \div 2 \in Int /\ p <= (p + q) \div 2 /\ (p + q) \div 2 < q
        OBVIOUS
      <4> QED
        BY <2>3, <4>1, <4>2
    <3>2. mid \in 1..n /\ mid + 1 \in 1..(n + 1)
      BY <2>1, <3>1
    <3> HIDE DEF mid
    <3>3. CASE before[mid]
      <4>1. s.lo = mid + 1 /\ s.hi = r.hi
        BY <2>1, <2>3, <3>3 DEF Halve, mid
      <4>2. \A i \in 1..n : i < mid + 1 => before[i]
        BY <3>2, <3>3
      <4> QED
        BY <2>1, <2>3, <3>1, <3>2, <4>1, <4>2
    <3>4. CASE ~ before[mid]
      <4>1. s.lo = r.lo /\ s.hi = mid
        BY <2>1, <2>3, <3>4 DEF Halve, mid
      <4>2. \A i \in 1..n : i >= mid => ~ before[i]
        BY <3>2, <3>4
      <4> QED
        BY <2>1, <2>3, <3>1, <3>2, <4>1, <4>2
    <3> QED
      BY <3>3, <3>4
  <2> QED
    BY <2>1, <2>2, <2>3
<1>6. n \in A
  <2> HIDE DEF A
  <2> QED
    BY <1>4, <1>5, AllNumbers
<1>7. Around(f[n]) /\ f[n].lo = f[n].hi
  BY <1>6
<1> QED
  BY <1>2, <1>7

-----------------------------------------------------------------------------
(* Clashes: the window holds the boxes whose left edge is in it, so a clash  *)
(* is reported exactly where the lower bound does not hide it.               *)

TablesOK == tables \in [ReportVersions -> Tables]

LEMMA ReportsCounts ==
  \A S : (Reports!IsFiniteSet(S) <=> IsFiniteSet(S)) /\ Reports!Cardinality(S) = Cardinality(S)
<1>1. \A S : Reports!IsFiniteSet(S) <=> IsFiniteSet(S)
  BY DEF Reports!IsFiniteSet, IsFiniteSet
<1>2. \A S : Reports!Cardinality(S) = Cardinality(S)
  BY DEF Reports!Cardinality, Cardinality
<1> QED
  BY <1>1, <1>2

LEMMA RowsAre ==
  ASSUME TablesOK, NEW v \in ReportVersions
  PROVE  /\ tables[v].origin \in [Axes -> Int]
         /\ IsFiniteSet(DOMAIN Reports!Rows(v))
         /\ DOMAIN Reports!Rows(v) \subseteq Nat
         /\ \A i \in Reports!Boxes(v) :
               Reports!Rows(v)[i].min \in [Axes -> Int] /\ Reports!Rows(v)[i].max \in [Axes -> Int]
<1>1. Reports!ContentOK(tables[v])
  BY ReportsAssumption DEF TablesOK, Reports!ReportsAssumption
<1>2. PICK n \in Nat : DOMAIN tables[v].rows = 1..n
  BY <1>1 DEF Reports!ContentOK
<1>3. IsFiniteSet(1..n)
  <2>1. 1 \in Int /\ n \in Int
    OBVIOUS
  <2> QED
    BY <2>1, FS_Interval
<1>4. \A i \in Reports!Boxes(v) :
         Reports!Rows(v)[i].min \in [Axes -> Int] /\ Reports!Rows(v)[i].max \in [Axes -> Int]
  BY <1>1 DEF Reports!ContentOK, Reports!RowOK, Reports!Boxes, Reports!Rows
<1> QED
  BY <1>1, <1>2, <1>3, <1>4 DEF Reports!ContentOK, Reports!Rows

LEMMA BoxesAreFinite ==
  ASSUME TablesOK, NEW v \in ReportVersions
  PROVE  IsFiniteSet(Reports!Boxes(v))
<1>1. Reports!Boxes(v) \in SUBSET DOMAIN Reports!Rows(v)
  BY DEF Reports!Boxes
<1> QED
  BY <1>1, RowsAre, FS_Subset

\* Boxes in the frame of w are where they are in the world, less w's origin.
LEMMA ShiftedAre ==
  ASSUME TablesOK, NEW v \in ReportVersions, NEW w \in ReportVersions
  PROVE  /\ DOMAIN Reports!Shifted(v, w) = Reports!Boxes(v)
         /\ \A i \in Reports!Boxes(v) :
              /\ Reports!Shifted(v, w)[i].id = Reports!Rows(v)[i].id
              /\ \A x \in Axes :
                   /\ tables[w].origin[x] \in Int
                   /\ Reports!World(v, i).min[x] \in Int /\ Reports!World(v, i).max[x] \in Int
                   /\ Reports!Shifted(v, w)[i].min[x] = Reports!World(v, i).min[x] - tables[w].origin[x]
                   /\ Reports!Shifted(v, w)[i].max[x] = Reports!World(v, i).max[x] - tables[w].origin[x]
<1>1. DOMAIN Reports!Shifted(v, w) = Reports!Boxes(v)
  BY DEF Reports!Shifted
<1>2. ASSUME NEW i \in Reports!Boxes(v)
      PROVE  /\ Reports!Shifted(v, w)[i].id = Reports!Rows(v)[i].id
             /\ \A x \in Axes :
                  /\ tables[w].origin[x] \in Int
                  /\ Reports!World(v, i).min[x] \in Int /\ Reports!World(v, i).max[x] \in Int
                  /\ Reports!Shifted(v, w)[i].min[x] = Reports!World(v, i).min[x] - tables[w].origin[x]
                  /\ Reports!Shifted(v, w)[i].max[x] = Reports!World(v, i).max[x] - tables[w].origin[x]
  <2>1. Reports!Shifted(v, w)[i].id = Reports!Rows(v)[i].id
    BY DEF Reports!Shifted
  <2>2. ASSUME NEW x \in Axes
        PROVE  /\ tables[w].origin[x] \in Int
               /\ Reports!World(v, i).min[x] \in Int /\ Reports!World(v, i).max[x] \in Int
               /\ Reports!Shifted(v, w)[i].min[x] = Reports!World(v, i).min[x] - tables[w].origin[x]
               /\ Reports!Shifted(v, w)[i].max[x] = Reports!World(v, i).max[x] - tables[w].origin[x]
    <3>1. /\ tables[v].origin[x] \in Int /\ tables[w].origin[x] \in Int
          /\ Reports!Rows(v)[i].min[x] \in Int /\ Reports!Rows(v)[i].max[x] \in Int
      <4>1. /\ tables[v].origin \in [Axes -> Int] /\ tables[w].origin \in [Axes -> Int]
            /\ Reports!Rows(v)[i].min \in [Axes -> Int] /\ Reports!Rows(v)[i].max \in [Axes -> Int]
        BY RowsAre
      <4> QED
        BY <4>1
    <3>2. /\ Reports!World(v, i).min[x] = Reports!Rows(v)[i].min[x] + tables[v].origin[x]
          /\ Reports!World(v, i).max[x] = Reports!Rows(v)[i].max[x] + tables[v].origin[x]
      BY DEF Reports!World
    <3>3. /\ Reports!Shifted(v, w)[i].min[x]
               = Reports!Rows(v)[i].min[x] + (tables[v].origin[x] - tables[w].origin[x])
          /\ Reports!Shifted(v, w)[i].max[x]
               = Reports!Rows(v)[i].max[x] + (tables[v].origin[x] - tables[w].origin[x])
      BY DEF Reports!Shifted
    <3> QED
      BY <3>1, <3>2, <3>3
  <2> QED
    BY <2>1, <2>2
<1> QED
  BY <1>1, <1>2

Sweeps(boxes) == [i \in DOMAIN boxes |-> boxes[i].min[Sweep]]

LEMMA SortedIs ==
  ASSUME NEW boxes, IsFiniteSet(DOMAIN boxes), \A i \in DOMAIN boxes : boxes[i].min[Sweep] \in Int
  PROVE  /\ Reports!Sorted(boxes) \in [1..Cardinality(DOMAIN boxes) -> DOMAIN boxes]
         /\ Ordered(Reports!Sorted(boxes), Sweeps(boxes))
<1> DEFINE D == DOMAIN boxes
           P(s) == \A i, j \in DOMAIN s : i < j =>
                      s[i] # s[j] /\ boxes[s[i]].min[Sweep] <= boxes[s[j]].min[Sweep]
<1>1. Sweeps(boxes) \in [D -> Int]
  BY DEF Sweeps
<1>2. ASSUME NEW s \in [1..Cardinality(D) -> D] PROVE P(s) <=> Ordered(s, Sweeps(boxes))
  <2>1. \A i \in DOMAIN s : Sweeps(boxes)[s[i]] = boxes[s[i]].min[Sweep]
    BY DEF Sweeps
  <2> QED
    BY <2>1 DEF Ordered
<1>3. \E s \in [1..Cardinality(D) -> D] : P(s)
  <2>1. PICK s \in [1..Cardinality(D) -> D] : Ordered(s, Sweeps(boxes))
    BY <1>1, OrdersExist
  <2> QED
    BY <1>2, <2>1
<1>4. Reports!Sorted(boxes) = CHOOSE s \in [1..Cardinality(D) -> D] : P(s)
  BY ReportsCounts DEF Reports!Sorted
<1> HIDE DEF P
<1>5. Reports!Sorted(boxes) \in [1..Cardinality(D) -> D] /\ P(Reports!Sorted(boxes))
  BY <1>3, <1>4
<1> QED
  BY <1>2, <1>5

\* The indices of the window are those of the left edges between its limits.
LEMMA WindowIs ==
  ASSUME NEW n \in Nat, NEW left \in [1..n -> Int], NEW p, NEW t \in Int,
         \A i, j \in 1..n : i < j => left[i] <= left[j],
         p.min[Sweep] \in Int, p.max[Sweep] \in Int
  PROVE  \A k : k \in Reports!Window(left, p, t) <=>
            k \in 1..n /\ p.min[Sweep] - t <= left[k] /\ left[k] <= p.max[Sweep] + t
<1> DEFINE v == p.min[Sweep] - t
           w == p.max[Sweep] + t
           below == [k \in 1..n |-> left[k] < v]
           upto  == [k \in 1..n |-> left[k] <= w]
           lo == Reports!Bisect(below)
           hi == Reports!Bisect(upto)
<1>1. v \in Int /\ w \in Int
  OBVIOUS
<1>2. Reports!Window(left, p, t) = lo .. (hi - 1)
  BY DEF Reports!Window
<1> HIDE DEF v, w
<1>3. lo \in 1..(n + 1) /\ \A k \in 1..n : left[k] < v <=> k < lo
  <2>1. \A i, j \in 1..n : i < j /\ left[j] < v => left[i] < v
    BY <1>1
  <2>2. \A k \in 1..n : below[k] <=> left[k] < v
    OBVIOUS
  <2>3. below \in [1..n -> {below[k] : k \in 1..n}]
    OBVIOUS
  <2> HIDE DEF below
  <2>4. \A i, j \in 1..n : i < j /\ below[j] => below[i]
    BY <2>1, <2>2
  <2> QED
    BY <2>2, <2>3, <2>4, BisectFinds
<1>4. hi \in 1..(n + 1) /\ \A k \in 1..n : left[k] <= w <=> k < hi
  <2>1. \A i, j \in 1..n : i < j /\ left[j] <= w => left[i] <= w
    BY <1>1
  <2>2. \A k \in 1..n : upto[k] <=> left[k] <= w
    OBVIOUS
  <2>3. upto \in [1..n -> {upto[k] : k \in 1..n}]
    OBVIOUS
  <2> HIDE DEF upto
  <2>4. \A i, j \in 1..n : i < j /\ upto[j] => upto[i]
    BY <2>1, <2>2
  <2> QED
    BY <2>2, <2>3, <2>4, BisectFinds
<1> HIDE DEF lo, hi
<1>5. ASSUME NEW k
      PROVE  k \in lo .. (hi - 1) <=> k \in 1..n /\ v <= left[k] /\ left[k] <= w
  <2>1. k \in lo .. (hi - 1) <=> k \in 1..n /\ ~ (k < lo) /\ k < hi
    BY <1>3, <1>4
  <2>2. k \in 1..n => (v <= left[k] <=> ~ (left[k] < v))
    BY <1>1
  <2> QED
    BY <1>3, <1>4, <2>1, <2>2
<1> QED
  BY <1>2, <1>5 DEF v, w

\* Whether a box of b is looked at for a box of a.
LEMMA LookedAt ==
  ASSUME TablesOK, NEW a \in ReportVersions, NEW b \in ReportVersions, NEW t \in Tolerances,
         NEW i \in Reports!Boxes(a), NEW q \in Reports!Boxes(b)
  PROVE  LET boxes  == Reports!Shifted(b, a)
             sorted == Reports!Sorted(boxes)
             left   == [k \in DOMAIN sorted |-> boxes[sorted[k]].min[Sweep]]
         IN  (\E k \in Reports!Window(left, Reports!Shifted(a, a)[i], t) : sorted[k] = q) <=>
                /\ Reports!World(a, i).min[Sweep] - t <= Reports!World(b, q).min[Sweep]
                /\ Reports!World(b, q).min[Sweep] <= Reports!World(a, i).max[Sweep] + t
<1> DEFINE boxes  == Reports!Shifted(b, a)
           sorted == Reports!Sorted(boxes)
           left   == [k \in DOMAIN sorted |-> boxes[sorted[k]].min[Sweep]]
           p      == Reports!Shifted(a, a)[i]
           D      == Reports!Boxes(b)
           c      == tables[a].origin[Sweep]
<1>1. PICK n \in Nat : n = Cardinality(D)
  BY BoxesAreFinite, FS_CardinalityType
<1>2. DOMAIN boxes = D /\ \A j \in D : boxes[j].min[Sweep] = Reports!World(b, j).min[Sweep] - c
                                     /\ Reports!World(b, j).min[Sweep] \in Int
  BY ShiftedAre, ReportsAssumption DEF Reports!ReportsAssumption
<1>3. /\ c \in Int /\ p.min[Sweep] = Reports!World(a, i).min[Sweep] - c
      /\ p.max[Sweep] = Reports!World(a, i).max[Sweep] - c
      /\ Reports!World(a, i).min[Sweep] \in Int /\ Reports!World(a, i).max[Sweep] \in Int
  BY ShiftedAre, ReportsAssumption DEF Reports!ReportsAssumption
<1> HIDE DEF boxes, p, c
<1>4. sorted \in [1..n -> D] /\ Ordered(sorted, Sweeps(boxes))
  <2>1. \A j \in D : boxes[j].min[Sweep] \in Int
    BY <1>2, <1>3
  <2> QED
    BY <1>1, <1>2, <2>1, SortedIs, BoxesAreFinite
<1>5. \A x \in D : \E k \in 1..n : sorted[k] = x
  BY <1>1, <1>4, OrdersHoldAll, BoxesAreFinite
<1> HIDE DEF sorted
<1>6. left = [k \in 1..n |-> boxes[sorted[k]].min[Sweep]]
  BY <1>4
<1>7. /\ left \in [1..n -> Int]
      /\ \A k \in 1..n : left[k] = boxes[sorted[k]].min[Sweep]
      /\ \A k, j \in 1..n : k < j => left[k] <= left[j]
  <2>1. \A k \in 1..n : sorted[k] \in D /\ boxes[sorted[k]].min[Sweep] \in Int
    BY <1>2, <1>3, <1>4
  <2>2. \A k \in 1..n : Sweeps(boxes)[sorted[k]] = boxes[sorted[k]].min[Sweep]
    BY <1>2, <2>1 DEF Sweeps
  <2> QED
    BY <1>4, <1>6, <2>1, <2>2 DEF Ordered
<1> HIDE DEF left
<1>8. t \in Int /\ p.min[Sweep] \in Int /\ p.max[Sweep] \in Int
  BY <1>3, ReportsAssumption DEF Reports!ReportsAssumption
<1>9. \A k : k \in Reports!Window(left, p, t) <=>
            k \in 1..n /\ p.min[Sweep] - t <= left[k] /\ left[k] <= p.max[Sweep] + t
  BY <1>7, <1>8, WindowIs
<1>10. (\E k \in Reports!Window(left, p, t) : sorted[k] = q) <=>
          p.min[Sweep] - t <= boxes[q].min[Sweep] /\ boxes[q].min[Sweep] <= p.max[Sweep] + t
  BY <1>5, <1>7, <1>9
<1>11. (p.min[Sweep] - t <= boxes[q].min[Sweep] /\ boxes[q].min[Sweep] <= p.max[Sweep] + t) <=>
          /\ Reports!World(a, i).min[Sweep] - t <= Reports!World(b, q).min[Sweep]
          /\ Reports!World(b, q).min[Sweep] <= Reports!World(a, i).max[Sweep] + t
  BY <1>2, <1>3, <1>8
<1> QED
  BY <1>10, <1>11 DEF left, sorted, boxes, p

\* The clashes reported are the true ones that the lower bound does not hide.
LEMMA HitsAre ==
  ASSUME TablesOK, NEW a \in ReportVersions, NEW b \in ReportVersions, NEW t \in Tolerances
  PROVE  Reports!FindClashes(a, b, t) =
            {p \in Reports!TrueClashes(a, b, t) :
               Reports!World(a, p[1]).min[Sweep] - t <= Reports!World(b, p[2]).min[Sweep]}
<1> DEFINE of     == Reports!Shifted(a, a)
           boxes  == Reports!Shifted(b, a)
           sorted == Reports!Sorted(boxes)
           left   == [k \in DOMAIN sorted |-> boxes[sorted[k]].min[Sweep]]
           Seen(p) == \E k \in Reports!Window(left, of[p[1]], t) : sorted[k] = p[2]
<1>1. ASSUME NEW p \in Reports!Boxes(a) \X Reports!Boxes(b)
      PROVE  /\ p \in Reports!FindClashes(a, b, t) <=>
                   /\ Seen(p) /\ ~(a = b /\ of[p[1]].id = boxes[p[2]].id)
                   /\ \A x \in Axes : Reports!Overlaps(of[p[1]], boxes[p[2]], x) > t
             /\ p \in Reports!TrueClashes(a, b, t) <=>
                   /\ a = b => Reports!Rows(a)[p[1]].id # Reports!Rows(b)[p[2]].id
                   /\ \A x \in Axes :
                         Reports!Overlaps(Reports!World(a, p[1]), Reports!World(b, p[2]), x) > t
  BY DEF Reports!FindClashes, Reports!TrueClashes
<1>2. ASSUME NEW p \in Reports!Boxes(a) \X Reports!Boxes(b)
      PROVE  p \in Reports!FindClashes(a, b, t) <=>
                /\ p \in Reports!TrueClashes(a, b, t)
                /\ Reports!World(a, p[1]).min[Sweep] - t <= Reports!World(b, p[2]).min[Sweep]
  <2>1. PICK i \in Reports!Boxes(a), q \in Reports!Boxes(b) : p[1] = i /\ p[2] = q
    OBVIOUS
  <2>2. Seen(p) <=> /\ Reports!World(a, i).min[Sweep] - t <= Reports!World(b, q).min[Sweep]
                    /\ Reports!World(b, q).min[Sweep] <= Reports!World(a, i).max[Sweep] + t
    BY <2>1, LookedAt
  <2>3. of[i].id = Reports!Rows(a)[i].id /\ boxes[q].id = Reports!Rows(b)[q].id
    BY ShiftedAre
  <2>4. ASSUME NEW x \in Axes
        PROVE  Reports!Overlaps(of[i], boxes[q], x)
                 = Reports!Overlaps(Reports!World(a, i), Reports!World(b, q), x)
    <3>1. PICK c \in Int, l \in Int, h \in Int, m \in Int, k \in Int :
             /\ c = tables[a].origin[x]
             /\ l = Reports!World(a, i).min[x] /\ h = Reports!World(a, i).max[x]
             /\ m = Reports!World(b, q).min[x] /\ k = Reports!World(b, q).max[x]
      BY ShiftedAre
    <3>2. /\ of[i].min[x] = l - c /\ of[i].max[x] = h - c
          /\ boxes[q].min[x] = m - c /\ boxes[q].max[x] = k - c
      BY <3>1, ShiftedAre
    <3> HIDE DEF of, boxes
    <3>3. /\ Reports!Overlaps(of[i], boxes[q], x)
               = Reports!Least(h - c, k - c) - Reports!Greatest(l - c, m - c)
          /\ Reports!Overlaps(Reports!World(a, i), Reports!World(b, q), x)
               = Reports!Least(h, k) - Reports!Greatest(l, m)
      BY <3>1, <3>2 DEF Reports!Overlaps
    <3>4. Reports!Least(h - c, k - c) - Reports!Greatest(l - c, m - c)
            = Reports!Least(h, k) - Reports!Greatest(l, m)
      BY <3>1 DEF Reports!Least, Reports!Greatest
    <3> QED
      BY <3>3, <3>4, Zenon
  <2>5. ASSUME \A x \in Axes : Reports!Overlaps(Reports!World(a, i), Reports!World(b, q), x) > t
        PROVE  Reports!World(b, q).min[Sweep] <= Reports!World(a, i).max[Sweep] + t
    <3>1. Sweep \in Axes /\ t \in Nat
      BY ReportsAssumption DEF Reports!ReportsAssumption
    <3>2. PICK l \in Int, h \in Int, m \in Int, k \in Int :
             /\ l = Reports!World(a, i).min[Sweep] /\ h = Reports!World(a, i).max[Sweep]
             /\ m = Reports!World(b, q).min[Sweep] /\ k = Reports!World(b, q).max[Sweep]
      BY <3>1, ShiftedAre
    <3>3. Reports!Least(h, k) - Reports!Greatest(l, m) > t
      BY <2>5, <3>1, <3>2 DEF Reports!Overlaps
    <3>4. m <= h + t
      BY <3>1, <3>3 DEF Reports!Least, Reports!Greatest
    <3> QED
      BY <3>2, <3>4
  <2> HIDE DEF Seen, of, boxes
  <2> QED
    BY <1>1, <2>1, <2>2, <2>3, <2>4, <2>5
<1>3. /\ Reports!FindClashes(a, b, t) \subseteq Reports!Boxes(a) \X Reports!Boxes(b)
      /\ Reports!TrueClashes(a, b, t) \subseteq Reports!Boxes(a) \X Reports!Boxes(b)
  BY DEF Reports!FindClashes, Reports!TrueClashes
<1> QED
  BY <1>2, <1>3

LEMMA ClashesFound ==
  ASSUME TablesOK, NEW a \in ReportVersions, NEW b \in ReportVersions, NEW t \in Tolerances,
         NEW r, r.a = a, r.b = b, r.tolerance = t, r.hits = Reports!FindClashes(a, b, t)
  PROVE  Reports!ClashesAreFound(r)
<1>1. ASSUME NEW p \in Reports!TrueClashes(a, b, t), p \notin r.hits
      PROVE  Reports!World(b, p[2]).min[Sweep] < Reports!World(a, p[1]).min[Sweep] - t
  <2>1. p[1] \in Reports!Boxes(a) /\ p[2] \in Reports!Boxes(b)
    BY DEF Reports!TrueClashes
  <2>2. Sweep \in Axes /\ t \in Int
    BY ReportsAssumption DEF Reports!ReportsAssumption
  <2>3. Reports!World(b, p[2]).min[Sweep] \in Int /\ Reports!World(a, p[1]).min[Sweep] \in Int
    BY <2>1, <2>2, ShiftedAre
  <2>4. ~ (Reports!World(a, p[1]).min[Sweep] - t <= Reports!World(b, p[2]).min[Sweep])
    BY <1>1, HitsAre
  <2> QED
    BY <2>2, <2>3, <2>4
<1>2. r.hits \subseteq Reports!TrueClashes(a, b, t)
  BY HitsAre
<1> QED
  BY <1>1, <1>2 DEF Reports!ClashesAreFound

-----------------------------------------------------------------------------
(* The difference: a guid of both versions is changed or not, the others are  *)
(* added or removed.                                                          *)

LEMMA GuidsAreFinite ==
  ASSUME TablesOK, NEW v \in ReportVersions
  PROVE  IsFiniteSet(Reports!Guids(v))
<1> DEFINE I == DOMAIN Reports!Rows(v)
           G == Reports!Guids(v)
           f == [i \in I |-> Reports!Rows(v)[i].guid]
<1>1. f \in [I -> G] /\ \A g \in G : \E i \in I : f[i] = g
  BY DEF Reports!Guids
<1>2. IsFiniteSet(I)
  BY RowsAre
<1> HIDE DEF f, I, G
<1>3. f \in Surjection(I, G)
  BY <1>1, Fun_IsSurj
<1>4. IsFiniteSet(G)
  BY <1>2, <1>3, FS_Surjection
<1> QED
  BY <1>4 DEF G

LEMMA DiffIs ==
  ASSUME TablesOK, NEW a \in ReportVersions, NEW b \in ReportVersions,
         NEW r, r.a = a, r.b = b, r.diff = Reports!DiffElements(a, b)
  PROVE  Reports!DiffIsPartition(r)
<1> DEFINE A == Reports!Guids(a)
           B == Reports!Guids(b)
           both == A \cap B
<1>1. PICK other \in SUBSET both :
         r.diff = [added |-> B \ A, removed |-> A \ B, changed |-> other,
                   unchanged |-> Cardinality(both \ other)]
  <2> DEFINE other == {g \in both : Reports!ByGuid(a, g).data # Reports!ByGuid(b, g).data}
  <2>1. other \in SUBSET both
    OBVIOUS
  <2>2. Reports!Cardinality(both \ other) = Cardinality(both \ other)
    BY ReportsCounts
  <2>3. r.diff = [added |-> B \ A, removed |-> A \ B, changed |-> other,
                  unchanged |-> Reports!Cardinality(both \ other)]
    BY DEF Reports!DiffElements
  <2> HIDE DEF other, both
  <2> QED
    BY <2>1, <2>2, <2>3
<1>2. IsFiniteSet(A) /\ IsFiniteSet(B)
  BY GuidsAreFinite
<1> HIDE DEF A, B
<1>3. ASSUME NEW X, NEW Y, IsFiniteSet(X), other \subseteq X \cap Y
      PROVE  Cardinality(X \ Y) + Cardinality(other) + Cardinality((X \cap Y) \ other) = Cardinality(X)
  <2>1. IsFiniteSet(X \cap Y) /\ (X \cap Y) \cap other = other
    BY <1>3, FS_Intersection
  <2>2. /\ Cardinality(X \ Y) = Cardinality(X) - Cardinality(X \cap Y)
        /\ Cardinality((X \cap Y) \ other) = Cardinality(X \cap Y) - Cardinality(other)
    BY <1>3, <2>1, FS_Difference, ZenonT(40)
  <2>3. IsFiniteSet(other)
    BY <1>3, <2>1, FS_Subset
  <2>4. Cardinality(X) \in Nat /\ Cardinality(X \cap Y) \in Nat /\ Cardinality(other) \in Nat
    BY <1>3, <2>1, <2>3, FS_CardinalityType
  <2> QED
    BY <2>2, <2>4
<1>4. /\ Cardinality(B \ A) + Cardinality(other) + Cardinality(both \ other) = Cardinality(B)
      /\ Cardinality(A \ B) + Cardinality(other) + Cardinality(both \ other) = Cardinality(A)
  <2>1. A \cap B = B \cap A
    OBVIOUS
  <2> QED
    BY <1>1, <1>2, <1>3, <2>1
<1>5. /\ r.diff.added = B \ A /\ r.diff.removed = A \ B /\ r.diff.changed = other
      /\ r.diff.unchanged = Cardinality(both \ other)
  BY <1>1
<1>6. \A S : Reports!Cardinality(S) = Cardinality(S)
  BY ReportsCounts
<1> QED
  BY <1>1, <1>4, <1>5, <1>6 DEF Reports!DiffIsPartition, A, B

-----------------------------------------------------------------------------
\* What is said of tables that do not change stays true.
LEMMA ReportsStay ==
  ASSUME tables' = tables, NEW r
  PROVE  /\ Reports!ClashesAreFound(r) => Reports!ClashesAreFound(r)'
         /\ Reports!DiffIsPartition(r) => Reports!DiffIsPartition(r)'
<1>1. ASSUME NEW v
      PROVE  /\ Reports!Rows(v)' = Reports!Rows(v)
             /\ Reports!Boxes(v)' = Reports!Boxes(v)
             /\ Reports!Guids(v)' = Reports!Guids(v)
             /\ \A i : Reports!World(v, i)' = Reports!World(v, i)
  BY DEF Reports!Rows, Reports!Boxes, Reports!Guids, Reports!World
<1>2. ASSUME NEW a, NEW b, NEW t
      PROVE  Reports!TrueClashes(a, b, t)' = Reports!TrueClashes(a, b, t)
  BY <1>1 DEF Reports!TrueClashes
<1>3. Reports!ClashesAreFound(r) => Reports!ClashesAreFound(r)'
  BY <1>1, <1>2 DEF Reports!ClashesAreFound
<1>4. Reports!DiffIsPartition(r) => Reports!DiffIsPartition(r)'
  BY <1>1 DEF Reports!DiffIsPartition
<1> QED
  BY <1>3, <1>4

ReportsInv == TablesOK /\ Reports!ReportsAreTrue

LEMMA ReportsInit == Reports!Init => ReportsInv
BY DEF Reports!Init, ReportsInv, TablesOK, Reports!ReportsAreTrue, Reports!NoReport

LEMMA ReportsStep ==
  ASSUME ReportsInv, Reports!Next \/ UNCHANGED reportVars
  PROVE  ReportsInv'
<1>1. tables' = tables
  BY DEF reportVars, Reports!Next, Reports!Deny, Reports!Compare, Reports!DetectClashes, Reports!Answer
<1>2. TablesOK /\ TablesOK'
  BY <1>1 DEF ReportsInv, TablesOK
<1>3. PICK r : r = report'
  OBVIOUS
<1>4. CASE UNCHANGED reportVars
  BY <1>1, <1>2, <1>3, <1>4, ReportsStay DEF ReportsInv, Reports!ReportsAreTrue, reportVars
<1>5. ASSUME NEW a \in ReportVersions, NEW b \in ReportVersions, Reports!Deny(a, b)
      PROVE  Reports!ReportsAreTrue'
  BY <1>5 DEF Reports!Deny, Reports!Answer, Reports!ReportsAreTrue
<1>6. ASSUME NEW a \in ReportVersions, NEW b \in ReportVersions, Reports!Compare(a, b)
      PROVE  Reports!ReportsAreTrue'
  <2>1. r.kind = "diff" /\ r.a = a /\ r.b = b /\ r.diff = Reports!DiffElements(a, b)
    BY <1>3, <1>6 DEF Reports!Compare, Reports!Answer
  <2>2. Reports!DiffIsPartition(r)'
    BY <1>1, <1>2, <2>1, DiffIs, ReportsStay
  <2> QED
    BY <1>3, <2>1, <2>2 DEF Reports!ReportsAreTrue
<1>7. ASSUME NEW a \in ReportVersions, NEW b \in ReportVersions, NEW t \in Tolerances,
             Reports!DetectClashes(a, b, t)
      PROVE  Reports!ReportsAreTrue'
  <2>1. /\ r.kind = "clashes" /\ r.a = a /\ r.b = b /\ r.tolerance = t
        /\ r.hits = Reports!FindClashes(a, b, t)
    BY <1>3, <1>7 DEF Reports!DetectClashes, Reports!Answer
  <2>2. Reports!ClashesAreFound(r)'
    BY <1>1, <1>2, <2>1, ClashesFound, ReportsStay
  <2> QED
    BY <1>3, <2>1, <2>2 DEF Reports!ReportsAreTrue
<1>8. Reports!ReportsAreTrue'
  BY <1>4, <1>5, <1>6, <1>7 DEF Reports!Next, ReportsInv
<1> QED
  BY <1>2, <1>8 DEF ReportsInv

\* routes/clash.ts and routes/diff.ts: whatever rows two versions have, in any
\* order and frame, a reported clash is one, one that is not reported starts
\* before the sweep's lower bound, and a diff accounts for every element once.
THEOREM ReportsTellTheTruth == WorkspaceSpec => []ReportsAreTrue
<1> DEFINE Inv == part = "reports" => ReportsInv
<1>1. WorkspaceInit => Inv
  BY ReportsInit DEF WorkspaceInit
<1>2. Inv /\ [WorkspaceNext]_<<part, vars, blobVars, uploadVars, eventVars, bvhVars, dataVars,
                               reportVars>>
        => Inv'
  BY ReportsStep DEF WorkspaceNext
<1>3. Inv => ReportsAreTrue
  BY DEF ReportsAreTrue, ReportsInv
<1> QED
  BY <1>1, <1>2, <1>3, PTL DEF WorkspaceSpec

=============================================================================
