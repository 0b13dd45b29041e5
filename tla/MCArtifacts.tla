----------------------------- MODULE MCArtifacts -----------------------------
(***************************************************************************)
(* One run of the components that make an artifact: the stream of meshes    *)
(* with its chunk router, the GLB writer, the slicing of a source, the two   *)
(* lexers, and the presplit pipeline.  They share no variable, so the first  *)
(* state picks the one whose steps are taken.                                *)
(***************************************************************************)
EXTENDS MeshStream, GlbFile, TLC

CONSTANTS Inputs, Texts, Digits, Blanks, Versions, NoVersion, MaxShards, MaxCrashes, CrashAt

VARIABLES
    maker,
    src, shards, outcome,
    text, lexer, at, end, lex, found, over,
    row, source, plan, shard, files, meta, out, run, work, crashes

sliceVars    == <<src, shards, outcome>>
scanVars     == <<text, lexer, at, end, lex, found, over>>
presplitVars == <<row, source, plan, shard, files, meta, out, run, work, crashes>>

-----------------------------------------------------------------------------
\* Two axes; a piece in each half of the storey, and one that is not sane.
XY(x, y) == [a \in {0, 1} |-> IF a = 0 THEN x ELSE y]
MCCoords == 0..16
MCShapes ==
    {[lo |-> XY(0, 0), hi |-> XY(8, 4), triangles |-> 1, vertices |-> 3, sane |-> TRUE],
     [lo |-> XY(8, 0), hi |-> XY(16, 16), triangles |-> 2, vertices |-> 4, sane |-> TRUE],
     [lo |-> XY(0, 0), hi |-> XY(0, 0), triangles |-> 1, vertices |-> 3, sane |-> FALSE]}

\* Structures 1 and 2 with the relations 7 and 8 that fill them, products 3 to
\* 5, their shared geometry 6, an aggregate 9, and 10 that tells about others.
Source(c1, c2, agg, sharers, told) ==
    [spatial |-> {1, 2},
     contains |-> {[id |-> 7, structure |-> 1, elements |-> c1],
                   [id |-> 8, structure |-> 2, elements |-> c2]},
     aggregates |-> agg,
     refs |-> [i \in 1..10 |->
        CASE i \in {3, 4, 5} -> IF i \in sharers THEN {6} ELSE {}
          [] i = 7  -> {1} \cup c1
          [] i = 8  -> {2} \cup c2
          [] i = 9  -> UNION {{a.parent} \cup a.children : a \in agg}
          [] i = 10 -> told
          [] OTHER  -> {}]]
MCSources ==
    {[Source({}, {}, {}, {}, {}) EXCEPT !.contains = {}]} \cup
    {Source(c1, c2, agg, sharers, told) :
        c1 \in SUBSET {3, 4, 5}, c2 \in {{}, {4}, {4, 5}},
        agg \in {{}} \cup {{[id |-> 9, parent |-> p, children |-> k]} :
                              p \in {1, 3}, k \in {{2}, {4}, {2, 5}}},
        sharers \in {{3, 4}, {4, 5}}, told \in {{3, 4}, {6}, {5}}}

\* With and without comments; strings, quotes in them, and lone slashes.
MCTexts ==
    {<<"#","1","=","A",";","/","*","*","/","#","2","=","B",";","#","3","=",";">>,
     <<"'","/","*","'","/","*","*","x","*","/","*">>,
     <<"#","1","=","A","(","'",";","'","'","'",",","#","1","2",")",";","/",";">>,
     <<" ","#","2","=","'","'",";","#","1","=","#","2",";"," ">>,
     <<"/","/","*","/","*","/","*","'","*","/">>,
     <<"A","1","/","'","#","'","#","1",";","#","=","#","2","=","#","/",";">>,
     <<"#","1","=","'","/","*","'",";"," ","A">>}

Slices   == INSTANCE Slicing WITH Sources <- Inputs
Scanner  == INSTANCE StepScanner
Presplit == INSTANCE PresplitPipeline WITH glb <- files

ASSUME SourcesAssumption == Slices!SlicingAssumption
ASSUME TextsAssumption == Scanner!ScannerAssumption
ASSUME PresplitAssumption == Presplit!PresplitAssumption

-----------------------------------------------------------------------------
Makers == {"stream", "glb", "slicing", "scanner", "presplit"}

\* The others stay in one of their initial states.
ArtifactsInit ==
    /\ maker \in Makers
    /\ Init /\ (maker # "stream" => engine = "wasm")
    /\ GlbInit
    /\ IF maker = "slicing" THEN Slices!Init
       ELSE src = (CHOOSE s \in Inputs : TRUE) /\ shards = <<>> /\ outcome = "new"
    /\ Scanner!Init /\ (maker # "scanner" => text = (CHOOSE t \in Texts : TRUE) /\ lexer = "scan")
    /\ Presplit!Init
    /\ maker # "presplit" => source = (CHOOSE s \in [Versions -> Presplit!Sources] : TRUE)

ArtifactsNext ==
    /\ UNCHANGED maker
    /\ \/ maker = "stream" /\ Next
          /\ UNCHANGED <<glbVars, sliceVars, scanVars, presplitVars>>
       \/ maker = "glb" /\ GlbNext
          /\ UNCHANGED <<vars, sliceVars, scanVars, presplitVars>>
       \/ maker = "slicing" /\ Slices!Next
          /\ UNCHANGED <<vars, glbVars, scanVars, presplitVars>>
       \/ maker = "scanner" /\ Scanner!Next
          /\ UNCHANGED <<vars, glbVars, sliceVars, presplitVars>>
       \/ maker = "presplit" /\ Presplit!Next
          /\ UNCHANGED <<vars, glbVars, sliceVars, scanVars>>

\* Only the pipeline has a liveness property, and only it needs fairness.
ArtifactsSpec ==
    /\ ArtifactsInit
    /\ [][ArtifactsNext]_<<maker, vars, glbVars, sliceVars, scanVars, presplitVars>>
    /\ WF_presplitVars(Presplit!Pipeline)

-----------------------------------------------------------------------------
\* The state of the component at work has its type.
ArtifactsTypeOK ==
    CASE maker = "stream"   -> TypeOK
      [] maker = "glb"      -> GlbTypeOK
      [] maker = "slicing"  -> Slices!TypeOK
      [] maker = "scanner"  -> Scanner!TypeOK
      [] maker = "presplit" -> Presplit!TypeOK

\* Slicing loses no statement, doubles no product and leaves nothing dangling.
SlicesAreWhole == Slices!SlicesAreWhole

\* No lexer finds anything else because of where a read of the file ends.
LexersIgnoreCuts == Scanner!LexersIgnoreCuts

\* What a READY version has is the whole of its own source, shard by shard.
OutputIsComplete == Presplit!OutputIsComplete

\* A shard that is DONE is not converted again.
OnlyUnfinishedIsRedone == Presplit!OnlyUnfinishedIsRedone

\* A presplit conversion ends, however often the process is killed, unless the
\* pool never answers one of its shards.
PendingSettles == Presplit!PendingSettles

\* Every source is sliced, uncontained products included (presplit.ts:690-691).
EverySourceIsSliced == Slices!EverySourceIsSliced

\* Every top-level statement is found (presplit.ts:139-141).
StatementsEndAtTop == Scanner!StatementsEndAtTop
=============================================================================
