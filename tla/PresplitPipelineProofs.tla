---------------------- MODULE PresplitPipelineProofs ------------------------
(***************************************************************************)
(* A READY version of the presplit pipeline has one whole piece of its own  *)
(* source for each slice with geometry, for any versions, sources and       *)
(* shards, and however often conversions fail and the process is killed     *)
(* while it slices, converts, merges or imports.                            *)
(*                                                                          *)
(* A resumed run believes what it finds in the directory.  It may, because  *)
(* at every moment at which it may be killed the directory has one owner,   *)
(* the plan is there only when all slices are, and a shard the plan calls   *)
(* DONE is on disk: the order of the writes in slice, fan out, report and   *)
(* clean up.  What is not believed is memory: the statuses the flow holds   *)
(* are always those of the plan it last wrote.                              *)
(*                                                                          *)
(* From the same invariant: what is DONE is never converted again.           *)
(***************************************************************************)
EXTENDS PresplitPipeline, TLAPS

(* A kill in the middle of a removal leaves a directory of pieces that nobody *)
(* tells apart (README, known deviations).                                    *)
RemovalsFinish == CrashAt \cap {"delete", "clean", "del_clean"} = {}

Working  == {"slice", "sliced", "fan", "convert", "aggregate", "clean", "import"}
Removing == {"clean", "del_clean"}

\* The version whose files may be in the directory.
MayOwn(v) == IF At("idle") THEN row[v] \in {"pending", "failed"} ELSE v = run.v

OneOwner ==
    /\ \A v, w \in Versions :
          row[v] \in {"pending", "ready", "failed"} /\ row[w] \in {"pending", "ready", "failed"}
             => v = w
    /\ run.pc # "idle" => run.v \in Versions
    /\ run.pc \in Working => row[run.v] = "pending"
    /\ run.pc \in {"delete", "del_clean"} =>
          \A v \in Versions : row[v] \in {"none", "deleted"}

OfOwner(f) == f = NoFile \/ (f.of \in Versions /\ MayOwn(f.of))
FilesAreOwned == \A s \in Shards : OfOwner(shard[s]) /\ OfOwner(glb[s]) /\ OfOwner(meta[s])
PlanIsOwned   == plan = NoPlan \/ (plan.of \in Versions /\ MayOwn(plan.of))

\* Every slice the plan is about is there, and a settled one is what it says.
Fits(s) ==
    /\ shard[s] = Piece(plan.of, TRUE)
    /\ plan.st[s] = "DONE" =>
          /\ glb[s] = Piece(plan.of, TRUE) /\ meta[s] = Piece(plan.of, TRUE)
          /\ source[plan.of][s] = "geometry"
    /\ plan.st[s] = "SKIP" => source[plan.of][s] = "empty"
PlanFits ==
    plan # NoPlan /\ run.pc \notin Removing =>
       DOMAIN plan.st = DOMAIN source[plan.of] /\ \A s \in DOMAIN plan.st : Fits(s)

\* What the flow remembers is what the disk says.
InMemory ==
    /\ run.pc \in {"slice", "sliced"} => plan = NoPlan /\ DOMAIN run.st = {}
    /\ run.pc \in {"fan", "convert", "aggregate"} => plan = Plan(run.v, run.st)
    /\ run.pc = "aggregate" => \A s \in DOMAIN run.st : run.st[s] \in {"DONE", "SKIP"}
    /\ run.pc = "import" => plan = NoPlan /\ Empty(shard) /\ Empty(glb) /\ Empty(meta)

\* The pool works on the pending shards, and on no other.
AtWork(s) ==
    /\ work[s] # "none" =>
          run.pc = "convert" /\ s \in DOMAIN run.st /\ run.st[s] = "PENDING"
    /\ run.pc = "convert" /\ s \in DOMAIN run.st /\ run.st[s] = "PENDING" => work[s] # "none"
    /\ work[s] \in {"glb", "meta"} =>
          glb[s] = Piece(run.v, TRUE) /\ source[run.v][s] = "geometry"
    /\ work[s] = "meta" => meta[s] = Piece(run.v, TRUE)

Whole(v) == {<<s, Piece(v, TRUE)>> : s \in {t \in DOMAIN source[v] : source[v][t] = "geometry"}}
Finished ==
    /\ \A v \in Versions : row[v] = "ready" => out = Whole(v)
    /\ run.pc \in {"clean", "import"} => out = Whole(run.v)

Orderly ==
    /\ OneOwner
    /\ FilesAreOwned
    /\ PlanIsOwned
    /\ PlanFits
    /\ InMemory
    /\ \A s \in Shards : AtWork(s)
    /\ Finished

IInv == TypeOK /\ Orderly

USE DEF At, Goto, Run, Idle, Piece, NoFile, Plan, NoPlan, disk

-----------------------------------------------------------------------------
(* Data.                                                                     *)

LEMMA StatesAreFunctions ==
  ASSUME PresplitAssumption, NEW st \in PlanStates
  PROVE  /\ DOMAIN st \subseteq Shards
         /\ st \in [DOMAIN st -> Statuses]
         /\ \E n \in 0..MaxShards : DOMAIN st = 1..n
  BY DEF PlanStates, Shards, PresplitAssumption

LEMMA FunctionsAreStates ==
  ASSUME NEW n \in 0..MaxShards, NEW st \in [1..n -> Statuses]
  PROVE  st \in PlanStates
  BY DEF PlanStates

LEMMA NoStatesIsStates == PresplitAssumption => <<>> \in PlanStates
<1>1. ASSUME PresplitAssumption PROVE 0 \in 0..MaxShards
  BY <1>1 DEF PresplitAssumption
<1>2. <<>> \in [1..0 -> Statuses]
  OBVIOUS
<1> QED
  BY <1>1, <1>2, FunctionsAreStates

LEMMA OneStatusChanges ==
  ASSUME PresplitAssumption, NEW st \in PlanStates, NEW s, NEW x \in Statuses
  PROVE  /\ [st EXCEPT ![s] = x] \in PlanStates
         /\ DOMAIN [st EXCEPT ![s] = x] = DOMAIN st
         /\ \A t \in DOMAIN st : [st EXCEPT ![s] = x][t] = IF t = s THEN x ELSE st[t]
<1>1. PICK n \in 0..MaxShards : st \in [1..n -> Statuses]
  BY DEF PlanStates
<1>2. [st EXCEPT ![s] = x] \in [1..n -> Statuses]
  BY <1>1
<1> QED
  BY <1>1, <1>2, FunctionsAreStates

LEMMA SourceIsSlices ==
  ASSUME PresplitAssumption, TypeOK, NEW v \in Versions
  PROVE  /\ DOMAIN source[v] \subseteq Shards
         /\ DOMAIN source[v] # {}
         /\ \E n \in 0..MaxShards : DOMAIN source[v] = 1..n
         /\ \A s \in DOMAIN source[v] : source[v][s] \in {"geometry", "empty"}
<1>1. source[v] \in Sources
  BY DEF TypeOK
<1>2. PICK n \in Shards : source[v] \in [1..n -> {"geometry", "empty"}]
  BY <1>1 DEF Sources
<1>3. n \in 0..MaxShards /\ 1 \in 1..n /\ 1..n \subseteq Shards
  BY <1>2 DEF Shards, PresplitAssumption
<1> QED
  BY <1>2, <1>3

LEMMA PiecesAreFiles == \A v \in Versions \cup {NoVersion}, b \in BOOLEAN : Piece(v, b) \in Files
  BY DEF Files

\* A resumed plan is the plan: what it calls DONE is there.
LEMMA ResumedIsPlan ==
  ASSUME PresplitAssumption, IInv, run.pc = "idle"
  PROVE  /\ DOMAIN Resumed = DOMAIN plan.st
         /\ Resumed \in PlanStates
         /\ plan # NoPlan => Resumed = plan.st
         /\ plan = NoPlan => DOMAIN Resumed = {}
<1>1. plan.st \in PlanStates
  BY DEF IInv, TypeOK
<1>2. PICK n \in 0..MaxShards : plan.st \in [1..n -> Statuses] /\ DOMAIN plan.st = 1..n
  BY <1>1, StatesAreFunctions DEF PlanStates
<1>3. Resumed \in [1..n -> Statuses] /\ DOMAIN Resumed = 1..n
  BY <1>2 DEF Resumed, Statuses
<1>4. ASSUME plan # NoPlan PROVE Resumed = plan.st
  <2>1. plan.of \in Versions
    BY <1>4 DEF IInv, Orderly, PlanIsOwned
  <2>2. \A s \in DOMAIN plan.st : plan.st[s] = "DONE" => meta[s] # NoFile
    BY <1>4, <2>1 DEF IInv, Orderly, PlanFits, Fits, Removing
  <2>3. \A s \in 1..n : Resumed[s] = plan.st[s]
    BY <1>2, <2>2 DEF Resumed
  <2> QED
    BY <1>2, <1>3, <2>3
<1> QED
  BY <1>2, <1>3, <1>4, FunctionsAreStates

-----------------------------------------------------------------------------
LEMMA InitIInv == PresplitAssumption /\ Init => IInv
<1> SUFFICES ASSUME PresplitAssumption, Init PROVE IInv
  OBVIOUS
<1>1. <<>> \in PlanStates
  BY NoStatesIsStates
<1>2. TypeOK
  BY <1>1 DEF Init, TypeOK, Phases, Files, PresplitAssumption
<1>3. OneOwner /\ FilesAreOwned /\ PlanIsOwned /\ PlanFits /\ InMemory /\ Finished
  BY DEF Init, OneOwner, FilesAreOwned, PlanIsOwned, PlanFits, InMemory, Finished, OfOwner, Working
<1>4. \A s \in Shards : AtWork(s)
  BY DEF Init, AtWork
<1> QED
  BY <1>2, <1>3, <1>4 DEF IInv, Orderly

-----------------------------------------------------------------------------
(* Types.                                                                    *)

LEMMA TypeStep == ASSUME PresplitAssumption, IInv, Next PROVE TypeOK'
<1> USE DEF TypeOK, Phases
<1>1. TypeOK /\ run.st \in PlanStates /\ plan.st \in PlanStates /\ <<>> \in PlanStates
  BY NoStatesIsStates DEF IInv
<1>2. ASSUME NEW v \in Versions, Upload(v) \/ Reconvert(v) PROVE TypeOK'
  BY <1>1, <1>2 DEF Upload, Reconvert
<1>3. ASSUME NEW v \in Versions, Delete(v) PROVE TypeOK'
  BY <1>1, <1>3 DEF Delete
<1>4. ASSUME NEW v \in Versions, Begin(v) PROVE TypeOK'
  <2>1. Resumed \in PlanStates
    BY <1>4, ResumedIsPlan DEF Begin
  <2> QED
    BY <1>1, <1>4, <2>1 DEF Begin
<1>5. CASE DeleteArtifacts
  BY <1>1, <1>5 DEF DeleteArtifacts
<1>6. CASE Slice
  <2>1. Piece(run.v, FALSE) \in Files
    BY <1>1, PiecesAreFiles
  <2> QED
    BY <1>1, <1>6, <2>1 DEF Slice
<1>7. CASE Sliced
  <2> DEFINE slices == DOMAIN source[run.v]
             keep   == run.st # <<>> /\ DOMAIN run.st = slices
             st     == IF keep THEN run.st ELSE [s \in slices |-> "PENDING"]
  <2>1. run.v \in Versions
    BY <1>7 DEF Sliced, IInv, Orderly, OneOwner, Working
  <2>2. PICK n \in 0..MaxShards : slices = 1..n
    BY <1>1, <2>1, SourceIsSlices
  <2>3. [s \in slices |-> "PENDING"] \in PlanStates
    BY <2>2, FunctionsAreStates DEF Statuses
  <2>4. st \in PlanStates
    BY <1>1, <2>3
  <2>5. Piece(run.v, TRUE) \in Files
    BY <1>1, PiecesAreFiles
  <2>6. shard' \in [Shards -> Files]
    BY <1>1, <1>7, <2>5 DEF Sliced
  <2>7. plan' \in [of : Versions \cup {NoVersion}, st : PlanStates]
    BY <1>1, <1>7, <2>1, <2>4 DEF Sliced
  <2>8. run' \in [pc : Phases, v : Versions \cup {NoVersion}, st : PlanStates]
    BY <1>1, <1>7, <2>1, <2>4 DEF Sliced
  <2> QED
    BY <1>1, <1>7, <2>6, <2>7, <2>8 DEF Sliced
<1>8. CASE Fan
  <2> DEFINE st == [s \in DOMAIN run.st |-> IF s \in Unfinished(run.st) THEN "PENDING" ELSE run.st[s]]
  <2>1. PICK n \in 0..MaxShards : run.st \in [1..n -> Statuses] /\ DOMAIN run.st = 1..n
    BY <1>1, StatesAreFunctions
  <2>2. st \in [1..n -> Statuses]
    BY <2>1 DEF Statuses
  <2>3. st \in PlanStates
    BY <2>2, FunctionsAreStates
  <2>4. plan' \in [of : Versions \cup {NoVersion}, st : PlanStates]
    BY <1>1, <1>8, <2>3 DEF Fan
  <2>5. run' \in [pc : Phases, v : Versions \cup {NoVersion}, st : PlanStates]
    BY <1>1, <1>8, <2>3 DEF Fan
  <2>6. work' \in [Shards -> {"none", "convert", "glb", "meta"}]
    BY <1>8 DEF Fan
  <2> QED
    BY <1>1, <1>8, <2>4, <2>5, <2>6 DEF Fan
<1>9. ASSUME NEW s \in Shards, NEW x \in Statuses, Report(s, x)
      PROVE  /\ run' \in [pc : Phases, v : Versions \cup {NoVersion}, st : PlanStates]
             /\ plan' \in [of : Versions \cup {NoVersion}, st : PlanStates]
             /\ work' \in [Shards -> {"none", "convert", "glb", "meta"}]
  <2>1. run' = [run EXCEPT !.st = [run.st EXCEPT ![s] = x]]
    BY <1>1, <1>9 DEF Report
  <2>2. [run.st EXCEPT ![s] = x] \in PlanStates
    BY <1>1, OneStatusChanges
  <2> QED
    BY <1>1, <1>9, <2>1, <2>2 DEF Report
<1>10. ASSUME NEW s \in Shards, Convert(s) PROVE TypeOK'
  <2>1. CASE ShardGeometry(s) \/ ShardMeta(s)
    BY <1>1, <2>1 DEF ShardGeometry, ShardMeta
  <2>2. CASE ShardDone(s) \/ ShardEmpty(s)
    <3>1. PICK x \in Statuses : Report(s, x)
      BY <2>2 DEF ShardDone, ShardEmpty, Statuses
    <3> QED
      BY <1>1, <1>9, <2>2, <3>1 DEF ShardDone, ShardEmpty
  <2>3. CASE ShardFails(s)
    <3>1. Report(s, "FAILED") /\ "FAILED" \in Statuses
      BY <2>3 DEF ShardFails, Statuses
    <3>2. shard[s].of \in Versions \cup {NoVersion}
      BY <1>1 DEF Files
    <3>3. Piece(shard[s].of, FALSE) \in Files
      BY <3>2, PiecesAreFiles
    <3>4. glb' \in [Shards -> Files]
      BY <1>1, <2>3, <3>3 DEF ShardFails
    <3> QED
      BY <1>1, <1>9, <2>3, <3>1, <3>4 DEF ShardFails
  <2> QED
    BY <1>10, <2>1, <2>2, <2>3 DEF Convert
<1>11. CASE Join \/ Ready \/ Throws
  BY <1>1, <1>11 DEF Join, Ready, Throws, Settle
<1>12. CASE Aggregate
  <2>1. {<<s, glb[s]>> : s \in Merged} \subseteq Shards \X Files
    BY <1>1, StatesAreFunctions DEF Merged
  <2> QED
    BY <1>1, <1>12, <2>1 DEF Aggregate, Settle
<1>13. CASE Clean
  <2>1. NoFile \in Files
    BY DEF Files
  <2>2. plan' \in [of : Versions \cup {NoVersion}, st : PlanStates]
    BY <1>1, <1>13 DEF Clean
  <2>3. /\ UNCHANGED shard \/ \E s \in Shards : shard' = [shard EXCEPT ![s] = NoFile]
        /\ UNCHANGED glb \/ \E s \in Shards : glb' = [glb EXCEPT ![s] = NoFile]
        /\ UNCHANGED meta \/ \E s \in Shards : meta' = [meta EXCEPT ![s] = NoFile]
    BY <1>13, Zenon DEF Clean
  <2>4. shard' \in [Shards -> Files]
    BY <1>1, <2>1, <2>3
  <2>5. glb' \in [Shards -> Files]
    BY <1>1, <2>1, <2>3
  <2>6. meta' \in [Shards -> Files]
    BY <1>1, <2>1, <2>3
  <2> QED
    BY <1>1, <1>13, <2>2, <2>4, <2>5, <2>6 DEF Clean
<1>14. CASE Cleaned
  BY <1>1, <1>14 DEF Cleaned
<1>15. CASE Crash
  BY <1>1, <1>15, PresplitAssumption DEF Crash, PresplitAssumption
<1> QED
  BY <1>2, <1>3, <1>4, <1>5, <1>6, <1>7, <1>8, <1>10, <1>11, <1>12, <1>13, <1>14, <1>15
     DEF Next, Pipeline

-----------------------------------------------------------------------------
(* One action each: the directory stays in order.                            *)

\* A step inside a conversion leaves the owner what it is.
LEMMA OwnerStays ==
  ASSUME IInv, UNCHANGED row, run'.v = run.v, run.pc \in Working, run'.pc \in Working
  PROVE  /\ OneOwner'
         /\ \A v \in Versions : MayOwn(v) /\ MayOwn(v)' <=> v = run.v
         /\ \A f : OfOwner(f) <=> f = NoFile \/ f.of = run.v
         /\ run.v \in Versions
<1>1. run.v \in Versions /\ run.pc # "idle" /\ run'.pc # "idle"
  BY DEF IInv, Orderly, OneOwner, Working
<1>2. OneOwner'
  BY <1>1 DEF IInv, Orderly, OneOwner, Working
<1> QED
  BY <1>1, <1>2 DEF MayOwn, OfOwner

\* Where nobody writes, the directory stays in order if no owner is lost.
LEMMA DiskStays ==
  ASSUME IInv, UNCHANGED <<source, disk>>,
         \A v \in Versions : MayOwn(v) => MayOwn(v)',
         run.pc \notin Removing
  PROVE  (FilesAreOwned /\ PlanIsOwned /\ PlanFits)'
<1>1. FilesAreOwned'
  BY DEF IInv, Orderly, FilesAreOwned, OfOwner
<1>2. PlanIsOwned'
  BY DEF IInv, Orderly, PlanIsOwned
<1>3. PlanFits'
  BY DEF IInv, Orderly, PlanFits, Fits
<1> QED
  BY <1>1, <1>2, <1>3

LEMMA UsersStep ==
  ASSUME IInv, NEW v \in Versions, Upload(v) \/ Reconvert(v) \/ Delete(v)
  PROVE  Orderly'
<1> USE DEF TypeOK
<1>1. TypeOK /\ run.pc = "idle" /\ UNCHANGED <<source, disk>>
      /\ work' = work
  BY DEF IInv, Upload, Reconvert, Delete
<1>2. OneOwner'
  BY <1>1 DEF IInv, Orderly, OneOwner, Working, Upload, Reconvert, Delete
<1>3. \A w \in Versions : MayOwn(w) => MayOwn(w)'
  BY <1>1 DEF IInv, Orderly, OneOwner, MayOwn, Upload, Reconvert, Delete
<1>4. (FilesAreOwned /\ PlanIsOwned /\ PlanFits)'
  BY <1>1, <1>3, DiskStays DEF Removing
<1>5. InMemory'
  BY <1>1 DEF InMemory, Upload, Reconvert, Delete
<1>6. \A s \in Shards : AtWork(s)'
  BY <1>1 DEF IInv, Orderly, AtWork, Upload, Reconvert, Delete
<1>7. Finished'
  BY <1>1 DEF IInv, Orderly, Finished, Whole, Upload, Reconvert, Delete
<1> QED
  BY <1>2, <1>4, <1>5, <1>6, <1>7 DEF Orderly

LEMMA BeginStep ==
  ASSUME PresplitAssumption, IInv, NEW v \in Versions, Begin(v)
  PROVE  Orderly'
<1>1. /\ TypeOK /\ run.pc = "idle" /\ row[v] = "pending"
      /\ UNCHANGED <<row, source, disk, work>>
      /\ run' = Run("slice", v, Resumed) \/ run' = Run("fan", v, Resumed)
  BY DEF IInv, Begin
<1>2. OneOwner'
  BY <1>1 DEF IInv, Orderly, OneOwner, Working
<1>3. \A w \in Versions : MayOwn(w) => MayOwn(w)'
  BY <1>1 DEF IInv, Orderly, OneOwner, MayOwn
<1>4. (FilesAreOwned /\ PlanIsOwned /\ PlanFits)'
  BY <1>1, <1>3, DiskStays DEF Removing
<1>5. InMemory'
  <2>1. CASE plan = NoPlan
    BY <1>1, <2>1, ResumedIsPlan DEF Begin, InMemory
  <2>2. CASE plan # NoPlan
    <3>1. plan.of = v /\ plan = Plan(v, Resumed)
      <4>1. plan.of \in Versions /\ row[plan.of] \in {"pending", "failed"}
        BY <1>1, <2>2 DEF IInv, Orderly, PlanIsOwned, MayOwn
      <4>2. plan.of = v
        BY <1>1, <4>1 DEF IInv, Orderly, OneOwner
      <4> QED
        BY <1>1, <2>2, <4>2, ResumedIsPlan DEF TypeOK
    <3>2. \A s \in Unfinished(Resumed) : shard[s] # NoFile
      <4>1. plan.of \in Versions /\ Unfinished(Resumed) \subseteq DOMAIN plan.st
        BY <1>1, <3>1, ResumedIsPlan DEF Unfinished
      <4> QED
        BY <1>1, <2>2, <4>1 DEF IInv, Orderly, PlanFits, Fits, Removing
    <3>3. run' = Run("fan", v, Resumed)
      BY <2>2, <3>2 DEF Begin
    <3> QED
      BY <1>1, <3>1, <3>3 DEF InMemory
  <2> QED
    BY <2>1, <2>2
<1>6. \A s \in Shards : AtWork(s)'
  BY <1>1 DEF IInv, Orderly, AtWork
<1>7. Finished'
  BY <1>1 DEF IInv, Orderly, Finished, Whole
<1> QED
  BY <1>2, <1>4, <1>5, <1>6, <1>7 DEF Orderly

LEMMA SliceStep ==
  ASSUME PresplitAssumption, IInv, TypeOK', Slice
  PROVE  Orderly'
<1>1. /\ TypeOK /\ run.pc = "slice" /\ run' = [run EXCEPT !.pc = "sliced"]
      /\ plan = NoPlan /\ DOMAIN run.st = {}
      /\ UNCHANGED <<row, source, plan, glb, meta, out, work>>
  BY DEF IInv, Orderly, InMemory, Slice
<1>2. run'.pc = "sliced" /\ run'.v = run.v /\ run'.st = run.st
  BY <1>1 DEF TypeOK
<1>3. /\ OneOwner' /\ run.v \in Versions
      /\ \A v \in Versions : MayOwn(v) /\ MayOwn(v)' <=> v = run.v
      /\ \A f : OfOwner(f) <=> f = NoFile \/ f.of = run.v
  BY <1>1, <1>2, OwnerStays DEF Working
<1>4. FilesAreOwned'
  <2>1. \A s \in Shards : shard'[s] \in {shard[s], Piece(run.v, FALSE)}
    BY <1>1 DEF TypeOK, Slice
  <2> QED
    BY <1>1, <1>3, <2>1 DEF IInv, Orderly, FilesAreOwned, OfOwner
<1>5. PlanIsOwned' /\ PlanFits' /\ InMemory'
  BY <1>1, <1>2 DEF PlanIsOwned, PlanFits, InMemory
<1>6. \A s \in Shards : AtWork(s)'
  BY <1>1, <1>2 DEF IInv, Orderly, AtWork
<1>7. Finished'
  BY <1>1, <1>2 DEF IInv, Orderly, Finished, Whole
<1> QED
  BY <1>3, <1>4, <1>5, <1>6, <1>7 DEF Orderly

LEMMA SlicedStep ==
  ASSUME PresplitAssumption, IInv, TypeOK', Sliced
  PROVE  Orderly'
<1> DEFINE slices == DOMAIN source[run.v]
           st     == [s \in slices |-> "PENDING"]
<1>1. /\ TypeOK /\ run.pc = "sliced" /\ run.v \in Versions
      /\ plan = NoPlan /\ DOMAIN run.st = {}
      /\ UNCHANGED <<row, source, glb, meta, out, work>>
  BY DEF IInv, Orderly, OneOwner, Working, InMemory, Sliced
<1>2. slices \subseteq Shards /\ slices # {}
  BY <1>1, SourceIsSlices
<1>3. /\ run' = Run("fan", run.v, st) /\ plan' = Plan(run.v, st)
      /\ \A s \in Shards :
            shard'[s] = IF s \in slices THEN Piece(run.v, TRUE) ELSE shard[s]
  BY <1>1, <1>2 DEF Sliced
<1>4. run'.pc = "fan" /\ run'.v = run.v /\ run'.st = st
  BY <1>3
<1>5. /\ OneOwner'
      /\ \A v \in Versions : MayOwn(v) /\ MayOwn(v)' <=> v = run.v
      /\ \A f : OfOwner(f) <=> f = NoFile \/ f.of = run.v
  BY <1>1, <1>4, OwnerStays DEF Working
<1>6. FilesAreOwned'
  BY <1>1, <1>3, <1>5 DEF IInv, Orderly, FilesAreOwned, OfOwner
<1>7. PlanIsOwned'
  BY <1>1, <1>3, <1>5 DEF PlanIsOwned
<1>8. PlanFits'
  BY <1>1, <1>2, <1>3 DEF PlanFits, Fits
<1>9. InMemory'
  BY <1>3, <1>4 DEF InMemory
<1>10. \A s \in Shards : AtWork(s)'
  BY <1>1, <1>4 DEF IInv, Orderly, AtWork
<1>11. Finished'
  BY <1>1, <1>4 DEF IInv, Orderly, Finished, Whole
<1> QED
  BY <1>5, <1>6, <1>7, <1>8, <1>9, <1>10, <1>11 DEF Orderly

\* Nothing that is settled changes; what failed is pending again.
LEMMA FanStep ==
  ASSUME PresplitAssumption, IInv, TypeOK', Fan
  PROVE  Orderly'
<1> DEFINE todo == Unfinished(run.st)
           st   == [s \in DOMAIN run.st |-> IF s \in todo THEN "PENDING" ELSE run.st[s]]
<1>1. /\ TypeOK /\ run.pc = "fan" /\ run.v \in Versions /\ plan = Plan(run.v, run.st)
      /\ run.st \in [DOMAIN run.st -> Statuses] /\ DOMAIN run.st \subseteq Shards
      /\ UNCHANGED <<row, source, shard, glb, meta, out>>
  BY StatesAreFunctions DEF IInv, Orderly, OneOwner, Working, InMemory, Fan, TypeOK
<1>2. run' = Run("convert", run.v, st)
      /\ run'.pc = "convert" /\ run'.v = run.v /\ run'.st = st
  BY DEF Fan
<1>3. plan' = Plan(run.v, st)
  <2>1. CASE todo = {}
    <3>1. st = run.st
      BY <1>1, <2>1
    <3> QED
      BY <1>1, <2>1, <3>1 DEF Fan
  <2>2. CASE todo # {}
    BY <1>1, <2>2 DEF Fan
  <2> QED
    BY <2>1, <2>2
<1>4. \A s \in DOMAIN run.st :
         /\ st[s] \in {"PENDING", "DONE", "SKIP"}
         /\ st[s] = "PENDING" <=> s \in todo
         /\ s \notin todo => st[s] = run.st[s]
  BY <1>1 DEF Unfinished, Statuses
<1>5. /\ OneOwner'
      /\ \A v \in Versions : MayOwn(v) /\ MayOwn(v)' <=> v = run.v
  BY <1>1, <1>2, OwnerStays DEF Working
<1>6. FilesAreOwned' /\ PlanIsOwned'
  BY <1>1, <1>2, <1>3, <1>5 DEF IInv, Orderly, FilesAreOwned, OfOwner, PlanIsOwned, MayOwn
<1>7. PlanFits'
  <2>1. plan # NoPlan /\ run.pc \notin Removing /\ plan.of = run.v /\ plan.st = run.st
    BY <1>1, PresplitAssumption DEF PresplitAssumption, Removing
  <2>2. DOMAIN run.st = DOMAIN source[run.v] /\ \A s \in DOMAIN run.st : Fits(s)
    BY <2>1 DEF IInv, Orderly, PlanFits
  <2>3. plan'.of = run.v /\ plan'.st = st /\ DOMAIN st = DOMAIN run.st
    BY <1>3
  <2>4. ASSUME NEW s \in DOMAIN run.st PROVE Fits(s)'
    <3>1. Fits(s) /\ plan'.st[s] = st[s]
      BY <2>2, <2>3
    <3>2. plan'.st[s] \in {"DONE", "SKIP"} => plan'.st[s] = plan.st[s]
      BY <1>4, <2>1, <3>1
    <3> QED
      BY <1>1, <2>1, <2>3, <3>1, <3>2 DEF Fits
  <2> QED
    BY <1>1, <2>2, <2>3, <2>4 DEF PlanFits
<1>8. InMemory'
  BY <1>2, <1>3 DEF InMemory
<1>9. \A s \in Shards : AtWork(s)'
  <2>1. \A s \in Shards : work'[s] = IF s \in todo THEN "convert" ELSE "none"
    BY DEF Fan
  <2>2. todo \subseteq DOMAIN run.st
    BY DEF Unfinished
  <2> QED
    BY <1>2, <1>4, <2>1, <2>2 DEF AtWork
<1>10. Finished'
  BY <1>1, <1>2 DEF IInv, Orderly, Finished, Whole
<1> QED
  BY <1>5, <1>6, <1>7, <1>8, <1>9, <1>10 DEF Orderly

\* Inside the fan-out: what holds of every shard, read off the invariant.
LEMMA WhileConverting ==
  ASSUME PresplitAssumption, IInv, run.pc = "convert"
  PROVE  /\ run.v \in Versions /\ row[run.v] = "pending"
         /\ plan = Plan(run.v, run.st) /\ plan # NoPlan
         /\ run.st \in [DOMAIN run.st -> Statuses] /\ DOMAIN run.st \subseteq Shards
         /\ DOMAIN run.st = DOMAIN source[run.v]
         /\ \A s \in DOMAIN run.st : Fits(s) /\ source[run.v][s] \in {"geometry", "empty"}
<1>1. run.v \in Versions /\ row[run.v] = "pending" /\ plan = Plan(run.v, run.st)
  BY DEF IInv, Orderly, OneOwner, Working, InMemory
<1>2. plan # NoPlan
  BY <1>1 DEF PresplitAssumption
<1>3. run.st \in [DOMAIN run.st -> Statuses] /\ DOMAIN run.st \subseteq Shards
  BY StatesAreFunctions DEF IInv, TypeOK
<1>4. DOMAIN run.st = DOMAIN source[run.v] /\ \A s \in DOMAIN run.st : Fits(s)
  BY <1>1, <1>2 DEF IInv, Orderly, PlanFits, Removing
<1>5. \A s \in DOMAIN source[run.v] : source[run.v][s] \in {"geometry", "empty"}
  BY <1>1, SourceIsSlices DEF IInv
<1> QED
  BY <1>1, <1>2, <1>3, <1>4, <1>5

\* A worker writes a file of one pending shard.
LEMMA WorkerWrites ==
  ASSUME PresplitAssumption, IInv, TypeOK', NEW s \in Shards, ShardGeometry(s) \/ ShardMeta(s)
  PROVE  Orderly'
<1>1. /\ TypeOK /\ run.pc = "convert" /\ s \in DOMAIN run.st /\ run.st[s] = "PENDING"
      /\ work[s] # "none" /\ work'[s] # "none"
      /\ \A t \in Shards \ {s} : work'[t] = work[t] /\ glb'[t] = glb[t] /\ meta'[t] = meta[t]
      /\ UNCHANGED <<row, source, plan, shard, out, run>>
  BY DEF IInv, Orderly, AtWork, ShardGeometry, ShardMeta, TypeOK
<1>2. /\ run.v \in Versions /\ plan = Plan(run.v, run.st) /\ plan # NoPlan
      /\ DOMAIN run.st \subseteq Shards
      /\ DOMAIN run.st = DOMAIN source[run.v]
      /\ \A t \in DOMAIN run.st : Fits(t) /\ source[run.v][t] \in {"geometry", "empty"}
  BY <1>1, WhileConverting
<1>3. shard[s] = Piece(run.v, TRUE)
  BY <1>1, <1>2 DEF Fits
<1>4. /\ OneOwner'
      /\ \A v \in Versions : MayOwn(v) /\ MayOwn(v)' <=> v = run.v
      /\ \A f : OfOwner(f) <=> f = NoFile \/ f.of = run.v
  BY <1>1, OwnerStays DEF Working
<1>5. /\ glb'[s] = Piece(run.v, TRUE) /\ source[run.v][s] = "geometry"
      /\ work'[s] \in {"glb", "meta"}
      /\ work'[s] = "meta" => meta'[s] = Piece(run.v, TRUE)
      /\ meta'[s] \in {meta[s], Piece(run.v, TRUE)}
  BY <1>1, <1>3 DEF ShardGeometry, ShardMeta, TypeOK, IInv, Orderly, AtWork
<1>6. FilesAreOwned'
  <2>1. \A t \in Shards : glb'[t] \in {glb[t], Piece(run.v, TRUE)}
                       /\ meta'[t] \in {meta[t], Piece(run.v, TRUE)}
    BY <1>1, <1>5
  <2>2. MayOwn(run.v)'
    BY <1>1 DEF MayOwn
  <2>3. ASSUME NEW t \in Shards
        PROVE  \A f \in {shard[t], glb[t], meta[t]} : f = NoFile \/ f.of = run.v
    BY <1>4 DEF IInv, Orderly, FilesAreOwned
  <2>4. ASSUME NEW t \in Shards
        PROVE  \A f \in {shard'[t], glb'[t], meta'[t]} : f = NoFile \/ f.of = run.v
    BY <1>1, <2>1, <2>3
  <2>5. ASSUME NEW t \in Shards PROVE (OfOwner(shard[t]) /\ OfOwner(glb[t]) /\ OfOwner(meta[t]))'
    BY <1>1, <1>2, <2>2, <2>4 DEF OfOwner
  <2> QED
    BY <2>5 DEF FilesAreOwned
<1>7. PlanIsOwned'
  BY <1>1, <1>2, <1>4 DEF PlanIsOwned
<1>8. PlanFits'
  <2>1. \A t \in DOMAIN run.st : Fits(t)'
    BY <1>1, <1>2 DEF Fits
  <2> QED
    BY <1>1, <1>2, <2>1 DEF PlanFits
<1>9. InMemory'
  BY <1>1 DEF IInv, Orderly, InMemory
<1>10. \A t \in Shards : AtWork(t)'
  BY <1>1, <1>5 DEF IInv, Orderly, AtWork
<1>11. Finished'
  BY <1>1 DEF IInv, Orderly, Finished, Whole
<1> QED
  BY <1>4, <1>6, <1>7, <1>8, <1>9, <1>10, <1>11 DEF Orderly

\* The outcome of one pending shard is stored, in memory and in the plan.
LEMMA OutcomeStep ==
  ASSUME PresplitAssumption, IInv, TypeOK', NEW s \in Shards,
         ShardDone(s) \/ ShardEmpty(s) \/ ShardFails(s)
  PROVE  Orderly'
<1>1. /\ TypeOK /\ run.pc = "convert" /\ s \in DOMAIN run.st /\ run.st[s] = "PENDING"
      /\ work[s] # "none"
      /\ UNCHANGED <<row, source, shard, meta, out>>
  BY DEF IInv, Orderly, AtWork, ShardDone, ShardEmpty, ShardFails
<1>2. /\ run.v \in Versions /\ plan = Plan(run.v, run.st) /\ plan # NoPlan
      /\ run.st \in [DOMAIN run.st -> Statuses] /\ DOMAIN run.st \subseteq Shards
      /\ DOMAIN run.st = DOMAIN source[run.v]
      /\ \A t \in DOMAIN run.st : Fits(t) /\ source[run.v][t] \in {"geometry", "empty"}
  BY <1>1, WhileConverting
<1>3. shard[s] = Piece(run.v, TRUE)
  BY <1>1, <1>2 DEF Fits
<1>4. PICK x \in {"DONE", "SKIP", "FAILED"} :
         /\ Report(s, x)
         /\ x = "DONE" => work[s] = "meta"
         /\ x = "SKIP" => source[run.v][s] = "empty"
  BY <1>3 DEF ShardDone, ShardEmpty, ShardFails
<1>5. \A t \in Shards : glb'[t] = glb[t] \/ (t = s /\ x = "FAILED" /\ glb'[t] = Piece(run.v, FALSE))
  <2>1. CASE ShardDone(s) \/ ShardEmpty(s)
    BY <2>1 DEF ShardDone, ShardEmpty
  <2>2. CASE ShardFails(s)
    <3>1. Report(s, "FAILED")
      BY <2>2 DEF ShardFails
    <3>2. x = "FAILED"
      <4>1. run'.st[s] = "FAILED"
        BY <1>1, <1>2, <3>1 DEF Report, TypeOK
      <4>2. run'.st[s] = x
        BY <1>1, <1>2, <1>4 DEF Report, TypeOK
      <4> QED
        BY <4>1, <4>2
    <3> QED
      BY <1>1, <1>3, <2>2, <3>2 DEF ShardFails, TypeOK
  <2> QED
    BY <2>1, <2>2
<1> DEFINE st == [run.st EXCEPT ![s] = x]
<1>6. /\ run' = [run EXCEPT !.st = st] /\ plan' = Plan(run.v, st)
      /\ \A t \in Shards : work'[t] = IF t = s THEN "none" ELSE work[t]
  BY <1>1, <1>2, <1>4 DEF Report, TypeOK
<1>7. /\ run'.pc = "convert" /\ run'.v = run.v /\ run'.st = st
      /\ DOMAIN st = DOMAIN run.st
      /\ \A t \in DOMAIN run.st : st[t] = IF t = s THEN x ELSE run.st[t]
  BY <1>1, <1>2, <1>6 DEF TypeOK
<1> HIDE DEF st
<1>8. /\ OneOwner'
      /\ \A v \in Versions : MayOwn(v) /\ MayOwn(v)' <=> v = run.v
      /\ \A f : OfOwner(f) <=> f = NoFile \/ f.of = run.v
  BY <1>1, <1>7, OwnerStays DEF Working
<1>9. FilesAreOwned'
  BY <1>1, <1>2, <1>5, <1>8 DEF IInv, Orderly, FilesAreOwned, OfOwner
<1>10. PlanIsOwned'
  BY <1>2, <1>6, <1>8 DEF PlanIsOwned
<1>11. PlanFits'
  <2>1. plan'.of = run.v /\ plan'.st = st /\ plan.of = run.v /\ plan.st = run.st
    BY <1>2, <1>6
  <2>2. x = "DONE" =>
           glb[s] = Piece(run.v, TRUE) /\ meta[s] = Piece(run.v, TRUE)
           /\ source[run.v][s] = "geometry"
    BY <1>4 DEF IInv, Orderly, AtWork
  <2>3. ASSUME NEW t \in DOMAIN run.st PROVE Fits(t)'
    <3>1. Fits(t) /\ t \in Shards /\ source[run.v][t] \in {"geometry", "empty"}
      BY <1>2
    <3>2. CASE t = s
      BY <1>1, <1>4, <1>5, <1>7, <2>1, <2>2, <3>1, <3>2 DEF Fits
    <3>3. CASE t # s
      BY <1>1, <1>5, <1>7, <2>1, <3>1, <3>3 DEF Fits
    <3> QED
      BY <3>2, <3>3
  <2> QED
    BY <1>1, <1>2, <1>7, <2>1, <2>3 DEF PlanFits
<1>12. InMemory'
  BY <1>6, <1>7 DEF InMemory
<1>13. ASSUME NEW t \in Shards PROVE AtWork(t)'
  <2>1. AtWork(t)
    BY DEF IInv, Orderly
  <2>2. CASE t = s
    BY <1>6, <1>7, <2>2 DEF AtWork
  <2>3. CASE t # s
    BY <1>1, <1>5, <1>6, <1>7, <2>1, <2>3 DEF AtWork
  <2> QED
    BY <2>2, <2>3
<1>14. Finished'
  BY <1>1, <1>7 DEF IInv, Orderly, Finished, Whole
<1> QED
  BY <1>8, <1>9, <1>10, <1>11, <1>12, <1>13, <1>14 DEF Orderly

\* The slicer or the import throws, and the flow ends.
LEMMA ThrowsStep ==
  ASSUME PresplitAssumption, IInv, TypeOK', Throws
  PROVE  Orderly'
<1>1. /\ TypeOK /\ run.pc \in {"slice", "sliced", "import"}
      /\ row' = [row EXCEPT ![run.v] = "failed"] /\ run' = Idle
      /\ UNCHANGED <<source, disk, work>>
  BY DEF IInv, Throws, Settle
<1>2. run.v \in Versions /\ row[run.v] = "pending"
  BY <1>1 DEF IInv, Orderly, OneOwner, Working
<1>3. OneOwner'
  BY <1>1, <1>2 DEF IInv, Orderly, OneOwner, Working, TypeOK
<1>4. \A v \in Versions : MayOwn(v) => MayOwn(v)'
  BY <1>1, <1>2 DEF MayOwn, TypeOK
<1>5. (FilesAreOwned /\ PlanIsOwned /\ PlanFits)'
  BY <1>1, <1>4, DiskStays DEF Removing
<1>6. \A s \in Shards : work[s] = "none"
  BY <1>1 DEF IInv, Orderly, AtWork
<1>7. InMemory' /\ \A s \in Shards : AtWork(s)'
  BY <1>1, <1>6 DEF InMemory, AtWork
<1>8. Finished'
  BY <1>1, <1>2 DEF IInv, Orderly, Finished, Whole, TypeOK
<1> QED
  BY <1>3, <1>5, <1>7, <1>8 DEF Orderly

\* All shards are settled.
LEMMA JoinStep ==
  ASSUME PresplitAssumption, IInv, TypeOK', Join
  PROVE  Orderly'
<1>1. /\ TypeOK /\ run.pc = "convert" /\ \A s \in Shards : work[s] = "none"
      /\ UNCHANGED <<source, disk, work>>
  BY DEF IInv, Join
<1>2. /\ run.v \in Versions /\ row[run.v] = "pending" /\ plan = Plan(run.v, run.st)
      /\ run.st \in [DOMAIN run.st -> Statuses] /\ DOMAIN run.st \subseteq Shards
  BY <1>1, WhileConverting
<1>3. \A s \in DOMAIN run.st : run.st[s] # "PENDING"
  BY <1>1, <1>2 DEF IInv, Orderly, AtWork
<1>4. CASE \E s \in DOMAIN run.st : run.st[s] = "FAILED"
  <2>1. row' = [row EXCEPT ![run.v] = "failed"] /\ run' = Idle
    BY <1>4 DEF Join, Settle
  <2>2. OneOwner'
    BY <1>1, <1>2, <2>1 DEF IInv, Orderly, OneOwner, Working, TypeOK
  <2>3. \A v \in Versions : MayOwn(v) => MayOwn(v)'
    BY <1>1, <1>2, <2>1 DEF MayOwn, TypeOK
  <2>4. (FilesAreOwned /\ PlanIsOwned /\ PlanFits)'
    BY <1>1, <2>3, DiskStays DEF Removing
  <2>5. InMemory' /\ \A s \in Shards : AtWork(s)'
    BY <1>1, <2>1 DEF InMemory, AtWork
  <2>6. Finished'
    BY <1>1, <1>2, <2>1 DEF IInv, Orderly, Finished, Whole, TypeOK
  <2> QED
    BY <2>2, <2>4, <2>5, <2>6 DEF Orderly
<1>5. CASE ~ \E s \in DOMAIN run.st : run.st[s] = "FAILED"
  <2>1. row' = row /\ run'.pc = "aggregate" /\ run'.v = run.v /\ run'.st = run.st
    BY <1>1, <1>5 DEF Join, TypeOK
  <2>2. /\ OneOwner'
        /\ \A v \in Versions : MayOwn(v) /\ MayOwn(v)' <=> v = run.v
    BY <1>1, <2>1, OwnerStays DEF Working
  <2>3. (FilesAreOwned /\ PlanIsOwned /\ PlanFits)'
    <3>1. \A v \in Versions : MayOwn(v) => MayOwn(v)'
      BY <1>1, <2>1 DEF MayOwn
    <3> QED
      BY <1>1, <3>1, DiskStays DEF Removing
  <2>4. InMemory'
    <3>1. \A s \in DOMAIN run.st : run.st[s] \in {"DONE", "SKIP"}
      BY <1>2, <1>3, <1>5 DEF Statuses
    <3> QED
      BY <1>1, <1>2, <2>1, <3>1 DEF InMemory
  <2>5. \A s \in Shards : AtWork(s)'
    BY <1>1, <2>1 DEF AtWork
  <2>6. Finished'
    BY <1>1, <2>1 DEF IInv, Orderly, Finished, Whole
  <2> QED
    BY <2>2, <2>3, <2>4, <2>5, <2>6 DEF Orderly
<1> QED
  BY <1>4, <1>5

\* The pieces that are DONE are all pieces with geometry.
LEMMA AggregateStep ==
  ASSUME PresplitAssumption, IInv, TypeOK', Aggregate
  PROVE  Orderly'
<1>1. /\ TypeOK /\ run.pc = "aggregate" /\ run.v \in Versions /\ row[run.v] = "pending"
      /\ plan = Plan(run.v, run.st) /\ plan # NoPlan
      /\ \A s \in DOMAIN run.st : run.st[s] \in {"DONE", "SKIP"}
      /\ UNCHANGED <<source, plan, shard, glb, meta, work>>
  BY DEF IInv, Orderly, OneOwner, Working, InMemory, Aggregate, PresplitAssumption
<1>2. DOMAIN run.st = DOMAIN source[run.v] /\ \A s \in DOMAIN run.st : Fits(s)
  BY <1>1 DEF IInv, Orderly, PlanFits, Removing
<1>3. \A v \in Versions : row[v] # "ready"
  BY <1>1 DEF IInv, Orderly, OneOwner
<1>4. \A s \in Shards : work[s] = "none"
  BY <1>1 DEF IInv, Orderly, AtWork
<1>5. CASE run' = [run EXCEPT !.pc = "clean"] /\ row' = row /\ out' = {<<s, glb[s]>> : s \in Merged}
  <2>1. run'.pc = "clean" /\ run'.v = run.v
    BY <1>1, <1>5 DEF TypeOK
  <2>2. OneOwner' /\ \A v \in Versions : MayOwn(v) /\ MayOwn(v)' <=> v = run.v
    BY <1>1, <1>5, <2>1, OwnerStays DEF Working
  <2>3. FilesAreOwned' /\ PlanIsOwned'
    BY <1>1, <2>1 DEF IInv, Orderly, FilesAreOwned, PlanIsOwned, OfOwner, MayOwn
  <2>4. PlanFits' /\ InMemory' /\ \A s \in Shards : AtWork(s)'
    BY <1>1, <1>4, <2>1 DEF PlanFits, Removing, InMemory, AtWork
  <2>5. Finished'
    <3>1. Merged = {t \in DOMAIN source[run.v] : source[run.v][t] = "geometry"}
      BY <1>1, <1>2 DEF Merged, Fits
    <3>2. \A s \in Merged : glb[s] = Piece(run.v, TRUE)
      BY <1>1, <1>2 DEF Merged, Fits
    <3>3. {<<s, glb[s]>> : s \in Merged} = {<<s, Piece(run.v, TRUE)>> : s \in Merged}
      BY <3>2
    <3>4. out' = Whole(run.v)
      BY <1>5, <3>1, <3>3 DEF Whole
    <3> QED
      BY <1>1, <1>3, <1>5, <2>1, <3>4 DEF Finished, Whole
  <2> QED
    BY <2>2, <2>3, <2>4, <2>5 DEF Orderly
<1>6. CASE run' = Idle /\ row' = [row EXCEPT ![run.v] = "failed"]
  <2>1. OneOwner'
    BY <1>1, <1>6 DEF IInv, Orderly, OneOwner, Working, TypeOK
  <2>2. \A v \in Versions : MayOwn(v) => MayOwn(v)'
    BY <1>1, <1>6 DEF MayOwn, TypeOK
  <2>3. FilesAreOwned' /\ PlanIsOwned'
    BY <1>1, <2>2 DEF IInv, Orderly, FilesAreOwned, PlanIsOwned, OfOwner
  <2>4. PlanFits'
    BY <1>1, <1>2 DEF PlanFits, Fits
  <2>5. InMemory' /\ \A s \in Shards : AtWork(s)'
    BY <1>1, <1>4, <1>6 DEF InMemory, AtWork
  <2>6. Finished'
    BY <1>1, <1>3, <1>6 DEF Finished, TypeOK
  <2> QED
    BY <2>1, <2>3, <2>4, <2>5, <2>6 DEF Orderly
<1> QED
  BY <1>5, <1>6 DEF Aggregate, Settle

\* Files go one by one, and the plan with them in any order.
LEMMA CleanStep ==
  ASSUME PresplitAssumption, IInv, TypeOK', Clean
  PROVE  Orderly'
<1>1. /\ TypeOK /\ run.pc \in Removing /\ run.v \in Versions
      /\ UNCHANGED <<row, source, out, run, work>>
      /\ plan' \in {plan, NoPlan}
  BY DEF IInv, Orderly, OneOwner, Removing, Clean
<1>2. /\ \A s \in Shards : shard'[s] \in {shard[s], NoFile}
      /\ \A s \in Shards : glb'[s] \in {glb[s], NoFile}
      /\ \A s \in Shards : meta'[s] \in {meta[s], NoFile}
  <2>1. /\ UNCHANGED shard \/ \E s \in Shards : shard' = [shard EXCEPT ![s] = NoFile]
        /\ UNCHANGED glb \/ \E s \in Shards : glb' = [glb EXCEPT ![s] = NoFile]
        /\ UNCHANGED meta \/ \E s \in Shards : meta' = [meta EXCEPT ![s] = NoFile]
    BY Zenon DEF Clean
  <2>2. \A s \in Shards : shard'[s] \in {shard[s], NoFile}
    BY <1>1, <2>1 DEF TypeOK
  <2>3. \A s \in Shards : glb'[s] \in {glb[s], NoFile}
    BY <1>1, <2>1 DEF TypeOK
  <2>4. \A s \in Shards : meta'[s] \in {meta[s], NoFile}
    BY <1>1, <2>1 DEF TypeOK
  <2> QED
    BY <2>2, <2>3, <2>4
<1>3. OneOwner'
  BY <1>1 DEF IInv, Orderly, OneOwner
<1>4. FilesAreOwned'
  BY <1>1, <1>2 DEF IInv, Orderly, FilesAreOwned, OfOwner, MayOwn
<1>5. PlanIsOwned'
  BY <1>1 DEF IInv, Orderly, PlanIsOwned, MayOwn
<1>6. PlanFits' /\ InMemory'
  BY <1>1 DEF PlanFits, InMemory, Removing
<1>7. \A s \in Shards : AtWork(s)'
  <2>1. \A s \in Shards : work'[s] = "none"
    BY <1>1 DEF IInv, Orderly, AtWork, Removing
  <2> QED
    BY <1>1, <2>1 DEF AtWork, Removing
<1>8. Finished'
  BY <1>1 DEF IInv, Orderly, Finished, Whole
<1> QED
  BY <1>3, <1>4, <1>5, <1>6, <1>7, <1>8 DEF Orderly

\* An empty directory is nobody's.
LEMMA EmptyStep ==
  ASSUME PresplitAssumption, IInv, TypeOK', Cleaned \/ Ready
  PROVE  Orderly'
<1>1. /\ TypeOK /\ run.v \in Versions
      /\ run.pc \in {"clean", "del_clean", "import"}
      /\ plan = NoPlan /\ Empty(shard) /\ Empty(glb) /\ Empty(meta)
      /\ UNCHANGED <<source, disk, work>>
  BY DEF IInv, Orderly, OneOwner, InMemory, Cleaned, Ready
<1>2. (FilesAreOwned /\ PlanIsOwned /\ PlanFits)'
  BY <1>1 DEF FilesAreOwned, PlanIsOwned, PlanFits, OfOwner, Empty
<1>3. \A s \in Shards : work[s] = "none"
  BY <1>1 DEF IInv, Orderly, AtWork
<1>4. CASE Cleaned /\ run.pc = "clean"
  <2>1. run'.pc = "import" /\ run'.v = run.v /\ row' = row
    BY <1>1, <1>4 DEF Cleaned, TypeOK
  <2>2. OneOwner'
    BY <1>4, <2>1, OwnerStays DEF Working
  <2>3. InMemory' /\ \A s \in Shards : AtWork(s)'
    BY <1>1, <1>3, <2>1 DEF InMemory, AtWork, Empty
  <2>4. Finished'
    BY <1>1, <1>4, <2>1 DEF IInv, Orderly, Finished, Whole
  <2> QED
    BY <1>2, <2>2, <2>3, <2>4 DEF Orderly
<1>5. CASE Cleaned /\ run.pc # "clean"
  <2>1. run.pc = "del_clean" /\ run' = Idle /\ row' = row
    BY <1>1, <1>5 DEF Cleaned
  <2>2. OneOwner' /\ InMemory' /\ \A s \in Shards : AtWork(s)'
    BY <1>1, <1>3, <2>1 DEF IInv, Orderly, OneOwner, Working, InMemory, AtWork
  <2>3. Finished'
    BY <1>1, <2>1 DEF IInv, Orderly, Finished, Whole
  <2> QED
    BY <1>2, <2>2, <2>3 DEF Orderly
<1>6. CASE Ready
  <2>1. /\ run.pc = "import" /\ row[run.v] = "pending" /\ run' = Idle
        /\ row' = [row EXCEPT ![run.v] = "ready"] /\ out = Whole(run.v)
    BY <1>1, <1>6 DEF IInv, Orderly, OneOwner, Working, Finished, Ready, Settle
  <2>2. OneOwner'
    BY <1>1, <2>1 DEF IInv, Orderly, OneOwner, Working, TypeOK
  <2>3. InMemory' /\ \A s \in Shards : AtWork(s)'
    BY <1>1, <1>3, <2>1 DEF InMemory, AtWork
  <2>4. Finished'
    BY <1>1, <2>1 DEF IInv, Orderly, Finished, Whole, TypeOK
  <2> QED
    BY <1>2, <2>2, <2>3, <2>4 DEF Orderly
<1> QED
  BY <1>4, <1>5, <1>6

LEMMA DeleteArtifactsStep ==
  ASSUME IInv, TypeOK', DeleteArtifacts
  PROVE  Orderly'
<1>1. /\ TypeOK /\ run.pc = "delete" /\ run'.pc = "del_clean" /\ run'.v = run.v
      /\ run.v \in Versions
      /\ UNCHANGED <<row, source, plan, shard, glb, meta, work>>
  BY DEF IInv, Orderly, OneOwner, DeleteArtifacts, TypeOK
<1>2. OneOwner'
  BY <1>1 DEF IInv, Orderly, OneOwner, Working
<1>3. FilesAreOwned' /\ PlanIsOwned'
  BY <1>1 DEF IInv, Orderly, FilesAreOwned, PlanIsOwned, OfOwner, MayOwn
<1>4. PlanFits' /\ InMemory' /\ \A s \in Shards : AtWork(s)'
  BY <1>1 DEF IInv, Orderly, PlanFits, Removing, InMemory, AtWork
<1>5. Finished'
  BY <1>1 DEF IInv, Orderly, OneOwner, Finished
<1> QED
  BY <1>2, <1>3, <1>4, <1>5 DEF Orderly

\* A kill leaves the directory to the version it belongs to, which is pending.
LEMMA CrashStep ==
  ASSUME PresplitAssumption, RemovalsFinish, IInv, TypeOK', Crash
  PROVE  Orderly'
<1>1. /\ TypeOK /\ run.pc \in Working \ Removing
      /\ UNCHANGED <<row, source, disk>>
      /\ run' = Idle
      /\ \A s \in Shards : work'[s] = "none"
  BY DEF IInv, TypeOK, RemovalsFinish, Removing, Working, Phases, Crash
<1>2. OneOwner' /\ run.v \in Versions /\ row[run.v] = "pending" /\ run.pc # "idle"
  BY <1>1 DEF IInv, Orderly, OneOwner, Working
<1>3. \A v \in Versions : MayOwn(v) => MayOwn(v)'
  BY <1>1, <1>2 DEF MayOwn
<1>4. (FilesAreOwned /\ PlanIsOwned /\ PlanFits)'
  BY <1>1, <1>3, DiskStays
<1>5. InMemory' /\ \A s \in Shards : AtWork(s)'
  BY <1>1 DEF InMemory, AtWork
<1>6. Finished'
  BY <1>1 DEF IInv, Orderly, Finished, Whole
<1> QED
  BY <1>2, <1>4, <1>5, <1>6 DEF Orderly

-----------------------------------------------------------------------------
LEMMA StepIInv ==
  ASSUME PresplitAssumption, RemovalsFinish, IInv, [Next]_vars
  PROVE  IInv'
<1>1. CASE UNCHANGED vars
  <2> USE <1>1 DEF vars, IInv, Orderly
  <2>1. TypeOK'
    BY DEF TypeOK
  <2>2. OneOwner' /\ PlanIsOwned'
    BY DEF OneOwner, PlanIsOwned, MayOwn
  <2>3. FilesAreOwned'
    BY DEF FilesAreOwned, OfOwner, MayOwn
  <2>4. PlanFits' /\ InMemory'
    BY DEF PlanFits, Fits, InMemory, Empty
  <2>5. (\A s \in Shards : AtWork(s))' /\ Finished'
    BY DEF AtWork, Finished, Whole
  <2> QED
    BY <2>1, <2>2, <2>3, <2>4, <2>5
<1>2. CASE Next
  <2>1. TypeOK'
    BY <1>2, TypeStep
  <2>2. Orderly'
    BY <1>2, <2>1, UsersStep, BeginStep, SliceStep, SlicedStep, FanStep, WorkerWrites,
       OutcomeStep, ThrowsStep, JoinStep, AggregateStep, CleanStep, EmptyStep, DeleteArtifactsStep,
       CrashStep
       DEF Next, Pipeline, Convert
  <2> QED
    BY <2>1, <2>2 DEF IInv
<1> QED
  BY <1>1, <1>2

\* The artifact of a READY version is the whole of its own source, and what a
\* resumed run leaves alone is on disk, for any versions, sources and shards,
\* wherever the process is killed but in the middle of a removal.
THEOREM ArtifactsAreWhole ==
  ASSUME PresplitAssumption, RemovalsFinish
  PROVE  Spec => []OutputIsComplete
<1>1. Init => IInv
  BY InitIInv
<1>2. IInv /\ [Next]_vars => IInv'
  BY StepIInv
<1>3. IInv => OutputIsComplete
  <2> SUFFICES ASSUME IInv PROVE OutputIsComplete
    OBVIOUS
  <2>1. \A v \in Versions : row[v] = "ready" => out = Whole(v)
    BY DEF IInv, Orderly, Finished
  <2>2. ASSUME run.pc \notin Removing, plan # NoPlan PROVE \A s \in DOMAIN plan.st : Fits(s)
    BY <2>2 DEF IInv, Orderly, PlanFits
  <2>3. plan = NoPlan => DOMAIN plan.st = {}
    OBVIOUS
  <2>4. DoneShardsAreKept
    BY <2>2, <2>3 DEF DoneShardsAreKept, Fits, Removing
  <2> QED
    BY <2>1, <2>4 DEF OutputIsComplete, Whole
<1> QED
  BY <1>1, <1>2, <1>3, PTL DEF Spec

LEMMA TypesHold ==
  ASSUME PresplitAssumption, RemovalsFinish
  PROVE  Spec => []TypeOK
<1>1. Init => IInv
  BY InitIInv
<1>2. IInv /\ [Next]_vars => IInv'
  BY StepIInv
<1>3. IInv => TypeOK
  BY DEF IInv
<1> QED
  BY <1>1, <1>2, <1>3, PTL DEF Spec

\* The pool is not at work on what the plan calls DONE, and no step puts it
\* to work on that.
LEMMA DoneIsLeftAlone ==
  ASSUME PresplitAssumption, IInv, Next, run.pc \notin Removing,
         NEW s \in DOMAIN plan.st, plan.st[s] = "DONE"
  PROVE  work[s] = "none" /\ work'[s] = "none"
<1>1. TypeOK /\ s \in Shards /\ plan # NoPlan
  BY StatesAreFunctions DEF IInv, TypeOK
<1>2. work[s] = "none"
  BY <1>1 DEF IInv, Orderly, AtWork, InMemory
<1>3. CASE Fan
  <2>1. run.st[s] = "DONE"
    BY <1>1, <1>3 DEF Fan, IInv, Orderly, InMemory
  <2> QED
    BY <1>1, <1>2, <1>3, <2>1 DEF Fan, Unfinished
<1>4. CASE Crash
  BY <1>1, <1>2, <1>4 DEF Crash
<1>5. ASSUME NEW t \in Shards, Convert(t) PROVE work'[s] = "none"
  <2>1. work[t] # "none"
    BY <1>5 DEF Convert, ShardGeometry, ShardMeta, ShardDone, ShardEmpty, ShardFails
  <2>2. \E x : work' = [work EXCEPT ![t] = x]
    BY <1>5 DEF Convert, ShardGeometry, ShardMeta, ShardDone, ShardEmpty, ShardFails, Report
  <2> QED
    BY <1>1, <1>2, <2>1, <2>2 DEF TypeOK
<1>6. CASE UNCHANGED work
  BY <1>2, <1>6
<1>7. Fan \/ Crash \/ UNCHANGED work \/ \E t \in Shards : Convert(t)
  BY DEF Next, Pipeline, Upload, Reconvert, Delete, Begin, Slice, Sliced, Throws, Join,
         Aggregate, Clean, Cleaned, Ready, DeleteArtifacts
<1> QED
  BY <1>2, <1>3, <1>4, <1>5, <1>6, <1>7

\* A retry, or a restart after a kill, converts no shard again that the plan
\* calls DONE, however often the run was killed before.
THEOREM DoneIsNotRedone ==
  ASSUME PresplitAssumption, RemovalsFinish
  PROVE  Spec => OnlyUnfinishedIsRedone
<1>1. Init => IInv
  BY InitIInv
<1>2. IInv /\ [Next]_vars => IInv'
  BY StepIInv
<1>3. IInv /\ [Next]_vars =>
        [\A s \in DOMAIN plan.st :
          plan.st[s] = "DONE" /\ plan' # NoPlan /\ run.pc \notin {"clean", "del_clean"}
             => work[s] = "none" /\ work'[s] = "none"]_vars
  <2> SUFFICES ASSUME IInv, Next,
                      NEW s \in DOMAIN plan.st, plan.st[s] = "DONE",
                      run.pc \notin {"clean", "del_clean"}
               PROVE  work[s] = "none" /\ work'[s] = "none"
    OBVIOUS
  <2> QED
    BY DoneIsLeftAlone DEF Removing
<1> QED
  BY <1>1, <1>2, <1>3, PTL DEF Spec, OnlyUnfinishedIsRedone
=============================================================================
