-------------------------- MODULE PresplitPipeline --------------------------
(***************************************************************************)
(* The presplit conversion of oversized sources, in apps/api/src/           *)
(* conversion/presplitPipeline.ts with presplit.ts of packages/ifc: slice   *)
(* the source into shards, convert each through the worker pool, merge the  *)
(* artifacts, with a plan on disk from which an interrupted run resumes.    *)
(*                                                                          *)
(* One artifact directory, and the versions that own it one after another:  *)
(* a version number is used again once its version is deleted.  The process *)
(* may be killed between any two file operations; the disk survives.        *)
(***************************************************************************)
EXTENDS Naturals, Sequences

CONSTANTS
    Versions, NoVersion,
    MaxShards,      \* bound on the structures of a source
    MaxCrashes,
    CrashAt         \* the phases in which the process may be killed

Statuses == {"PENDING", "DONE", "SKIP", "FAILED"}
Phases   == {"idle", "slice", "sliced", "fan", "convert", "aggregate", "clean",
             "import", "delete", "del_clean"}

PresplitAssumption ==
    /\ NoVersion \notin Versions
    /\ MaxShards \in Nat \ {0}
    /\ MaxCrashes \in Nat
    /\ CrashAt \subseteq Phases

Shards == 1..MaxShards

\* What a slice of a source holds; only geometry gives an artifact.
Sources == UNION {[1..n -> {"geometry", "empty"}] : n \in Shards}

\* A file made from a slice of a version's source; a slicer that is killed
\* leaves a file that is not whole, and what is converted from it is not.
Piece(v, whole) == [of |-> v, whole |-> whole]
NoFile == Piece(NoVersion, FALSE)
Files  == [of : Versions \cup {NoVersion}, whole : BOOLEAN]

Plan(v, st) == [of |-> v, st |-> st]
NoPlan == Plan(NoVersion, <<>>)

VARIABLES
    row,        \* version -> "none", "pending", "ready", "failed" or "deleted"
    source,     \* version -> its slices
    plan,       \* presplit/plan.json
    shard,      \* presplit/shards/<s>.ifc
    glb,        \* presplit/shard-<s>/: the geometry files of the artifact
    meta,       \* presplit/shard-<s>/meta.json
    out,        \* the merged artifact: the pieces in it, by shard
    run,        \* the pipeline, or the deletion of a version
    work,       \* shard -> its conversion in the pool
    crashes

vars == <<row, source, plan, shard, glb, meta, out, run, work, crashes>>
disk == <<plan, shard, glb, meta, out>>

\* The flow's locals: the version and the statuses of the plan in memory.
Run(pc, v, st) == [pc |-> pc, v |-> v, st |-> st]
Idle == Run("idle", NoVersion, <<>>)

PlanStates == UNION {[1..n -> Statuses] : n \in 0..MaxShards}

TypeOK ==
    /\ row \in [Versions -> {"none", "pending", "ready", "failed", "deleted"}]
    /\ source \in [Versions -> Sources]
    /\ plan \in [of : Versions \cup {NoVersion}, st : PlanStates]
    /\ shard \in [Shards -> Files]
    /\ glb \in [Shards -> Files]
    /\ meta \in [Shards -> Files]
    /\ out \subseteq Shards \X Files
    /\ run \in [pc : Phases, v : Versions \cup {NoVersion}, st : PlanStates]
    /\ work \in [Shards -> {"none", "convert", "glb", "meta"}]
    /\ crashes \in 0..MaxCrashes

Init ==
    /\ row = [v \in Versions |-> "none"]
    /\ source \in [Versions -> Sources]
    /\ plan = NoPlan
    /\ shard = [s \in Shards |-> NoFile]
    /\ glb = [s \in Shards |-> NoFile]
    /\ meta = [s \in Shards |-> NoFile]
    /\ out = {}
    /\ run = Idle
    /\ work = [s \in Shards |-> "none"]
    /\ crashes = 0

At(pc) == run.pc = pc
Goto(pc) == run' = [run EXCEPT !.pc = pc]
Settle(status) ==
    /\ row' = [row EXCEPT ![run.v] = status]
    /\ run' = Idle

Unfinished(st) == {s \in DOMAIN st : st[s] \in {"PENDING", "FAILED"}}

-----------------------------------------------------------------------------
(* Users: one version at a time owns the directory, and it is left alone     *)
(* while it converts.                                                        *)

Upload(v) ==
    /\ At("idle")
    /\ \A w \in Versions : row[w] \in {"none", "deleted"}
    /\ row[v] = "none"
    /\ row' = [row EXCEPT ![v] = "pending"]
    /\ UNCHANGED <<source, disk, run, work, crashes>>

Reconvert(v) ==
    /\ At("idle")
    /\ row[v] \in {"ready", "failed"}
    /\ row' = [row EXCEPT ![v] = "pending"]
    /\ UNCHANGED <<source, disk, run, work, crashes>>

Delete(v) ==
    /\ At("idle")
    /\ row[v] \in {"ready", "failed"}
    /\ row' = [row EXCEPT ![v] = "deleted"]
    /\ run' = Run("delete", v, <<>>)
    /\ UNCHANGED <<source, disk, work, crashes>>

DeleteArtifacts ==
    /\ At("delete")
    /\ out' = {}
    /\ Goto("del_clean")
    /\ UNCHANGED <<row, source, plan, shard, glb, meta, work, crashes>>

-----------------------------------------------------------------------------
(* Slice, or resume the existing plan.                                       *)

\* A DONE shard whose meta.json is gone is converted again.
Resumed ==
    [s \in DOMAIN plan.st |->
        IF plan.st[s] = "DONE" /\ meta[s] = NoFile THEN "PENDING" ELSE plan.st[s]]

Begin(v) ==
    /\ At("idle")
    /\ row[v] = "pending"
    /\ run' = IF plan = NoPlan \/ \E s \in Unfinished(Resumed) : shard[s] = NoFile
              THEN Run("slice", v, Resumed) ELSE Run("fan", v, Resumed)
    /\ UNCHANGED <<row, source, disk, work, crashes>>

\* presplitIfcFile opens every shard file, then fills and closes it.
Slice ==
    /\ At("slice")
    /\ shard' = [s \in Shards |->
          IF s \in DOMAIN source[run.v] THEN Piece(run.v, FALSE) ELSE shard[s]]
    /\ Goto("sliced")
    /\ UNCHANGED <<row, source, plan, glb, meta, out, work, crashes>>

\* A plan of as many shards is kept, with the statuses it had.
Sliced ==
    LET slices == DOMAIN source[run.v]
        keep   == run.st # <<>> /\ DOMAIN run.st = slices
        st     == IF keep THEN run.st ELSE [s \in slices |-> "PENDING"]
    IN
    /\ At("sliced")
    /\ shard' = [s \in Shards |-> IF s \in slices THEN Piece(run.v, TRUE) ELSE shard[s]]
    /\ plan' = Plan(IF keep THEN plan.of ELSE run.v, st)
    /\ run' = Run("fan", run.v, st)
    /\ UNCHANGED <<row, source, glb, meta, out, work, crashes>>

\* What the slicer, or the element import at the other end, throws is caught by
\* processVersion only; the slices written so far stay.
Throws ==
    /\ run.pc \in {"slice", "sliced", "import"}
    /\ Settle("failed")
    /\ UNCHANGED <<source, disk, work, crashes>>

-----------------------------------------------------------------------------
(* Fan out the unfinished shards; the pool converts them in any order.       *)

\* Mutant: a resumed run submits every shard.
FanAll ==
    LET st == [s \in DOMAIN run.st |-> "PENDING"] IN
    /\ At("fan")
    /\ plan' = [plan EXCEPT !.st = st]
    /\ run' = Run("convert", run.v, st)
    /\ work' = [s \in Shards |-> IF s \in DOMAIN st THEN "convert" ELSE "none"]
    /\ UNCHANGED <<row, source, shard, glb, meta, out, crashes>>

Fan ==
    LET todo == Unfinished(run.st)
        st   == [s \in DOMAIN run.st |-> IF s \in todo THEN "PENDING" ELSE run.st[s]]
    IN
    /\ At("fan")
    /\ plan' = IF todo # {} THEN [plan EXCEPT !.st = st] ELSE plan
    /\ run' = Run("convert", run.v, st)
    /\ work' = [s \in Shards |-> IF s \in todo THEN "convert" ELSE "none"]
    /\ UNCHANGED <<row, source, shard, glb, meta, out, crashes>>

\* The worker thread: geometry files first, meta.json last.
ShardGeometry(s) ==
    /\ work[s] = "convert"
    /\ \/ ~ shard[s].whole
       \/ source[shard[s].of][s] = "geometry"
    /\ glb' = [glb EXCEPT ![s] = shard[s]]
    /\ work' = [work EXCEPT ![s] = "glb"]
    /\ UNCHANGED <<row, source, plan, shard, meta, out, run, crashes>>

ShardMeta(s) ==
    /\ work[s] = "glb"
    /\ meta' = [meta EXCEPT ![s] = glb[s]]
    /\ work' = [work EXCEPT ![s] = "meta"]
    /\ UNCHANGED <<row, source, plan, shard, glb, out, run, crashes>>

\* The outcome of a shard: its status in memory, and the plan written.
Report(s, status) ==
    /\ run' = [run EXCEPT !.st[s] = status]
    /\ plan' = [plan EXCEPT !.st = run'.st]
    /\ work' = [work EXCEPT ![s] = "none"]

ShardDone(s) ==
    /\ work[s] = "meta"
    /\ Report(s, "DONE")
    /\ UNCHANGED <<row, source, shard, glb, meta, out, crashes>>

\* Mutant: the outcome's code is taken for the status.
ShardEmptyByCode(s) ==
    /\ work[s] = "convert"
    /\ ~ shard[s].whole \/ source[shard[s].of][s] = "empty"
    /\ Report(s, "EMPTY_MODEL")
    /\ UNCHANGED <<row, source, shard, glb, meta, out, crashes>>

ShardEmpty(s) ==
    /\ work[s] = "convert"
    /\ ~ shard[s].whole \/ source[shard[s].of][s] = "empty"
    /\ Report(s, "SKIP")
    /\ UNCHANGED <<row, source, shard, glb, meta, out, crashes>>

\* A conversion, or its thread, fails at any moment and leaves what it wrote.
ShardFails(s) ==
    /\ work[s] # "none"
    /\ \/ UNCHANGED glb
       \/ work[s] = "convert" /\ glb' = [glb EXCEPT ![s] = Piece(shard[s].of, FALSE)]
    /\ Report(s, "FAILED")
    /\ UNCHANGED <<row, source, shard, meta, out, crashes>>

-----------------------------------------------------------------------------
(* All outcomes are in: fail and keep everything for a retry, or merge.      *)

\* Mutant: a shard that failed is left out.
JoinPartial ==
    /\ At("convert")
    /\ \A s \in Shards : work[s] = "none"
    /\ Goto("aggregate") /\ UNCHANGED row
    /\ UNCHANGED <<source, disk, work, crashes>>

\* Mutant: the flow that found a failed shard is left waiting.
JoinWaits ==
    /\ At("convert")
    /\ \A s \in Shards : work[s] = "none"
    /\ \A s \in DOMAIN run.st : run.st[s] # "FAILED"
    /\ Goto("aggregate") /\ UNCHANGED row
    /\ UNCHANGED <<source, disk, work, crashes>>

Join ==
    /\ At("convert")
    /\ \A s \in Shards : work[s] = "none"
    /\ IF \E s \in DOMAIN run.st : run.st[s] = "FAILED"
       THEN Settle("failed")
       ELSE Goto("aggregate") /\ UNCHANGED row
    /\ UNCHANGED <<source, disk, work, crashes>>

\* The files the merge reads: meta.json and geometry of every DONE shard.
Merged == {s \in DOMAIN run.st : run.st[s] = "DONE"}

\* Old chunks go first; no shard at all, or a missing file, is an error.
Aggregate ==
    /\ At("aggregate")
    /\ IF Merged # {} /\ \A s \in Merged : meta[s] # NoFile /\ glb[s] # NoFile
       THEN /\ out' = {<<s, glb[s]>> : s \in Merged}
            /\ Goto("clean") /\ UNCHANGED row
       ELSE out' = {} /\ Settle("failed")
    /\ UNCHANGED <<source, plan, shard, glb, meta, work, crashes>>

\* rmSync of the presplit directory: one entry after another, in the order
\* the file system lists them.
Clean ==
    /\ run.pc \in {"clean", "del_clean"}
    /\ \/ plan # NoPlan /\ plan' = NoPlan /\ UNCHANGED <<shard, glb, meta>>
       \/ \E s \in Shards :
             \/ /\ shard[s] # NoFile /\ shard' = [shard EXCEPT ![s] = NoFile]
                /\ UNCHANGED <<plan, glb, meta>>
             \/ /\ glb[s] # NoFile /\ glb' = [glb EXCEPT ![s] = NoFile]
                /\ UNCHANGED <<plan, shard, meta>>
             \/ /\ meta[s] # NoFile /\ meta' = [meta EXCEPT ![s] = NoFile]
                /\ UNCHANGED <<plan, shard, glb>>
    /\ UNCHANGED <<row, source, out, run, work, crashes>>

Empty(files) == \A s \in Shards : files[s] = NoFile

Cleaned ==
    /\ run.pc \in {"clean", "del_clean"}
    /\ plan = NoPlan /\ Empty(shard) /\ Empty(glb) /\ Empty(meta)
    /\ IF At("clean") THEN Goto("import") ELSE run' = Idle
    /\ UNCHANGED <<row, source, disk, work, crashes>>

\* processVersion imports the elements and marks the row.
Ready ==
    /\ At("import")
    /\ Settle("ready")
    /\ UNCHANGED <<source, disk, work, crashes>>

\* The pool's threads die with the process.
Crash ==
    /\ run.pc \in CrashAt \ {"idle"}
    /\ crashes < MaxCrashes
    /\ crashes' = crashes + 1
    /\ run' = Idle
    /\ work' = [s \in Shards |-> "none"]
    /\ UNCHANGED <<row, source, disk>>

-----------------------------------------------------------------------------
Pipeline ==
    \/ \E v \in Versions : Begin(v)
    \/ Slice \/ Sliced \/ Throws \/ Fan \/ Join \/ Aggregate
    \/ Clean \/ Cleaned \/ Ready \/ DeleteArtifacts

Convert(s) ==
    \/ ShardGeometry(s) \/ ShardMeta(s) \/ ShardDone(s)
    \/ ShardEmpty(s) \/ ShardFails(s)

Next ==
    \/ \E v \in Versions : Upload(v) \/ Reconvert(v) \/ Delete(v)
    \/ Pipeline
    \/ \E s \in Shards : Convert(s)
    \/ Crash

Spec == Init /\ [][Next]_vars

\* A process that was killed is started again and re-runs what is pending.
\* Nothing makes the pool answer: a shard queued at a thread that has died waits
\* for ever (ConversionPool).
FairSpec == Spec /\ WF_vars(Pipeline)

-----------------------------------------------------------------------------
(* Properties                                                                *)

\* What the plan calls DONE is on disk, whole, and made from the plan's own
\* source, at every moment at which the process may be killed: a resumed run
\* may leave such a shard alone.
DoneShardsAreKept ==
    run.pc \notin {"clean", "del_clean"} =>
       \A s \in DOMAIN plan.st : plan.st[s] = "DONE" =>
          /\ glb[s] = Piece(plan.of, TRUE)
          /\ meta[s] = Piece(plan.of, TRUE)

\* A READY version's artifact is the whole of its own source: one piece for
\* each slice with geometry, whatever failed, crashed and resumed before; and
\* what a resumed run will leave alone is there.
OutputIsComplete ==
    /\ DoneShardsAreKept
    /\ \A v \in Versions : row[v] = "ready" =>
          out = {<<s, Piece(v, TRUE)>> : s \in {t \in DOMAIN source[v] : source[v][t] = "geometry"}}

\* A retry or a restart redoes only what is not DONE: while the plan stands,
\* the artifact of a DONE shard is not written again.
OnlyUnfinishedIsRedone ==
    [][\A s \in DOMAIN plan.st :
          plan.st[s] = "DONE" /\ plan' # NoPlan /\ run.pc \notin {"clean", "del_clean"}
             => work[s] = "none" /\ work'[s] = "none"]_vars

\* Every conversion ends, however often the process is killed, unless the pool
\* leaves one shard without an answer for ever.
PendingSettles ==
    \A v \in Versions :
       (row[v] = "pending")
          ~> (row[v] # "pending" \/ \E s \in Shards : [](work[s] # "none"))
=============================================================================
