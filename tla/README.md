# OpenBIM in TLA+

Specifications, model-checking instances and proofs for the parts of OpenBIM
whose correctness depends on the order in which things happen: the life of a
version from upload to READY, the conversion services behind it, the
content-addressed files, the session of a user, the browser's viewer, and the
algorithms that make an artifact out of a source.

Every definition is a translation of code under `src/`; `PROJECT.json` maps each
to its lines. This file says what the system consists of, which module models
which part, what the runs and the proofs show, under which assumptions, and
what is left.

    tlc -config VersionSerial.cfg VersionLifecycle     # any run: see "Runs"
    tlc -config Artifacts.cfg MCArtifacts
    tlapm ConvertingProofs.tla                         # any proof module

## 1. The system

OpenBIM is a web application for IFC building models. A Fastify API
(`apps/api`) keeps rows in SQLite through Prisma and files in a directory (the
"blob store"). An uploaded IFC file becomes a *version* of a *model* of a
*project*; a conversion turns it into an *artifact directory* (`meta.json`,
geometry files), imports its elements into the database and marks the version
READY. Conversions run in worker threads, in a container with a native engine,
or, for large sources, shard by shard. A React page (`apps/web`) shows the
artifacts in a three.js viewer.

The API is **one Node process**: between two awaits a handler runs without
interruption, but handlers interleave at every awaited database or file call,
nothing spans two such calls (the code uses no transactions), and the process
may die between any two. That is the grain of the server-side modules. The
browser has the same grain, per tab. The container's job server uses Python
threads and one lock; its grain is the section under the lock.

### Components

| Component | State it keeps | Operations | Interacts with | What is hard |
|---|---|---|---|---|
| Version lifecycle (`routes/models.ts`, `server.ts`) | Version rows: status, number, progress; Element rows; artifact directories | create, process, reconvert, delete, restart recovery | all conversion services, blobs, events | overlapping requests, un-awaited progress writes, crashes between writes |
| Worker-thread pool (`conversion/index.ts`, `worker.ts`) | per thread: queue, job in flight | submit, dispatch, settle, message/error/exit handlers, close | lifecycle, presplit pipeline | a dying thread emits two events; messages queue up behind events |
| Native worker and client (`nativeClient.ts`, `worker.py`, `run_job.py`) | job table, slot count, manager threads; the client's run | POST and GET /jobs, poll with error tolerance and deadline, subprocess watch | lifecycle | lost calls, resubmission of a job id, restart of the container, check-then-act on the slot |
| Content blobs (`linkOrStoreContent`, `releaseBlobRef`, `blobStore.ts`) | ContentBlob rows, reference counts, files | upload, fast import, delete version, delete model | lifecycle | count, row and file change in separate calls |
| Engine routing (`engineRouting.ts`, `RoutingConversionService`) | Version.engine | route, claim, convert, reconvert | lifecycle | a decision based on a row that is itself undecided |
| Presplit pipeline (`presplitPipeline.ts`, `presplit.ts`) | `plan.json`, shard files, shard artifacts, merged artifact | slice, fan out, merge, clean up, resume | pool, lifecycle | resuming from whatever a killed run left on disk |
| Session (`routes/auth.ts`, `authTransport.ts`, `store/auth.ts`) | RefreshToken rows; tokens of a tab, localStorage, refresh in flight | login, refresh, logout, the 401 protocol | every request of the page | single-flight refresh, tabs that share storage |
| Viewer (`Viewer.ts`, `chunkPlanning.ts`, `ViewerPage.tsx`) | scene groups, chunk states, resident bytes, visible and wanted keys, boxes | load a federation, load chunk, show storeys, evict | artifact routes | downloads that outlive the model they belong to |
| Chunked upload sessions | UploadSession rows, part files | create, put part, complete | blobs | overlapping completes share one temporary key |
| Version events (`routes/events.ts`, `subscribeVersions`) | the emitter's listeners; the stream | subscribe, emit, reconnect | lifecycle, session | events missed while no stream is open |
| BVH builds (`bvhManager.ts`) | cache and pending builds by key | ensure, drop, clear | viewer | results for geometry that is gone |
| Accounts and projects (`auth.ts`, `routes/projects.ts`) | users, memberships | register, add, change, remove members | all routes | first-user and last-owner races |
| Issues and BCF (`routes/issues.ts`, `packages/bcf`) | issues, comments, viewpoints | CRUD, import, export | projects | overlapping imports of one guid |
| Mesh streaming (`convert.ts`) | buckets, sealed primitives, ranges; then `meta.json` and the geometry files | start, place, drop, seal, publish | chunk router, GLB writer | one mesh is told apart from the next only by what was counted so far; a directory outlives its conversions |
| Chunk router (`chunking.ts`, `ifw/chunking.py`) | the live chunks of each storey | locate, route, split | mesh streaming | geometry arrives once, so a split never moves what was streamed |
| GLB writer (`glb.ts`) | the binary chunk, its views, the JSON | add primitive, assemble, fallback of the encoder | mesh streaming | padding and offsets at each boundary |
| Slicing and lexers (`presplit.ts`, `stripStepComments`) | closure of references; lexer state between reads | slice a source, scan, strip | presplit pipeline | ownership of shared statements; a token cut by a read |
| Clash and diff (`routes/clash.ts`, `routes/diff.ts`) | none: functions of Element rows | compare two versions | lifecycle | boundaries of a sweep |
| 3D Tiles, geometry kernels, encoders | none | numeric work | pipelines | not a question of order |

`PROJECT.json` lists every component with its status, and under `hazards` each
place in the code where one of these difficulties bites, with the properties
that watch it. What makes each component correct is stated in section 4.

## 2. Modules

| Module | Models | How its actions correspond to the code |
|---|---|---|
| `VersionLifecycle` | the version rows of one model, the flows that work on them, the process | one action per awaited call; a *task* is one flow of control, from a request to the end of the conversion it starts |
| `VersionStatus` | the documented state machine `PENDING -> PROCESSING -> READY or FAILED` with its re-submissions | abstract; `VersionLifecycle` implements it (`FollowsStatusMachine`) |
| `ConversionPool` | `WorkerPoolConversionService`, the Node worker's events, the thread's loop | messages, `error` and `exit` are separate queues of the main thread; `HandleEvent` is one handler run to its end |
| `NativeWorker` | `NativeConversionClient.run` and the container, joined by calls that may be lost | client, manager thread and subprocess each have a program counter |
| `ContentBlobs` | one content: its rows, count and file | one action per awaited call of `linkOrStoreContent`, `releaseBlobRef` and their callers |
| `EngineRouting` | rule order of `routeEngine`, its reads and its late write | size is one of three classes that the two thresholds make |
| `PresplitPipeline` | the pipeline over one artifact directory that versions own one after another | every file is a *piece*: whose source, and whole or not; actions are the pipeline's steps and the worker's two writes |
| `Slicing` | `presplitIfcFile`: which statement is copied into which shard | `Owner`, `Seeds`, `Members`, `Orphans` are the phases; `Throw` the exception of line 642 |
| `StepScanner` | `scanStatements` and `stripStepCommentsChunk` | an action is a branch of the loop that eats one or two bytes; `ReadChunk` and `Resolve` are the ends of a read, where a token may be cut |
| `MeshStream` | one mesh after another into buckets, then the artifact's files | `Place`, `Drop`, `SealRest`, then `EmptyStream`, `Fail`, `PublishChunks` or `PublishSingle`; two conversions share one directory |
| `ChunkRouter` | `locate`, `route`, `split` | `Keep`, `Overflow` and `Split` are the three outcomes of `route`; `MeshStream` extends it |
| `GlbFile` | `GlbAssembler` and its two endings | `WriteRaw`, `PushCompressed`, `Fallback`, `Assemble`; arrays are their lengths |
| `AuthSession` | refresh rotation, logout, `withAuthRetry` in several tabs | server handlers await twice, so their reads and writes are two actions |
| `ViewerChunks` | the viewer's scene and cache between awaits | chunk *n* weighs *n* and is all of storey *n*; a pass begins and takes its first batch in two steps, the script in one |
| `ChunkedUpload` | one upload session and its parts | `Open`, `Read`, `Write`, `Remove` are the merge loop of `complete`; files are inodes, so two merges may write one |
| `VersionEvents` | what is emitted, the stream, the page | server side `Claim`, `Settle`, `Throw`, `Reconvert`, `Restart`; page side `List`, `Connect`, `Receive`, `Drop`, `Probe`, `Leave` |
| `BvhBuilds` | cache, shared builds, worker transport | `Attach` is `ensure`, `Build` the worker, `OnMessage` and `Fail` the transport's handlers |
| `ProjectData` | accounts, memberships, issues, the BCF import | `Find`, `PutSnapshot`, `CreateIssue`, `CreateComments` are the awaits of one topic |
| `VersionReports` | `findClashes` and `diffElements` over the rows of two versions | one action per answer: `Deny`, `DetectClashes`, `Compare` |
| `MCConverting`, `MCArtifacts`, `MCWorkspace`, `MCAuthSession` | instances for TLC | below |
| `*Proofs`, `SumTheorems` | the theorems of section 5 and what they rest on | TLAPS |

How the modules read: state is named as in the code (`residentBytes`,
`refCount`, `loadSeq` is `seq`); an operation that awaits *k* times is *k+1*
actions joined by a program counter; a check and the write it guards are one
action only where the code has no await between them. An operator that a comment
calls a mutant is a plausible bug in the definition that follows it; none is part of a
specification, each shows that a property would notice.

**Runs of several components.** `MCConverting`, `MCArtifacts` and `MCWorkspace`
each check several components in one run. The components share no variable; the
first state picks the one whose steps are taken (`half`, `maker`, `part`) and the
others stay in one of their initial states. A state of such a run is a state of
one component, so a property of that component says what it would say alone. What
one component needs of another is an assumption of its module: that an artifact is
written, or, in the exemption of a liveness property, that a submit is answered.

**Environment constants.** Some deviations in section 6 can be met only if users
or crashes do certain things. Three constants keep those out of the passing runs,
by name, so that what the other properties say is not drowned by one known loss:

- `Overlap` (`VersionLifecycle`, `EngineRouting`, `ViewerChunks`, and, as
  `OverlapUpload` and `OverlapImport` of `MCWorkspace`, `ChunkedUpload` and
  `ProjectData`): may requests on one version, versions of one model, loads of the
  viewer, completes of a session, or imports overlap;
- `Groups` (`ContentBlobs`): which kinds of request may overlap;
- `CrashAt` (`ContentBlobs`, `PresplitPipeline`): where a crash may strike.

Setting them to everything reproduces the deviations.

## 3. What the abstractions leave out

- Percentages, file names, sizes, hashes and messages are model values or gone.
  Two different contents are independent (`@@unique([projectId, sha256])`), so
  `ContentBlobs` has one.
- `createVersion` gives up after five collisions; five collisions need more
  clients than the runs have, so the model retries.
- The 4xx answers of the container's request checks are one refusal.
- Which hidden chunk goes first (least recently used) and which storey is near the
  camera are left open: every choice is explored, which covers the code's.
- To the presplit pipeline a slice of a source is one piece; what is in a slice is
  `Slicing`, over abstract statements that refer to each other.
- Coordinates are integers. `MCArtifacts` gives multiples of a power of two, so every
  midpoint the router computes is exact, as it is in floating point for such boxes.
- `GlbFile` knows an array by its length and place, `MeshStream` a piece by its element,
  colour, counts and box. Vertices and their quantisation are left out.
- `MeshStream` writes the files of an artifact in one step: `convert.ts:438-470` makes one
  after another without an await, and no other flow looks until the conversion has ended.
  A conversion that is killed between two of them is `PresplitPipeline`'s `ShardGeometry`
  and `ShardMeta`, whose pieces may be partial.
- `StepScanner` reads texts of one-letter strings over a small alphabet; its seven
  texts hold each token of the two grammars, and every way to cut them into reads is
  explored; the theorem is about every text. Digits and blanks are any bytes that the
  grammar does not use.
- Refresh tokens do not expire by date (30 days by default); access tokens may
  expire before any request.
- A BCF topic is its guid; a snapshot and a comment are the import they came from.

## 4. Runs

Bounds are the CONSTANTS of each `.cfg`, or the definitions of the MC module named.
`CHECK_DEADLOCK FALSE` throughout: users may stop, and every system here may then be
at rest for good; that nothing stops *half way* is what the liveness properties say.

**VersionSerial** (`VersionLifecycle`; two clients, two versions, two batches, two
crashes; uploads overlap, other requests do not). `ImportsAreWhole`: without a
crash an import never meets the rows of an earlier one and READY means all
elements. `NumbersUnique`, `ReadyArtifactsImmutable`: over deletion and reuse of a
version number. `FollowsStatusMachine`: refinement of `VersionStatus`. Two batches
are what a partial import needs; two crashes, one during what recovers from the
other.

**Converting** (`MCConverting`). *Half "life"*: `VersionLifecycle` with two clients, one
version, one batch, one crash, everything overlapping. `NoAbandonedVersion`: while the
server serves, a PENDING row has a flow that will mark it and a PROCESSING row one that
will settle it. `LateProgressHarmless`: the un-awaited progress writes never change a
READY row. `EverySubmissionSettles` (liveness): a row is settled or deleted,
unless one flow waits for ever for the answer to its submit; section 6 says when the
pool does not answer. Two clients and the start-up's own conversion give three flows on
one row, which covers a request, a duplicate run and a deletion between any two steps.
*Half "pool"*: `ConversionPool` with four jobs and two threads that may die while they
load or convert; `error` and `exit` are handled in any order relative to messages that
Node allows. `WaitingJobsAreHeld`: an unsettled job is in exactly one queue or in
flight. `OutcomesAreTrue`, job by job: a job is told ok or failed only by the message that
its own slot's thread posted about that very job, it is told of a crash only by a slot
that was given it and whose thread has died, who is told ok was converted, and one death
tells of two jobs at most. `JobsSettle` (liveness): unless the thread of the job's slot is
dead. Four jobs put two behind each thread and a third behind one of them.

**NativeFaults** (`NativeWorker`; two job ids, two managers, one slot, one stop of
the container). `CountIsExact`: no path of a manager leaks a slot.
`OkMeansProduced`: no reply is taken for that of an earlier run of the same id.
`OpenJobsSettle`, `RunsEnd` (liveness, without the four-hour deadline). Two managers
and one slot make one job wait; a resubmission uses the second manager. A poll is lost,
answers badly, or answers well with a body that breaks off (`BodyBreaks`), which leaves
`run` by an exception.

**Artifacts** (`MCArtifacts`).
*Mesh stream and router*: two conversions of up to three pieces into one directory, of
two elements and three shapes (one of them not sane), a storey and "no storey", with and
without chunking and on both engines; two splits; six vertices fill a bucket.
`GeometryIsKept`: every piece that was not dropped is one range of its element, with its
triangles, no other range is there, and the ranges of a primitive follow one another
without a gap.
`ArtifactIsExact`: the directory holds the files of the format the manifest names and
never a single file beside chunks; a chunk's triangles and storey are those of its
primitives, an element with geometry has metadata, and its `chunkId` names a chunk it is
in. `ChunksPartitionSpace`: each centre is inside exactly one live
chunk of its storey. Three pieces fill a bucket, split a chunk and come after the split;
the second conversion meets the files of the first.
*GLB writer*: two primitives, arrays whose lengths are and are not multiples of four,
compressed, raw, or raw because the encoder failed. `ViewsFit`.
*Slicing*: every source of two structures, three products, an aggregate, one shared
geometry and one relation, and one source that contains nothing. `SlicesAreWhole`: the
spatial skeleton is in every shard and any other statement in at least one (a source
without containments may give no shard, and then all is skeleton), no contained product
is doubled, and no reference dangles but to another shard's products. With three products
one can be contained, one below an aggregate and one nowhere.
*Lexers*: seven texts, every way to cut them. The reference reads a text byte by byte
(`Mode`, the state after each byte). `LexersIgnoreCuts`: the scan finds the statements of a
regular text and the ids they refer to, digit for digit and in the order of the text, and
the stripper keeps exactly what is in no comment.
Regular (`Regular`) is a text without comments in which no quote and no `#` comes right
after a name such as `#12`: section 6 says what the scan does to the others.
*Presplit pipeline*: two versions, two shards, two kills. `OutputIsComplete`: what the
plan calls DONE is on disk, whole, of its own source, and the artifact of a READY
version has one piece per slice with geometry. `OnlyUnfinishedIsRedone`.
`PendingSettles` (liveness): unless the pool never answers one of the shards. Two shards
let one fail while the other is done; two versions own the directory one after another.
What the slicer or the import throws ends the conversion FAILED (`Throws`), with the
slices written so far. An empty shard may be skipped in the model, as the comment
at `presplit.ts:1074` means it to be; today `convert.ts:439` makes it fail, which is the
other outcome the model allows.
`ArtifactsTypeOK` is the type of the component at work.

**Workspace** (`MCWorkspace`).
*Routing*: three versions, two restarts under another configuration. `NoMixing`. Three
versions let the newest other version be older or newer than the one decided on.
*Blobs*: three clients, two models, three versions, two row ids, one fault.
`VersionHasContent`: a version's row and file exist. `RefsAreCounted`: between requests
the count covers the links, and without a fault is exact, with no file or row left over.
`LiveContentIsKept`: the file goes only when nothing links it. Three clients race on one
new content, which is one more than the code's comment has in mind. Clients are
symmetric: no module tells them apart.
*Chunked upload*: two parts, two completes, one crash. `UploadIsTheFile`: a version is
made only of the user's own bytes, in order, whether parts come twice, damaged (and
checked) or while a crash cuts a write.
*Events*: two conversions, one lost stream, one restart. `LivePageIsCurrent`: when
nothing is on its way to a page that listens, it shows the row, unless the row's last
change was made in silence or while the page did not listen (section 6).
*Picking*: two keys, two loads, one failing worker, one reconversion. `BuiltOnce`.
*Rows*: two users, two projects, two topics, two imports, one crash. `IssuesAreWhole`:
whatever imports fail, crash or come again, the snapshot of an issue is there and from
the file the issue is from, an issue lacks its comments only if its import did not end,
and an import that ended has left no topic out.
*Reports*: every pair of tables of two rows, with and without boxes, duplicate guids,
two origins, two tolerances. `ReportsAreTrue`: the diff puts every guid of both versions
into one class; a reported clash is an overlap in the world deeper than the tolerance,
and one that is not reported starts left of the sweep's lower bound. The tables, axes and
tolerances are constants (`Tables` is `MCTables` here).
`WorkspaceTypeOK` is the type of the component at work.

**AuthTabs** (`AuthSession`; two tabs, two requests in one and one in the other, one
login, one fault). `NeverReplays`: however many requests are denied together, a tab
presents no token it spent. `StaysLoggedIn`: a tab loses its session only by logout,
a lost answer, or another tab. `RequestsEnd` (liveness).

**ViewerSerial** (`ViewerChunks`; one single-file version, one of two chunks, two
loads, one change of floors, mode or camera, a budget below the whole).
A file that is parsed may be rejected (`ParseFails`): `loadFederation` leaves there, and its
caller sets neither boxes nor visible storeys.
`SceneIsFederation`: no group or mesh of an earlier load survives; once nothing is being
parsed the scene has a group for each model of the latest load, but for those behind a
file that was rejected; and at rest after a load that went through, each visible storey is
geometry or boxes, not both, not neither. After a rejected file nothing of the kind holds
(section 6).
`BytesAreExact`: the bytes that evictions are decided on are those in the scene, after
rejected files too. `ComesToRest` (liveness). Two loads let every download outlive its
model, and let a load follow one that failed. The floors asked for may be those of the
page's last complete load, which the viewer has dropped if a later one failed.

**Violations.** Five runs state what the repository says and TLC refutes; section 6
tells the stories: `VersionRestartAborts` (`ImportNeverAborts`), `EngineOversized`
(`OversizedNeverPlain`), `AuthTwoTabs` (`SingleUse`), `SlicesCrash`
(`EverySourceIsSliced`), `ClashMisses` (`EveryClashIsFound`).

### Fairness

Weak fairness only, and of the system only: users need not send requests, nothing
need crash, calls need not be lost.

- `VersionLifecycle`: an event loop that runs continues each flow; every database
  and file call returns; a process that died is started again (the compose file
  restarts it). Nothing makes the conversion service answer: a thread that died is
  never replaced and `submit` may still choose its slot, so a submit may wait for ever.
  `EverySubmissionSettles` says what is left: a version stays in flight only if one and
  the same flow waits for ever for its answer.
- `ConversionPool`: the main thread handles events, a thread that lives goes on, and
  a conversion that started ends (the pool has no time limit). `MCConverting` asks
  both fairnesses, each of the half at work.
- `NativeWorker`: a call returns or fails, a thread that can run does, a subprocess
  ends and has not filled its error pipe (`worker.py:50`). `TimeOut` has no fairness, so the
  deadline is not what makes runs end.
- `PresplitPipeline`: the pipeline, not the pool: `PendingSettles` exempts a shard that is
  never answered, for the same reason. The other components of `MCArtifacts`, and all
  of `MCWorkspace`, state no liveness and ask none.
- `AuthSession`: requests are answered or fail and answers are handled.
- `ViewerChunks`: downloads end or fail, the script goes on; one condition for the
  whole script, for one thread runs all of it and `ComesToRest` needs no more.

## 5. Proofs

TLAPS proves, for every value of the constants that meets the assumptions named:

| Theorem | Says | Assumes |
|---|---|---|
| `ConvertingProofs!TypeCorrect` | `Spec => []TypeOK` | `ConstantsOK` |
| `ConvertingProofs!NoVersionAbandoned` | `Spec => []NoAbandonedVersion` | the same |
| `ConvertingProofs!LateProgressIsHarmless` | `Spec => []LateProgressHarmless` | the same |
| `ConvertingProofs!NumbersAreUnique` | `Spec => []NumbersUnique` | the same |
| `ConvertingProofs!RowsFollowTheMachine` | `Spec => FollowsStatusMachine` | the same and `Overlap = FALSE` |
| `ConvertingProofs!ReadyArtifactsStay` | `Spec => ReadyArtifactsImmutable` | the same |
| `ConvertingProofs!NoImportMeetsOldRows` | `Spec => []ImportsAreWhole` | the same |
| `ConvertingProofs!SubmitsAreHeld` | `PoolSpec => []WaitingJobsAreHeld` | `PoolAssumption` |
| `ConvertingProofs!OkIsTrue` | nobody is told ok who was not converted | the same |
| `ConvertingProofs!OutcomesAreToldTrue` | `PoolSpec => OutcomesAreTrue` | the same |
| `NativeWorkerProofs!NativeOkIsProduced` | `Spec => []OkMeansProduced` | `WorkerAssumption` |
| `NativeWorkerProofs!SlotsAreCounted` | `Spec => []CountIsExact` | the same |
| `PresplitPipelineProofs!ArtifactsAreWhole` | `Spec => []OutputIsComplete` | `PresplitAssumption`, `RemovalsFinish` |
| `PresplitPipelineProofs!DoneIsNotRedone` | `Spec => OnlyUnfinishedIsRedone` | the same |
| `ArtifactProofs!OutputsAreComplete` | `ArtifactsSpec => []OutputIsComplete` | the same |
| `ArtifactProofs!NothingIsRedone` | `ArtifactsSpec => OnlyUnfinishedIsRedone` | the same |
| `ArtifactProofs!PiecesAreKept` | `ArtifactsSpec => []GeometryIsKept` | `StreamAssumption`, `RouterAssumption` |
| `ArtifactProofs!ArtifactsAgree` | `ArtifactsSpec => []ArtifactIsExact` | the same |
| `ArtifactProofs!ChunksDivideSpace` | `RouterSpec => []ChunksPartitionSpace` | `RouterAssumption` |
| `ArtifactProofs!ViewsOfFilesFit` | `GlbSpec => []ViewsFit` | `GlbAssumption` |
| `ArtifactProofs!LexersReadAnyCuts` | `ArtifactsSpec => []LexersIgnoreCuts` | `ScannerAssumption` |
| `ArtifactProofs!SourcesAreWhole` | `ArtifactsSpec => []SlicesAreWhole` | `SlicingAssumption` |
| `ArtifactProofs!ArtifactsAreTyped` | `ArtifactsSpec => []ArtifactsTypeOK` | all of these, `ScannerAssumption` |
| `WorkspaceProofs!ModelsDoNotMix` | `Spec => []NoMixing` | `RoutingAssumption` and `Overlap = FALSE` |
| `WorkspaceProofs!ContentIsThere` | `WorkspaceSpec => []VersionHasContent` | `BlobsAssumption`, `Serialised` |
| `WorkspaceProofs!CountsAreKept` | `WorkspaceSpec => []RefsAreCounted` | the same |
| `WorkspaceProofs!LinkedContentIsKept` | `WorkspaceSpec => LiveContentIsKept` | the same |
| `WorkspaceProofs!UploadsAreWhole` | `WorkspaceSpec => []UploadIsTheFile` | `UploadAssumption`, `~ OverlapUpload` |
| `WorkspaceProofs!PagesAreCurrent` | `WorkspaceSpec => []LivePageIsCurrent` | `EventsAssumption` |
| `WorkspaceProofs!StructuresAreBuiltOnce` | `WorkspaceSpec => []BuiltOnce` | `BuildsAssumption` |
| `WorkspaceProofs!ImportsLeaveWholeIssues` | `WorkspaceSpec => []IssuesAreWhole` | `DataAssumption`, `~ OverlapImport` |
| `WorkspaceProofs!ReportsTellTheTruth` | `WorkspaceSpec => []ReportsAreTrue` | `ReportsAssumption` |
| `WorkspaceProofs!WorkspaceIsTyped` | `WorkspaceSpec => []WorkspaceTypeOK` | all of these and `Overlap = FALSE` |
| `AuthSessionProofs!NoTokenIsReplayed` | `Spec => NeverReplays` | `SessionAssumption` |
| `AuthSessionProofs!SessionsLast` | `Spec => StaysLoggedIn` | the same |
| `ViewerChunksProofs!SceneIsTheFederation` | `Spec => []SceneIsFederation` | `ViewerAssumption` and `Overlap = FALSE` |
| `ViewerChunksProofs!BytesAreTheScene` | `Spec => []BytesAreExact` | the same |

A hypothesis that is no assumption of a module (`Overlap = FALSE`, `RemovalsFinish`,
`Serialised`) restricts what users do or where a crash strikes. None is there for the
prover: without it the property is false, and section 6 names the behaviour that breaks it.
The passing runs give the constants values that meet it, so the same states are explored
there.

*From a component to a run.* `ArtifactsSpec` and `WorkspaceSpec` let one component move.
Each lemma about a component is proved of the component's own specification, or of its
`Next`; a step of another component is a stutter of this one, so its invariant holds in
the composed specification whichever component was picked.

*The lifecycle.* `NoAbandonedVersion` is about rows and about flows: no step of one flow
may take the flow away that another row relies on. It is not inductive alone. The
invariant `LifeInv` adds that a flow past its first read knows its version (so each step is
charged to the right row) and that no flow survives a crash (so the requeue of the
start-up, which gives each pending version a flow, overwrites none that owns a version).
Two lemmas carry the argument: a step of one flow leaves every other owner where it was,
and a step without flows leaves all. The proof of the step has one case per action.
`LateProgressHarmless` joins the same invariant: a write is guarded when it lands, not
when it was sent. `NumbersUnique` follows from `NoRowAppears`: `UploadCreate` alone
adds a row, with a number nobody has; every other step, deletion and crash included,
leaves a subset of the rows with the numbers they had.

*The refinement.* Without overlap a version has one flow at most, and where the flow is
tells what the row says; nothing converts before the start-up's requeue (`SInv`). From that
each step of the lifecycle is a step of `VersionStatus` or leaves the row alone.
`ReadyArtifactsStay` adds whose the directories are (`DInv`): one request is past its first
read at a time, uploads aside, a flow writes the directory of its own version's number, and
a deletion whose row is gone removes a directory that is no row's. `ImportsAreWhole` needs `Whole`:
before the first crash a row without status has no elements, and how far a flow is tells
how many batches its version has.

*The pool.* A slot settles whatever job is in flight, so `OkIsTrue` needs that what a
slot has under way (a task at the thread, a conversion, a result nobody handled yet) is
one thing at most and of the job in flight; that where an `error` event can overtake
there is nothing left to overtake; and that a dead thread sends nothing. For
`OutcomesAreToldTrue` a step that settles a job is a step of one slot, and the same invariant
says that the message it handles is about the job in flight there, or that its thread is
dead; and each death pays for the failures told of it: the jobs told failed
without having failed, the `error` events to come and the `exit` events to come are
together at most two per dead thread (`DeathsArePaid`).

*The native worker.* `OkMeansProduced` speaks of the client, and the evidence is in the
container two messages away. The invariant follows it along the path: a table entry
`done` has the evidence, a reply `done` in flight has it, and a run that has not posted
yet has no result, so an old one cannot be taken for new. `CountIsExact` says the
counter is the cardinality of the managers that hold a slot; each step moves one of them.

*Engine routing.* `NoMixing` speaks of artifacts. Inductive is what makes them agree
(`RoutingInv`): all stored engines agree, every row but the one at work has one, and a
decision that is made but not stored agrees with all that are stored. The lemma
`DecisionIsSticky` is the step that `routeEngine`'s rule order makes.

*Content blobs.* `BlobsInv` says what each awaited call still owes. The count covers the
versions that link the row, the additions that hold a reference and have no version yet,
and the deletions that have not released theirs. An addition past its look-up knows the
live row; who removes a content does so alone, with nothing linked to it; and the file is
there while a live row is, until that removal has taken it. `Serialised` names the two kinds of pairs of
requests that the code tolerates (uploads and fast imports, deletions of versions) and the
two places where a crash loses a reference; it is proved for any number of clients,
models and rows, three of which is what TLC reaches.

*Chunked uploads.* `UploadInv` follows bytes from the user to the version: a part that is
stored is whole or checked away; one complete merges at most, and nothing arrives while it does; what it has written is
what it has hashed; and the temporary file is no version's file until it is moved.

*Version events.* `EventsInv`: what the page last heard is the row, or an emission is on
its way, or the page has missed one; a page that does not listen has nothing in its
stream.

*Picking.* `BuildsInv`: a request id is in one message, every build under way has its slot,
a message to the worker or a reply on its way, and no structure yet, and whoever waits has a
build to wait for.

*Issues.* `DataInv`: one import runs at a time; while no project is deleted, the topics it has
passed have their issues; an issue without comments belongs to the import that is about to
write them or to one that failed; the guid an import is about to create is still free, and
its snapshot still the one that import stored.

*Reports.* An answer is given in one step, so the invariant is little (`ReportsInv`: the
tables are well formed, and what was answered is true of them); the work is in the
functions. `BisectFinds`: an interval that is halved as often as it is long is empty, and
what is left of it is where the predicate changes, if it changes once. It does, because
the boxes are sorted: a finite set can be put in the order of any numbers (`OrdersExist`),
and a sequence of as many different members as there are holds every one
(`OrdersHoldAll`). So the window is a condition on left edges (`WindowIs`), the frame of
one version moves both boxes by the same offset, and `HitsAre` says exactly what is
reported: the true clashes whose second box does not start before the lower bound. The
upper bound hides none. `ReportsAssumption` asks that a boxed row has integer corners on
every axis and that a tolerance is not negative, which the schema of the route demands.

*The presplit pipeline.* A resumed run believes the disk. The invariant says why it may:
at every point at which it can be killed the directory has one owner; a plan is there
only when all slices are; a shard the plan calls DONE is on disk, whole; and what the
flow remembers is what the plan says. `DoneIsNotRedone` follows: a shard is taken for
conversion only by a flow that read it as unfinished. `RemovalsFinish` says that no kill
falls into a removal; section 6 shows what one does.

*The mesh stream.* `GeometryIsKept` counts, for each element and number of triangles, the
ranges in sealed and open parts against the pieces that were placed: `Place` adds one to
each side, `SealRest` moves a part from one side of the sum to the other, and no part is
both. For `ArtifactIsExact` the invariant `StreamInv` says of a conversion under way that
a chunk's triangles are those of its sealed and open parts, that each part is of a chunk
that exists and of its storey, and that the chunk an element was first routed to holds a
range of it (`FirstHolds`), which stays true when the part is sealed.

*The router and the writer.* The chunks of a storey divide the whole grid of integer
centres, not only the storey's box, which is why the fallback of `locate` is never
taken. In the GLB file each view is compared with the running totals, so that two views
are apart because the second starts where the first had ended.

*Slicing.* `expand` and `attract` are a walk that adds what the ids reached reach, as often as
there are ids. `ClosureFacts` proves, by induction on the number of rounds, that this is
often enough: a round that adds nothing is followed by none that does, and one that adds
something uses up an id. So the result holds its seeds, is closed, and every id in it is a
seed or was reached from one. What is in a shard follows: the owner of a contained product
is a structure that contains it; a source that is sliced has no `Orphans`, so no product
belongs to the last shard; and a member that is another shard's is filtered when the file
is written. `SlicingAssumption` asks of a source what STEP asks: finitely many statements
with positive ids, and relations that refer to what they relate. A file in which one id
is used twice is no such source.

*The lexers.* `ScanInv` holds the types: a read never passes the text's end, a token that is
cut is resolved before anything else is consumed, and two bytes are taken only where two
are there. For `LexersIgnoreCuts` the invariant says where a lexer is after n bytes of the
text. The stripper (`StripInv`) is in the mode of the text, does not stand between the two
bytes of a token, and has emitted the kept bytes up to n, each at the place that the kept
ones before it give it. The scan (`ScanReads`) is in the mode of the text, but for a quote
or a slash that a read has left open; it has found the statements that end up to n; the
references of the open one are the names with a digit that have ended in it, each with
the bytes between its `#` and the byte that ended it; and every name in it but the one
being read has ended, so that a byte can end only that one, whose digits so far are those
of the text, wherever a read ended among them. `Mode` is a
recursive function; that there is one which satisfies its equation is `RecursionExists`.

*The session.* A token that its own tab has spent may be only in that tab's memory or in
the shared store, and only while the answer that replaces it is on its way; a pair that
is on its way is nowhere else yet. `StaysLoggedIn` adds that a refresh that was refused
presented a token that is revoked and that its tab has not spent itself.

*The viewer.* `IInv` says which loads, groups and downloads are of the latest load
(`LatestLoads`, `Grouped`, `Meshed`): a load that parses or has failed has placed the models up
to the file in its hand (`InHand`) and not those behind it (`Pending`), and no later step
places them. It says that a chunk state is one of a chunk that is in the scene
or on its way (`Chunky`, `Fetching`), and what a pass still has to do for the visible and
wanted keys (`Passing`); at rest that is nothing (`Rested`). `BytesInv` adds that
`residentBytes` is the weight of the meshes' keys: a chunk is added when it is not there
yet and taken off when it is, a trim stops only below the budget or with nothing left
to hide (`Trimmed`), and a pass under way that nothing overtook does what
is asked now (`Informed`).

`SumTheorems` holds what several of these need: a sum over a finite set as the community
modules define it (a fold with CHOOSE) equals a total that grows by one summand for each
member, that does not depend on the order, and that splits over disjoint sets; and the
orders of finite sets that the reports need; and the functions that recursion over the
numbers defines.

*Only model-checked.* Liveness and everything with ENABLED is out of this prover's reach:
`EverySubmissionSettles`, `JobsSettle`, `OpenJobsSettle`, `RunsEnd`, `PendingSettles`,
`RequestsEnd`, `ComesToRest`. Every invariant and every action property of a passing run
is a theorem.

## 6. Known deviations

Places where the code does not do what its documents say, or loses something, each met
while modelling. Five have a run; the others follow from the constant named.

| Where | What happens | How to see it |
|---|---|---|
| `server.ts:28` | the restart re-runs an import over the rows of the interrupted one; the unique index refuses them, the version ends FAILED | run `VersionRestartAborts` |
| `models.ts:651` | a crash between reconvert's two writes leaves a READY version without elements | `ReadyHasAllElements` with one crash |
| `conversion/index.ts:65`, `:93` | a worker thread that died is never replaced, and `submit` may choose its slot: what is queued there is never answered, so a version, presplit or not, stays PROCESSING until the process is restarted | `JobsSettle` without its exemption; `EverySubmissionSettles` and `PendingSettles` without theirs |
| `server.ts:50` | a version accepted between listen and findMany is converted twice; the slower run takes a READY row back to PROCESSING | `FollowsStatusMachine` with `Overlap = TRUE` |
| `models.ts:473` | a deletion frees its number, then removes the directory the next version already owns | `ReadyArtifactsImmutable` with `Overlap = TRUE` |
| `models.ts:457` | fast import counts its reference after the version exists; a crash between loses one | `VersionHasContent` with "count" in `CrashAt` |
| `models.ts:97` | a blob's file goes before its row; a crash between makes the next upload of the bytes discard them | `VersionHasContent` with "del_row" in `CrashAt` |
| `models.ts:96` | an upload links a blob between the decrement to zero and the removal | `LiveContentIsKept` with {"upload", "delete"} in `Groups` |
| `models.ts:343` | two overlapping deletions of one model release its references twice | `LiveContentIsKept` with {"delete_model"} in `Groups` |
| `models.ts:151` | a second upload counts a first that is still undecided as wasm | `NoMixing` with `Overlap = TRUE` |
| `models.ts:185` | an oversized second version takes the plain path, for the sticky note hides `native-not-configured` | run `EngineOversized` |
| `presplitPipeline.ts:109` | a plan left by a deleted version of the same number is resumed | `OutputIsComplete` with "del_clean" in `CrashAt` |
| `presplitPipeline.ts:118` | a truncated shard file is taken for a whole one | `OutputIsComplete` with "clean" and "sliced" in `CrashAt` and two crashes |
| `presplitPipeline.ts:227` | a kill inside the clean-up leaves a DONE shard half removed; every retry fails on it | the same with "clean" |
| `worker.py:96` | two managers pass on one free slot | `running` exceeds `MaxConcurrent` |
| `nativeClient.ts:114` | the status `queued` is taken for a failure, so a job that waits for its slot fails on its first poll | a `result` of "failed" while the table says "queued" |
| `worker.py:82` | the manager of a finished run marks a resubmission of its id NATIVE_CRASH | a `result` of "crash" without "crash" in `evidence` |
| `auth.ts:82` | two refreshes that overlap both exchange one token | run `AuthTwoTabs` |
| `auth.ts:79` | a replayed token is refused but the session goes on, against `authTransport.ts:7-8` | `exchanged` after a replay |
| `authTransport.ts:70` | a refresh that answers after a logout stores its pair | `tokens` after `LogoutDone` |
| `Viewer.ts:234` | a load that parsed a file goes on into a scene that a later load owns | `SceneIsFederation` with `Overlap = TRUE` |
| `Viewer.ts:243`, `ViewerPage.tsx:289`, `:314` | one file that cannot be parsed ends `loadFederation`: the models behind it are not placed, and the page sets neither boxes nor visible storeys of what is there | `SceneIsFederation` with `Lost` empty and without `~Cut` |
| `Viewer.ts:302` | a chunk that cannot be loaded is wanted, so it has no box either | `DrawnOnce` without the exception for `failed` |
| `presplit.ts:642` | a product below an aggregate and in no structure belongs to the last shard, for which there are no seeds: a TypeError, and nothing is sliced | run `SlicesCrash` |
| `presplit.ts:266` | `scanStatements` enters a comment and never leaves it: after the first `/* */` nothing is found; the byte right after `#digits` is swallowed, and `#1 =` counts as a reference of #1 to itself (against `presplit.ts:139-141`) | `StatementsEndAtTop` of `MCArtifacts` |
| `clash.ts:110` | a box that starts left of another and reaches into it is skipped | run `ClashMisses` |
| `convert.ts:439` | a source without geometry throws a TypeError instead of EMPTY_MODEL (`pipeline.py:308` writes an empty artifact), so one structure without geometry fails a presplit conversion, though `presplit.ts:1074` means to skip it | `Fail` of `MeshStream` with `elements # {}` |
| `chunking.ts:28` | the box a chunk publishes is clipped to its cell, its geometry is not | `ChunkBoxesCover` of `MeshStream` |
| `convert.ts:438` | a reconversion into fewer chunks leaves the files of the others; the merge of shards does too | files beyond `meta` in `MeshStream` |
| `convert.ts:459` | on the path that strips comments `srcFd` is closed twice | read, not modelled |
| `presplit.ts` (slices) | an uncontained product that shares geometry with products of two storeys is copied into both | `SlicesAreWhole` asks it of contained products only |
| `models.ts:599` | two overlapping completes of one session write one temporary file; the version gets bytes nobody uploaded (against `models.ts:551`), and a failed complete has already removed parts | `MergeIsVerified` of `ChunkedUpload` with `OverlapUpload = TRUE` |
| `ViewerPage.tsx`, `events.ts:2` | the page does not read its list again after a lost stream, and the catch block and reconvert emit nothing, so the page may show an old status for good; leaving before the list arrives leaks the subscription | `ReplacesPolling` of `VersionEvents` |
| `bvhManager.ts:36` | nothing drops a cached structure, so after a reconversion a chunk picks with the tree of the old geometry | `TreesMatch` of `BvhBuilds` |
| `issues.ts:192`, `:226` | of two overlapping imports of one topic the loser has overwritten the snapshot; a crash between issue and comments loses the comments for good; a guid is unique across projects, so an import into a second project finds the first one's issue | `IssuesAreWhole` with `Overlap = TRUE`; `issue[g].comments` after a crash |
| `auth.ts:39` | two first registrations both see no user and both become ADMIN | two users whose `account` is "ADMIN" in `ProjectData` |
| `projects.ts` | the last OWNER of a project can be removed or demoted | a project of `ProjectData` without OWNER |

## 7. Not modelled, and what is left

Not modelled, by choice: numeric geometry (web-ifc, IfcOpenShell) and its encoders, the
3D Tiles tree that no server calls, read-only routes, passwords and JWT signatures, XML
and ZIP of BCF, React rendering, configuration, scripts. They compute; nothing in them
waits for anything else. `PROJECT.json` lists them.

What is partly modelled: the deletion of a project does not reach the files of its
contents in `ContentBlobs`; the merge of shard manifests is one piece per shard in
`PresplitPipeline`; editing and export of issues is left out; storeys that are near, and
the order of least recent use, are choices in `ViewerChunks`.

Left to do, in this order:

1. *Composition*: `VersionLifecycle` with `EngineRouting` and `PresplitPipeline` over one
   set of rows, so that deletion, numbers and resumption meet; `VersionEvents` over
   `VersionLifecycle` instead of a row of its own.
2. *The merge of shards* (`aggregateShards`) piece by piece, and `planEvictions` and
   `planLodLoads` as functions under `ViewerChunks`.
