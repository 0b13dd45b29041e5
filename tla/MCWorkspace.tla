----------------------------- MODULE MCWorkspace -----------------------------
(***************************************************************************)
(* One run of the small components around a conversion: engine routing, the *)
(* content blobs, a chunked upload, version events, picking structures,     *)
(* projects and issues, and the reports on versions.  They share no         *)
(* variable, so the first state picks the one whose steps are taken.        *)
(***************************************************************************)
EXTENDS EngineRouting, Sequences, TLC

CONSTANTS
    Clients, Models, VersionIds, Blobs, NoBlob, Requests, Groups, MaxFaults, CrashAt,
    PartsTotal, Completes, NoFile, OverlapUpload,
    MaxRuns, MaxDrops, MaxApiRestarts,
    Keys, Loads, MaxArtifacts,
    Users, Projects, Topics, Imports, NoOne, MaxChanges, OverlapImport,
    MaxCrashes,
    ReportVersions, Axes, Sweep, Tables, Tolerances

VARIABLES
    part,
    models, version, blobRow, refCount, file, flow, faults,
    session, checked, upPart, putting, upPc, next, sink, hash, tmp, bytes, content,
    uploaded, upCrashes,
    row, due, runs, drops, evRestarts, page, reply, shown, wire, missed,
    artifact, geometry, ensuring, cache, building, slots, worker, replies, nextId,
    bvhFaults,
    account, project, member, issue, snapshot, import, changes, dbCrashes,
    tables, hidden, report

blobVars   == <<models, version, blobRow, refCount, file, flow, faults>>
uploadVars == <<session, checked, upPart, putting, upPc, next, sink, hash, tmp, bytes,
                content, uploaded, upCrashes>>
eventVars  == <<row, due, runs, drops, evRestarts, page, reply, shown, wire, missed>>
bvhVars    == <<artifact, geometry, ensuring, cache, building, slots, worker, replies,
                nextId, bvhFaults>>
dataVars   == <<account, project, member, issue, snapshot, import, changes, dbCrashes>>
reportVars == <<tables, hidden, report>>

Content == INSTANCE ContentBlobs WITH Versions <- VersionIds
Upload_ == INSTANCE ChunkedUpload WITH
              Overlap <- OverlapUpload, part <- upPart, pc <- upPc,
              versions <- uploaded, crashes <- upCrashes
Events  == INSTANCE VersionEvents WITH
              MaxRestarts <- MaxApiRestarts, restarts <- evRestarts
Bvh     == INSTANCE BvhBuilds WITH faults <- bvhFaults
Data    == INSTANCE ProjectData WITH
              Overlap <- OverlapImport, crashes <- dbCrashes

\* Rows with a box, on two axes, or without; two origins; duplicate guids.
Row_(id, guid, lo, hi, data) ==
    [id |-> id, guid |-> guid, data |-> data, boxed |-> lo < hi,
     min |-> [x \in {0, 1} |-> IF x = 0 THEN lo ELSE 0],
     max |-> [x \in {0, 1} |-> IF x = 0 THEN hi ELSE 4]]
MCTables ==
    {[rows |-> <<Row_(1, "g1", p[1], p[2], "d"), Row_(2, g, q[1], q[2], "e")>>,
      origin |-> [x \in {0, 1} |-> IF x = 0 THEN o ELSE 0]] :
        p \in {<<0, 4>>, <<2, 6>>, <<0, 0>>}, q \in {<<1, 2>>, <<3, 8>>},
        g \in {"g1", "g2"}, o \in {0, 3}}
Reports == INSTANCE VersionReports WITH
              Versions <- ReportVersions, Contents <- Tables, content <- tables

ASSUME BlobsAssumption  == Content!BlobsAssumption
ASSUME UploadAssumption == Upload_!UploadAssumption
ASSUME EventsAssumption == Events!EventsAssumption
ASSUME BuildsAssumption == Bvh!BuildsAssumption
ASSUME DataAssumption   == Data!DataAssumption
ASSUME ReportsAssumption == Reports!ReportsAssumption

-----------------------------------------------------------------------------
Parts == {"routing", "blobs", "upload", "events", "bvh", "data", "reports"}

\* The others stay in one of their initial states.
WorkspaceInit ==
    /\ part \in Parts
    /\ Init /\ (part # "routing" => native)
    /\ Content!Init /\ Events!Init /\ Bvh!Init /\ Data!Init
    /\ Upload_!Init /\ (part # "upload" => ~ checked)
    /\ IF part = "reports" THEN Reports!Init
       ELSE /\ tables = [v \in ReportVersions |-> CHOOSE t \in Tables : TRUE]
            /\ hidden = {} /\ report = Reports!NoReport

WorkspaceNext ==
    /\ UNCHANGED part
    /\ \/ part = "routing" /\ Next
          /\ UNCHANGED <<blobVars, uploadVars, eventVars, bvhVars, dataVars, reportVars>>
       \/ part = "blobs" /\ Content!Next
          /\ UNCHANGED <<vars, uploadVars, eventVars, bvhVars, dataVars, reportVars>>
       \/ part = "upload" /\ Upload_!Next
          /\ UNCHANGED <<vars, blobVars, eventVars, bvhVars, dataVars, reportVars>>
       \/ part = "events" /\ Events!Next
          /\ UNCHANGED <<vars, blobVars, uploadVars, bvhVars, dataVars, reportVars>>
       \/ part = "bvh" /\ Bvh!Next
          /\ UNCHANGED <<vars, blobVars, uploadVars, eventVars, dataVars, reportVars>>
       \/ part = "data" /\ Data!Next
          /\ UNCHANGED <<vars, blobVars, uploadVars, eventVars, bvhVars, reportVars>>
       \/ part = "reports" /\ Reports!Next
          /\ UNCHANGED <<vars, blobVars, uploadVars, eventVars, bvhVars, dataVars>>

WorkspaceSpec ==
    WorkspaceInit
    /\ [][WorkspaceNext]_<<part, vars, blobVars, uploadVars, eventVars, bvhVars, dataVars, reportVars>>

Symmetry == Permutations(Clients)

-----------------------------------------------------------------------------
\* The state of the component at work has its type.
WorkspaceTypeOK ==
    CASE part = "routing" -> TypeOK
      [] part = "blobs"   -> Content!TypeOK
      [] part = "upload"  -> Upload_!TypeOK
      [] part = "events"  -> Events!TypeOK
      [] part = "bvh"     -> Bvh!TypeOK
      [] part = "data"    -> Data!TypeOK
      [] part = "reports" -> Reports!TypeOK

\* Every version has the bytes that were uploaded for it.
VersionHasContent == Content!VersionHasContent

\* No reference to a content is lost, and without a fault the count is exact.
RefsAreCounted == Content!RefsAreCounted

\* A content that a version refers to is not removed.
LiveContentIsKept == Content!LiveContentIsKept

\* A chunked upload ends in a version only with the user's own bytes.
UploadIsTheFile == Upload_!UploadIsTheFile

\* A page with a live stream and a settled version shows how it settled.
LivePageIsCurrent == Events!LivePageIsCurrent

\* A geometry has one build under way at most, and its waiters share it.
BuiltOnce == Bvh!BuiltOnce

\* An imported topic is there once, with the snapshot and comments of its file.
IssuesAreWhole == Data!IssuesAreWhole

\* A clash report and a diff say what the pairwise definitions say.
ReportsAreTrue == part = "reports" => Reports!ReportsAreTrue

\* Every box of B that may overlap on X is looked at (clash.ts:96).
EveryClashIsFound == part = "reports" => Reports!EveryClashIsFound
=============================================================================
