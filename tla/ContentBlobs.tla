---------------------------- MODULE ContentBlobs ----------------------------
(***************************************************************************)
(* One content (sha256) of one project: its ContentBlob row, its reference  *)
(* count, its file, and the versions that link it, in                       *)
(* apps/api/src/routes/models.ts: linkOrStoreContent, releaseBlobRef, the   *)
(* tail of an upload, fast-import, and the deletion of versions and models. *)
(* The unique index makes different contents independent.                   *)
(*                                                                          *)
(* One flow per request; every awaited call that touches shared state is a  *)
(* step.  The upload's own temporary file is left out.                      *)
(***************************************************************************)
EXTENDS Integers, FiniteSets

CONSTANTS
    Clients,
    Models,
    Versions,       \* version ids, used once
    Blobs,          \* ids of ContentBlob rows, used once
    NoBlob,
    Requests,       \* the kinds of request the users send
    Groups,         \* sets of kinds they let overlap; any other runs alone
    MaxFaults,      \* bound on process crashes and failed createVersion calls
    CrashAt         \* where the requests may be when the process crashes

Kinds == {"upload", "fast", "delete", "delete_model"}

PCs == {"idle", "link", "move", "create", "winner", "version", "count",
        "del_version", "del_model", "release", "del_file", "del_row"}

BlobsAssumption ==
    /\ IsFiniteSet(Clients) /\ IsFiniteSet(Versions)
    /\ Models # {} /\ Versions # {}
    /\ NoBlob \notin Blobs
    /\ Requests \subseteq Kinds
    /\ Groups \subseteq SUBSET Requests
    /\ MaxFaults \in Nat
    /\ CrashAt \subseteq PCs

VARIABLES
    models,     \* models that exist
    version,    \* id -> "none", "live" or "deleted", its model and blobId
    blobRow,    \* id -> "none", "live" or "deleted"
    refCount,
    file,       \* is there a file under the content key?
    flow,       \* the requests
    faults

vars == <<models, version, blobRow, refCount, file, flow, faults>>

Flow(kind, pc, m, v, b, left) ==
    [kind |-> kind, pc |-> pc, m |-> m, v |-> v, b |-> b, left |-> left]

AnyModel   == CHOOSE m \in Models : TRUE
AnyVersion == CHOOSE v \in Versions : TRUE
Idle == Flow("upload", "idle", AnyModel, AnyVersion, NoBlob, 0)

TypeOK ==
    /\ models \subseteq Models
    /\ version \in [Versions -> [row : {"none", "live", "deleted"},
                                 m : Models, b : Blobs \cup {NoBlob}]]
    /\ blobRow \in [Blobs -> {"none", "live", "deleted"}]
    /\ refCount \in [Blobs -> Int]
    /\ file \in BOOLEAN
    /\ flow \in [Clients -> [kind : Kinds, pc : PCs, m : Models, v : Versions,
                             b : Blobs \cup {NoBlob}, left : Nat]]
    /\ faults \in 0..MaxFaults

Init ==
    /\ models = Models
    /\ version = [v \in Versions |-> [row |-> "none", m |-> AnyModel, b |-> NoBlob]]
    /\ blobRow = [b \in Blobs |-> "none"]
    /\ refCount = [b \in Blobs |-> 0]
    /\ file = FALSE
    /\ flow = [c \in Clients |-> Idle]
    /\ faults = 0

LiveBlob(b) == b \in Blobs /\ blobRow[b] = "live"
LiveVersions == {v \in Versions : version[v].row = "live"}
Links(b) == {v \in LiveVersions : version[v].b = b}

At(c, pc) == flow[c].pc = pc
Goto(c, pc) == flow' = [flow EXCEPT ![c].pc = pc]
GotoWith(c, pc, b) == flow' = [flow EXCEPT ![c].pc = pc, ![c].b = b]
Done(c) == flow' = [flow EXCEPT ![c] = Idle]

\* The users: a request starts if its kind may overlap with all that run.  The
\* code does not enforce it.
MayRequest(c, kind) ==
    /\ kind \in Requests
    /\ At(c, "idle")
    /\ LET busy == {d \in Clients : ~ At(d, "idle")} IN
       busy # {} => \E g \in Groups : {kind} \cup {flow[d].kind : d \in busy} \subseteq g

-----------------------------------------------------------------------------
(* Upload (in one request or in parts): the bytes are under a temporary key. *)

\* linkOrStoreContent looks the content up.
Upload(c) ==
    /\ MayRequest(c, "upload")
    /\ \E m \in models :
          \/ \E b \in Blobs : /\ LiveBlob(b)
                              /\ flow' = [flow EXCEPT ![c] = Flow("upload", "link", m, AnyVersion, b, 0)]
          \/ /\ \A b \in Blobs : ~ LiveBlob(b)
             /\ flow' = [flow EXCEPT ![c] = Flow("upload", "move", m, AnyVersion, NoBlob, 0)]
    /\ UNCHANGED <<models, version, blobRow, refCount, file, faults>>

\* A hit, or the winner of a race: count the reference.  A row that is gone
\* makes the upload fail.
Link(c) ==
    LET b == flow[c].b IN
    /\ At(c, "link")
    /\ IF LiveBlob(b) THEN /\ refCount' = [refCount EXCEPT ![b] = @ + 1]
                           /\ Goto(c, "version")
                      ELSE Done(c) /\ UNCHANGED refCount
    /\ UNCHANGED <<models, version, blobRow, file, faults>>

Promote(c) ==
    /\ At(c, "move")
    /\ file' = TRUE
    /\ Goto(c, "create")
    /\ UNCHANGED <<models, version, blobRow, refCount, faults>>

\* Mutant: the new row starts at the schema's default of 0.
CreateBlobUncounted(c) ==
    /\ At(c, "create")
    /\ IF \E b \in Blobs : LiveBlob(b)
       THEN Goto(c, "winner") /\ UNCHANGED <<blobRow, refCount>>
       ELSE \E b \in Blobs :
               /\ blobRow[b] = "none"
               /\ blobRow' = [blobRow EXCEPT ![b] = "live"]
               /\ refCount' = [refCount EXCEPT ![b] = 0]
               /\ GotoWith(c, "version", b)
    /\ UNCHANGED <<models, version, file, faults>>

\* Mutant: the loser of a creation race removes the file it promoted.
CreateBlobCleansUp(c) ==
    /\ At(c, "create")
    /\ IF \E b \in Blobs : LiveBlob(b)
       THEN Goto(c, "winner") /\ file' = FALSE /\ UNCHANGED <<blobRow, refCount>>
       ELSE /\ \E b \in Blobs :
                  /\ blobRow[b] = "none"
                  /\ blobRow' = [blobRow EXCEPT ![b] = "live"]
                  /\ refCount' = [refCount EXCEPT ![b] = 1]
                  /\ GotoWith(c, "version", b)
            /\ UNCHANGED file
    /\ UNCHANGED <<models, version, faults>>

\* The row is created with one reference, unless another upload was first.
CreateBlob(c) ==
    /\ At(c, "create")
    /\ IF \E b \in Blobs : LiveBlob(b)
       THEN Goto(c, "winner") /\ UNCHANGED <<blobRow, refCount>>
       ELSE \E b \in Blobs :
               /\ blobRow[b] = "none"
               /\ blobRow' = [blobRow EXCEPT ![b] = "live"]
               /\ refCount' = [refCount EXCEPT ![b] = 1]
               /\ GotoWith(c, "version", b)
    /\ UNCHANGED <<models, version, file, faults>>

\* findUniqueOrThrow
FindWinner(c) ==
    /\ At(c, "winner")
    /\ \/ \E b \in Blobs : LiveBlob(b) /\ GotoWith(c, "link", b)
       \/ (\A b \in Blobs : ~ LiveBlob(b)) /\ Done(c)
    /\ UNCHANGED <<models, version, blobRow, refCount, file, faults>>

\* createVersion; its foreign keys need the model's row and the blob's.
CreateVersion(c) ==
    /\ At(c, "version")
    /\ IF flow[c].m \in models /\ LiveBlob(flow[c].b)
       THEN \E v \in Versions :
               /\ version[v].row = "none"
               /\ version' = [version EXCEPT ![v] =
                     [row |-> "live", m |-> flow[c].m, b |-> flow[c].b]]
               /\ IF flow[c].kind = "fast" THEN Goto(c, "count") ELSE Done(c)
       ELSE Done(c) /\ UNCHANGED version
    /\ UNCHANGED <<models, blobRow, refCount, file, faults>>

\* No version number in five attempts (409): the reference stays counted.
CreateVersionFails(c) ==
    /\ At(c, "version")
    /\ faults < MaxFaults
    /\ faults' = faults + 1
    /\ Done(c)
    /\ UNCHANGED <<models, version, blobRow, refCount, file>>

-----------------------------------------------------------------------------
(* Fast import: the version first, its reference afterwards.                 *)

FastImport(c) ==
    /\ MayRequest(c, "fast")
    /\ \E m \in models, b \in Blobs :
          /\ LiveBlob(b)
          /\ flow' = [flow EXCEPT ![c] = Flow("fast", "version", m, AnyVersion, b, 0)]
    /\ UNCHANGED <<models, version, blobRow, refCount, file, faults>>

\* Mutant: the reference is not counted.
CountLinkNever(c) ==
    /\ At(c, "count")
    /\ Done(c)
    /\ UNCHANGED <<models, version, blobRow, refCount, file, faults>>

CountLink(c) ==
    LET b == flow[c].b IN
    /\ At(c, "count")
    /\ refCount' = IF LiveBlob(b) THEN [refCount EXCEPT ![b] = @ + 1] ELSE refCount
    /\ Done(c)
    /\ UNCHANGED <<models, version, blobRow, file, faults>>

-----------------------------------------------------------------------------
(* Deletion of a version and of a model.                                     *)

DeleteVersion(c) ==
    /\ MayRequest(c, "delete")
    /\ \E v \in LiveVersions :
          flow' = [flow EXCEPT ![c] =
                     Flow("delete", "del_version", version[v].m, v, version[v].b, 1)]
    /\ UNCHANGED <<models, version, blobRow, refCount, file, faults>>

\* A row that is gone is an error: nothing is released twice.
DeleteVersionRow(c) ==
    LET v == flow[c].v IN
    /\ At(c, "del_version")
    /\ IF v \in LiveVersions
       THEN /\ version' = [version EXCEPT ![v].row = "deleted"]
            /\ IF flow[c].b # NoBlob THEN Goto(c, "release") ELSE Done(c)
       ELSE Done(c) /\ UNCHANGED version
    /\ UNCHANGED <<models, blobRow, refCount, file, faults>>

\* The model's blobIds, in the order of its versions: at most one row is
\* live, so the references to it are a number.
DeleteModel(c) ==
    /\ MayRequest(c, "delete_model")
    /\ \E m \in models, b \in Blobs \cup {NoBlob} :
          LET mine == {v \in LiveVersions : version[v].m = m /\ version[v].b # NoBlob} IN
          /\ IF mine = {} THEN b = NoBlob ELSE \E v \in mine : b = version[v].b
          /\ flow' = [flow EXCEPT ![c] =
                Flow("delete_model", "del_model", m, AnyVersion, b, Cardinality(mine))]
    /\ UNCHANGED <<models, version, blobRow, refCount, file, faults>>

\* The deletion cascades to the versions; its failure is ignored.
DeleteModelRow(c) ==
    LET m == flow[c].m IN
    /\ At(c, "del_model")
    /\ models' = models \ {m}
    /\ version' = [v \in Versions |->
          IF version[v].m = m /\ version[v].row = "live"
          THEN [version[v] EXCEPT !.row = "deleted"] ELSE version[v]]
    /\ IF flow[c].left > 0 THEN Goto(c, "release") ELSE Done(c)
    /\ UNCHANGED <<blobRow, refCount, file, faults>>

\* Mutant: the loop over the references does not end.
ReleasedUnending(c) ==
    flow' = [flow EXCEPT ![c].pc = "release", ![c].left = @ - 1]

\* One reference less to release.
Released(c) ==
    IF flow[c].left = 1 THEN Done(c)
                        ELSE flow' = [flow EXCEPT ![c].pc = "release", ![c].left = @ - 1]

Release(c) ==
    LET b == flow[c].b IN
    /\ At(c, "release")
    /\ refCount' = IF LiveBlob(b) THEN [refCount EXCEPT ![b] = @ - 1] ELSE refCount
    /\ IF LiveBlob(b) /\ refCount[b] <= 1 THEN Goto(c, "del_file") ELSE Released(c)
    /\ UNCHANGED <<models, version, blobRow, file, faults>>

RemoveFile(c) ==
    /\ At(c, "del_file")
    /\ file' = FALSE
    /\ Goto(c, "del_row")
    /\ UNCHANGED <<models, version, blobRow, refCount, faults>>

\* onDelete: SetNull, in the versions that link the row.
RemoveRow(c) ==
    LET b == flow[c].b IN
    /\ At(c, "del_row")
    /\ blobRow' = [blobRow EXCEPT ![b] = "deleted"]
    /\ version' = [v \in Versions |->
          IF version[v].b = b THEN [version[v] EXCEPT !.b = NoBlob] ELSE version[v]]
    /\ Released(c)
    /\ UNCHANGED <<models, refCount, file, faults>>

Crash ==
    /\ faults < MaxFaults
    /\ \E c \in Clients : ~ At(c, "idle")
    /\ \A c \in Clients : flow[c].pc \in CrashAt \cup {"idle"}
    /\ faults' = faults + 1
    /\ flow' = [c \in Clients |-> Idle]
    /\ UNCHANGED <<models, version, blobRow, refCount, file>>

-----------------------------------------------------------------------------
Next ==
    \/ \E c \in Clients :
          \/ Upload(c) \/ Link(c) \/ Promote(c) \/ CreateBlob(c) \/ FindWinner(c)
          \/ CreateVersion(c) \/ CreateVersionFails(c)
          \/ FastImport(c) \/ CountLink(c)
          \/ DeleteVersion(c) \/ DeleteVersionRow(c)
          \/ DeleteModel(c) \/ DeleteModelRow(c)
          \/ Release(c) \/ RemoveFile(c) \/ RemoveRow(c)
    \/ Crash

Spec == Init /\ [][Next]_vars

-----------------------------------------------------------------------------
(* Properties                                                                *)

\* A version that exists can be converted: its blob row and file are there.
VersionHasContent ==
    \A v \in LiveVersions : LiveBlob(version[v].b) /\ file

\* Between requests, the count is at least the number of versions that link
\* the row: crashes and failures may leak a reference, never lose one.
\* Without them it is exact, and nothing leaks: the file and the row are
\* there exactly while a version links them.
RefsAreCounted ==
    (\A c \in Clients : At(c, "idle")) =>
       /\ \A b \in Blobs : LiveBlob(b) => refCount[b] >= Cardinality(Links(b))
       /\ faults = 0 =>
             /\ \A b \in Blobs : LiveBlob(b) => refCount[b] = Cardinality(Links(b))
             /\ file <=> LiveVersions # {}
             /\ file <=> \E b \in Blobs : LiveBlob(b)

\* The file under a content key is not removed while a version links its row
\* ("never delete a live content key"; removed at refCount zero).
LiveContentIsKept ==
    [][file /\ ~ file' => \A b \in Blobs : LiveBlob(b) => Links(b) = {}]_vars
=============================================================================
