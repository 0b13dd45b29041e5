---------------------------- MODULE ChunkedUpload ----------------------------
(***************************************************************************)
(* One chunked upload session of apps/api/src/routes/models.ts: the parts   *)
(* that arrive in any order and again, the merge that "complete" makes of   *)
(* them over apps/api/src/storage/blobStore.ts, and crashes of the API.     *)
(*                                                                          *)
(* A file is an inode: renaming it does not close the streams open on it.   *)
(* What a part or a position of a file holds is "good" (the bytes the user  *)
(* has there), "bad" (bytes damaged on the way), "cut" (a write that was    *)
(* begun) or "none".  An overlap is what the web client does not do: call   *)
(* complete while a complete or a PUT of the session runs.                  *)
(***************************************************************************)
EXTENDS Naturals

CONSTANTS
    PartsTotal,
    Completes,      \* calls of complete, and the inodes they may create
    NoFile,
    MaxCrashes,
    Overlap         \* may complete overlap a complete or a PUT?

UploadAssumption ==
    /\ PartsTotal \in Nat /\ MaxCrashes \in Nat
    /\ NoFile \notin Completes

Parts    == 1..PartsTotal
Bytes    == {"none", "cut", "bad", "good"}
Contents == [Parts -> Bytes]
Nothing  == [p \in Parts |-> "none"]
PCs      == {"new", "read", "write", "remove", "store", "version", "session", "over"}

VARIABLES
    session,    \* the row: "none", "open" or "gone"
    checked,    \* does this client send x-part-sha256?
    part,       \* the part files
    putting,    \* parts whose PUT has begun to write: the bytes to come
    pc, next,   \* a complete: where it is, and its loop variable
    sink,       \* the inode its stream writes to
    hash,       \* what it has read, which is what it hashed
    tmp,        \* the inode at the session's temporary key
    bytes,      \* inode -> what it holds
    content,    \* content key (a hash) -> the inode there
    versions,   \* the hashes of the versions created
    crashes

vars == <<session, checked, part, putting, pc, next, sink, hash, tmp, bytes,
          content, versions, crashes>>
upload == <<session, checked, crashes>>
merge  == <<pc, next, sink, hash, tmp, bytes, content, versions>>

TypeOK ==
    /\ session \in {"none", "open", "gone"}
    /\ checked \in BOOLEAN
    /\ part \in Contents /\ putting \in Contents
    /\ pc \in [Completes -> PCs]
    /\ next \in [Completes -> 1..PartsTotal + 1]
    /\ sink \in [Completes -> Completes \cup {NoFile}]
    /\ hash \in [Completes -> Contents]
    /\ tmp \in Completes \cup {NoFile}
    /\ bytes \in [Completes -> Contents]
    /\ content \in [Contents -> Completes \cup {NoFile}]
    /\ versions \subseteq Contents
    /\ crashes \in 0..MaxCrashes

Init ==
    /\ session = "none"
    /\ checked \in BOOLEAN
    /\ part = Nothing /\ putting = Nothing
    /\ pc = [c \in Completes |-> "new"]
    /\ next = [c \in Completes |-> 1]
    /\ sink = [c \in Completes |-> NoFile]
    /\ hash = [c \in Completes |-> Nothing]
    /\ tmp = NoFile
    /\ bytes = [c \in Completes |-> Nothing]
    /\ content = [h \in Contents |-> NoFile]
    /\ versions = {}
    /\ crashes = 0

Merging == \E c \in Completes : pc[c] \notin {"new", "over"}

-----------------------------------------------------------------------------
(* The session and its parts.                                                *)

Create ==
    /\ session = "none"
    /\ session' = "open"
    /\ UNCHANGED <<checked, part, putting, merge, crashes>>

\* Mutant: the checksum is compared after the part is stored.
PutUnverified(p, b) ==
    /\ session = "open"
    /\ putting[p] = "none"
    /\ Overlap \/ ~ Merging
    /\ part' = [part EXCEPT ![p] = "cut"]
    /\ putting' = [putting EXCEPT ![p] = b]
    /\ UNCHANGED <<upload, merge>>

\* A body that does not match its checksum is refused; then writeFile
\* truncates the part's file, and fills it.
Put(p, b) ==
    /\ session = "open"
    /\ putting[p] = "none"
    /\ Overlap \/ ~ Merging
    /\ checked => b = "good"
    /\ part' = [part EXCEPT ![p] = "cut"]
    /\ putting' = [putting EXCEPT ![p] = b]
    /\ UNCHANGED <<upload, merge>>

PutEnds(p) ==
    /\ putting[p] # "none"
    /\ part' = [part EXCEPT ![p] = putting[p]]
    /\ putting' = [putting EXCEPT ![p] = "none"]
    /\ UNCHANGED <<upload, merge>>

-----------------------------------------------------------------------------
(* complete: the client calls it when no PUT is open or was left unanswered. *)

Complete(c) ==
    /\ session = "open"
    /\ pc[c] = "new"
    /\ Overlap \/ (~ Merging /\ \A p \in Parts : part[p] # "cut")
    /\ pc' = [pc EXCEPT ![c] = "read"]
    /\ UNCHANGED <<upload, part, putting, next, sink, hash, tmp, bytes, content, versions>>

\* createWriteStream opens behind the loop's back: it truncates the file at
\* the temporary key, or creates one.
Open(c) ==
    /\ pc[c] \in {"read", "write"} /\ sink[c] = NoFile
    /\ tmp' = IF tmp = NoFile THEN c ELSE tmp
    /\ sink' = [sink EXCEPT ![c] = tmp']
    /\ bytes' = [bytes EXCEPT ![tmp'] = Nothing]
    /\ UNCHANGED <<upload, part, putting, pc, next, hash, content, versions>>

Read(c) ==
    /\ pc[c] = "read" /\ next[c] <= PartsTotal
    /\ part[next[c]] # "none"
    /\ hash' = [hash EXCEPT ![c][next[c]] = part[next[c]]]
    /\ pc' = [pc EXCEPT ![c] = "write"]
    /\ UNCHANGED <<upload, part, putting, next, sink, tmp, bytes, content, versions>>

\* 400, once the sink is closed: the parts merged so far are gone.
Missing(c) ==
    /\ pc[c] = "read" /\ next[c] <= PartsTotal /\ sink[c] # NoFile
    /\ part[next[c]] = "none"
    /\ pc' = [pc EXCEPT ![c] = "over"]
    /\ UNCHANGED <<upload, part, putting, next, sink, hash, tmp, bytes, content, versions>>

\* At the stream's own position.
Write(c) ==
    /\ pc[c] = "write" /\ sink[c] # NoFile
    /\ bytes' = [bytes EXCEPT ![sink[c]][next[c]] = hash[c][next[c]]]
    /\ pc' = [pc EXCEPT ![c] = "remove"]
    /\ UNCHANGED <<upload, part, putting, next, sink, hash, tmp, content, versions>>

Remove(c) ==
    /\ pc[c] = "remove"
    /\ part' = [part EXCEPT ![next[c]] = "none"]
    /\ next' = [next EXCEPT ![c] = @ + 1]
    /\ pc' = [pc EXCEPT ![c] = IF next[c] = PartsTotal THEN "store" ELSE "read"]
    /\ UNCHANGED <<upload, putting, sink, hash, tmp, bytes, content, versions>>

\* linkOrStoreContent: a blob of this hash discards the temporary file, else
\* that is moved to the hash's key, which fails when it is gone.
Store(c) ==
    /\ pc[c] = "store"
    /\ IF content[hash[c]] = NoFile /\ tmp = NoFile
       THEN pc' = [pc EXCEPT ![c] = "over"] /\ UNCHANGED content
       ELSE /\ pc' = [pc EXCEPT ![c] = "version"]
            /\ content' = IF content[hash[c]] = NoFile
                          THEN [content EXCEPT ![hash[c]] = tmp] ELSE content
    /\ tmp' = NoFile
    /\ UNCHANGED <<upload, part, putting, next, sink, hash, bytes, versions>>

CreateVersion(c) ==
    /\ pc[c] = "version"
    /\ versions' = versions \cup {hash[c]}
    /\ pc' = [pc EXCEPT ![c] = "session"]
    /\ UNCHANGED <<upload, part, putting, next, sink, hash, tmp, bytes, content>>

DeleteSession(c) ==
    /\ pc[c] = "session"
    /\ session' = "gone"
    /\ pc' = [pc EXCEPT ![c] = "over"]
    /\ UNCHANGED <<checked, part, putting, next, sink, hash, tmp, bytes, content, versions,
                   crashes>>

Crash ==
    /\ crashes < MaxCrashes
    /\ crashes' = crashes + 1
    /\ putting' = Nothing
    /\ pc' = [c \in Completes |-> IF pc[c] = "new" THEN "new" ELSE "over"]
    /\ UNCHANGED <<session, checked, part, next, sink, hash, tmp, bytes, content, versions>>

-----------------------------------------------------------------------------
Next ==
    \/ Create
    \/ \E p \in Parts : PutEnds(p) \/ \E b \in {"good", "bad"} : Put(p, b)
    \/ \E c \in Completes :
          \/ Complete(c) \/ Open(c) \/ Read(c) \/ Missing(c) \/ Write(c) \/ Remove(c)
          \/ Store(c) \/ CreateVersion(c) \/ DeleteSession(c)
    \/ Crash

Spec == Init /\ [][Next]_vars

-----------------------------------------------------------------------------
(* Properties                                                                *)

\* The comment at models.ts:551: the sha256 of the whole file is verified on
\* merge.  The bytes stored for a version are those its hash was made of.
MergeIsVerified ==
    \A h \in versions : content[h] # NoFile /\ bytes[content[h]] = h

\* What a crash, a complete that came too early, a part sent again or damaged
\* leaves behind never gets into a version: with checksums it stores the
\* user's file.
UploadIsTheFile ==
    /\ MergeIsVerified
    /\ \A h \in versions, p \in Parts : h[p] \in (IF checked THEN {"good"} ELSE {"good", "bad"})
=============================================================================
