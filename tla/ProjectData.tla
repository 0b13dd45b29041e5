----------------------------- MODULE ProjectData -----------------------------
(***************************************************************************)
(* The rows of apps/api: accounts (routes/auth.ts), projects and their      *)
(* members (routes/projects.ts), the role check in front of every request   *)
(* (requireProjectRole in auth.ts), issues, and the import of a BCF file    *)
(* (routes/issues.ts), topic by topic with an await between any two steps.  *)
(*                                                                          *)
(* A topic's guid is unique in the whole database.  Two files may hold      *)
(* different revisions of a topic: an issue, or a snapshot, is named by the *)
(* import it came from.                                                     *)
(***************************************************************************)
EXTENDS Naturals

CONSTANTS
    Users,
    Projects,
    Topics,         \* the guids 1..Topics of the topics in the files
    Imports,        \* import requests, used once each
    NoOne,
    MaxChanges,     \* bound on changes of memberships
    MaxCrashes,
    Overlap         \* may two imports overlap?

DataAssumption ==
    /\ Topics \in Nat \ {0}
    /\ NoOne \notin Projects \cup Imports
    /\ MaxChanges \in Nat /\ MaxCrashes \in Nat

Guids     == 1..Topics
Roles     == {"VIEWER", "EDITOR", "ADMIN", "OWNER"}
Rank      == [r \in Roles |-> CASE r = "VIEWER" -> 0 [] r = "EDITOR" -> 1
                                [] r = "ADMIN" -> 2 [] r = "OWNER" -> 3]
ImportPCs == {"new", "find", "put", "create", "comment", "done", "failed"}

VARIABLES
    account,    \* user -> "none", "ADMIN", "USER", or what register counted
    project,    \* "none", "open" or "gone"
    member,     \* project -> user -> role, or NoOne
    issue,      \* guid -> the project, the import, and has it its comments?
    snapshot,   \* project and guid -> the import whose bytes are there
    import,     \* an import's place, project and topic
    changes, crashes

vars == <<account, project, member, issue, snapshot, import, changes, crashes>>
people == <<account, project, member, changes>>

Issue(p, i, comments) == [project |-> p, from |-> i, comments |-> comments]
NoIssue == Issue(NoOne, NoOne, FALSE)
Run(pc, p, g) == [pc |-> pc, project |-> p, topic |-> g]

TypeOK ==
    /\ account \in [Users -> {"none", "first", "later", "ADMIN", "USER"}]
    /\ project \in [Projects -> {"none", "open", "gone"}]
    /\ member \in [Projects -> [Users -> Roles \cup {NoOne}]]
    /\ issue \in [Guids -> [project : Projects \cup {NoOne}, from : Imports \cup {NoOne},
                            comments : BOOLEAN]]
    /\ snapshot \in [Projects \X Guids -> Imports \cup {NoOne}]
    /\ import \in [Imports -> [pc : ImportPCs, project : Projects \cup {NoOne},
                               topic : 1..Topics + 1]]
    /\ changes \in 0..MaxChanges /\ crashes \in 0..MaxCrashes

Init ==
    /\ account = [u \in Users |-> "none"]
    /\ project = [p \in Projects |-> "none"]
    /\ member = [p \in Projects |-> [u \in Users |-> NoOne]]
    /\ issue = [g \in Guids |-> NoIssue]
    /\ snapshot = [s \in Projects \X Guids |-> NoOne]
    /\ import = [i \in Imports |-> Run("new", NoOne, 1)]
    /\ changes = 0 /\ crashes = 0

-----------------------------------------------------------------------------
(* Accounts, projects, members.                                              *)

Registered(u) == account[u] \in {"ADMIN", "USER"}

\* count, and the hash of the password, before the row is created.
Register(u) ==
    /\ account[u] = "none"
    /\ account' = [account EXCEPT ![u] = IF \E w \in Users : Registered(w)
                                          THEN "later" ELSE "first"]
    /\ UNCHANGED <<project, member, issue, snapshot, import, changes, crashes>>

CreateUser(u) ==
    /\ account[u] \in {"first", "later"}
    /\ account' = [account EXCEPT ![u] = IF @ = "first" THEN "ADMIN" ELSE "USER"]
    /\ UNCHANGED <<project, member, issue, snapshot, import, changes, crashes>>

\* requireProjectRole: a member's role counts, also a platform admin's.
Allowed(u, p, minRole) ==
    /\ project[p] = "open"
    /\ IF member[p][u] = NoOne THEN account[u] = "ADMIN"
       ELSE Rank[member[p][u]] >= Rank[minRole]

CreateProject(u, p) ==
    /\ Registered(u)
    /\ project[p] = "none"
    /\ project' = [project EXCEPT ![p] = "open"]
    /\ member' = [member EXCEPT ![p][u] = "OWNER"]
    /\ UNCHANGED <<account, issue, snapshot, import, changes, crashes>>

\* upsert, update (of a member only) and delete, the last OWNER's too.
ChangeMember(u, p, w, role) ==
    /\ changes < MaxChanges
    /\ Allowed(u, p, "ADMIN") /\ Registered(w)
    /\ changes' = changes + 1
    /\ member' = [member EXCEPT ![p][w] = role]
    /\ UNCHANGED <<account, project, issue, snapshot, import, crashes>>

\* The database cascades; snapshot files stay.
DeleteProject(u, p) ==
    /\ Allowed(u, p, "ADMIN")
    /\ project' = [project EXCEPT ![p] = "gone"]
    /\ member' = [member EXCEPT ![p] = [w \in Users |-> NoOne]]
    /\ issue' = [g \in Guids |-> IF issue[g].project = p THEN NoIssue ELSE issue[g]]
    /\ UNCHANGED <<account, snapshot, import, changes, crashes>>

-----------------------------------------------------------------------------
(* POST /projects/:projectId/issues/import.bcfzip                            *)

Running(i) == import[i].pc \notin {"new", "done", "failed"}
Goto(i, pc) == import' = [import EXCEPT ![i].pc = pc]
NextTopic(i) ==
    import' = [import EXCEPT ![i] =
        IF @.topic = Topics THEN Run("done", @.project, Topics + 1)
        ELSE Run("find", @.project, @.topic + 1)]

BeginImport(i, u, p) ==
    /\ import[i].pc = "new"
    /\ Registered(u) /\ Allowed(u, p, "EDITOR")
    /\ Overlap \/ \A j \in Imports : ~ Running(j)
    /\ import' = [import EXCEPT ![i] = Run("find", p, 1)]
    /\ UNCHANGED <<people, issue, snapshot, crashes>>

\* Mutant: the snapshot is stored before the guid is looked up.
FindPuts(i) ==
    /\ import[i].pc = "find"
    /\ IF issue[import[i].topic] # NoIssue THEN NextTopic(i) ELSE Goto(i, "put")
    /\ snapshot' = [snapshot EXCEPT ![<<import[i].project, import[i].topic>>] = i]
    /\ UNCHANGED <<people, issue, crashes>>

\* A topic whose guid is known, in whichever project, is skipped.
Find(i) ==
    /\ import[i].pc = "find"
    /\ IF issue[import[i].topic] # NoIssue THEN NextTopic(i) ELSE Goto(i, "put")
    /\ UNCHANGED <<people, issue, snapshot, crashes>>

PutSnapshot(i) ==
    /\ import[i].pc = "put"
    /\ snapshot' = [snapshot EXCEPT ![<<import[i].project, import[i].topic>>] = i]
    /\ Goto(i, "create")
    /\ UNCHANGED <<people, issue, crashes>>

\* A guid taken meanwhile, or a project gone, ends the whole import.
CreateIssue(i) ==
    LET g == import[i].topic  p == import[i].project IN
    /\ import[i].pc = "create"
    /\ IF issue[g] = NoIssue /\ project[p] = "open"
       THEN issue' = [issue EXCEPT ![g] = Issue(p, i, FALSE)] /\ Goto(i, "comment")
       ELSE UNCHANGED issue /\ Goto(i, "failed")
    /\ UNCHANGED <<people, snapshot, crashes>>

CreateComments(i) ==
    LET g == import[i].topic IN
    /\ import[i].pc = "comment"
    /\ IF issue[g].from = i
       THEN issue' = [issue EXCEPT ![g].comments = TRUE] /\ NextTopic(i)
       ELSE UNCHANGED issue /\ Goto(i, "failed")
    /\ UNCHANGED <<people, snapshot, crashes>>

Crash ==
    /\ crashes < MaxCrashes
    /\ crashes' = crashes + 1
    /\ import' = [i \in Imports |->
          IF Running(i) THEN [import[i] EXCEPT !.pc = "failed"] ELSE import[i]]
    /\ account' = [u \in Users |-> IF Registered(u) THEN account[u] ELSE "none"]
    /\ UNCHANGED <<project, member, issue, snapshot, changes>>

-----------------------------------------------------------------------------
Next ==
    \/ \E u \in Users : Register(u) \/ CreateUser(u)
    \/ \E u \in Users, p \in Projects :
          \/ CreateProject(u, p) \/ DeleteProject(u, p)
          \/ \E w \in Users, role \in Roles \cup {NoOne} : ChangeMember(u, p, w, role)
          \/ \E i \in Imports : BeginImport(i, u, p)
    \/ \E i \in Imports : Find(i) \/ PutSnapshot(i) \/ CreateIssue(i) \/ CreateComments(i)
    \/ Crash

Spec == Init /\ [][Next]_vars

-----------------------------------------------------------------------------
(* Properties                                                                *)

\* Whatever imports fail, crash or come again: the snapshot of an issue is
\* there and comes from the file the issue comes from; an issue lacks its
\* comments only if its import did not end; and an import that ended has left
\* no topic without an issue, as long as no project is deleted.
IssuesAreWhole ==
    /\ \A g \in Guids : issue[g] # NoIssue =>
          /\ snapshot[<<issue[g].project, g>>] = issue[g].from
          /\ import[issue[g].from].pc = "done" => issue[g].comments
    /\ (\A p \in Projects : project[p] # "gone") =>
          \A i \in Imports, g \in Guids : g < import[i].topic => issue[g] # NoIssue
=============================================================================
