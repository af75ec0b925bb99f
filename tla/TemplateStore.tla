--------------------------- MODULE TemplateStore ---------------------------
(***************************************************************************)
(* The templates of one project: rows of the database and files of the     *)
(* Git repository, as the catalog (services/catalog_service.py,            *)
(* routers/templates.py) and the Git sync (services/git_sync_service.py)   *)
(* change them.  A request changes a file at once and for good, but its    *)
(* rows only when it commits: the two can come apart when a request fails  *)
(* in between, or meets another one.                                       *)
(*                                                                         *)
(* An action is what a request does between two awaits.  The database is   *)
(* PostgreSQL at READ COMMITTED: a statement sees what is committed and    *)
(* what its own transaction did, and waits for a transaction that may      *)
(* still decide the row or the unique name it needs.  The text of a file   *)
(* is named by the request that wrote it.  Left out are parents and the    *)
(* parameters a frontmatter registers (it may make an import fail), and    *)
(* fragments, which a sync passes over like files that are not selected.   *)
(***************************************************************************)
EXTENDS Naturals, Sequences

CONSTANTS
    Names,      \* template names
    Paths,      \* the .j2 files the project directory may hold, sorted
    PathOf,     \* the path a template gets by default
    NameOf,     \* the name a sync derives from a path
    Fields,     \* the columns an update may set
    Changes,    \* bound on what updates set: columns and "content"
    Selections, \* bound on what syncs are told to import and delete
    Requests,
    Seed,       \* who wrote what was there before
    NoFile

Files == { Paths[i] : i \in 1..Len(Paths) }

ASSUME PathsAssumption ==
    /\ Paths \in Seq(Files)
    /\ PathOf \in [Names -> Files]
    /\ NameOf \in [Files -> Names]
    /\ \A n \in Names : NameOf[PathOf[n]] = n
ASSUME InputAssumption ==
    /\ Changes \subseteq (SUBSET (Fields \cup {"content"})) \ {{}}
    /\ Selections \subseteq [imports : SUBSET Files, deletes : SUBSET Files]
ASSUME SeedAssumption == Seed \notin Requests /\ NoFile \notin Requests \cup {Seed}

VARIABLES
    rows,      \* committed rows of templates
    file,      \* the working tree: who wrote the text of a file, or NoFile
    pc,        \* the next step of a request
    job,       \* what it was asked, and the row it loaded
    ins,       \* rows it inserted and has not committed
    del,       \* ids it deleted and has not committed
    scan,      \* files its sync has still to look at, by their place in Paths
    known,     \* paths its sync found registered
    imported,  \* paths its sync reports as imported
    lost       \* history: paths a deletion took away from somebody else

vars == <<rows, file, pc, job, ins, del, scan, known, imported, lost>>
sync == <<scan, known, imported>>

Writer == Requests \cup {Seed}
Id == Writer \X Files
Row == [id : Id, name : Names, path : Files, meta : [Fields -> Writer]]
Change == (SUBSET (Fields \cup {"content"})) \ {{}}
Selection == [imports : SUBSET Files, deletes : SUBSET Files]

NoJob == [op |-> "none"]
Job == {NoJob}
    \cup [op : {"create"}, name : Names, path : Files]
    \cup [op : {"update"}, row : Row, sets : Change]
    \cup [op : {"delete"}, row : Row]
    \cup [op : {"sync"}, imports : SUBSET Files, deletes : SUBSET Files]

Over == {"idle", "ok", "failed"}

NewRow(w, n, p) == [id |-> <<w, p>>, name |-> n, path |-> p, meta |-> [f \in Fields |-> w]]

\* Some templates are registered, with their files; other files are not.
Init ==
    /\ \E registered \in SUBSET Names, others \in SUBSET Files :
          /\ rows = { NewRow(Seed, n, PathOf[n]) : n \in registered }
          /\ file = [p \in Files |->
                IF p \in others \cup { PathOf[n] : n \in registered } THEN Seed ELSE NoFile]
    /\ pc = [r \in Requests |-> "idle"]
    /\ job = [r \in Requests |-> NoJob]
    /\ ins = [r \in Requests |-> {}]
    /\ del = [r \in Requests |-> {}]
    /\ scan = [r \in Requests |-> {}]
    /\ known = [r \in Requests |-> {}]
    /\ imported = [r \in Requests |-> {}]
    /\ lost = {}
-----------------------------------------------------------------------------
(* What a transaction sees and waits for                                   *)

Ids(R) == { row.id : row \in R }
Others(r) == Requests \ {r}

Visible(r) == { row \in rows : row.id \notin del[r] } \cup ins[r]

\* An UPDATE is flushed and holds the lock of its row.
Updating(r) == pc[r] = "commit" /\ job[r].op = "update" /\ job[r].sets # {"content"}

Locked(r) == del[r] \cup (IF Updating(r) THEN {job[r].row.id} ELSE {})

RowsFree(r, ids) == \A s \in Others(r) : Locked(s) \cap ids = {}

\* Another transaction inserted the name, or deleted the row that has it.
NameInDoubt(r, n) ==
    \E s \in Others(r) :
        \/ \E row \in ins[s] : row.name = n
        \/ \E row \in rows : row.name = n /\ row.id \in del[s]

\* Mistake: without the constraint, with the paths a sync read before.
NameTakenAsRead(r, n) == \E p \in known[r] : NameOf[p] = n

\* UniqueConstraint("project_id", "name").
NameTaken(r, n) == \E row \in Visible(r) : row.name = n

Goto(r, step) == pc' = [pc EXCEPT ![r] = step]

Begin(r, j, step) ==
    /\ pc[r] = "idle"
    /\ job' = [job EXCEPT ![r] = j]
    /\ Goto(r, step)
    /\ UNCHANGED <<rows, file, ins, del, sync, lost>>

\* The session is closed without a commit; files stay as they are.
RollBack(r) ==
    /\ Goto(r, "failed")
    /\ ins' = [ins EXCEPT ![r] = {}]
    /\ del' = [del EXCEPT ![r] = {}]
    /\ job' = [job EXCEPT ![r] = NoJob]
    /\ scan' = [scan EXCEPT ![r] = {}]
    /\ known' = [known EXCEPT ![r] = {}]
    /\ imported' = [imported EXCEPT ![r] = {}]

Refuse(r) == RollBack(r) /\ UNCHANGED <<rows, file, lost>>

Write(r, p) ==
    /\ file' = [file EXCEPT ![p] = r]
    /\ lost' = lost \ {p}
-----------------------------------------------------------------------------
(* create_template, also called by upload_template                         *)

BeginCreate(r, n, p) ==
    /\ Begin(r, [op |-> "create", name |-> n, path |-> p], "write")

CreateWrite(r) ==
    /\ pc[r] = "write"
    /\ job[r].op = "create"
    /\ Write(r, job[r].path)
    /\ Goto(r, "insert")
    /\ UNCHANGED <<rows, job, ins, del, sync>>

CreateInsert(r) ==
    /\ pc[r] = "insert"
    /\ job[r].op = "create"
    /\ ~ NameInDoubt(r, job[r].name)
    /\ ~ NameTaken(r, job[r].name)
    /\ ins' = [ins EXCEPT ![r] = {NewRow(r, job[r].name, job[r].path)}]
    /\ Goto(r, "commit")
    /\ UNCHANGED <<rows, file, job, del, sync, lost>>

CreateConflict(r) ==
    /\ pc[r] = "insert"
    /\ job[r].op = "create"
    /\ ~ NameInDoubt(r, job[r].name)
    /\ NameTaken(r, job[r].name)
    /\ Refuse(r)
-----------------------------------------------------------------------------
(* update_template                                                         *)

\* The row is loaded when the request is authorized, and not read again
\* before the file is written.
BeginUpdate(r, row, sets) ==
    /\ Begin(r, [op |-> "update", row |-> row, sets |-> sets],
             IF "content" \in sets THEN "write" ELSE "flush")

UpdateWrite(r) ==
    /\ pc[r] = "write"
    /\ job[r].op = "update"
    /\ Write(r, job[r].row.path)
    /\ Goto(r, "flush")
    /\ UNCHANGED <<rows, job, ins, del, sync>>

\* flush() sends an UPDATE when a column was set, and needs the row's lock;
\* refresh() reads the row.  Both raise when the row is gone.
UpdateFlush(r) ==
    /\ pc[r] = "flush"
    /\ job[r].op = "update"
    /\ job[r].sets = {"content"} \/ RowsFree(r, {job[r].row.id})
    /\ \/ /\ job[r].row.id \in Ids(rows)
          /\ Goto(r, "commit")
          /\ UNCHANGED <<rows, file, job, ins, del, sync, lost>>
       \/ /\ job[r].row.id \notin Ids(rows)
          /\ Refuse(r)

\* Mistake: the UPDATE writes every column as it was loaded.
UpdatedWholeRow(row, r) ==
    [row EXCEPT !.meta =
        [f \in Fields |-> IF f \in job[r].sets THEN r ELSE job[r].row.meta[f]]]

\* Only the columns that were set are in the UPDATE.
Updated(row, r) ==
    [row EXCEPT !.meta = [f \in Fields |-> IF f \in job[r].sets THEN r ELSE row.meta[f]]]

Merge(R, r) ==
    IF job[r].op = "update"
    THEN { IF row.id = job[r].row.id THEN Updated(row, r) ELSE row : row \in R }
    ELSE R
-----------------------------------------------------------------------------
(* The loop of run_git_sync                                                *)

\* Mistake: every sync goes through the files in an order of its own.
BeforeAsYielded(r, i, j) == IF r = (CHOOSE q \in Requests : TRUE) THEN i < j ELSE j < i

\* list_templates returns a sorted list: all syncs have the same order.
Before(r, i, j) == i < j

\* The file the loop of a sync is at.
Turn(r, i) == \A k \in scan[r] \ {i} : Before(r, i, k)
-----------------------------------------------------------------------------
(* delete_template                                                         *)

BeginDelete(r, row) ==
    /\ Begin(r, [op |-> "delete", row |-> row], "remove")

\* Who counts on a file: a row of another template, a create that wrote it,
\* a sync that read it.
Claimed(r, p) ==
    \/ \E row \in rows : row.path = p /\ row.id # job[r].row.id
    \/ \E s \in Others(r) :
          \/ job[s].op = "create" /\ job[s].path = p /\ pc[s] \in {"insert", "commit"}
          \/ job[s].op = "sync" /\ pc[s] = "insert" /\ \E i \in scan[s] : Turn(s, i) /\ Paths[i] = p
          \/ \E row \in ins[s] : row.path = p

\* A file that is already absent is not an error.
DeleteFile(r) ==
    /\ pc[r] = "remove"
    /\ LET p == job[r].row.path IN
       /\ file' = [file EXCEPT ![p] = NoFile]
       /\ lost' = IF Claimed(r, p) THEN lost \cup {p} ELSE lost
    /\ Goto(r, "flush")
    /\ UNCHANGED <<rows, job, ins, del, sync>>

\* A DELETE that matches no row is a warning only.
DeleteFlush(r) ==
    /\ pc[r] = "flush"
    /\ job[r].op = "delete"
    /\ RowsFree(r, {job[r].row.id})
    /\ del' = [del EXCEPT ![r] = {job[r].row.id} \cap Ids(rows)]
    /\ Goto(r, "commit")
    /\ UNCHANGED <<rows, file, job, ins, sync, lost>>
-----------------------------------------------------------------------------
(* run_git_sync                                                            *)

BeginSync(r, imports, deletes) ==
    /\ Begin(r, [op |-> "sync", imports |-> imports, deletes |-> deletes], "scan")

SyncScan(r) ==
    /\ pc[r] = "scan"
    /\ scan' = [scan EXCEPT ![r] = {i \in DOMAIN Paths : file[Paths[i]] # NoFile}]
    /\ Goto(r, "known")
    /\ UNCHANGED <<rows, file, job, ins, del, known, imported, lost>>

SyncKnown(r) ==
    /\ pc[r] = "known"
    /\ known' = [known EXCEPT ![r] = { row.path : row \in rows }]
    /\ Goto(r, "read")
    /\ UNCHANGED <<rows, file, job, ins, del, scan, imported, lost>>

\* A file that is registered or not selected is passed over, one that has
\* gone meanwhile is an error.
Importable(r, p) ==
    /\ p \notin known[r]
    /\ p \in job[r].imports
    /\ file[p] # NoFile

\* Up to the next file that can be read the loop does not wait.
SyncRead(r) ==
    /\ pc[r] = "read"
    /\ \/ \E i \in scan[r] :
             /\ Importable(r, Paths[i])
             /\ \A k \in scan[r] : Before(r, k, i) => ~ Importable(r, Paths[k])
             /\ scan' = [scan EXCEPT ![r] = {k \in @ : ~ Before(r, k, i)}]
             /\ Goto(r, "insert")
       \/ /\ \A i \in scan[r] : ~ Importable(r, Paths[i])
          /\ scan' = [scan EXCEPT ![r] = {}]
          /\ Goto(r, "delete")
    /\ UNCHANGED <<rows, file, job, ins, del, known, imported, lost>>

\* Each import has a savepoint of its own.
SyncInsert(r) ==
    /\ pc[r] = "insert"
    /\ job[r].op = "sync"
    /\ \E i \in scan[r] :
          LET p == Paths[i] IN
          /\ Turn(r, i)
          /\ ~ NameInDoubt(r, NameOf[p])
          /\ ~ NameTaken(r, NameOf[p])
          /\ ins' = [ins EXCEPT ![r] = @ \cup {NewRow(r, NameOf[p], p)}]
          /\ imported' = [imported EXCEPT ![r] = @ \cup {p}]
          /\ scan' = [scan EXCEPT ![r] = @ \ {i}]
    /\ Goto(r, "read")
    /\ UNCHANGED <<rows, file, job, del, known, lost>>

\* Mistake: the outer transaction is rolled back with the failed import.
SyncErrorNoSavepoint(r) ==
    /\ pc[r] = "insert"
    /\ job[r].op = "sync"
    /\ \E i \in scan[r] :
          /\ Turn(r, i)
          /\ ~ NameInDoubt(r, NameOf[Paths[i]])
          /\ scan' = [scan EXCEPT ![r] = @ \ {i}]
    /\ ins' = [ins EXCEPT ![r] = {}]
    /\ Goto(r, "read")
    /\ UNCHANGED <<rows, file, job, del, known, imported, lost>>

\* The name is taken, or the frontmatter does not fit the database: the file
\* is reported, and the others are still imported.
SyncError(r) ==
    /\ pc[r] = "insert"
    /\ job[r].op = "sync"
    /\ \E i \in scan[r] :
          /\ Turn(r, i)
          /\ ~ NameInDoubt(r, NameOf[Paths[i]])
          /\ scan' = [scan EXCEPT ![r] = @ \ {i}]
    /\ Goto(r, "read")
    /\ UNCHANGED <<rows, file, job, ins, del, known, imported, lost>>

\* One DELETE for all selected paths, rows just imported included.
SyncDelete(r) ==
    LET gone == Ids({ row \in rows : row.path \in job[r].deletes }) IN
    /\ pc[r] = "delete"
    /\ RowsFree(r, gone)
    /\ del' = [del EXCEPT ![r] = gone]
    /\ ins' = [ins EXCEPT ![r] = { row \in @ : row.path \notin job[r].deletes }]
    /\ Goto(r, "commit")
    /\ UNCHANGED <<rows, file, job, sync, lost>>
-----------------------------------------------------------------------------
\* db.commit() in the router.
Commit(r) ==
    /\ pc[r] = "commit"
    /\ rows' = Merge(Visible(r), r)
    /\ ins' = [ins EXCEPT ![r] = {}]
    /\ del' = [del EXCEPT ![r] = {}]
    /\ known' = [known EXCEPT ![r] = {}]
    /\ Goto(r, "ok")
    /\ UNCHANGED <<file, job, scan, imported, lost>>

\* The process or the connection dies, or Git refuses to write.
Abort(r) ==
    /\ pc[r] \notin Over
    /\ RollBack(r)
    /\ lost' = IF job[r].op = "delete" /\ pc[r] # "remove"
               THEN lost \cup {job[r].row.path} ELSE lost
    /\ UNCHANGED <<rows, file>>

Start(r) ==
    \/ \E n \in Names, p \in Files : BeginCreate(r, n, p)
    \/ \E row \in rows, sets \in Changes : BeginUpdate(r, row, sets)
    \/ \E row \in rows : BeginDelete(r, row)
    \/ \E s \in Selections : BeginSync(r, s.imports, s.deletes)

Step(r) ==
    \/ CreateWrite(r) \/ CreateInsert(r) \/ CreateConflict(r)
    \/ UpdateWrite(r) \/ UpdateFlush(r)
    \/ DeleteFile(r) \/ DeleteFlush(r)
    \/ SyncScan(r) \/ SyncKnown(r) \/ SyncRead(r)
    \/ SyncInsert(r) \/ SyncError(r) \/ SyncDelete(r)
    \/ Commit(r)

Next == \E r \in Requests : Start(r) \/ Step(r) \/ Abort(r)

Spec == Init /\ [][Next]_vars
FairSpec == Spec /\ \A r \in Requests : WF_vars(Step(r))
-----------------------------------------------------------------------------
(* Properties                                                              *)

\* Every variable keeps its shape; a request that is over holds nothing.
TypeOK ==
    /\ rows \subseteq Row
    /\ file \in [Files -> Writer \cup {NoFile}]
    /\ pc \in [Requests -> Over \cup {"write", "insert", "flush", "remove", "scan",
                                      "known", "read", "delete", "commit"}]
    /\ job \in [Requests -> Job]
    /\ ins \in [Requests -> SUBSET Row]
    /\ del \in [Requests -> SUBSET Id]
    /\ \A r \in Requests : pc[r] \in Over => ins[r] = {} /\ del[r] = {}
    /\ scan \in [Requests -> SUBSET DOMAIN Paths]
    /\ known \in [Requests -> SUBSET Files]
    /\ imported \in [Requests -> SUBSET Files]
    /\ lost \subseteq Files

\* A row a create placed at a path other than the default one.
Placed(row) ==
    \E r \in Requests :
        /\ row.id[1] = r
        /\ job[r].op = "create"
        /\ row.path # PathOf[row.name]

\* A delete has removed the file and not yet the row.
Removing(p) ==
    \E r \in Requests :
        job[r].op = "delete" /\ job[r].row.path = p /\ pc[r] \in {"flush", "commit"}

\* Rows and files match.  However creates, uploads and syncs overlap, and
\* although a sync compares with rows it read earlier, no file is registered
\* twice, unless a create names a file of its own: git_path is not unique in the
\* database, the derived names are, and get_sync_status and delete_paths go by
\* the path.  And a registered template has its file.  The exceptions are the
\* deletions that failed half way, and those that took away the file of another
\* template or of a request in flight; the next write to the path makes up for
\* both.
RowsMatchFiles ==
    /\ \A a, b \in rows : a.path = b.path /\ a # b => Placed(a) \/ Placed(b)
    /\ \A row \in rows : file[row.path] = NoFile => row.path \in lost \/ Removing(row.path)

Deleters(row) ==
    { r \in Requests : /\ pc[r] = "ok"
                       /\ \/ job[r].op = "delete" /\ job[r].row.id = row[1]
                          \/ job[r].op = "sync" /\ row[2] \in job[r].deletes }

\* What an answer says of rows is so: a template that create answered 201 for,
\* or that a sync reports as imported, is registered until a request that
\* was answered deletes it, whatever else failed in the same sync; and a
\* template whose deletion was answered is not registered.
AnswersHold ==
    \A r \in Requests : pc[r] = "ok" =>
        /\ \A p \in IF job[r].op = "create" THEN {job[r].path} ELSE imported[r] :
              <<r, p>> \in Ids(rows) \/ Deleters(<< <<r, p>>, p >>) # {}
        /\ job[r].op = "delete" => job[r].row.id \notin Ids(rows)

\* Updates that were answered and set a field of a template.
Setters(id, f) ==
    { r \in Requests : /\ pc[r] = "ok"
                       /\ job[r].op = "update"
                       /\ job[r].row.id = id
                       /\ f \in job[r].sets }

\* No update undoes another one: a field has the value of one of the updates
\* that set it, although each request loaded the row before the others
\* committed.
NoLostUpdate ==
    \A row \in rows, f \in Fields :
        LET setters == Setters(row.id, f) IN
        row.meta[f] \in IF setters = {} THEN {row.id[1]} ELSE setters

\* Every request ends, without the database having to choose a victim of a
\* deadlock: two syncs that import the same files insert the names in the
\* same order.
EveryRequestEnds ==
    \A r \in Requests : pc[r] \notin Over ~> pc[r] \in Over
=============================================================================
