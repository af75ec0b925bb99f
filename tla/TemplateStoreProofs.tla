------------------------ MODULE TemplateStoreProofs ------------------------
(* Theorems about TemplateStore for any templates, files and requests.      *)
EXTENDS TemplateStore, TLAPS

(* Shapes, and which steps belong to which operation.                       *)

OpSteps ==
    \A r \in Requests :
        /\ pc[r] = "remove" => job[r].op = "delete"
        /\ pc[r] \in {"scan", "known", "read", "delete"} => job[r].op = "sync"
        /\ pc[r] = "insert" => job[r].op \in {"create", "sync"}
        /\ pc[r] = "flush" => job[r].op \in {"update", "delete"}
        /\ pc[r] \in {"idle", "failed"} => job[r] = NoJob

BasicInv == TypeOK /\ OpSteps

Steps == Over \cup {"write", "insert", "flush", "remove", "scan",
                    "known", "read", "delete", "commit"}

\* The places of Paths are places of files.
LEMMA PathsOfFiles == \A i \in DOMAIN Paths : Paths[i] \in Files
  BY PathsAssumption DEF Files

LEMMA NewRowTyped ==
    ASSUME NEW w \in Writer, NEW n \in Names, NEW p \in Files
    PROVE  NewRow(w, n, p) \in Row
  BY DEF NewRow, Row, Id

\* What a job of each kind holds.
LEMMA JobTyped ==
    ASSUME TypeOK, NEW r \in Requests
    PROVE  /\ job[r].op = "create" => job[r].name \in Names /\ job[r].path \in Files
           /\ job[r].op \in {"update", "delete"} => job[r].row \in Row
           /\ job[r].op = "update" => job[r].sets \in Change
           /\ job[r].op = "sync" => job[r].imports \subseteq Files /\ job[r].deletes \subseteq Files
           /\ job[r].op \in {"none", "create", "update", "delete", "sync"}
<1>1. job[r] \in Job
  BY DEF TypeOK
<1>2. QED
  BY <1>1 DEF Job, NoJob

LEMMA RowTyped ==
    ASSUME NEW row \in Row
    PROVE  /\ row.id \in Id /\ row.name \in Names /\ row.path \in Files
           /\ row.meta \in [Fields -> Writer]
           /\ row.id[1] \in Writer /\ row.id[2] \in Files
  BY DEF Row, Id

LEMMA InitBasic == Init => BasicInv
<1> SUFFICES ASSUME Init PROVE BasicInv
  OBVIOUS
<1>1. PICK registered \in SUBSET Names, others \in SUBSET Files :
         /\ rows = {NewRow(Seed, n, PathOf[n]) : n \in registered}
         /\ file = [p \in Files |->
               IF p \in others \cup {PathOf[n] : n \in registered} THEN Seed ELSE NoFile]
  BY DEF Init
<1>2. rows \subseteq Row
  <2>1. \A n \in registered : NewRow(Seed, n, PathOf[n]) \in Row
    BY NewRowTyped, PathsAssumption DEF Writer
  <2>2. QED
    BY <1>1, <2>1
<1>3. file \in [Files -> Writer \cup {NoFile}]
  BY <1>1 DEF Writer
<1>4. /\ pc = [r \in Requests |-> "idle"] /\ job = [r \in Requests |-> NoJob]
      /\ ins = [r \in Requests |-> {}] /\ del = [r \in Requests |-> {}]
      /\ scan = [r \in Requests |-> {}] /\ known = [r \in Requests |-> {}]
      /\ imported = [r \in Requests |-> {}] /\ lost = {}
  BY DEF Init
<1>5. TypeOK
  BY <1>2, <1>3, <1>4 DEF TypeOK, Over, Job
<1>6. OpSteps
  BY <1>4 DEF OpSteps
<1>7. QED
  BY <1>5, <1>6 DEF BasicInv

\* What a request that is rolled back leaves: nothing.
LEMMA RollBackBasic ==
    ASSUME BasicInv, NEW r \in Requests, RollBack(r), UNCHANGED <<rows, file>>,
           lost' \subseteq Files
    PROVE  BasicInv'
<1>1. TypeOK'
  BY DEF BasicInv, TypeOK, RollBack, Goto, Over, Job
<1>2. OpSteps'
  BY DEF BasicInv, TypeOK, OpSteps, RollBack, Goto
<1>3. QED
  BY <1>1, <1>2 DEF BasicInv

LEMMA StartBasic ==
    ASSUME BasicInv, NEW r \in Requests, Start(r)
    PROVE  BasicInv'
<1>1. ASSUME NEW j \in Job, NEW step \in Steps, Begin(r, j, step), step \notin Over,
             /\ step = "remove" => j.op = "delete"
             /\ step = "scan" => j.op = "sync"
             /\ step = "flush" => j.op = "update"
             /\ step \in {"write", "remove", "scan", "flush"}
      PROVE  BasicInv'
  <2>1. TypeOK'
    BY <1>1 DEF BasicInv, TypeOK, Begin, Goto, sync, Steps
  <2>2. OpSteps'
    BY <1>1 DEF BasicInv, TypeOK, OpSteps, Begin, Goto
  <2>3. QED
    BY <2>1, <2>2 DEF BasicInv
<1>2. CASE \E n \in Names, p \in Files : BeginCreate(r, n, p)
  <2>1. PICK n \in Names, p \in Files : BeginCreate(r, n, p)
    BY <1>2
  <2>2. [op |-> "create", name |-> n, path |-> p] \in Job
    BY DEF Job
  <2>3. QED
    BY <2>1, <2>2, <1>1 DEF BeginCreate, Steps, Over
<1>3. CASE \E row \in rows, sets \in Changes : BeginUpdate(r, row, sets)
  <2>1. PICK row \in rows, sets \in Changes : BeginUpdate(r, row, sets)
    BY <1>3
  <2>2. row \in Row /\ sets \in Change
    BY InputAssumption DEF BasicInv, TypeOK, Change
  <2>3. [op |-> "update", row |-> row, sets |-> sets] \in Job
    BY <2>2 DEF Job
  <2>4. QED
    BY <2>1, <2>3, <1>1 DEF BeginUpdate, Steps, Over
<1>4. CASE \E row \in rows : BeginDelete(r, row)
  <2>1. PICK row \in rows : BeginDelete(r, row)
    BY <1>4
  <2>2. row \in Row
    BY DEF BasicInv, TypeOK
  <2>3. [op |-> "delete", row |-> row] \in Job
    BY <2>2 DEF Job
  <2>4. QED
    BY <2>1, <2>3, <1>1 DEF BeginDelete, Steps, Over
<1>5. CASE \E s \in Selections : BeginSync(r, s.imports, s.deletes)
  <2>1. PICK s \in Selections : BeginSync(r, s.imports, s.deletes)
    BY <1>5
  <2>2. s.imports \subseteq Files /\ s.deletes \subseteq Files
    BY InputAssumption
  <2>3. [op |-> "sync", imports |-> s.imports, deletes |-> s.deletes] \in Job
    BY <2>2 DEF Job
  <2>4. QED
    BY <2>1, <2>3, <1>1 DEF BeginSync, Steps, Over
<1>6. QED
  BY <1>2, <1>3, <1>4, <1>5 DEF Start

LEMMA UpdatedTyped ==
    ASSUME NEW row \in Row, NEW r \in Requests
    PROVE  Updated(row, r) \in Row
  BY DEF Row, Updated, Writer

LEMMA StepBasic ==
    ASSUME BasicInv, NEW r \in Requests, Step(r)
    PROVE  BasicInv'
<1> USE DEF BasicInv
<1>1. CASE CreateWrite(r)
  <2>1. job[r].path \in Files
    BY <1>1, JobTyped DEF CreateWrite
  <2>2. TypeOK'
    BY <1>1, <2>1 DEF TypeOK, CreateWrite, Write, Goto, sync, Over, Writer
  <2>3. OpSteps'
    BY <1>1 DEF TypeOK, OpSteps, CreateWrite, Goto
  <2>4. QED
    BY <2>2, <2>3
<1>2. CASE CreateInsert(r)
  <2>1. NewRow(r, job[r].name, job[r].path) \in Row
    BY <1>2, JobTyped, NewRowTyped DEF CreateInsert, Writer
  <2>2. TypeOK'
    BY <1>2, <2>1 DEF TypeOK, CreateInsert, Goto, sync, Over
  <2>3. OpSteps'
    BY <1>2 DEF TypeOK, OpSteps, CreateInsert, Goto
  <2>4. QED
    BY <2>2, <2>3
<1>3. CASE CreateConflict(r)
  BY <1>3, RollBackBasic DEF CreateConflict, Refuse, TypeOK
<1>4. CASE UpdateWrite(r)
  <2>1. job[r].row.path \in Files
    BY <1>4, JobTyped, RowTyped DEF UpdateWrite
  <2>2. TypeOK'
    BY <1>4, <2>1 DEF TypeOK, UpdateWrite, Write, Goto, sync, Over, Writer
  <2>3. OpSteps'
    BY <1>4 DEF TypeOK, OpSteps, UpdateWrite, Goto
  <2>4. QED
    BY <2>2, <2>3
<1>5. CASE UpdateFlush(r)
  <2>1. CASE Refuse(r)
    BY <2>1, RollBackBasic DEF Refuse, TypeOK
  <2>2. CASE Goto(r, "commit") /\ UNCHANGED <<rows, file, job, ins, del, sync, lost>>
    <3>1. TypeOK'
      BY <1>5, <2>2 DEF TypeOK, UpdateFlush, Goto, sync, Over
    <3>2. OpSteps'
      BY <2>2 DEF TypeOK, OpSteps, Goto
    <3>3. QED
      BY <3>1, <3>2
  <2>3. QED
    BY <1>5, <2>1, <2>2 DEF UpdateFlush
<1>6. CASE DeleteFile(r)
  <2>1. job[r].op = "delete" /\ job[r].row.path \in Files
    BY <1>6, JobTyped, RowTyped DEF DeleteFile, OpSteps
  <2>2. TypeOK'
    BY <1>6, <2>1 DEF TypeOK, DeleteFile, Goto, sync, Over
  <2>3. OpSteps'
    BY <1>6, <2>1 DEF TypeOK, OpSteps, DeleteFile, Goto
  <2>4. QED
    BY <2>2, <2>3
<1>7. CASE DeleteFlush(r)
  <2>1. {job[r].row.id} \cap Ids(rows) \subseteq Id
    BY <1>7, JobTyped, RowTyped DEF DeleteFlush
  <2>2. TypeOK'
    BY <1>7, <2>1 DEF TypeOK, DeleteFlush, Goto, sync, Over
  <2>3. OpSteps'
    BY <1>7 DEF TypeOK, OpSteps, DeleteFlush, Goto
  <2>4. QED
    BY <2>2, <2>3
<1>8. CASE SyncScan(r)
  <2>1. TypeOK'
    BY <1>8 DEF TypeOK, SyncScan, Goto, Over
  <2>2. OpSteps'
    BY <1>8 DEF TypeOK, OpSteps, SyncScan, Goto
  <2>3. QED
    BY <2>1, <2>2
<1>9. CASE SyncKnown(r)
  <2>1. {row.path : row \in rows} \subseteq Files
    BY RowTyped DEF TypeOK
  <2>2. TypeOK'
    BY <1>9, <2>1 DEF TypeOK, SyncKnown, Goto, Over
  <2>3. OpSteps'
    BY <1>9 DEF TypeOK, OpSteps, SyncKnown, Goto
  <2>4. QED
    BY <2>2, <2>3
<1>10. CASE SyncRead(r)
  <2>1. TypeOK'
    BY <1>10 DEF TypeOK, SyncRead, Goto, Over
  <2>2. OpSteps'
    BY <1>10 DEF TypeOK, OpSteps, SyncRead, Goto
  <2>3. QED
    BY <2>1, <2>2
<1>11. CASE SyncInsert(r)
  <2>1. PICK i \in scan[r] :
           /\ ins' = [ins EXCEPT ![r] = @ \cup {NewRow(r, NameOf[Paths[i]], Paths[i])}]
           /\ imported' = [imported EXCEPT ![r] = @ \cup {Paths[i]}]
           /\ scan' = [scan EXCEPT ![r] = @ \ {i}]
    BY <1>11 DEF SyncInsert
  <2>2. Paths[i] \in Files
    BY PathsOfFiles DEF TypeOK
  <2>3. NewRow(r, NameOf[Paths[i]], Paths[i]) \in Row
    BY <2>2, NewRowTyped, PathsAssumption DEF Writer
  <2>4. TypeOK'
    BY <1>11, <2>1, <2>2, <2>3 DEF TypeOK, SyncInsert, Goto, Over
  <2>5. OpSteps'
    BY <1>11 DEF TypeOK, OpSteps, SyncInsert, Goto
  <2>6. QED
    BY <2>4, <2>5
<1>12. CASE SyncError(r)
  <2>1. TypeOK'
    BY <1>12 DEF TypeOK, SyncError, Goto, Over
  <2>2. OpSteps'
    BY <1>12 DEF TypeOK, OpSteps, SyncError, Goto
  <2>3. QED
    BY <2>1, <2>2
<1>13. CASE SyncDelete(r)
  <2>1. Ids({row \in rows : row.path \in job[r].deletes}) \subseteq Id
    BY RowTyped DEF TypeOK, Ids
  <2>2. TypeOK'
    BY <1>13, <2>1 DEF TypeOK, SyncDelete, Goto, sync, Over
  <2>3. OpSteps'
    BY <1>13 DEF TypeOK, OpSteps, SyncDelete, Goto
  <2>4. QED
    BY <2>2, <2>3
<1>14. CASE Commit(r)
  <2>1. Visible(r) \subseteq Row
    BY DEF Visible, TypeOK
  <2>2. Merge(Visible(r), r) \subseteq Row
    BY <2>1, UpdatedTyped DEF Merge
  <2>3. TypeOK'
    BY <1>14, <2>2 DEF TypeOK, Commit, Goto, Over
  <2>4. OpSteps'
    BY <1>14 DEF TypeOK, OpSteps, Commit, Goto
  <2>5. QED
    BY <2>3, <2>4
<1>15. QED
  BY <1>1, <1>2, <1>3, <1>4, <1>5, <1>6, <1>7, <1>8, <1>9, <1>10, <1>11, <1>12, <1>13, <1>14
     DEF Step

LEMMA Basics == Spec => []BasicInv
<1>1. BasicInv /\ [Next]_vars => BasicInv'
  <2> SUFFICES ASSUME BasicInv, [Next]_vars PROVE BasicInv'
    OBVIOUS
  <2>1. ASSUME NEW r \in Requests, Abort(r) PROVE BasicInv'
    <3>1. job[r].op = "delete" => job[r].row.path \in Files
      BY JobTyped, RowTyped DEF BasicInv
    <3>2. lost' \subseteq Files
      BY <2>1, <3>1 DEF Abort, BasicInv, TypeOK
    <3>3. QED
      BY <2>1, <3>2, RollBackBasic DEF Abort
  <2>2. CASE UNCHANGED vars
    BY <2>2 DEF vars, BasicInv, TypeOK, OpSteps
  <2>3. QED
    BY <2>1, <2>2, StartBasic, StepBasic DEF Next
<1>2. QED
  BY <1>1, InitBasic, PTL DEF Spec

\* Every variable keeps its shape, and a request that is over holds no row and
\* no lock (TypeOK).
THEOREM TypeCorrect == Spec => []TypeOK
  BY Basics, PTL DEF BasicInv
-----------------------------------------------------------------------------
(* Whose rows, and what an update overwrites.                               *)

Done(w) == w = Seed \/ (w \in Requests /\ pc[w] = "ok")

\* Committed rows, and the rows requests have loaded, are of requests that are
\* done; a row a request has inserted is its own and nobody has updated it.
OwnersInv ==
    /\ \A row \in rows : Done(row.id[1]) /\ row.path = row.id[2]
    /\ \A r \in Requests : \A row \in ins[r] :
          row.id = <<r, row.path>> /\ row.meta = [f \in Fields |-> r]
    /\ \A r \in Requests : job[r].op \in {"update", "delete"} =>
          Done(job[r].row.id[1]) /\ job[r].row.path = job[r].row.id[2]

\* What a step of r that does not commit leaves alone.
Quiet(r) ==
    /\ rows' = rows
    /\ pc[r] \notin {"ok", "failed"} /\ pc'[r] # "ok"
    /\ \A s \in Others(r) : pc'[s] = pc[s] /\ job'[s] = job[s] /\ ins'[s] = ins[s]
    /\ \/ job'[r] = job[r]
       \/ job'[r].op \in {"update", "delete"} => job'[r].row \in rows
    /\ \A row \in ins'[r] :
          row \in ins[r] \/ \E n \in Names, p \in Files : row = NewRow(r, n, p)

LEMMA QuietSteps ==
    ASSUME BasicInv, NEW r \in Requests, Start(r) \/ Step(r) \/ Abort(r)
    PROVE  Quiet(r) \/ Commit(r)
<1> USE DEF BasicInv, Others
<1>1. ASSUME RollBack(r), UNCHANGED rows, pc[r] \notin Over
      PROVE  Quiet(r)
  BY <1>1 DEF RollBack, Goto, Quiet, NoJob, TypeOK, Over
<1>2. CASE Start(r)
  <2>1. ASSUME NEW j, NEW step \in {"write", "flush", "remove", "scan"}, Begin(r, j, step),
               j.op \in {"update", "delete"} => j.row \in rows
        PROVE  Quiet(r)
    BY <2>1 DEF Begin, Goto, Quiet, TypeOK
  <2>2. QED
    BY <1>2, <2>1 DEF Start, BeginCreate, BeginUpdate, BeginDelete, BeginSync
<1>3. CASE Abort(r)
  BY <1>3, <1>1 DEF Abort
<1>4. CASE CreateWrite(r) \/ UpdateWrite(r) \/ DeleteFile(r) \/ DeleteFlush(r)
           \/ SyncScan(r) \/ SyncKnown(r) \/ SyncRead(r) \/ SyncError(r)
  BY <1>4 DEF CreateWrite, UpdateWrite, DeleteFile, DeleteFlush, SyncScan, SyncKnown, SyncRead,
              SyncError, Goto, Quiet, TypeOK
<1>5. CASE CreateInsert(r)
  <2>1. job[r].name \in Names /\ job[r].path \in Files
    BY <1>5, JobTyped DEF CreateInsert
  <2>2. QED
    BY <1>5, <2>1 DEF CreateInsert, Goto, Quiet, TypeOK
<1>6. CASE CreateConflict(r)
  BY <1>6, <1>1 DEF CreateConflict, Refuse, Over
<1>7. CASE UpdateFlush(r)
  <2>1. CASE Refuse(r)
    BY <1>7, <2>1, <1>1 DEF UpdateFlush, Refuse, Over
  <2>2. CASE Goto(r, "commit") /\ UNCHANGED <<rows, file, job, ins, del, sync, lost>>
    BY <1>7, <2>2 DEF UpdateFlush, Goto, Quiet, TypeOK
  <2>3. QED
    BY <1>7, <2>1, <2>2 DEF UpdateFlush
<1>8. CASE SyncInsert(r)
  <2>1. PICK i \in scan[r] : ins' = [ins EXCEPT ![r] = @ \cup {NewRow(r, NameOf[Paths[i]], Paths[i])}]
    BY <1>8 DEF SyncInsert
  <2>2. Paths[i] \in Files /\ NameOf[Paths[i]] \in Names
    BY PathsOfFiles, PathsAssumption DEF TypeOK
  <2>3. QED
    BY <1>8, <2>1, <2>2 DEF SyncInsert, Goto, Quiet, TypeOK
<1>9. CASE SyncDelete(r)
  BY <1>9 DEF SyncDelete, Goto, Quiet, TypeOK
<1>10. QED
  BY <1>2, <1>3, <1>4, <1>5, <1>6, <1>7, <1>8, <1>9 DEF Step

LEMMA QuietOwners ==
    ASSUME BasicInv, OwnersInv, NoLostUpdate, NEW r \in Requests, Quiet(r)
    PROVE  OwnersInv' /\ NoLostUpdate'
<1>1. \A w : Done(w) => Done(w)'
  BY DEF Done, Quiet, Others
<1>2. OwnersInv'
  <2>1. \A row \in rows' : Done(row.id[1])' /\ row.path = row.id[2]
    BY <1>1 DEF OwnersInv, Quiet
  <2>2. \A s \in Requests : \A row \in ins'[s] :
           row.id = <<s, row.path>> /\ row.meta = [f \in Fields |-> s]
    <3> SUFFICES ASSUME NEW s \in Requests, NEW row \in ins'[s]
                 PROVE  row.id = <<s, row.path>> /\ row.meta = [f \in Fields |-> s]
      OBVIOUS
    <3>1. CASE row \in ins[s]
      BY <3>1 DEF OwnersInv
    <3>2. CASE row \notin ins[s]
      <4>1. s = r
        BY <3>2 DEF Quiet, Others
      <4>2. PICK n \in Names, p \in Files : row = NewRow(r, n, p)
        BY <3>2, <4>1 DEF Quiet
      <4>3. QED
        BY <4>1, <4>2 DEF NewRow
    <3>3. QED
      BY <3>1, <3>2
  <2>3. ASSUME NEW s \in Requests, job'[s].op \in {"update", "delete"}
        PROVE  Done(job[s].row.id[1])' /\ job'[s].row.path = job'[s].row.id[2]
    <3>1. job'[s] = job[s] \/ job'[s].row \in rows
      BY <2>3 DEF Quiet, Others
    <3>2. CASE job'[s] = job[s]
      BY <2>3, <3>2, <1>1 DEF OwnersInv, Done
    <3>3. CASE job'[s].row \in rows
      BY <3>3, <1>1 DEF OwnersInv, Done
    <3>4. QED
      BY <3>1, <3>2, <3>3
  <2>4. QED
    BY <2>1, <2>2, <2>3 DEF OwnersInv
<1>3. \A id, f : Setters(id, f)' = Setters(id, f)
  <2>1. \A s \in Requests : \/ pc'[s] = pc[s] /\ job'[s] = job[s]
                            \/ pc'[s] # "ok" /\ pc[s] # "ok"
    BY DEF Quiet, Others
  <2>2. QED
    BY <2>1 DEF Setters
<1>4. NoLostUpdate'
  BY <1>3 DEF NoLostUpdate, Quiet
<1>5. QED
  BY <1>2, <1>4

\* What a commit makes of the rows: of those a request sees, one may be updated.
LEMMA Merged ==
    ASSUME BasicInv, NEW r \in Requests, NEW new \in Merge(Visible(r), r)
    PROVE  \E old \in Visible(r) :
              /\ new = old \/ (job[r].op = "update" /\ old.id = job[r].row.id /\ new = Updated(old, r))
              /\ job[r].op = "update" /\ old.id = job[r].row.id => new = Updated(old, r)
              /\ new.id = old.id /\ new.name = old.name /\ new.path = old.path
<1>2. \A old \in Visible(r) : old \in Row
  BY DEF Visible, BasicInv, TypeOK
<1>3. \A old \in Row : LET u == Updated(old, r) IN u.id = old.id /\ u.name = old.name /\ u.path = old.path
  BY DEF Updated, Row
<1>4. QED
  BY <1>2, <1>3 DEF Merge

\* Nothing a request is asked concerns a row that is not committed.
LEMMA NoSettersYet ==
    ASSUME OwnersInv, SeedAssumption, NEW r \in Requests, pc[r] # "ok", NEW p, NEW f
    PROVE  Setters(<<r, p>>, f) = {}
  BY SeedAssumption DEF OwnersInv, Done, Setters

LEMMA CommitOwners ==
    ASSUME BasicInv, OwnersInv, NoLostUpdate, NEW r \in Requests, Commit(r)
    PROVE  OwnersInv' /\ NoLostUpdate'
<1> USE DEF BasicInv
<1>1. /\ pc[r] = "commit" /\ pc' = [pc EXCEPT ![r] = "ok"] /\ job' = job
      /\ ins' = [ins EXCEPT ![r] = {}] /\ rows' = Merge(Visible(r), r)
  BY DEF Commit, Goto
<1>2. \A w : Done(w) => Done(w)'
  BY <1>1 DEF Done, TypeOK
<1>3. Done(r)'
  BY <1>1 DEF Done, TypeOK
<1>4. \A old \in Visible(r) : old \in Row /\ Done(old.id[1])' /\ old.path = old.id[2]
  BY <1>2, <1>3 DEF Visible, OwnersInv, TypeOK
<1>5. OwnersInv'
  <2>1. \A row \in rows' : Done(row.id[1])' /\ row.path = row.id[2]
    BY <1>1, <1>4, Merged
  <2>2. \A s \in Requests : \A row \in ins'[s] :
           row.id = <<s, row.path>> /\ row.meta = [f \in Fields |-> s]
    BY <1>1 DEF OwnersInv, TypeOK
  <2>3. QED
    BY <1>1, <1>2, <2>1, <2>2 DEF OwnersInv
<1>6. ASSUME NEW new \in rows', NEW f \in Fields
      PROVE  new.meta[f] \in IF Setters(new.id, f)' = {} THEN {new.id[1]} ELSE Setters(new.id, f)'
  <2>1. PICK old \in Visible(r) :
           /\ new = old \/ (job[r].op = "update" /\ old.id = job[r].row.id /\ new = Updated(old, r))
           /\ job[r].op = "update" /\ old.id = job[r].row.id => new = Updated(old, r)
           /\ new.id = old.id /\ new.name = old.name /\ new.path = old.path
    BY <1>1, Merged
  <2>2. CASE job[r].op = "update" /\ old.id = job[r].row.id /\ f \in job[r].sets
    <3>1. new.meta[f] = r
      BY <2>1, <2>2, <1>4 DEF Updated, Row
    <3>2. r \in Setters(new.id, f)'
      BY <1>1, <2>1, <2>2 DEF Setters, TypeOK
    <3>3. QED
      BY <3>1, <3>2
  <2>3. CASE ~ (job[r].op = "update" /\ old.id = job[r].row.id /\ f \in job[r].sets)
    <3>1. new.meta[f] = old.meta[f]
      BY <2>1, <2>3, <1>4 DEF Updated, Row
    <3>2. Setters(new.id, f)' = Setters(old.id, f)
      BY <1>1, <2>1, <2>3 DEF Setters, TypeOK
    <3>3. old.meta[f] \in IF Setters(old.id, f) = {} THEN {old.id[1]} ELSE Setters(old.id, f)
      <4>1. CASE old \in rows
        BY <4>1 DEF NoLostUpdate
      <4>2. CASE old \in ins[r]
        <5>1. old.id = <<r, old.path>> /\ old.meta[f] = r
          <6>1. old.id = <<r, old.path>> /\ old.meta = [g \in Fields |-> r]
            BY <4>2 DEF OwnersInv
          <6>2. QED
            BY <6>1
        <5>2. Setters(old.id, f) = {}
          BY <5>1, <1>1, NoSettersYet, SeedAssumption
        <5>3. QED
          BY <5>1, <5>2
      <4>3. QED
        BY <4>1, <4>2 DEF Visible
    <3>4. QED
      BY <2>1, <3>1, <3>2, <3>3
  <2>4. QED
    BY <2>2, <2>3
<1>7. NoLostUpdate'
  BY <1>6 DEF NoLostUpdate
<1>8. QED
  BY <1>5, <1>7

LEMMA Owners == Spec => [](OwnersInv /\ NoLostUpdate)
<1>1. Init => OwnersInv /\ NoLostUpdate
  <2> SUFFICES ASSUME Init PROVE OwnersInv /\ NoLostUpdate
    OBVIOUS
  <2>1. /\ \A row \in rows : \E n \in Names : row = NewRow(Seed, n, PathOf[n])
        /\ pc = [r \in Requests |-> "idle"] /\ job = [r \in Requests |-> NoJob]
        /\ ins = [r \in Requests |-> {}]
    BY DEF Init
  <2>2. OwnersInv
    BY <2>1 DEF OwnersInv, NewRow, Done, NoJob
  <2>3. \A id, f : Setters(id, f) = {}
    BY <2>1 DEF Setters
  <2>4. NoLostUpdate
    BY <2>1, <2>3 DEF NoLostUpdate, NewRow
  <2>5. QED
    BY <2>2, <2>4
<1>2. BasicInv /\ OwnersInv /\ NoLostUpdate /\ [Next]_vars => OwnersInv' /\ NoLostUpdate'
  <2> SUFFICES ASSUME BasicInv, OwnersInv, NoLostUpdate, [Next]_vars
               PROVE  OwnersInv' /\ NoLostUpdate'
    OBVIOUS
  <2>1. CASE UNCHANGED vars
    BY <2>1 DEF vars, OwnersInv, NoLostUpdate, Setters, Done
  <2>2. QED
    BY <2>1, QuietSteps, QuietOwners, CommitOwners DEF Next
<1>3. QED
  BY <1>1, <1>2, Basics, PTL DEF Spec

\* No update undoes another one (NoLostUpdate): a field of a row has the value
\* of one of the answered updates that set it, or of its creator.
THEOREM UpdatesAreKept == Spec => []NoLostUpdate
  BY Owners, PTL
-----------------------------------------------------------------------------
(* What a request holds until it commits, and what its answer says.         *)

\* What r has deleted is what it was asked to; what it will answer for is among
\* the rows it has inserted, or was deleted by the same sync.
Held(r) ==
    /\ \A id \in del[r] :
          /\ pc[r] = "commit"
          /\ \/ job[r].op = "delete" /\ id = job[r].row.id
             \/ job[r].op = "sync" /\ id[2] \in job[r].deletes
    /\ pc[r] = "commit" /\ job[r].op = "delete" /\ job[r].row.id \in Ids(rows)
          => job[r].row.id \in del[r]
    /\ pc[r] = "commit" /\ job[r].op = "create" => <<r, job[r].path>> \in Ids(ins[r])
    /\ job[r].op = "sync" /\ pc[r] \notin Over => \A p \in imported[r] :
          <<r, p>> \in Ids(ins[r]) \/ (pc[r] = "commit" /\ p \in job[r].deletes)
    /\ job[r].op # "sync" => imported[r] = {}

HeldInv == \A r \in Requests : Held(r)

\* No step of r changes what another request holds.
Apart(r) ==
    \A s \in Others(r) :
        /\ pc'[s] = pc[s] /\ job'[s] = job[s] /\ ins'[s] = ins[s]
        /\ del'[s] = del[s] /\ imported'[s] = imported[s]

Apartness(r) == Apart(r) /\ Held(r)'

LEMMA HeldRolledBack ==
    ASSUME BasicInv, HeldInv, NEW r \in Requests, RollBack(r)
    PROVE  Apartness(r)
  BY DEF BasicInv, TypeOK, RollBack, Goto, Apartness, Apart, Others, Held, NoJob, Over

LEMMA HeldStarted ==
    ASSUME BasicInv, HeldInv, NEW r \in Requests, Start(r)
    PROVE  Apartness(r)
<1>1. ASSUME NEW j, NEW step \in {"write", "flush", "remove", "scan"}, Begin(r, j, step)
      PROVE  Apartness(r)
  <2>1. imported[r] = {} /\ del[r] = {}
    <3>1. pc[r] = "idle" /\ Held(r)
      BY <1>1 DEF Begin, HeldInv
    <3>2. job[r].op = "none" /\ del[r] = {}
      BY <3>1 DEF BasicInv, OpSteps, NoJob, TypeOK, Over
    <3>3. QED
      BY <3>1, <3>2 DEF Held
  <2>2. QED
    BY <1>1, <2>1 DEF BasicInv, TypeOK, Begin, Goto, sync, Apartness, Apart, Others, Held
<1>2. QED
  BY <1>1 DEF Start, BeginCreate, BeginUpdate, BeginDelete, BeginSync

LEMMA HeldStepped ==
    ASSUME BasicInv, OwnersInv, HeldInv, NEW r \in Requests, Step(r)
    PROVE  Apartness(r)
<1> USE DEF BasicInv
<1>0. Held(r)
  BY DEF HeldInv
<1>1. CASE CreateWrite(r) \/ UpdateWrite(r) \/ DeleteFile(r)
  BY <1>0, <1>1 DEF CreateWrite, UpdateWrite, DeleteFile, Goto, sync, TypeOK, OpSteps,
                    Apartness, Apart, Others, Held
<1>2. CASE CreateInsert(r)
  <2>1. ins'[r] = {NewRow(r, job[r].name, job[r].path)} /\ pc'[r] = "commit" /\ job' = job
    BY <1>2 DEF CreateInsert, Goto, TypeOK
  <2>2. <<r, job[r].path>> \in Ids(ins[r])'
    BY <2>1 DEF Ids, NewRow
  <2>3. QED
    BY <1>0, <1>2, <2>1, <2>2 DEF CreateInsert, Goto, sync, TypeOK, Apartness, Apart, Others, Held
<1>3. CASE CreateConflict(r)
  BY <1>3, HeldRolledBack DEF CreateConflict, Refuse
<1>4. CASE UpdateFlush(r)
  <2>1. CASE Refuse(r)
    BY <2>1, HeldRolledBack DEF Refuse
  <2>2. CASE Goto(r, "commit") /\ UNCHANGED <<rows, file, job, ins, del, sync, lost>>
    BY <1>0, <1>4, <2>2 DEF UpdateFlush, Goto, sync, TypeOK, Apartness, Apart, Others, Held
  <2>3. QED
    BY <1>4, <2>1, <2>2 DEF UpdateFlush
<1>5. CASE DeleteFlush(r)
  BY <1>0, <1>5 DEF DeleteFlush, Goto, sync, TypeOK, Apartness, Apart, Others, Held
<1>6. CASE SyncScan(r) \/ SyncKnown(r) \/ SyncRead(r) \/ SyncError(r)
  BY <1>0, <1>6 DEF SyncScan, SyncKnown, SyncRead, SyncError, Goto, TypeOK, OpSteps,
                    Apartness, Apart, Others, Held, Over
<1>7. CASE SyncInsert(r)
  <2>1. PICK i \in scan[r] :
           /\ ins' = [ins EXCEPT ![r] = @ \cup {NewRow(r, NameOf[Paths[i]], Paths[i])}]
           /\ imported' = [imported EXCEPT ![r] = @ \cup {Paths[i]}]
    BY <1>7 DEF SyncInsert
  <2>2. \A p \in imported'[r] : <<r, p>> \in Ids(ins[r])'
    <3>1. imported'[r] = imported[r] \cup {Paths[i]}
      BY <2>1 DEF TypeOK
    <3>2. ins'[r] = ins[r] \cup {NewRow(r, NameOf[Paths[i]], Paths[i])}
      BY <2>1 DEF TypeOK
    <3>3. \A p \in imported[r] : <<r, p>> \in Ids(ins[r])
      BY <1>0, <1>7 DEF SyncInsert, Held, Over
    <3>4. NewRow(r, NameOf[Paths[i]], Paths[i]).id = <<r, Paths[i]>>
      BY DEF NewRow
    <3>5. QED
      BY <3>1, <3>2, <3>3, <3>4 DEF Ids
  <2>3. QED
    BY <1>0, <1>7, <2>1, <2>2 DEF SyncInsert, Goto, TypeOK, Apartness, Apart, Others, Held
<1>8. CASE SyncDelete(r)
  <2>1. job[r].op = "sync" /\ pc[r] = "delete"
    BY <1>8 DEF SyncDelete, OpSteps
  <2>2. \A id \in del'[r] : id[2] \in job[r].deletes
    BY <1>8 DEF SyncDelete, TypeOK, Ids, OwnersInv
  <2>3. \A p \in imported[r] : <<r, p>> \in Ids(ins[r])' \/ p \in job[r].deletes
    <3>1. ASSUME NEW p \in imported[r], p \notin job[r].deletes PROVE <<r, p>> \in Ids(ins[r])'
      <4>1. PICK row \in ins[r] : row.id = <<r, p>>
        BY <1>0, <2>1, <3>1 DEF Held, Ids, Over
      <4>2. row.path = p
        BY <4>1 DEF OwnersInv
      <4>3. row \in ins'[r]
        BY <1>8, <3>1, <4>1, <4>2 DEF SyncDelete, TypeOK
      <4>4. QED
        BY <4>1, <4>3 DEF Ids
    <3>2. QED
      BY <3>1
  <2>4. QED
    BY <1>8, <2>1, <2>2, <2>3 DEF SyncDelete, Goto, sync, TypeOK, Apartness, Apart, Others, Held
<1>9. CASE Commit(r)
  BY <1>0, <1>9 DEF Commit, Goto, TypeOK, Apartness, Apart, Others, Held, Over
<1>10. QED
  BY <1>1, <1>2, <1>3, <1>4, <1>5, <1>6, <1>7, <1>8, <1>9 DEF Step

\* A commit adds no rows but those of the request.
LEMMA IdsCommitted ==
    ASSUME BasicInv, OwnersInv, NEW r \in Requests, Commit(r)
    PROVE  /\ Ids(rows)' = Ids(Visible(r))
           /\ \A id \in Ids(ins[r]) : id[1] = r
<1>1. rows' = Merge(Visible(r), r)
  BY DEF Commit
<1>2. \A new \in rows' : new.id \in Ids(Visible(r))
  BY <1>1, Merged DEF Ids
<1>3. \A old \in Visible(r) : old \in Row
  BY DEF Visible, BasicInv, TypeOK
<1>4. \A old \in Visible(r) : old.id \in Ids(rows)'
  <2>1. \A old \in Row : Updated(old, r).id = old.id
    BY DEF Updated, Row
  <2>2. QED
    BY <1>1, <1>3, <2>1 DEF Merge, Ids
<1>5. QED
  BY <1>2, <1>4 DEF Ids, OwnersInv

LEMMA HeldByOthers ==
    ASSUME BasicInv, OwnersInv, HeldInv, NEW r \in Requests, Apartness(r), Quiet(r) \/ Commit(r)
    PROVE  HeldInv'
<1> SUFFICES ASSUME NEW s \in Others(r) PROVE Held(s)'
  BY DEF HeldInv, Apartness, Others
<1>1. s \in Requests /\ s # r
  BY DEF Others
<1>2. Held(s)
  BY <1>1 DEF HeldInv
<1>3. job[s].op = "delete" /\ job[s].row.id \in Ids(rows)' => job[s].row.id \in Ids(rows)
  <2>1. CASE Quiet(r)
    BY <2>1 DEF Quiet, Ids
  <2>2. CASE Commit(r)
    <3>1. job[s].op = "delete" => Done(job[s].row.id[1])
      BY <1>1 DEF OwnersInv
    <3>2. ~ Done(r)
      BY <2>2, SeedAssumption DEF Commit, Done
    <3>3. QED
      <4>1. SUFFICES ASSUME job[s].op = "delete", job[s].row.id \in Ids(Visible(r))
                     PROVE  job[s].row.id \in Ids(rows)
        BY <2>2, IdsCommitted
      <4>2. job[s].row.id \notin Ids(ins[r])
        BY <2>2, <3>1, <3>2, <4>1, IdsCommitted
      <4>3. QED
        BY <4>1, <4>2 DEF Visible, Ids
  <2>3. QED
    BY <2>1, <2>2
<1>4. QED
  BY <1>1, <1>2, <1>3 DEF Apartness, Apart, Held

LEMMA QuietAnswers ==
    ASSUME AnswersHold, NEW r \in Requests, Apartness(r), Quiet(r)
    PROVE  AnswersHold'
<1>1. \A s \in Requests :
         \/ pc'[s] = pc[s] /\ job'[s] = job[s] /\ imported'[s] = imported[s]
         \/ pc'[s] # "ok" /\ pc[s] # "ok"
  BY DEF Quiet, Apartness, Apart, Others
<1>2. \A row : Deleters(row)' = Deleters(row)
  BY <1>1 DEF Deleters
<1>3. Ids(rows)' = Ids(rows)
  BY DEF Quiet, Ids
<1>4. QED
  BY <1>1, <1>2, <1>3 DEF AnswersHold

LEMMA CommitAnswers ==
    ASSUME BasicInv, OwnersInv, HeldInv, AnswersHold, NEW r \in Requests, Commit(r)
    PROVE  AnswersHold'
<1> DEFINE Answered(q) == IF job[q].op = "create" THEN {job[q].path} ELSE imported[q]
<1>1. /\ pc[r] = "commit" /\ pc' = [pc EXCEPT ![r] = "ok"] /\ job' = job
      /\ imported' = imported /\ r \in DOMAIN pc
  BY DEF Commit, Goto, BasicInv, TypeOK
<1>2. \A s \in Requests : pc'[s] = "ok" <=> s = r \/ pc[s] = "ok"
  BY <1>1 DEF BasicInv, TypeOK
<1>3. ~ Done(r)
  BY <1>1, SeedAssumption DEF Done
<1>4. ASSUME NEW q \in Requests, pc'[q] = "ok", NEW p \in Answered(q), <<q, p>> \notin Ids(rows)'
      PROVE  Deleters(<< <<q, p>>, p >>)' # {}
  <2>1. <<q, p>> \notin Ids(Visible(r))
    BY <1>4, IdsCommitted
  <2>2. CASE q = r
    <3>1. <<r, p>> \notin Ids(ins[r])
      BY <2>1, <2>2 DEF Visible, Ids
    <3>2. job[r].op = "sync" /\ p \in job[r].deletes
      BY <1>1, <1>4, <2>2, <3>1 DEF HeldInv, Held, Over
    <3>3. r \in Deleters(<< <<q, p>>, p >>)'
      BY <1>1, <1>2, <3>2 DEF Deleters
    <3>4. QED
      BY <3>3
  <2>3. CASE q # r /\ <<q, p>> \in Ids(rows)
    <3>1. <<q, p>> \in del[r]
      BY <2>1, <2>3 DEF Visible, Ids
    <3>2. \/ job[r].op = "delete" /\ <<q, p>> = job[r].row.id
          \/ job[r].op = "sync" /\ p \in job[r].deletes
      BY <3>1 DEF HeldInv, Held
    <3>3. r \in Deleters(<< <<q, p>>, p >>)'
      BY <1>1, <1>2, <3>2 DEF Deleters
    <3>4. QED
      BY <3>3
  <2>4. CASE q # r /\ <<q, p>> \notin Ids(rows)
    <3>1. pc[q] = "ok"
      BY <1>2, <1>4, <2>4
    <3>2. PICK s \in Requests : s \in Deleters(<< <<q, p>>, p >>)
      BY <1>4, <2>4, <3>1 DEF AnswersHold, Deleters
    <3>3. s \in Deleters(<< <<q, p>>, p >>)'
      BY <1>1, <1>2, <3>2 DEF Deleters
    <3>4. QED
      BY <3>3
  <2>5. QED
    BY <2>2, <2>3, <2>4
<1>5. ASSUME NEW q \in Requests, pc'[q] = "ok", job[q].op = "delete"
      PROVE  job[q].row.id \notin Ids(rows)'
  <2>1. Done(job[q].row.id[1])
    BY <1>5 DEF OwnersInv
  <2>2. job[q].row.id \notin Ids(ins[r])
    BY <1>3, <2>1, IdsCommitted
  <2>3. job[q].row.id \in Ids(rows) => q = r /\ job[q].row.id \in del[r]
    BY <1>1, <1>2, <1>5 DEF AnswersHold, HeldInv, Held
  <2>4. job[q].row.id \notin Ids(Visible(r))
    BY <2>2, <2>3 DEF Visible, Ids
  <2>5. QED
    BY <2>4, IdsCommitted
<1>6. QED
  BY <1>1, <1>4, <1>5 DEF AnswersHold

LEMMA Answers == Spec => [](HeldInv /\ AnswersHold)
<1>1. Init => HeldInv /\ AnswersHold
  BY DEF Init, HeldInv, Held, AnswersHold, NoJob, Over
<1>2. BasicInv /\ OwnersInv /\ HeldInv /\ AnswersHold /\ [Next]_vars => HeldInv' /\ AnswersHold'
  <2> SUFFICES ASSUME BasicInv, OwnersInv, HeldInv, AnswersHold, [Next]_vars
               PROVE  HeldInv' /\ AnswersHold'
    OBVIOUS
  <2>1. CASE UNCHANGED vars
    <3>1. /\ \A row : Deleters(row)' = Deleters(row)
          /\ Ids(rows)' = Ids(rows)
          /\ \A r \in Requests : Ids(ins[r])' = Ids(ins[r])
      BY <2>1 DEF vars, Deleters, Ids
    <3>2. HeldInv'
      BY <2>1, <3>1 DEF vars, sync, HeldInv, Held
    <3>3. AnswersHold'
      BY <2>1, <3>1 DEF vars, sync, AnswersHold
    <3>4. QED
      BY <3>2, <3>3
  <2>2. CASE Next
    <3>1. PICK r \in Requests : Start(r) \/ Step(r) \/ Abort(r)
      BY <2>2 DEF Next
    <3>2. Apartness(r)
      BY <3>1, HeldStarted, HeldStepped, HeldRolledBack DEF Abort
    <3>3. Quiet(r) \/ Commit(r)
      BY <3>1, QuietSteps
    <3>4. QED
      BY <3>2, <3>3, HeldByOthers, QuietAnswers, CommitAnswers
  <2>3. QED
    BY <2>1, <2>2
<1>3. QED
  BY <1>1, <1>2, Basics, Owners, PTL DEF Spec

\* What an answer says of rows is so (AnswersHold): created and imported
\* templates are registered until an answered request deletes them, deleted ones
\* are not.
THEOREM AnswersAreTrue == Spec => []AnswersHold
  BY Answers, PTL
-----------------------------------------------------------------------------
(* Names are unique, and what that says of paths.                           *)

\* No two rows have one name, among those committed and those inserted; a row
\* has the name of its path unless a create made it.
NamesInv ==
    /\ \A r \in Requests : \A row \in ins[r] :
          job[r].op = "create" \/ (job[r].op = "sync" /\ row.name = NameOf[row.path])
    /\ \A row \in rows :
          \/ row.name = NameOf[row.path]
          \/ \E r \in Requests : row.id[1] = r /\ pc[r] = "ok" /\ job[r].op = "create"
    /\ \A a, b \in rows : a.name = b.name => a = b
    /\ \A a \in rows, r \in Requests : \A b \in ins[r] : a.name # b.name
    /\ \A r, s \in Requests : \A a \in ins[r], b \in ins[s] : a.name = b.name => a = b

\* A row r adds has a name nobody has.
Fresh(r, row) ==
    /\ job'[r].op = "create" \/ (job'[r].op = "sync" /\ row.name = NameOf[row.path])
    /\ \A a \in rows : a.name # row.name
    /\ \A s \in Requests : \A b \in ins[s] : b.name # row.name

Adds(r) ==
    /\ \A row \in ins'[r] : (row \in ins[r] /\ job'[r] = job[r]) \/ Fresh(r, row)
    /\ \A a, b \in ins'[r] \ ins[r] : a = b

LEMMA NameFree ==
    ASSUME BasicInv, HeldInv, NEW r \in Requests, pc[r] = "insert", NEW n,
           ~ NameInDoubt(r, n), ~ NameTaken(r, n)
    PROVE  /\ \A a \in rows : a.name # n
           /\ \A s \in Requests : \A b \in ins[s] : b.name # n
<1>1. del[r] = {}
  BY DEF HeldInv, Held
<1>2. QED
  BY <1>1 DEF NameInDoubt, NameTaken, Visible, Others

LEMMA QuietAdds ==
    ASSUME BasicInv, HeldInv, NEW r \in Requests, Start(r) \/ Step(r) \/ Abort(r)
    PROVE  Adds(r)
<1> USE DEF BasicInv
<1>1. ASSUME ins'[r] = {} PROVE Adds(r)
  BY <1>1 DEF Adds
<1>2. CASE Start(r)
  <2>1. ins'[r] = {}
    BY <1>2 DEF Start, BeginCreate, BeginUpdate, BeginDelete, BeginSync, Begin, TypeOK, Over
  <2>2. QED
    BY <1>1, <2>1
<1>3. ASSUME RollBack(r) PROVE Adds(r)
  BY <1>1, <1>3 DEF RollBack, TypeOK
<1>4. CASE CreateWrite(r) \/ UpdateWrite(r) \/ DeleteFile(r) \/ DeleteFlush(r) \/ SyncScan(r)
           \/ SyncKnown(r) \/ SyncRead(r) \/ SyncError(r) \/ SyncDelete(r) \/ Commit(r)
  BY <1>4 DEF CreateWrite, UpdateWrite, DeleteFile, DeleteFlush, SyncScan, SyncKnown, SyncRead,
              SyncError, SyncDelete, Commit, TypeOK, Adds
<1>5. CASE CreateInsert(r)
  <2>1. ins'[r] = {NewRow(r, job[r].name, job[r].path)} /\ job' = job
    BY <1>5 DEF CreateInsert, TypeOK
  <2>2. Fresh(r, NewRow(r, job[r].name, job[r].path))
    BY <1>5, <2>1, NameFree DEF CreateInsert, Fresh, NewRow
  <2>3. QED
    BY <2>1, <2>2 DEF Adds
<1>6. CASE UpdateFlush(r)
  <2>1. CASE Refuse(r)
    BY <2>1, <1>3 DEF Refuse
  <2>2. CASE UNCHANGED <<rows, file, job, ins, del, sync, lost>>
    BY <2>2 DEF Adds
  <2>3. QED
    BY <1>6, <2>1, <2>2 DEF UpdateFlush
<1>7. CASE SyncInsert(r)
  <2>1. PICK i \in scan[r] :
           /\ ~ NameInDoubt(r, NameOf[Paths[i]]) /\ ~ NameTaken(r, NameOf[Paths[i]])
           /\ ins' = [ins EXCEPT ![r] = @ \cup {NewRow(r, NameOf[Paths[i]], Paths[i])}]
    BY <1>7 DEF SyncInsert
  <2>2. Fresh(r, NewRow(r, NameOf[Paths[i]], Paths[i]))
    BY <1>7, <2>1, NameFree DEF SyncInsert, Fresh, NewRow
  <2>3. ins'[r] = ins[r] \cup {NewRow(r, NameOf[Paths[i]], Paths[i])} /\ job' = job
    BY <1>7, <2>1 DEF SyncInsert, TypeOK
  <2>4. QED
    BY <2>2, <2>3 DEF Adds
<1>8. QED
  BY <1>2, <1>3, <1>4, <1>5, <1>6, <1>7 DEF Step, Abort, CreateConflict, Refuse

LEMMA QuietNames ==
    ASSUME NamesInv, NEW r \in Requests, Quiet(r), Adds(r)
    PROVE  NamesInv'
<1>1. \A s \in Requests : s # r => pc'[s] = pc[s] /\ job'[s] = job[s] /\ ins'[s] = ins[s]
  BY DEF Quiet, Others
<1>2. \A s \in Requests : \A row \in ins'[s] :
         row \in ins[s] \/ (s = r /\ row \in ins'[r] \ ins[r] /\ Fresh(r, row))
  BY <1>1 DEF Adds
<1>3. \A s \in Requests : \A row \in ins'[s] :
         job'[s].op = "create" \/ (job'[s].op = "sync" /\ row.name = NameOf[row.path])
  BY <1>1 DEF NamesInv, Adds, Fresh
<1>4. \A s \in Requests : pc[s] = "ok" => pc'[s] = "ok" /\ job'[s] = job[s]
  BY <1>1 DEF Quiet
<1>5. \A row \in rows' :
         \/ row.name = NameOf[row.path]
         \/ \E s \in Requests : row.id[1] = s /\ pc'[s] = "ok" /\ job'[s].op = "create"
  BY <1>4 DEF NamesInv, Quiet
<1>6. \A a, b \in rows' : a.name = b.name => a = b
  BY DEF NamesInv, Quiet
<1>7. \A a \in rows', s \in Requests : \A b \in ins'[s] : a.name # b.name
  BY <1>2 DEF NamesInv, Quiet, Fresh
<1>8. ASSUME NEW s \in Requests, NEW t \in Requests, NEW a \in ins'[s], NEW b \in ins'[t],
             a.name = b.name
      PROVE  a = b
  <2>1. CASE a \in ins[s] /\ b \in ins[t]
    BY <1>8, <2>1 DEF NamesInv
  <2>2. CASE a \notin ins[s] /\ b \notin ins[t]
    BY <1>2, <2>2 DEF Adds
  <2>3. CASE a \in ins[s] /\ b \notin ins[t]
    BY <1>2, <1>8, <2>3 DEF Fresh
  <2>4. CASE a \notin ins[s] /\ b \in ins[t]
    BY <1>2, <1>8, <2>4 DEF Fresh
  <2>5. QED
    BY <2>1, <2>2, <2>3, <2>4
<1>9. QED
  BY <1>3, <1>5, <1>6, <1>7, <1>8 DEF NamesInv

LEMMA CommitNames ==
    ASSUME BasicInv, OwnersInv, NamesInv, NEW r \in Requests, Commit(r)
    PROVE  NamesInv'
<1> DEFINE From(new, old) ==
      /\ new = old \/ (job[r].op = "update" /\ old.id = job[r].row.id /\ new = Updated(old, r))
      /\ job[r].op = "update" /\ old.id = job[r].row.id => new = Updated(old, r)
      /\ new.id = old.id /\ new.name = old.name /\ new.path = old.path
<1>1. /\ pc[r] = "commit" /\ pc' = [pc EXCEPT ![r] = "ok"] /\ job' = job
      /\ ins' = [ins EXCEPT ![r] = {}]
  BY DEF Commit, Goto
<1>2. \A new \in rows' : \E old \in Visible(r) : From(new, old)
  BY Merged DEF Commit
<1>3. \A s \in Requests : /\ pc[s] = "ok" => pc'[s] = "ok"
                          /\ ins'[s] = IF s = r THEN {} ELSE ins[s]
  BY <1>1 DEF BasicInv, TypeOK
<1>4. pc'[r] = "ok"
  BY <1>1 DEF BasicInv, TypeOK
<1>5. \A s \in Requests : \A row \in ins'[s] :
         job'[s].op = "create" \/ (job'[s].op = "sync" /\ row.name = NameOf[row.path])
  BY <1>1, <1>3 DEF NamesInv
<1>6. \A row \in rows' :
         \/ row.name = NameOf[row.path]
         \/ \E s \in Requests : row.id[1] = s /\ pc'[s] = "ok" /\ job'[s].op = "create"
  <2> SUFFICES ASSUME NEW row \in rows', row.name # NameOf[row.path]
               PROVE  \E s \in Requests : row.id[1] = s /\ pc'[s] = "ok" /\ job'[s].op = "create"
    OBVIOUS
  <2>1. PICK old \in Visible(r) : From(row, old)
    BY <1>2
  <2>2. CASE old \in rows
    BY <1>1, <1>3, <2>1, <2>2 DEF NamesInv
  <2>3. CASE old \in ins[r]
    <3>1. old.id[1] = r
      BY <2>3 DEF OwnersInv
    <3>2. job[r].op = "create"
      BY <2>1, <2>3 DEF NamesInv
    <3>3. QED
      BY <1>1, <1>4, <2>1, <3>1, <3>2
  <2>4. QED
    BY <2>2, <2>3 DEF Visible
<1>7. \A a, b \in Visible(r) : a.name = b.name => a = b
  BY DEF Visible, NamesInv
<1>8. \A a, b \in rows' : a.name = b.name => a = b
  <2> SUFFICES ASSUME NEW a \in rows', NEW b \in rows', a.name = b.name PROVE a = b
    OBVIOUS
  <2>1. PICK a0 \in Visible(r) : From(a, a0)
    BY <1>2
  <2>2. PICK b0 \in Visible(r) : From(b, b0)
    BY <1>2
  <2>3. a0 = b0
    BY <1>7, <2>1, <2>2
  <2>4. QED
    BY <2>1, <2>2, <2>3
<1>9. \A a \in rows', s \in Requests : \A b \in ins'[s] : a.name # b.name
  <2>0. SUFFICES ASSUME NEW a \in rows', NEW s \in Requests, NEW b \in ins[s],
                        s # r, a.name = b.name
                 PROVE  FALSE
    BY <1>3
  <2>1. PICK a0 \in Visible(r) : From(a, a0)
    BY <1>2
  <2> HIDE DEF From
  <2>a. a0.name = b.name
    BY <2>0, <2>1 DEF From
  <2>2. CASE a0 \in rows
    BY <2>2, <2>a DEF NamesInv
  <2>3. CASE a0 \in ins[r]
    <3>1. a0 = b
      BY <2>3, <2>a DEF NamesInv
    <3>2. a0.id[1] = r /\ b.id[1] = s
      BY <2>3 DEF OwnersInv
    <3>3. QED
      BY <2>0, <3>1, <3>2
  <2>4. QED
    BY <2>2, <2>3 DEF Visible
<1>10. \A s, t \in Requests : \A a \in ins'[s], b \in ins'[t] : a.name = b.name => a = b
  BY <1>3 DEF NamesInv
<1>11. QED
  BY <1>5, <1>6, <1>8, <1>9, <1>10 DEF NamesInv

LEMMA UniqueNames == Spec => []NamesInv
<1>1. Init => NamesInv
  <2> SUFFICES ASSUME Init PROVE NamesInv
    OBVIOUS
  <2>1. \A row \in rows : \E n \in Names : row = NewRow(Seed, n, PathOf[n])
    BY DEF Init
  <2>2. \A n \in Names : NameOf[PathOf[n]] = n
    BY PathsAssumption
  <2>3. \A row \in rows : row.name = NameOf[row.path]
    BY <2>1, <2>2 DEF NewRow
  <2>4. \A a, b \in rows : a.name = b.name => a = b
    BY <2>1 DEF NewRow
  <2>5. \A r \in Requests : ins[r] = {}
    BY DEF Init
  <2>6. QED
    BY <2>3, <2>4, <2>5 DEF NamesInv
<1>2. BasicInv /\ OwnersInv /\ HeldInv /\ NamesInv /\ [Next]_vars => NamesInv'
  <2> SUFFICES ASSUME BasicInv, OwnersInv, HeldInv, NamesInv, [Next]_vars PROVE NamesInv'
    OBVIOUS
  <2>1. CASE UNCHANGED vars
    BY <2>1 DEF vars, NamesInv
  <2>2. QED
    BY <2>1, QuietSteps, QuietAdds, QuietNames, CommitNames DEF Next
<1>3. QED
  BY <1>1, <1>2, Basics, Owners, Answers, PTL DEF Spec
-----------------------------------------------------------------------------
(* Rows and files.                                                          *)

\* A file is absent and nobody is to blame for it.
Gap(p) == file[p] = NoFile /\ p \notin lost

Remover(r, id) ==
    pc[r] \in {"flush", "commit"} /\ job[r].op = "delete" /\ job[r].row.id = id

\* The file of a row is there, but for a deletion under way; so is the one a
\* request is about to insert a row for.
Covered(r) ==
    /\ job[r].op = "create" /\ pc[r] \in {"insert", "commit"} => ~ Gap(job[r].path)
    /\ job[r].op = "sync" /\ pc[r] = "insert" =>
          \A i \in scan[r] : Turn(r, i) => ~ Gap(Paths[i])
    /\ \A row \in ins[r] : ~ Gap(row.path)

FilesInv ==
    /\ \A row \in rows : Gap(row.path) => \E r \in Requests : Remover(r, row.id)
    /\ \A r \in Requests : Covered(r)

\* A step of r opens no gap, covers what r is about to insert, and gives a
\* deletion up only by saying what was lost.
Closes(r) ==
    /\ \A p \in Files : Gap(p)' => Gap(p)
    /\ Covered(r)'
    /\ \A id, p : Remover(r, id) /\ job[r].row.path = p => Remover(r, id)' \/ ~ Gap(p)'
    /\ \A s \in Others(r) : scan'[s] = scan[s]

LEMMA ClosesRolledBack ==
    ASSUME BasicInv, FilesInv, NEW r \in Requests, RollBack(r), file' = file, lost \subseteq lost',
           job[r].op = "delete" /\ pc[r] # "remove" => job[r].row.path \in lost'
    PROVE  Closes(r)
<1>1. Covered(r)'
  BY DEF BasicInv, TypeOK, RollBack, Goto, Covered, NoJob
<1>2. QED
  BY <1>1 DEF BasicInv, TypeOK, RollBack, Closes, Gap, Remover, Others

LEMMA ClosesStarted ==
    ASSUME BasicInv, FilesInv, NEW r \in Requests, Start(r)
    PROVE  Closes(r)
<1>1. ASSUME NEW j, NEW step \in {"write", "flush", "remove", "scan"}, Begin(r, j, step)
      PROVE  Closes(r)
  <2>1. ins'[r] = {} /\ pc[r] = "idle" /\ pc'[r] = step
    BY <1>1 DEF Begin, Goto, BasicInv, TypeOK, Over
  <2>2. Covered(r)'
    BY <2>1 DEF Covered
  <2>3. QED
    BY <1>1, <2>1, <2>2 DEF Begin, sync, Closes, Gap, Remover
<1>2. QED
  BY <1>1 DEF Start, BeginCreate, BeginUpdate, BeginDelete, BeginSync

\* The file a sync has just read is there, and is the one it is at.
LEMMA AtTheFileRead ==
    ASSUME BasicInv, NEW r \in Requests, SyncRead(r), pc'[r] = "insert"
    PROVE  \A i \in scan'[r] : Turn(r, i)' => ~ Gap(Paths[i])'
<1>0. pc'[r] = "delete" \/
      \E i \in scan[r] : Importable(r, Paths[i]) /\ scan'[r] = {k \in scan[r] : ~ Before(r, k, i)}
  BY DEF SyncRead, Goto, BasicInv, TypeOK
<1>1. PICK i \in scan[r] : Importable(r, Paths[i]) /\ scan'[r] = {k \in scan[r] : ~ Before(r, k, i)}
  BY <1>0
<1>2. scan[r] \subseteq Nat
  BY PathsAssumption DEF BasicInv, TypeOK
<1>3. ~ Gap(Paths[i])'
  BY <1>1 DEF SyncRead, Importable, Gap
<1>4. i \in scan'[r]
  BY <1>1, <1>2 DEF Before
<1>5. ASSUME NEW k \in scan'[r], Turn(r, k)' PROVE k = i
  <2>1. k = i \/ k < i
    BY <1>4, <1>5 DEF Turn, Before
  <2>2. ~ (k < i)
    BY <1>1, <1>5 DEF Before
  <2>3. QED
    BY <2>1, <2>2
<1>6. QED
  BY <1>3, <1>5

LEMMA ClosesStepped ==
    ASSUME BasicInv, FilesInv, NEW r \in Requests, Step(r)
    PROVE  Closes(r) \/ DeleteFile(r) \/ Commit(r)
<1> USE DEF BasicInv
<1>0. Covered(r)
  BY DEF FilesInv
<1>1. ASSUME NEW p \in Files, Write(r, p) PROVE \A q \in Files : Gap(q)' => Gap(q) /\ q # p
  BY <1>1, SeedAssumption DEF Write, Gap, TypeOK
<1>2. CASE CreateWrite(r)
  <2>1. job[r].path \in Files
    BY <1>2, JobTyped DEF CreateWrite
  <2>2. \A q \in Files : Gap(q)' => Gap(q) /\ q # job[r].path
    BY <1>1, <1>2, <2>1 DEF CreateWrite
  <2>3. \A row \in ins[r] : row.path \in Files
    BY RowTyped DEF TypeOK
  <2>4. Covered(r)'
    BY <1>0, <1>2, <2>1, <2>2, <2>3 DEF CreateWrite, Covered
  <2>5. QED
    BY <1>2, <2>2, <2>4 DEF CreateWrite, sync, Closes, Remover
<1>3. CASE CreateInsert(r)
  <2>1. ins'[r] = {NewRow(r, job[r].name, job[r].path)} /\ job' = job
    BY <1>3 DEF CreateInsert, TypeOK
  <2>2. ~ Gap(job[r].path)
    BY <1>0, <1>3 DEF CreateInsert, Covered
  <2>3. \A p : Gap(p)' <=> Gap(p)
    BY <1>3 DEF CreateInsert, Gap
  <2>4. Covered(r)'
    BY <1>3, <2>1, <2>2, <2>3 DEF CreateInsert, Covered, NewRow
  <2>5. QED
    BY <1>3, <2>3, <2>4 DEF CreateInsert, sync, Closes, Remover
<1>4. CASE CreateConflict(r)
  BY <1>4, ClosesRolledBack DEF CreateConflict, Refuse
<1>5. CASE UpdateWrite(r)
  <2>1. job[r].row.path \in Files
    BY <1>5, JobTyped, RowTyped DEF UpdateWrite
  <2>2. \A q \in Files : Gap(q)' => Gap(q)
    BY <1>1, <1>5, <2>1 DEF UpdateWrite
  <2>3. \A row \in ins[r] : row.path \in Files
    BY RowTyped DEF TypeOK
  <2>4. Covered(r)'
    BY <1>0, <1>5, <2>2, <2>3 DEF UpdateWrite, Covered
  <2>5. QED
    BY <1>5, <2>2, <2>4 DEF UpdateWrite, sync, Closes, Remover
<1>6. ASSUME file' = file, lost' = lost, job' = job, pc'[r] \in {"commit", "known", "read", "delete"},
             pc[r] = "flush" => pc'[r] = "commit", pc[r] # "commit",
             \A row \in ins'[r] : row \in ins[r] \/ ~ Gap(row.path),
             job[r].op # "create",
             \A s \in Others(r) : scan'[s] = scan[s]
      PROVE  Closes(r)
  <2>1. \A p : Gap(p)' <=> Gap(p)
    BY <1>6 DEF Gap
  <2>2. Covered(r)'
    BY <1>0, <1>6, <2>1 DEF Covered
  <2>3. QED
    BY <1>6, <2>1, <2>2 DEF Closes, Remover
<1>7. CASE UpdateFlush(r)
  <2>1. CASE Refuse(r)
    BY <1>7, <2>1, ClosesRolledBack DEF UpdateFlush, Refuse
  <2>2. CASE Goto(r, "commit") /\ UNCHANGED <<rows, file, job, ins, del, sync, lost>>
    BY <1>6, <1>7, <2>2 DEF UpdateFlush, Goto, sync, TypeOK
  <2>3. QED
    BY <1>7, <2>1, <2>2 DEF UpdateFlush
<1>8. CASE DeleteFlush(r)
  BY <1>6, <1>8 DEF DeleteFlush, Goto, sync, TypeOK
<1>9. CASE SyncScan(r) \/ SyncKnown(r)
  BY <1>6, <1>9 DEF SyncScan, SyncKnown, Goto, TypeOK, OpSteps, Others
<1>10. CASE SyncRead(r)
  <2>1. file' = file /\ lost' = lost /\ job' = job /\ ins' = ins
    BY <1>10 DEF SyncRead
  <2>2. pc[r] = "read" /\ pc'[r] \in {"insert", "delete"} /\ job[r].op = "sync"
    BY <1>10 DEF SyncRead, Goto, TypeOK, OpSteps
  <2>3. \A s \in Others(r) : scan'[s] = scan[s]
    BY <1>10 DEF SyncRead, TypeOK, Others
  <2>4. \A p : Gap(p)' <=> Gap(p)
    BY <2>1 DEF Gap
  <2>5. Covered(r)'
    BY <1>0, <1>10, <2>1, <2>2, <2>4, AtTheFileRead DEF Covered
  <2>6. QED
    BY <2>1, <2>2, <2>3, <2>4, <2>5 DEF Closes, Remover
<1>11. CASE SyncInsert(r)
  <2>1. PICK i \in scan[r] :
           /\ Turn(r, i)
           /\ ins' = [ins EXCEPT ![r] = @ \cup {NewRow(r, NameOf[Paths[i]], Paths[i])}]
           /\ scan' = [scan EXCEPT ![r] = @ \ {i}]
    BY <1>11 DEF SyncInsert
  <2>2. ~ Gap(Paths[i])
    BY <1>0, <1>11, <2>1 DEF SyncInsert, Covered
  <2>3. ins'[r] = ins[r] \cup {NewRow(r, NameOf[Paths[i]], Paths[i])}
    BY <2>1 DEF TypeOK
  <2>4. NewRow(r, NameOf[Paths[i]], Paths[i]).path = Paths[i]
    BY DEF NewRow
  <2>5. \A row \in ins'[r] : row \in ins[r] \/ ~ Gap(row.path)
    BY <2>2, <2>3, <2>4
  <2>6. \A s \in Others(r) : scan'[s] = scan[s]
    BY <2>1 DEF TypeOK, Others
  <2>7. QED
    BY <1>6, <1>11, <2>5, <2>6 DEF SyncInsert, Goto, TypeOK
<1>12. CASE SyncError(r)
  <2>1. \A s \in Others(r) : scan'[s] = scan[s]
    BY <1>12 DEF SyncError, TypeOK, Others
  <2>2. QED
    BY <1>6, <1>12, <2>1 DEF SyncError, Goto, TypeOK
<1>13. CASE SyncDelete(r)
  BY <1>6, <1>13 DEF SyncDelete, Goto, sync, TypeOK, OpSteps
<1>14. QED
  BY <1>2, <1>3, <1>4, <1>5, <1>7, <1>8, <1>9, <1>10, <1>11, <1>12, <1>13 DEF Step

LEMMA QuietFiles ==
    ASSUME BasicInv, OwnersInv, FilesInv, NEW r \in Requests, Quiet(r), Closes(r)
    PROVE  FilesInv'
<1>1. ASSUME NEW s \in Requests, s # r PROVE Covered(s)'
  <2>1. Covered(s) /\ s \in Others(r)
    BY <1>1 DEF FilesInv, Others
  <2>2. pc'[s] = pc[s] /\ job'[s] = job[s] /\ ins'[s] = ins[s] /\ scan'[s] = scan[s]
    BY <2>1 DEF Quiet, Closes
  <2>3. \A p \in Files : Gap(p)' => Gap(p)
    BY DEF Closes
  <2>4. /\ job[s].op = "create" => job[s].path \in Files
        /\ \A i \in scan[s] : Paths[i] \in Files
        /\ \A row \in ins[s] : row.path \in Files
    BY <1>1, JobTyped, RowTyped, PathsOfFiles DEF BasicInv, TypeOK
  <2>5. \A i : Turn(s, i)' <=> Turn(s, i)
    BY <2>2 DEF Turn, Before
  <2>6. QED
    BY <2>1, <2>2, <2>3, <2>4, <2>5 DEF Covered
<1>2. ASSUME NEW row \in rows', Gap(row.path)' PROVE \E s \in Requests : Remover(s, row.id)'
  <2>1. row \in rows /\ row.path \in Files
    BY RowTyped DEF Quiet, BasicInv, TypeOK
  <2>2. Gap(row.path)
    BY <1>2, <2>1 DEF Closes
  <2>3. PICK s \in Requests : Remover(s, row.id)
    BY <2>1, <2>2 DEF FilesInv
  <2>4. CASE s = r
    <3>1. job[r].row.path = row.path
      BY <2>1, <2>3, <2>4 DEF OwnersInv, Remover
    <3>2. QED
      BY <1>2, <2>3, <2>4, <3>1 DEF Closes
  <2>5. CASE s # r
    BY <2>3, <2>5 DEF Quiet, Others, Remover
  <2>6. QED
    BY <2>4, <2>5
<1>3. QED
  BY <1>1, <1>2 DEF FilesInv, Closes

\* A deletion takes the file of its own template; what others lose by it is
\* recorded.
LEMMA DeleteFileFiles ==
    ASSUME BasicInv, NamesInv, FilesInv, NEW r \in Requests, DeleteFile(r)
    PROVE  FilesInv'
<1> DEFINE p == job[r].row.path
<1>1. /\ pc[r] = "remove" /\ pc' = [pc EXCEPT ![r] = "flush"]
      /\ job[r].op = "delete" /\ p \in Files
      /\ UNCHANGED <<rows, job, ins, scan>>
  BY JobTyped, RowTyped DEF DeleteFile, Goto, sync, BasicInv, OpSteps
<1>2. \A q \in Files : Gap(q)' => Gap(q) \/ (q = p /\ ~ Claimed(r, p))
  BY DEF DeleteFile, Gap, BasicInv, TypeOK
<1>3. pc'[r] = "flush" /\ \A s \in Others(r) : pc'[s] = pc[s]
  BY <1>1 DEF BasicInv, TypeOK, Others
<1> HIDE DEF p
<1>4. ins[r] = {}
  BY <1>1 DEF NamesInv
<1>5. ASSUME NEW row \in rows', Gap(row.path)' PROVE \E s \in Requests : Remover(s, row.id)'
  <2>1. row \in rows /\ row.path \in Files
    BY <1>1, RowTyped DEF BasicInv, TypeOK
  <2>2. CASE Gap(row.path)
    <3>1. PICK s \in Requests : Remover(s, row.id)
      BY <2>1, <2>2 DEF FilesInv
    <3>2. s \in Others(r)
      BY <1>1, <3>1 DEF Remover, Others
    <3>3. QED
      BY <1>1, <1>3, <3>1, <3>2 DEF Remover
  <2>3. CASE row.path = p /\ ~ Claimed(r, p)
    <3>1. row.id = job[r].row.id
      BY <2>1, <2>3 DEF Claimed
    <3>2. QED
      BY <1>1, <1>3, <3>1 DEF Remover
  <2>4. QED
    BY <1>2, <1>5, <2>1, <2>2, <2>3
<1>6. ASSUME NEW s \in Others(r) PROVE Covered(s)'
  <2>1. Covered(s) /\ s \in Requests
    BY DEF FilesInv, Others
  <2>2. /\ job[s].op = "create" => job[s].path \in Files
        /\ \A i \in scan[s] : Paths[i] \in Files
        /\ \A row \in ins[s] : row.path \in Files
    BY <2>1, JobTyped, RowTyped, PathsOfFiles DEF BasicInv, TypeOK
  <2>3. \A i : Turn(s, i)' <=> Turn(s, i)
    BY <1>1 DEF Turn, Before
  <2>4. pc'[s] = pc[s] /\ job'[s] = job[s] /\ ins'[s] = ins[s] /\ scan'[s] = scan[s]
    BY <1>1, <1>3
  <2>5. job[s].op = "create" /\ pc[s] \in {"insert", "commit"} => ~ Gap(job[s].path)'
    <3> SUFFICES ASSUME NEW q \in Files, job[s].op = "create", pc[s] \in {"insert", "commit"},
                        q = job[s].path
                 PROVE  ~ Gap(q)'
      BY <2>2, <2>4
    <3>1. ~ Gap(q) /\ (q = p => Claimed(r, p))
      BY <2>1 DEF Covered, Claimed
    <3>2. QED
      BY <1>2, <3>1
  <2>6. job[s].op = "sync" /\ pc[s] = "insert" =>
          \A i \in scan[s] : Turn(s, i) => ~ Gap(Paths[i])'
    BY <1>2, <2>1, <2>2 DEF Covered, Claimed
  <2>7. \A row \in ins[s] : ~ Gap(row.path)'
    BY <1>2, <2>1, <2>2 DEF Covered, Claimed
  <2>8. QED
    BY <2>3, <2>4, <2>5, <2>6, <2>7 DEF Covered
<1>7. Covered(r)'
  BY <1>1, <1>3, <1>4 DEF Covered
<1>8. QED
  BY <1>5, <1>6, <1>7 DEF FilesInv, Others

LEMMA CommitFiles ==
    ASSUME BasicInv, HeldInv, FilesInv, NEW r \in Requests, Commit(r)
    PROVE  FilesInv'
<1>1. /\ pc[r] = "commit" /\ pc' = [pc EXCEPT ![r] = "ok"]
      /\ ins' = [ins EXCEPT ![r] = {}] /\ UNCHANGED <<file, job, scan, lost>>
  BY DEF Commit, Goto
<1>2. \A p : Gap(p)' <=> Gap(p)
  BY <1>1 DEF Gap
<1>3. /\ pc'[r] = "ok" /\ ins'[r] = {}
      /\ \A s \in Others(r) : pc'[s] = pc[s] /\ ins'[s] = ins[s]
  BY <1>1 DEF BasicInv, TypeOK, Others
<1>4. ASSUME NEW new \in rows', Gap(new.path) PROVE \E s \in Requests : Remover(s, new.id)'
  <2>1. PICK old \in Visible(r) : new.id = old.id /\ new.path = old.path
    BY Merged DEF Commit
  <2>2. old \notin ins[r]
    BY <1>4, <2>1 DEF FilesInv, Covered
  <2>3. old \in rows /\ old.id \notin del[r]
    BY <2>2 DEF Visible
  <2>4. PICK s \in Requests : Remover(s, old.id)
    BY <1>4, <2>1, <2>3 DEF FilesInv
  <2>5. s # r
    BY <1>1, <2>3, <2>4 DEF Remover, HeldInv, Held, Ids
  <2>6. QED
    BY <1>1, <1>3, <2>1, <2>4, <2>5 DEF Remover, Others
<1>5. ASSUME NEW s \in Others(r) PROVE Covered(s)'
  <2>1. Covered(s)
    BY DEF FilesInv, Others
  <2>2. \A i : Turn(s, i)' <=> Turn(s, i)
    BY <1>1 DEF Turn, Before
  <2>3. QED
    BY <1>1, <1>2, <1>3, <2>1, <2>2 DEF Covered
<1>6. Covered(r)'
  BY <1>3 DEF Covered
<1>7. QED
  BY <1>2, <1>4, <1>5, <1>6 DEF FilesInv, Others

LEMMA FilesKept == Spec => []FilesInv
<1>1. Init => FilesInv
  <2> SUFFICES ASSUME Init PROVE FilesInv
    OBVIOUS
  <2>1. PICK registered \in SUBSET Names, others \in SUBSET Files :
           /\ rows = {NewRow(Seed, n, PathOf[n]) : n \in registered}
           /\ file = [p \in Files |->
                 IF p \in others \cup {PathOf[n] : n \in registered} THEN Seed ELSE NoFile]
    BY DEF Init
  <2>2. \A row \in rows : ~ Gap(row.path)
    BY <2>1, PathsAssumption, SeedAssumption DEF NewRow, Gap
  <2>3. \A r \in Requests : Covered(r)
    BY DEF Init, Covered
  <2>4. QED
    BY <2>2, <2>3 DEF FilesInv
<1>2. BasicInv /\ OwnersInv /\ HeldInv /\ NamesInv /\ FilesInv /\ [Next]_vars => FilesInv'
  <2> SUFFICES ASSUME BasicInv, OwnersInv, HeldInv, NamesInv, FilesInv, [Next]_vars
               PROVE  FilesInv'
    OBVIOUS
  <2>1. CASE UNCHANGED vars
    BY <2>1 DEF vars, sync, FilesInv, Gap, Remover, Covered, Turn, Before
  <2>2. CASE Next
    <3>1. PICK r \in Requests : Start(r) \/ Step(r) \/ Abort(r)
      BY <2>2 DEF Next
    <3>2. Abort(r) => Closes(r)
      BY ClosesRolledBack DEF Abort
    <3>3. Closes(r) \/ DeleteFile(r) \/ Commit(r)
      BY <3>1, <3>2, ClosesStarted, ClosesStepped
    <3>4. Quiet(r) \/ Commit(r)
      BY <3>1, QuietSteps
    <3>5. QED
      BY <3>3, <3>4, QuietFiles, DeleteFileFiles, CommitFiles
  <2>3. QED
    BY <2>1, <2>2
<1>3. QED
  BY <1>1, <1>2, Basics, Owners, Answers, UniqueNames, PTL DEF Spec

\* Rows and files match (RowsMatchFiles): no file is registered twice unless a
\* create named a file of its own, and a registered template has its file unless
\* a deletion is under way, failed half way, or took it from somebody else.
THEOREM FilesMatch == Spec => []RowsMatchFiles
<1>1. BasicInv /\ OwnersInv /\ NamesInv /\ FilesInv => RowsMatchFiles
  <2> SUFFICES ASSUME BasicInv, OwnersInv, NamesInv, FilesInv PROVE RowsMatchFiles
    OBVIOUS
  <2>1. ASSUME NEW a \in rows, a.name # NameOf[a.path] PROVE Placed(a)
    <3>1. PICK r \in Requests : a.id[1] = r /\ job[r].op = "create"
      BY <2>1 DEF NamesInv
    <3>2. a.name \in Names
      BY RowTyped DEF BasicInv, TypeOK
    <3>3. a.path # PathOf[a.name]
      BY <2>1, <3>2, PathsAssumption
    <3>4. QED
      BY <3>1, <3>3 DEF Placed
  <2>2. ASSUME NEW a \in rows, NEW b \in rows, a.path = b.path, a # b
        PROVE  Placed(a) \/ Placed(b)
    <3>1. a.name # b.name
      BY <2>2 DEF NamesInv
    <3>2. a.name # NameOf[a.path] \/ b.name # NameOf[b.path]
      BY <2>2, <3>1
    <3>3. QED
      BY <2>1, <3>2
  <2>3. ASSUME NEW row \in rows, file[row.path] = NoFile, row.path \notin lost
        PROVE  Removing(row.path)
    <3>1. PICK r \in Requests : Remover(r, row.id)
      BY <2>3 DEF FilesInv, Gap
    <3>2. job[r].row.path = row.path
      BY <3>1 DEF Remover, OwnersInv
    <3>3. QED
      BY <3>1, <3>2 DEF Remover, Removing
  <2>4. QED
    BY <2>2, <2>3 DEF RowsMatchFiles
<1>2. QED
  BY <1>1, Basics, Owners, UniqueNames, FilesKept, PTL
=============================================================================
