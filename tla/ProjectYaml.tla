---------------------------- MODULE ProjectYaml ----------------------------
(***************************************************************************)
(* The copy of a project's definition that is kept in Git: project.yaml,   *)
(* its metadata and its proj.* parameters.                                 *)
(*                                                                         *)
(*   - Edits of the project row and of proj.* parameters (routers          *)
(*     catalog.py and parameters.py) commit and then write the file from   *)
(*     what they read back (project_yaml_service.py), without a lock: two  *)
(*     of them can cross.  The session keeps the objects it has loaded     *)
(*     (expire_on_commit=False), so a request reads its own row from       *)
(*     memory and only the others from the database.                       *)
(*   - Promoting a template parameter (admin.py) and importing a template  *)
(*     whose frontmatter names a proj.* parameter create rows and write    *)
(*     nothing.                                                            *)
(*   - A Git sync (git_sync_service.py) imports from the file what the     *)
(*     database does not have yet; a pull may have changed the file.       *)
(*                                                                         *)
(* One metadata field stands for the three (Unset: its default), one text  *)
(* for the columns of a parameter.  Pending writes double as row locks.    *)
(***************************************************************************)
EXTENDS Naturals, YamlState

vars == <<meta, param, file, req, drifted>>

Metas == Texts \cup {Unset}
Files == [meta : Metas, params : [Names -> Texts \cup {None}]]

Absent == [state |-> "absent", text |-> None]
EmptyFile == [meta |-> Unset, params |-> [n \in Names |-> None]]
NoWrites == [n \in Names |-> None]

\* A request: its operation, what it was asked (name, text), what its session
\* holds of its own row, its pending writes and what it has read for the file.
Request(op, pc, n, x, own) ==
    [op |-> op, pc |-> pc, name |-> n, text |-> x, own |-> own, todo |-> {},
     pendMeta |-> None, pend |-> NoWrites, gap |-> FALSE, read |-> EmptyFile, alone |-> FALSE]

Idle == Request("none", "idle", None, None, None)

\* create_project writes no project.yaml.
Init ==
    /\ meta \in Metas
    /\ param = [n \in Names |-> Absent]
    /\ file = EmptyFile
    /\ req = [r \in Requests |-> Idle]
    /\ drifted = TRUE
-----------------------------------------------------------------------------
InFlight(r) == req[r].pc # "idle"

\* alone is a history value: no other request was in flight meanwhile.
Begin(r, new) ==
    /\ ~InFlight(r)
    /\ req' = [q \in Requests |->
                  IF q = r THEN [new EXCEPT !.alone = \A o \in Requests \ {r} : ~InFlight(o)]
                           ELSE [req[q] EXCEPT !.alone = FALSE]]
    /\ UNCHANGED <<meta, param, file, drifted>>

Set(r, new) ==
    /\ req' = [req EXCEPT ![r] = new]
    /\ UNCHANGED <<meta, param, file, drifted>>

\* The session is closed without a commit: get_db rolls back.
Abort(r) == Set(r, Idle)

\* Nobody else has written the row in a transaction still open.
MetaFree(r) == \A o \in Requests \ {r} : req[o].pendMeta = None
RowFree(r, n) == \A o \in Requests \ {r} : req[o].pend[n] = None
-----------------------------------------------------------------------------
(* Edits.                                                                  *)

UpdateProject(r, m) ==
    /\ Begin(r, Request("project", "loaded", None, m, meta))

\* Only a changed attribute is written; then the row is read back.
FlushProject(r) ==
    /\ req[r].op = "project" /\ req[r].pc = "loaded"
    /\ \/ /\ req[r].text # req[r].own
          /\ MetaFree(r)
          /\ Set(r, [req[r] EXCEPT !.pc = "flushed", !.own = req[r].text,
                                   !.pendMeta = req[r].text])
       \/ /\ req[r].text = req[r].own
          /\ Set(r, [req[r] EXCEPT !.pc = "flushed", !.own = meta])

CreateParam(r, n, x) ==
    /\ Begin(r, Request("create", "loaded", n, x, None))

PromoteParam(r, n, x) ==
    /\ Begin(r, Request("promote", "loaded", n, x, None))

\* The unique index covers soft-deleted rows too: the name stays taken (409).
InsertParam(r) ==
    LET n == req[r].name IN
    /\ req[r].op \in {"create", "promote"} /\ req[r].pc = "loaded"
    /\ RowFree(r, n)
    /\ \/ /\ param[n].state = "absent"
          /\ Set(r, [req[r] EXCEPT !.pc = "flushed", !.own = req[r].text,
                                   !.pend[n] = [state |-> "active", text |-> req[r].text]])
       \/ param[n].state # "absent" /\ Abort(r)

UpdateParam(r, n, x) ==
    /\ param[n].state = "active"
    /\ Begin(r, Request("update", "loaded", n, x, param[n].text))

FlushUpdate(r) ==
    LET n == req[r].name IN
    /\ req[r].op = "update" /\ req[r].pc = "loaded"
    /\ \/ /\ req[r].text # req[r].own
          /\ RowFree(r, n)
          /\ Set(r, [req[r] EXCEPT !.pc = "flushed", !.own = req[r].text,
                                   !.pend[n] = [param[n] EXCEPT !.text = req[r].text]])
       \/ /\ req[r].text = req[r].own
          /\ Set(r, [req[r] EXCEPT !.pc = "flushed", !.own = param[n].text])

DeleteParam(r, n) ==
    /\ param[n].state = "active"
    /\ Begin(r, Request("delete", "loaded", n, None, None))

FlushDelete(r) ==
    LET n == req[r].name IN
    /\ req[r].op = "delete" /\ req[r].pc = "loaded"
    /\ RowFree(r, n)
    /\ Set(r, [req[r] EXCEPT !.pc = "flushed",
                             !.pend[n] = [param[n] EXCEPT !.state = "deleted"]])
-----------------------------------------------------------------------------
(* Git sync.                                                               *)

StartSync(r) ==
    /\ Begin(r, Request("sync", "loaded", None, None, meta))

\* read_project_yaml: the row was loaded before, the file is read now.
ReadYaml(r) ==
    LET fills == file.meta # Unset /\ req[r].own = Unset IN
    /\ req[r].op = "sync" /\ req[r].pc = "loaded"
    /\ Set(r, [req[r] EXCEPT !.pc = IF fills THEN "filling" ELSE "importing",
                             !.read = file,
                             !.todo = {n \in Names : file.params[n] # None}])

ImportMeta(r) ==
    /\ req[r].pc = "filling"
    /\ MetaFree(r)
    /\ Set(r, [req[r] EXCEPT !.pc = "importing", !.pendMeta = req[r].read.meta])

\* The SELECT for a parameter of the file: a row of any state is "already in DB".
CheckParam(r, n) ==
    /\ req[r].pc = "importing" /\ n \in req[r].todo
    /\ \/ param[n].state # "absent" /\ Set(r, [req[r] EXCEPT !.todo = @ \ {n}])
       \/ param[n].state = "absent" /\ Set(r, [req[r] EXCEPT !.pc = "inserting", !.name = n])

\* Faulty variant: an insert that merges into the row it meets (ON CONFLICT).
ImportParamMerging(r) ==
    LET n == req[r].name IN
    /\ req[r].pc = "inserting"
    /\ RowFree(r, n)
    /\ Set(r, [req[r] EXCEPT !.pc = "importing", !.todo = @ \ {n},
                             !.pend[n] = [state |-> "active", text |-> req[r].read.params[n]]])

\* No savepoint here: a row created since the SELECT ends the whole sync.
ImportParam(r) ==
    LET n == req[r].name IN
    /\ req[r].pc = "inserting"
    /\ RowFree(r, n)
    /\ \/ /\ param[n].state = "absent"
          /\ Set(r, [req[r] EXCEPT !.pc = "importing", !.todo = @ \ {n},
                        !.pend[n] = [state |-> "active", text |-> req[r].read.params[n]]])
       \/ param[n].state # "absent" /\ Abort(r)

\* A template file whose frontmatter names a proj.* parameter.  A conflict rolls
\* back to the savepoint of that file only.
ImportFrontmatter(r, n, x) ==
    /\ req[r].pc = "importing" /\ req[r].todo = {}
    /\ RowFree(r, n)
    /\ param[n].state = "absent" /\ req[r].pend[n] = None
    /\ Set(r, [req[r] EXCEPT !.gap = TRUE, !.pend[n] = [state |-> "active", text |-> x]])
-----------------------------------------------------------------------------
(* Commit and write-back.                                                  *)

ReadyToCommit(r) ==
    \/ req[r].pc = "flushed"
    \/ req[r].pc = "importing" /\ req[r].todo = {}

WritesBack(r) == req[r].op \notin {"promote", "sync"}

Commit(r) ==
    /\ ReadyToCommit(r)
    /\ meta' = IF req[r].pendMeta = None THEN meta ELSE req[r].pendMeta
    /\ param' = [n \in Names |-> IF req[r].pend[n] = None THEN param[n] ELSE req[r].pend[n]]
    /\ req' = [req EXCEPT ![r] = IF WritesBack(r)
                                 THEN [@ EXCEPT !.pc = "committed", !.pendMeta = None,
                                                !.pend = NoWrites]
                                 ELSE Idle]
    /\ drifted' = (drifted \/ ~req[r].alone \/ req[r].op = "promote" \/ req[r].gap)
    /\ UNCHANGED file

Rollback(r) ==
    /\ InFlight(r) /\ req[r].pc \notin {"committed", "metaRead", "paramsRead"}
    /\ Abort(r)

\* db.get(Project): update_project already has the row in its session.
ReadMeta(r) ==
    /\ req[r].pc = "committed"
    /\ Set(r, [req[r] EXCEPT !.pc = "metaRead",
                             !.read.meta = IF req[r].op = "project" THEN req[r].own ELSE meta])

\* Faulty variant: soft-deleted rows are listed as well.
ReadParamsOfAnyState(r) ==
    /\ req[r].pc = "metaRead"
    /\ Set(r, [req[r] EXCEPT !.pc = "paramsRead",
                  !.read.params = [n \in Names |-> IF param[n].state = "absent" THEN None
                                                   ELSE param[n].text]])

\* The SELECT of the active rows; a row the session holds keeps its values.
ReadParams(r) ==
    LET shown(n) == IF n = req[r].name THEN req[r].own ELSE param[n].text IN
    /\ req[r].pc = "metaRead"
    /\ Set(r, [req[r] EXCEPT !.pc = "paramsRead",
                  !.read.params = [n \in Names |-> IF param[n].state = "active" THEN shown(n)
                                                   ELSE None]])

WriteFile(r) ==
    /\ req[r].pc = "paramsRead"
    /\ file' = req[r].read
    /\ drifted' = (drifted /\ ~req[r].alone)
    /\ req' = [req EXCEPT ![r] = Idle]
    /\ UNCHANGED <<meta, param>>

\* A database error while reading back, or a Git error, which is only logged:
\* before the file is written or after it, when the Git commit fails.
WriteFails(r) ==
    /\ req[r].pc \in {"committed", "metaRead", "paramsRead"}
    /\ file' \in {file} \cup (IF req[r].pc = "paramsRead" THEN {req[r].read} ELSE {})
    /\ drifted' = TRUE
    /\ req' = [req EXCEPT ![r] = Idle]
    /\ UNCHANGED <<meta, param>>

\* A pull brings another project.yaml (pull_remote, restore of a backup).
Pull(f) ==
    /\ file' = f
    /\ drifted' = TRUE
    /\ UNCHANGED <<meta, param, req>>

Restart ==
    /\ req' = [r \in Requests |-> Idle]
    /\ drifted' = (drifted \/ \E r \in Requests : WritingBack(r))
    /\ UNCHANGED <<meta, param, file>>

Edit(r) ==
    \/ \E m \in Metas : UpdateProject(r, m)
    \/ FlushProject(r)
    \/ \E n \in Names, x \in Texts :
          CreateParam(r, n, x) \/ PromoteParam(r, n, x) \/ UpdateParam(r, n, x)
    \/ InsertParam(r)
    \/ FlushUpdate(r)
    \/ \E n \in Names : DeleteParam(r, n)
    \/ FlushDelete(r)

Sync(r) ==
    \/ StartSync(r)
    \/ ReadYaml(r)
    \/ ImportMeta(r)
    \/ \E n \in Names : CheckParam(r, n)
    \/ ImportParam(r)
    \/ \E n \in Names, x \in Texts : ImportFrontmatter(r, n, x)

Finish(r) == \/ Commit(r) \/ Rollback(r)
             \/ ReadMeta(r) \/ ReadParams(r) \/ WriteFile(r) \/ WriteFails(r)

Next ==
    \/ \E r \in Requests : Edit(r) \/ Sync(r) \/ Finish(r)
    \/ \E f \in Files : Pull(f)
    \/ Restart

Spec == Init /\ [][Next]_vars
-----------------------------------------------------------------------------
(* The inductive invariant (GitRemoteProofs).                              *)

Rows == [state : {"absent", "active", "deleted"}, text : Texts \cup {None}]
Back == {"committed", "metaRead", "paramsRead"}
Edits == {"project", "create", "update", "delete"}
RequestType ==
    [op : Edits \cup {"none", "promote", "sync"},
     pc : Back \cup {"idle", "loaded", "flushed", "filling", "importing", "inserting"},
     name : Names \cup {None}, text : Metas \cup {None}, own : Metas \cup {None},
     todo : SUBSET Names, pendMeta : Metas \cup {None},
     pend : [Names -> Rows \cup {None}], gap : BOOLEAN, read : Files, alone : BOOLEAN]

TypeOK ==
    /\ meta \in Metas
    /\ param \in [Names -> Rows]
    /\ file \in Files
    /\ req \in [Requests -> RequestType]
    /\ drifted \in BOOLEAN

\* Where a request may be, and what it then holds.
Placed(r) ==
    /\ req[r].pc = "idle" => req[r].op = "none"
    /\ req[r].pc = "loaded" => req[r].pendMeta = None /\ req[r].pend = NoWrites
    /\ req[r].pc = "flushed" => req[r].op \in Edits \cup {"promote"}
    /\ req[r].pc \in {"filling", "importing", "inserting"} => req[r].op = "sync"
    /\ req[r].pc \in Back => req[r].op \in Edits
    /\ req[r].pc = "inserting" => req[r].name \in Names /\ req[r].name \in req[r].todo
    /\ req[r].op \in {"create", "promote", "update", "delete"} =>
          req[r].name \in Names /\ req[r].own \in Texts \cup {None}
    /\ req[r].op \in {"create", "promote", "update"} => req[r].text \in Texts
    /\ req[r].op = "project" => req[r].name = None /\ req[r].text # None /\ req[r].own # None

Alone(r) == req[r].alone => \A o \in Requests \ {r} : ~InFlight(o)

\* A row has one writer.
Locked ==
    \A r, o \in Requests, n \in Names :
        r # o => req[r].pend[n] = None \/ req[o].pend[n] = None

\* A sync writes where there is nothing; from a file that says the rows it has
\* nothing to import but what a template's frontmatter names.
FillsGaps(r) == req[r].op = "sync" =>
    /\ \A n \in Names : req[r].pend[n] # None => param[n].state = "absent"
    /\ req[r].alone =>
          /\ req[r].pc = "loaded" => req[r].own = meta
          /\ req[r].pc = "filling" \/ req[r].pendMeta # None => meta = Unset
    /\ req[r].alone /\ ~drifted =>
          /\ req[r].pc \notin {"filling", "inserting"} /\ req[r].pendMeta = None
          /\ \A n \in req[r].todo : param[n].state # "absent"
          /\ \A n \in Names : req[r].pend[n] # None => req[r].gap

\* The row as the transaction of r sees it.
RowSeen(r, n) == IF req[r].pend[n] = None THEN param[n] ELSE req[r].pend[n]
MetaSeen(r) == IF req[r].pendMeta = None THEN meta ELSE req[r].pendMeta

\* An edit holds in memory what it will commit.
HoldsOwn(r) == req[r].alone /\ req[r].pc = "flushed" =>
    IF req[r].op = "project" THEN req[r].own = MetaSeen(r)
    ELSE RowSeen(r, req[r].name).state = "active" => req[r].own = RowSeen(r, req[r].name).text

ActiveTexts ==
    [n \in Names |-> IF param[n].state = "active" THEN param[n].text ELSE None]

\* An edit that nobody crossed reads back what the rows say.
ReadsRows(r) == req[r].pc \in Back /\ (req[r].alone \/ ~drifted) =>
    /\ IF req[r].op = "project" THEN req[r].own = meta
       ELSE param[req[r].name].state = "active" => req[r].own = param[req[r].name].text
    /\ req[r].pc # "committed" => req[r].read.meta = meta
    /\ req[r].pc = "paramsRead" => req[r].read.params = ActiveTexts

YamlInv ==
    /\ TypeOK
    /\ \A r \in Requests : Placed(r) /\ Alone(r) /\ FillsGaps(r) /\ HoldsOwn(r) /\ ReadsRows(r)
    /\ Locked
    /\ FileFollowsRows
=============================================================================
