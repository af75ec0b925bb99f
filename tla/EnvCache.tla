------------------------------ MODULE EnvCache ------------------------------
(***************************************************************************)
(* The process-level cache of Jinja2 environments                          *)
(* (api/services/environment_factory.py) together with everything that     *)
(* writes what an environment is built from:                               *)
(*                                                                         *)
(*   - render requests, which load the project row, look the cache up and, *)
(*     on a miss, read the filters, objects, macros, glob.* and proj.*     *)
(*     parameters one SELECT at a time before they store the result;       *)
(*   - content edits (custom filters, objects and macros, which evict the  *)
(*     cache before their transaction commits, and parameters, which never *)
(*     evict it);                                                          *)
(*   - project edits (PATCH on a project), whose transaction stamps        *)
(*     updated_at with the time it BEGAN (onupdate=func.now()).            *)
(*                                                                         *)
(* What a row holds is abstracted to a version number: the n-th committed  *)
(* change of a content slot produces version n.  Every step between two    *)
(* awaits of the event loop is one action.                                 *)
(***************************************************************************)
EXTENDS Naturals, Sequences

CONSTANTS
    Projects,     \* projects of one organization
    Requests,     \* render requests the process can have in flight
    Admins,       \* sessions that edit filters, objects, macros, parameters
    Editors,      \* sessions that edit a project row
    Global,       \* the scope shared by every project (global filters, glob.*)
    EditedSlots,  \* the content slots that edits touch
    MaxEdits,     \* bound on committed changes of one slot
    MaxClock,     \* bound on the database clock
    SerialEdits,  \* TRUE: edits of one project row never overlap
    QuietEdits    \* TRUE: custom content is edited only while no render is in flight

ASSUME ConstantsAssumption ==
    /\ Projects # {} /\ Global \notin Projects
    /\ MaxEdits \in Nat /\ MaxClock \in Nat
    /\ SerialEdits \in BOOLEAN /\ QuietEdits \in BOOLEAN

VARIABLES
    clock,    \* the database's now()
    project,  \* the committed project rows
    content,  \* content[s]: number of committed changes of slot s
    cache,    \* _ENV_CACHE
    req,      \* the render requests
    admin,    \* the content-edit sessions
    editor    \* the project-edit sessions

vars == <<clock, project, content, cache, req, admin, editor>>
-----------------------------------------------------------------------------
(* The rows an environment is built from.                                  *)

\* The order in which _build_environment reads the tables.
BuildOrder == <<"filters", "objects", "macros", "glob", "proj">>

CustomKinds == {"filters", "objects", "macros"}

Slots == {<<k, s>> : k \in CustomKinds, s \in Projects \cup {Global}}
            \cup {<<"glob", Global>>}
            \cup {<<"proj", p>> : p \in Projects}

CustomSlots == {<<k, s>> : k \in CustomKinds, s \in Projects \cup {Global}}

\* The slots the SELECT on table k returns for project p.
SlotsRead(k, p) == {s \in Slots : s[1] = k /\ s[2] \in {p, Global}}

ASSUME EditedSlotsAssumption == EditedSlots \subseteq Slots

SlotsOf(p) == {s \in Slots : s[2] \in {p, Global}}

Versions == [Slots -> Nat]

\* floor is a history value: the content committed when the row was.
Row == [path : Nat, updatedAt : Nat, floor : Versions]

\* An environment remembers the row it was built from (cached_at is
\* row.updatedAt) and the content versions its build has read so far.
Env == [row : Row, content : Versions]

NoEnv == [none |-> TRUE]

ZeroVersions == [s \in Slots |-> 0]
FirstRow == [path |-> 0, updatedAt |-> 0, floor |-> ZeroVersions]
NewEnv(row) == [row |-> row, content |-> ZeroVersions]

IdleRequest(p) == [pc |-> "idle", project |-> p, row |-> FirstRow,
                   seen |-> ZeroVersions, step |-> 1, env |-> NewEnv(FirstRow)]
SomeProject == CHOOSE p \in Projects : TRUE
SomeSlot == <<"glob", Global>>
IdleAdmin == [pc |-> "idle", slot |-> SomeSlot]
IdleEditor == [pc |-> "idle", project |-> SomeProject, began |-> 0]

Init ==
    /\ clock = 0
    /\ project = [p \in Projects |-> FirstRow]
    /\ content = ZeroVersions
    /\ cache = [p \in Projects |-> NoEnv]
    /\ req = [r \in Requests |-> IdleRequest(SomeProject)]
    /\ admin = [a \in Admins |-> IdleAdmin]
    /\ editor = [e \in Editors |-> IdleEditor]
-----------------------------------------------------------------------------
(* Render requests.                                                        *)

EditsCustom(a) == admin[a].pc # "idle" /\ admin[a].slot \in CustomSlots

\* The request reads its project row.  The session keeps the object, so the
\* SELECT inside get_environment returns this same snapshot.  seen is a
\* history value: the content committed when the request read its row.
LoadProject(r, p) ==
    /\ req[r].pc = "idle"
    /\ QuietEdits => \A a \in Admins : ~EditsCustom(a)
    /\ req' = [req EXCEPT ![r] = [IdleRequest(p) EXCEPT !.pc = "loaded",
                                                        !.row = project[p],
                                                        !.seen = content]]
    /\ UNCHANGED <<clock, project, content, cache, admin, editor>>

\* Faulty variant: any cached entry counts, whatever its timestamp.
IsFreshAnyEntry(entry, row) == entry # NoEnv

IsFresh(entry, row) == entry # NoEnv /\ entry.row.updatedAt >= row.updatedAt

CacheHit(r) ==
    /\ req[r].pc = "loaded"
    /\ IsFresh(cache[req[r].project], req[r].row)
    /\ req' = [req EXCEPT ![r].pc = "served", ![r].env = cache[req[r].project]]
    /\ UNCHANGED <<clock, project, content, cache, admin, editor>>

CacheMiss(r) ==
    /\ req[r].pc = "loaded"
    /\ ~ IsFresh(cache[req[r].project], req[r].row)
    /\ req' = [req EXCEPT ![r].pc = "building", ![r].step = 1,
                          ![r].env = NewEnv(req[r].row)]
    /\ UNCHANGED <<clock, project, content, cache, admin, editor>>

\* One SELECT of the build: committed rows only (READ COMMITTED).
ReadTable(r) ==
    /\ req[r].pc = "building"
    /\ req[r].step <= Len(BuildOrder)
    /\ LET read == SlotsRead(BuildOrder[req[r].step], req[r].project)
       IN  req' = [req EXCEPT
                     ![r].step = @ + 1,
                     ![r].env.content =
                         [s \in Slots |-> IF s \in read THEN content[s] ELSE @[s]]]
    /\ UNCHANGED <<clock, project, content, cache, admin, editor>>

\* Faulty variant: the entry is stamped with the row as it is at store time.
StoreEnvStampedLate(r) ==
    /\ req[r].pc = "building"
    /\ req[r].step > Len(BuildOrder)
    /\ cache' = [cache EXCEPT ![req[r].project] =
                   [req[r].env EXCEPT !.row = project[req[r].project]]]
    /\ req' = [req EXCEPT ![r].pc = "served"]
    /\ UNCHANGED <<clock, project, content, admin, editor>>

StoreEnv(r) ==
    /\ req[r].pc = "building"
    /\ req[r].step > Len(BuildOrder)
    /\ cache' = [cache EXCEPT ![req[r].project] = req[r].env]
    /\ req' = [req EXCEPT ![r].pc = "served"]
    /\ UNCHANGED <<clock, project, content, admin, editor>>

\* The response is sent, or a database error ends the request early.
FinishRequest(r) ==
    /\ req[r].pc \in {"loaded", "building", "served"}
    /\ req' = [req EXCEPT ![r] = IdleRequest(SomeProject)]
    /\ UNCHANGED <<clock, project, content, cache, admin, editor>>
-----------------------------------------------------------------------------
(* Content edits.                                                          *)

\* A create, update or delete reaches db.flush(): the change is pending.
FlushEdit(a, s) ==
    /\ admin[a].pc = "idle"
    /\ QuietEdits /\ s \in CustomSlots => \A r \in Requests : req[r].pc = "idle"
    /\ admin' = [admin EXCEPT ![a] = [pc |-> "flushed", slot |-> s]]
    /\ UNCHANGED <<clock, project, content, cache, req, editor>>

\* Faulty variant: a global edit looks for an entry keyed by its own scope.
EvictedByOwnScope(s) == {s[2]} \cap Projects

\* _invalidate_caches: still inside the transaction.
EvictedBy(s) == IF s[2] = Global THEN Projects ELSE {s[2]}

InvalidateCaches(a) ==
    /\ admin[a].pc = "flushed"
    /\ admin[a].slot \in CustomSlots
    /\ cache' = [p \in Projects |->
                   IF p \in EvictedBy(admin[a].slot) THEN NoEnv ELSE cache[p]]
    /\ admin' = [admin EXCEPT ![a].pc = "invalidated"]
    /\ UNCHANGED <<clock, project, content, req, editor>>

\* Parameters go straight from flush to commit; the rest evicts in between.
ReadyToCommit(a) ==
    \/ admin[a].pc = "flushed" /\ admin[a].slot \notin CustomSlots
    \/ admin[a].pc = "invalidated"

CommitEdit(a) ==
    /\ ReadyToCommit(a)
    /\ content[admin[a].slot] < MaxEdits
    /\ content' = [content EXCEPT ![admin[a].slot] = @ + 1]
    /\ admin' = [admin EXCEPT ![a] = IdleAdmin]
    /\ UNCHANGED <<clock, project, cache, req, editor>>

\* An exception before the commit: get_db rolls the session back.
RollbackEdit(a) ==
    /\ admin[a].pc # "idle"
    /\ admin' = [admin EXCEPT ![a] = IdleAdmin]
    /\ UNCHANGED <<clock, project, content, cache, req, editor>>
-----------------------------------------------------------------------------
(* Project edits.                                                          *)

\* The session's first statement fixes now() for the whole transaction.
BeginProjectEdit(e, p) ==
    /\ editor[e].pc = "idle"
    /\ clock < MaxClock
    /\ SerialEdits => \A f \in Editors : editor[f].pc = "idle" \/ editor[f].project # p
    /\ clock' = clock + 1
    /\ editor' = [editor EXCEPT ![e] = [pc |-> "begun", project |-> p,
                                        began |-> clock + 1]]
    /\ UNCHANGED <<project, content, cache, req, admin>>

\* The UPDATE takes the row lock, and waits while another session has it.
FlushProjectEdit(e) ==
    /\ editor[e].pc = "begun"
    /\ \A f \in Editors : ~ (/\ editor[f].pc = "locked"
                             /\ editor[f].project = editor[e].project)
    /\ editor' = [editor EXCEPT ![e].pc = "locked"]
    /\ UNCHANGED <<clock, project, content, cache, req, admin>>

CommitProjectEdit(e) ==
    /\ editor[e].pc = "locked"
    /\ project' = [project EXCEPT ![editor[e].project] =
                     [path |-> @.path + 1,
                      updatedAt |-> editor[e].began,
                      floor |-> content]]
    /\ editor' = [editor EXCEPT ![e] = IdleEditor]
    /\ UNCHANGED <<clock, content, cache, req, admin>>

RollbackProjectEdit(e) ==
    /\ editor[e].pc # "idle"
    /\ editor' = [editor EXCEPT ![e] = IdleEditor]
    /\ UNCHANGED <<clock, project, content, cache, req, admin>>
-----------------------------------------------------------------------------
\* The API process dies and starts again: the database keeps what committed.
Restart ==
    /\ cache' = [p \in Projects |-> NoEnv]
    /\ req' = [r \in Requests |-> IdleRequest(SomeProject)]
    /\ admin' = [a \in Admins |-> IdleAdmin]
    /\ editor' = [e \in Editors |-> IdleEditor]
    /\ UNCHANGED <<clock, project, content>>

RequestStep(r) ==
    \/ \E p \in Projects : LoadProject(r, p)
    \/ CacheHit(r)
    \/ CacheMiss(r)
    \/ ReadTable(r)
    \/ StoreEnv(r)
    \/ FinishRequest(r)

AdminStep(a) ==
    \/ \E s \in EditedSlots : FlushEdit(a, s)
    \/ InvalidateCaches(a)
    \/ CommitEdit(a)
    \/ RollbackEdit(a)

EditorStep(e) ==
    \/ \E p \in Projects : BeginProjectEdit(e, p)
    \/ FlushProjectEdit(e)
    \/ CommitProjectEdit(e)
    \/ RollbackProjectEdit(e)

Next ==
    \/ \E r \in Requests : RequestStep(r)
    \/ \E a \in Admins : AdminStep(a)
    \/ \E e \in Editors : EditorStep(e)
    \/ Restart

Spec == Init /\ [][Next]_vars
-----------------------------------------------------------------------------
(* Properties.                                                             *)

RequestState ==
    [pc : {"idle", "loaded", "building", "served"}, project : Projects,
     row : Row, seen : Versions, step : 1..(Len(BuildOrder) + 1), env : Env]

\* Every variable keeps its shape: cache entries are whole environments,
\* requests are at one of their await points.
TypeOK ==
    /\ clock \in Nat
    /\ project \in [Projects -> Row]
    /\ content \in Versions
    /\ cache \in [Projects -> Env \cup {NoEnv}]
    /\ req \in [Requests -> RequestState]
    /\ admin \in [Admins -> [pc : {"idle", "flushed", "invalidated"}, slot : Slots]]
    /\ editor \in [Editors -> [pc : {"idle", "begun", "locked"},
                               project : Projects, began : Nat]]

\* A render never uses an environment built from a project row older than
\* the one it loaded itself: however builds, stores and edits interleave, the
\* timestamp comparison in get_environment rebuilds in time (a git_path change
\* is never missed).
ServedRowFresh ==
    \A r \in Requests :
        req[r].pc = "served" => req[r].env.row.path >= req[r].row.path

\* Editing a project flushes stale content: an environment served to a request
\* that saw a given project edit holds at least the filters, objects, macros
\* and parameters that were committed before that edit was.
TouchRefreshesContent ==
    \A r \in Requests :
        req[r].pc = "served" =>
            \A s \in SlotsOf(req[r].project) :
                req[r].env.content[s] >= req[r].row.floor[s]

\* The next render picks up the change (QuietEdits): once an edit of a custom filter,
\* object or macro has committed, a request that starts afterwards is served
\* an environment that has it (custom_filter_service.py, "Cache invalidation").
SeesCustomEdits ==
    \A r \in Requests :
        req[r].pc = "served" =>
            \A s \in SlotsOf(req[r].project) \cap CustomSlots :
                req[r].env.content[s] >= req[r].seen[s]

-----------------------------------------------------------------------------
(* The inductive invariant behind the two guarantees (SerialEdits).        *)

Active(r) == req[r].pc # "idle"

\* The project rows that are still referred to on behalf of project p.
Stamps(p) ==
    {project[p]}
        \cup {req[r].row : r \in {q \in Requests : Active(q) /\ req[q].project = p}}
        \cup (IF cache[p] = NoEnv THEN {} ELSE {cache[p].row})

Covers(x, y) == x.path >= y.path /\ \A s \in Slots : x.floor[s] >= y.floor[s]

\* Of two rows the one with the later timestamp was committed later.
StampsOrdered ==
    \A p \in Projects : \A x, y \in Stamps(p) :
        x.updatedAt >= y.updatedAt => Covers(x, y)

\* The committed row is the newest, and everything it saw is still there.
CurrentIsNewest ==
    \A p \in Projects :
        /\ \A x \in Stamps(p) : x.updatedAt <= project[p].updatedAt
        /\ project[p].updatedAt <= clock
        /\ \A s \in Slots : content[s] >= project[p].floor[s]

\* A transaction in progress has a timestamp no committed row has reached.
EditsAhead ==
    /\ \A e \in Editors : editor[e].pc # "idle" =>
           editor[e].began <= clock /\ editor[e].began > project[editor[e].project].updatedAt
    /\ \A e, f \in Editors :
           e # f /\ editor[e].pc # "idle" /\ editor[f].pc # "idle"
               => editor[e].project # editor[f].project

HasFloor(env, s) == env.content[s] >= env.row.floor[s]

\* A build keeps the row it started with; what it has read is recent enough.
BuildsHaveFloor ==
    \A r \in Requests : req[r].pc = "building" =>
        /\ req[r].env.row = req[r].row
        /\ \A i \in 1..Len(BuildOrder) : i < req[r].step =>
               \A s \in SlotsRead(BuildOrder[i], req[r].project) : HasFloor(req[r].env, s)

StoredHaveFloor ==
    \A p \in Projects : cache[p] # NoEnv => \A s \in SlotsOf(p) : HasFloor(cache[p], s)

ServedCovers ==
    \A r \in Requests : req[r].pc = "served" =>
        /\ Covers(req[r].env.row, req[r].row)
        /\ \A s \in SlotsOf(req[r].project) : HasFloor(req[r].env, s)

FreshInv ==
    /\ StampsOrdered
    /\ CurrentIsNewest
    /\ EditsAhead
    /\ BuildsHaveFloor
    /\ StoredHaveFloor
    /\ ServedCovers
-----------------------------------------------------------------------------
(* The inductive invariant behind SeesCustomEdits (QuietEdits).            *)

\* The environment holds the committed version of the slot.
Holds(env, s) == env.content[s] >= content[s]

\* Custom content changes only while no render is in flight.
EditsAlone == \A a \in Admins : EditsCustom(a) => \A r \in Requests : ~Active(r)

\* What is evicted before the commit is not stored again until after it.
EvictedUntilCommit ==
    \A a \in Admins : admin[a].pc = "invalidated" =>
        /\ EditsCustom(a)
        /\ \A p \in EvictedBy(admin[a].slot) : cache[p] = NoEnv

StoredIsCommitted ==
    \A p \in Projects : cache[p] # NoEnv =>
        \A s \in SlotsOf(p) \cap CustomSlots : Holds(cache[p], s)

BuildsAreCommitted ==
    \A r \in Requests : req[r].pc = "building" =>
        \A i \in 1..Len(BuildOrder) : i < req[r].step =>
            \A s \in SlotsRead(BuildOrder[i], req[r].project) \cap CustomSlots :
                Holds(req[r].env, s)

ServedIsCommitted ==
    \A r \in Requests : req[r].pc = "served" =>
        \A s \in SlotsOf(req[r].project) \cap CustomSlots : Holds(req[r].env, s)

SeenIsPast ==
    \A r \in Requests : Active(r) => \A s \in Slots : content[s] >= req[r].seen[s]

QuietInv ==
    /\ EditsAlone
    /\ EvictedUntilCommit
    /\ StoredIsCommitted
    /\ BuildsAreCommitted
    /\ ServedIsCommitted
    /\ SeenIsPast
=============================================================================
