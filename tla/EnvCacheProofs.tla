--------------------------- MODULE EnvCacheProofs ---------------------------
(***************************************************************************)
(* Proofs about EnvCache, for every number of projects, requests, content  *)
(* slots and sessions: the type invariant, and the two freshness           *)
(* guarantees that hold as long as edits of one project row do not overlap.*)
(***************************************************************************)
EXTENDS EnvCache, TLAPS

LEMMA BuildOrderFacts ==
    /\ Len(BuildOrder) = 5
    /\ \A i \in 1..5 : BuildOrder[i] \in CustomKinds \cup {"glob", "proj"}
    /\ BuildOrder[1] = "filters" /\ BuildOrder[2] = "objects"
    /\ BuildOrder[3] = "macros" /\ BuildOrder[4] = "glob" /\ BuildOrder[5] = "proj"
BY DEF BuildOrder, CustomKinds

\* Every slot of a project is read by one of the five SELECTs of a build.
LEMMA BuildReadsAllSlots ==
    ASSUME NEW p, NEW s \in SlotsOf(p)
    PROVE  \E i \in 1..5 : s \in SlotsRead(BuildOrder[i], p)
<1>1. s \in Slots /\ s[2] \in {p, Global}
  BY DEF SlotsOf
<1>2. s[1] \in CustomKinds \cup {"glob", "proj"}
  BY <1>1 DEF Slots
<1>3. \E i \in 1..5 : s[1] = BuildOrder[i]
  BY <1>2, BuildOrderFacts DEF CustomKinds
<1> QED
  BY <1>1, <1>3 DEF SlotsRead

LEMMA SomeTypes ==
    /\ SomeProject \in Projects
    /\ SomeSlot \in Slots
    /\ ZeroVersions \in Versions
    /\ FirstRow \in Row
    /\ \A row \in Row : NewEnv(row) \in Env
    /\ \A p \in Projects : IdleRequest(p) \in RequestState
    /\ IdleAdmin \in [pc : {"idle", "flushed", "invalidated"}, slot : Slots]
    /\ IdleEditor \in [pc : {"idle", "begun", "locked"}, project : Projects, began : Nat]
<1>1. SomeProject \in Projects
  BY ConstantsAssumption DEF SomeProject
<1>2. SomeSlot \in Slots
  BY DEF SomeSlot, Slots
<1>3. ZeroVersions \in Versions
  BY DEF ZeroVersions, Versions
<1>4. FirstRow \in Row
  BY <1>3 DEF FirstRow, Row
<1>5. \A row \in Row : NewEnv(row) \in Env
  BY <1>3 DEF NewEnv, Env
<1>6. \A p \in Projects : IdleRequest(p) \in RequestState
  BY <1>3, <1>4, <1>5, BuildOrderFacts DEF IdleRequest, RequestState
<1> QED
  BY <1>1, <1>2, <1>3, <1>4, <1>5, <1>6 DEF IdleAdmin, IdleEditor

\* Updating the fields a handler updates keeps a request well-formed.
LEMMA RequestUpdates ==
    ASSUME NEW q \in RequestState, NEW env \in Env, NEW step \in 1..(Len(BuildOrder) + 1),
           NEW pc \in {"idle", "loaded", "building", "served"}
    PROVE  /\ [q EXCEPT !.pc = pc] \in RequestState
           /\ [q EXCEPT !.pc = pc, !.env = env] \in RequestState
           /\ [q EXCEPT !.pc = pc, !.step = step, !.env = env] \in RequestState
BY DEF RequestState

-----------------------------------------------------------------------------
(* Type correctness.                                                       *)

LEMMA InitTypeOK == Init => TypeOK
BY SomeTypes DEF Init, TypeOK

LEMMA NextTypeOK == TypeOK /\ [Next]_vars => TypeOK'
<1> SUFFICES ASSUME TypeOK, [Next]_vars PROVE TypeOK'
  OBVIOUS
<1> USE DEF TypeOK
<1>1. ASSUME NEW r \in Requests, NEW p \in Projects, LoadProject(r, p) PROVE TypeOK'
  BY <1>1, SomeTypes, BuildOrderFacts DEF LoadProject, IdleRequest, RequestState
<1>2. ASSUME NEW r \in Requests, CacheHit(r) PROVE TypeOK'
  <2>1. cache[req[r].project] \in Env
    BY <1>2 DEF CacheHit, IsFresh, RequestState
  <2>2. [req[r] EXCEPT !.pc = "served", !.env = cache[req[r].project]] \in RequestState
    <3>1. req[r] \in RequestState /\ 1 \in 1..(Len(BuildOrder) + 1)
      BY BuildOrderFacts
    <3> HIDE DEF TypeOK
    <3> QED
      BY <2>1, <3>1, RequestUpdates
  <2>3. req' = [req EXCEPT ![r] = [req[r] EXCEPT !.pc = "served", !.env = cache[req[r].project]]]
    BY <1>2 DEF CacheHit
  <2>4. req' \in [Requests -> RequestState]
    BY <2>2, <2>3
  <2> QED
    BY <1>2, <2>4 DEF CacheHit
<1>3. ASSUME NEW r \in Requests, CacheMiss(r) PROVE TypeOK'
  <2>1. NewEnv(req[r].row) \in Env
    BY SomeTypes DEF RequestState
  <2>2. [req[r] EXCEPT !.pc = "building", !.step = 1, !.env = NewEnv(req[r].row)] \in RequestState
    <3>1. req[r] \in RequestState /\ 1 \in 1..(Len(BuildOrder) + 1)
      BY BuildOrderFacts
    <3> HIDE DEF TypeOK
    <3> QED
      BY <2>1, <3>1, RequestUpdates
  <2>3. req' = [req EXCEPT ![r] = [req[r] EXCEPT !.pc = "building", !.step = 1,
                                                 !.env = NewEnv(req[r].row)]]
    BY <1>3 DEF CacheMiss
  <2>4. req' \in [Requests -> RequestState]
    BY <2>2, <2>3
  <2> QED
    BY <1>3, <2>4 DEF CacheMiss
<1>4. ASSUME NEW r \in Requests, ReadTable(r) PROVE TypeOK'
  <2> DEFINE read == SlotsRead(BuildOrder[req[r].step], req[r].project)
             new == [s \in Slots |-> IF s \in read THEN content[s] ELSE req[r].env.content[s]]
  <2>1. req[r] \in RequestState
    OBVIOUS
  <2>2. new \in Versions
    BY <2>1 DEF RequestState, Env, Versions
  <2>3. req' = [req EXCEPT ![r].step = req[r].step + 1, ![r].env.content = new]
    BY <1>4 DEF ReadTable
  <2>4. req[r].step + 1 \in 1..(Len(BuildOrder) + 1)
    BY <1>4, <2>1, BuildOrderFacts DEF ReadTable, RequestState
  <2>5. [req[r] EXCEPT !.step = req[r].step + 1, !.env.content = new] \in RequestState
    BY <2>1, <2>2, <2>4 DEF RequestState, Env
  <2>6. req' \in [Requests -> RequestState]
    BY <2>3, <2>5
  <2> QED
    BY <1>4, <2>6 DEF ReadTable
<1>5. ASSUME NEW r \in Requests, StoreEnv(r) PROVE TypeOK'
  <2>1. req[r] \in RequestState /\ req[r].env \in Env
    BY DEF RequestState
  <2>2. [req[r] EXCEPT !.pc = "served"] \in RequestState
    BY <2>1, BuildOrderFacts, RequestUpdates DEF RequestState
  <2>3. cache' = [cache EXCEPT ![req[r].project] = req[r].env]
    BY <1>5 DEF StoreEnv
  <2>4. cache' \in [Projects -> Env \cup {NoEnv}]
    BY <2>1, <2>3
  <2>5. req' \in [Requests -> RequestState]
    BY <1>5, <2>2 DEF StoreEnv
  <2> QED
    BY <1>5, <2>4, <2>5 DEF StoreEnv
<1>6. ASSUME NEW r \in Requests, FinishRequest(r) PROVE TypeOK'
  BY <1>6, SomeTypes DEF FinishRequest
<1>7. ASSUME NEW a \in Admins, NEW s \in EditedSlots, FlushEdit(a, s) PROVE TypeOK'
  BY <1>7, EditedSlotsAssumption DEF FlushEdit
<1>8. ASSUME NEW a \in Admins, InvalidateCaches(a) PROVE TypeOK'
  BY <1>8 DEF InvalidateCaches
<1>9. ASSUME NEW a \in Admins, CommitEdit(a) PROVE TypeOK'
  BY <1>9, SomeTypes DEF CommitEdit, Versions
<1>10. ASSUME NEW a \in Admins, RollbackEdit(a) PROVE TypeOK'
  BY <1>10, SomeTypes DEF RollbackEdit
<1>11. ASSUME NEW e \in Editors, NEW p \in Projects, BeginProjectEdit(e, p) PROVE TypeOK'
  BY <1>11 DEF BeginProjectEdit
<1>12. ASSUME NEW e \in Editors, FlushProjectEdit(e) PROVE TypeOK'
  BY <1>12 DEF FlushProjectEdit
<1>13. ASSUME NEW e \in Editors, CommitProjectEdit(e) PROVE TypeOK'
  BY <1>13, SomeTypes DEF CommitProjectEdit, Row
<1>14. ASSUME NEW e \in Editors, RollbackProjectEdit(e) PROVE TypeOK'
  BY <1>14, SomeTypes DEF RollbackProjectEdit
<1>15. CASE Restart
  BY <1>15, SomeTypes DEF Restart
<1>16. CASE UNCHANGED vars
  BY <1>16 DEF vars
<1> QED
  BY <1>1, <1>2, <1>3, <1>4, <1>5, <1>6, <1>7, <1>8, <1>9, <1>10, <1>11, <1>12,
     <1>13, <1>14, <1>15, <1>16
     DEF Next, RequestStep, AdminStep, EditorStep

\* Cache entries are whole environments and every request, content edit and
\* project edit is at one of its await points (environment_factory.py).
THEOREM TypeCorrect == Spec => []TypeOK
BY InitTypeOK, NextTypeOK, PTL DEF Spec
-----------------------------------------------------------------------------
(* Freshness.  A step other than the commit of a project edit creates no   *)
(* new stamp: it copies rows that are already referred to.                 *)

LEMMA InStamps ==
    ASSUME NEW p
    PROVE  \A x : x \in Stamps(p) <=>
               \/ x = project[p]
               \/ \E r \in Requests : Active(r) /\ req[r].project = p /\ x = req[r].row
               \/ cache[p] # NoEnv /\ x = cache[p].row
BY DEF Stamps

LEMMA InStampsPrime ==
    ASSUME NEW p
    PROVE  \A x : x \in Stamps(p)' <=>
               \/ x = project'[p]
               \/ \E r \in Requests : Active(r)' /\ req'[r].project = p /\ x = req'[r].row
               \/ cache'[p] # NoEnv /\ x = cache'[p].row
BY DEF Stamps

\* What every step but a project commit does to what a stamp can come from.
CopiesRows ==
    /\ \A r \in Requests : Active(r)' =>
          \/ Active(r) /\ req'[r].project = req[r].project /\ req'[r].row = req[r].row
          \/ req'[r].row = project[req'[r].project]
    /\ \A p \in Projects : cache'[p] # NoEnv =>
          \/ cache'[p] = cache[p]
          \/ \E r \in Requests : Active(r) /\ req[r].project = p /\ cache'[p].row = req[r].row

LEMMA StampsOfCopies ==
    ASSUME CopiesRows, project' = project, NEW p \in Projects
    PROVE  Stamps(p)' \subseteq Stamps(p)
<1> SUFFICES ASSUME NEW x \in Stamps(p)' PROVE x \in Stamps(p)
  OBVIOUS
<1>1. CASE x = project'[p]
  BY <1>1, InStamps
<1>2. ASSUME NEW r \in Requests, Active(r)', req'[r].project = p, x = req'[r].row
      PROVE  x \in Stamps(p)
  BY <1>2, InStamps DEF CopiesRows
<1>3. CASE cache'[p] # NoEnv /\ x = cache'[p].row
  BY <1>3, InStamps DEF CopiesRows
<1> QED
  BY <1>1, <1>2, <1>3, InStampsPrime

LEMMA NextCopiesRows ==
    ASSUME TypeOK, BuildsHaveFloor, [Next]_vars,
           ~ \E e \in Editors : CommitProjectEdit(e)
    PROVE  CopiesRows /\ project' = project
<1>0. /\ req \in [Requests -> RequestState]
      /\ cache \in [Projects -> Env \cup {NoEnv}]
      /\ SomeProject \in Projects
  BY SomeTypes DEF TypeOK
<1> USE DEF CopiesRows, Active
<1>1. ASSUME NEW r \in Requests, NEW p \in Projects, LoadProject(r, p)
      PROVE  CopiesRows /\ project' = project
  BY <1>0, <1>1 DEF LoadProject, IdleRequest
<1>2. ASSUME NEW r \in Requests, CacheHit(r) PROVE CopiesRows /\ project' = project
  BY <1>0, <1>2 DEF CacheHit, RequestState
<1>3. ASSUME NEW r \in Requests, CacheMiss(r) PROVE CopiesRows /\ project' = project
  BY <1>0, <1>3 DEF CacheMiss, RequestState
<1>4. ASSUME NEW r \in Requests, ReadTable(r) PROVE CopiesRows /\ project' = project
  BY <1>0, <1>4 DEF ReadTable, RequestState
<1>5. ASSUME NEW r \in Requests, StoreEnv(r) PROVE CopiesRows /\ project' = project
  <2>1. req[r].env.row = req[r].row /\ req[r].project \in Projects
    BY <1>0, <1>5 DEF StoreEnv, BuildsHaveFloor, RequestState
  <2> QED
    BY <1>0, <1>5, <2>1 DEF StoreEnv, RequestState
<1>6. ASSUME NEW r \in Requests, FinishRequest(r) PROVE CopiesRows /\ project' = project
  BY <1>0, <1>6 DEF FinishRequest, IdleRequest
<1>7. ASSUME NEW a \in Admins, AdminStep(a) PROVE CopiesRows /\ project' = project
  BY <1>0, <1>7 DEF AdminStep, FlushEdit, InvalidateCaches, CommitEdit, RollbackEdit
<1>8. ASSUME NEW e \in Editors, EditorStep(e) PROVE CopiesRows /\ project' = project
  BY <1>0, <1>8 DEF EditorStep, BeginProjectEdit, FlushProjectEdit, RollbackProjectEdit
<1>9. CASE Restart
  BY <1>0, <1>9 DEF Restart, IdleRequest
<1>10. CASE UNCHANGED vars
  BY <1>0, <1>10 DEF vars
<1> QED
  BY <1>1, <1>2, <1>3, <1>4, <1>5, <1>6, <1>7, <1>8, <1>9, <1>10 DEF Next, RequestStep

\* Time and content only grow.
LEMMA NextMonotone ==
    ASSUME TypeOK, [Next]_vars
    PROVE  clock' >= clock /\ \A s \in Slots : content'[s] >= content[s]
<1>1. clock \in Nat /\ \A s \in Slots : content[s] \in Nat
  BY DEF TypeOK, Versions
<1>2. ASSUME NEW r \in Requests, RequestStep(r) PROVE UNCHANGED <<clock, content>>
  BY <1>2 DEF RequestStep, LoadProject, CacheHit, CacheMiss, ReadTable, StoreEnv, FinishRequest
<1>3. ASSUME NEW a \in Admins, AdminStep(a)
      PROVE  clock' = clock /\ \A s \in Slots : content'[s] >= content[s]
  BY <1>1, <1>3 DEF AdminStep, FlushEdit, InvalidateCaches, CommitEdit, RollbackEdit, TypeOK, Versions
<1>4. ASSUME NEW e \in Editors, EditorStep(e) PROVE content' = content /\ clock' >= clock
  BY <1>1, <1>4 DEF EditorStep, BeginProjectEdit, FlushProjectEdit, CommitProjectEdit,
                    RollbackProjectEdit
<1> QED
  BY <1>1, <1>2, <1>3, <1>4 DEF Next, Restart, vars

\* Every row a project's renders refer to is covered by the committed one.
LEMMA CurrentCovers ==
    ASSUME TypeOK, StampsOrdered, CurrentIsNewest, NEW p \in Projects, NEW x \in Stamps(p)
    PROVE  Covers(project[p], x)
BY InStamps DEF StampsOrdered, CurrentIsNewest
-----------------------------------------------------------------------------
(* Each part of the invariant is kept by every step.                       *)

LEMMA StampTypes ==
    ASSUME TypeOK, NEW p \in Projects
    PROVE  Stamps(p) \subseteq Row
BY InStamps DEF TypeOK, RequestState, Env

LEMMA OrderKeptByCopies ==
    ASSUME TypeOK, FreshInv, [Next]_vars, ~ \E e \in Editors : CommitProjectEdit(e)
    PROVE  StampsOrdered' /\ CurrentIsNewest'
<1>1. CopiesRows /\ project' = project
  BY NextCopiesRows DEF FreshInv
<1>2. \A p \in Projects : Stamps(p)' \subseteq Stamps(p)
  BY <1>1, StampsOfCopies
<1>3. StampsOrdered'
  BY <1>2 DEF FreshInv, StampsOrdered
<1>4. ASSUME NEW p \in Projects
      PROVE  /\ \A x \in Stamps(p)' : x.updatedAt <= project'[p].updatedAt
             /\ project'[p].updatedAt <= clock'
             /\ \A s \in Slots : content'[s] >= project'[p].floor[s]
  <2>1. project[p] \in Row /\ clock \in Nat /\ clock' \in Nat
    BY NextTypeOK DEF TypeOK
  <2>2. \A s \in Slots : content[s] \in Nat /\ content'[s] \in Nat
    BY NextTypeOK DEF TypeOK, Versions
  <2>3. \A x \in Stamps(p)' : x.updatedAt <= project'[p].updatedAt
    BY <1>1, <1>2 DEF FreshInv, CurrentIsNewest
  <2>4. project'[p].updatedAt <= clock'
    BY <1>1, <2>1, NextMonotone DEF FreshInv, CurrentIsNewest, Row
  <2>5. \A s \in Slots : content'[s] >= project'[p].floor[s]
    BY <1>1, <2>1, <2>2, NextMonotone DEF FreshInv, CurrentIsNewest, Row, Versions
  <2> QED
    BY <2>3, <2>4, <2>5
<1> QED
  BY <1>3, <1>4 DEF CurrentIsNewest

LEMMA OrderKeptByCommit ==
    ASSUME TypeOK, FreshInv, NEW e \in Editors, CommitProjectEdit(e)
    PROVE  StampsOrdered' /\ CurrentIsNewest'
<1>0. PICK q \in Projects : q = editor[e].project
  BY DEF TypeOK
<1> DEFINE new == [path |-> project[q].path + 1, updatedAt |-> editor[e].began,
                   floor |-> content]
<1>1. q \in Projects /\ project[q] \in Row /\ content \in Versions
      /\ clock \in Nat /\ editor[e].began \in Nat
  BY DEF TypeOK
<1>2. project' = [project EXCEPT ![q] = new] /\ UNCHANGED <<clock, content, cache, req>>
  BY <1>0, <1>1 DEF CommitProjectEdit
<1>3. editor[e].began <= clock /\ editor[e].began > project[q].updatedAt
  BY <1>0 DEF CommitProjectEdit, FreshInv, EditsAhead
<1>3a. /\ project'[q] = new
       /\ \A p \in Projects \ {q} : project'[p] = project[p]
       /\ \A r \in Requests : Active(r)' <=> Active(r)
  BY <1>1, <1>2 DEF Active, TypeOK
<1>4. \A p \in Projects \ {q} : Stamps(p)' \subseteq Stamps(p) /\ project'[p] = project[p]
  BY <1>2, <1>3a, InStamps, InStampsPrime
<1>5. Stamps(q)' \subseteq Stamps(q) \cup {new} /\ project'[q] = new
  BY <1>2, <1>3a, InStamps, InStampsPrime
<1>6. ASSUME NEW x \in Stamps(q)
      PROVE  /\ x \in Row
             /\ x.updatedAt < new.updatedAt
             /\ Covers(new, x)
  <2>1. x \in Row
    BY <1>1, StampTypes
  <2>2. x.updatedAt <= project[q].updatedAt /\ Covers(project[q], x)
    BY <1>1, CurrentCovers DEF FreshInv, CurrentIsNewest
  <2>3. x.updatedAt < new.updatedAt
    BY <1>1, <1>3, <2>1, <2>2 DEF Row
  <2>4. new.path >= x.path
    BY <1>1, <2>1, <2>2 DEF Covers, Row
  <2>5. ASSUME NEW s \in Slots PROVE new.floor[s] >= x.floor[s]
    <3>1. content[s] >= project[q].floor[s] /\ project[q].floor[s] >= x.floor[s]
      BY <1>1, <2>2 DEF FreshInv, CurrentIsNewest, Covers
    <3>2. content[s] \in Nat /\ project[q].floor[s] \in Nat /\ x.floor[s] \in Nat
      BY <1>1, <2>1 DEF Row, Versions
    <3> QED
      BY <3>1, <3>2
  <2> QED
    BY <2>1, <2>3, <2>4, <2>5 DEF Covers
<1>7. Covers(new, new)
  BY <1>1 DEF Covers, Row, Versions
<1>8. ASSUME NEW p \in Projects, NEW x \in Stamps(p)', NEW y \in Stamps(p)',
             x.updatedAt >= y.updatedAt
      PROVE  Covers(x, y)
  <2>1. CASE p # q
    BY <1>4, <1>8, <2>1 DEF FreshInv, StampsOrdered
  <2>2. CASE p = q /\ x \in Stamps(q) /\ y \in Stamps(q)
    BY <1>1, <1>8, <2>2 DEF FreshInv, StampsOrdered
  <2>3. CASE p = q /\ x = new
    BY <1>5, <1>6, <1>7, <2>3
  <2>4. CASE p = q /\ x \in Stamps(q) /\ y = new
    <3>1. x.updatedAt \in Nat /\ new.updatedAt \in Nat /\ x.updatedAt < new.updatedAt
      BY <1>1, <1>6, <2>4 DEF Row
    <3> QED
      BY <1>8, <2>4, <3>1
  <2> QED
    BY <1>5, <2>1, <2>2, <2>3, <2>4
<1>9. ASSUME NEW p \in Projects
      PROVE  /\ \A x \in Stamps(p)' : x.updatedAt <= project'[p].updatedAt
             /\ project'[p].updatedAt <= clock'
             /\ \A s \in Slots : content'[s] >= project'[p].floor[s]
  <2>1. CASE p # q
    BY <1>2, <1>4, <2>1 DEF FreshInv, CurrentIsNewest
  <2>2. CASE p = q
    <3>1. ASSUME NEW x \in Stamps(q)' PROVE x.updatedAt <= new.updatedAt
      BY <1>1, <1>5, <1>6 DEF Row
    <3>2. \A s \in Slots : content[s] >= content[s]
      BY <1>1 DEF Versions
    <3> QED
      BY <1>2, <1>3, <1>5, <2>2, <3>1, <3>2
  <2> QED
    BY <2>1, <2>2
<1> QED
  BY <1>8, <1>9 DEF StampsOrdered, CurrentIsNewest
LEMMA EditsKept ==
    ASSUME TypeOK, FreshInv, [Next]_vars, SerialEdits
    PROVE  EditsAhead'
<1>0. /\ editor \in [Editors -> [pc : {"idle", "begun", "locked"},
                                 project : Projects, began : Nat]]
      /\ project \in [Projects -> Row] /\ clock \in Nat /\ EditsAhead /\ CurrentIsNewest
      /\ \A p \in Projects : project[p].updatedAt \in Nat
  BY DEF TypeOK, FreshInv, Row
<1> USE DEF EditsAhead
<1>1. CASE UNCHANGED <<editor, project, clock>>
  BY <1>0, <1>1
<1>2. ASSUME NEW e \in Editors, NEW p \in Projects, BeginProjectEdit(e, p) PROVE EditsAhead'
  <2>1. project[p].updatedAt <= clock /\ clock' = clock + 1 /\ project' = project
    BY <1>0, <1>2 DEF BeginProjectEdit, CurrentIsNewest
  <2>2. editor' = [editor EXCEPT ![e] = [pc |-> "begun", project |-> p, began |-> clock + 1]]
    BY <1>2 DEF BeginProjectEdit
  <2>3. \A f \in Editors : editor[f].pc = "idle" \/ editor[f].project # p
    BY <1>2 DEF BeginProjectEdit
  <2>4. editor'[e] = [pc |-> "begun", project |-> p, began |-> clock + 1]
        /\ \A f \in Editors \ {e} : editor'[f] = editor[f]
    BY <1>0, <2>2
  <2>5. \A f \in Editors : editor'[f].pc # "idle" =>
           editor'[f].began <= clock' /\ editor'[f].began > project'[editor'[f].project].updatedAt
    BY <1>0, <2>1, <2>4
  <2>6. \A f, g \in Editors : f # g /\ editor'[f].pc # "idle" /\ editor'[g].pc # "idle"
           => editor'[f].project # editor'[g].project
    BY <1>0, <2>3, <2>4
  <2> QED
    BY <2>5, <2>6
<1>3. ASSUME NEW e \in Editors, FlushProjectEdit(e) PROVE EditsAhead'
  BY <1>0, <1>3 DEF FlushProjectEdit
<1>4. ASSUME NEW e \in Editors, CommitProjectEdit(e) PROVE EditsAhead'
  <2>1. editor'[e].pc = "idle" /\ (\A f \in Editors \ {e} : editor'[f] = editor[f])
        /\ clock' = clock
    BY <1>0, <1>4 DEF CommitProjectEdit, IdleEditor
  <2>2. \A p \in Projects : p # editor[e].project => project'[p] = project[p]
    BY <1>0, <1>4 DEF CommitProjectEdit
  <2>3. editor[e].pc # "idle"
    BY <1>4 DEF CommitProjectEdit
  <2> QED
    BY <1>0, <2>1, <2>2, <2>3
<1>5. ASSUME NEW e \in Editors, RollbackProjectEdit(e) PROVE EditsAhead'
  BY <1>0, <1>5 DEF RollbackProjectEdit, IdleEditor
<1>6. CASE Restart
  BY <1>0, <1>6 DEF Restart, IdleEditor
<1>7. ASSUME NEW r \in Requests, RequestStep(r) PROVE UNCHANGED <<editor, project, clock>>
  BY <1>7 DEF RequestStep, LoadProject, CacheHit, CacheMiss, ReadTable, StoreEnv, FinishRequest
<1>8. ASSUME NEW a \in Admins, AdminStep(a) PROVE UNCHANGED <<editor, project, clock>>
  BY <1>8 DEF AdminStep, FlushEdit, InvalidateCaches, CommitEdit, RollbackEdit
<1> QED
  BY <1>1, <1>2, <1>3, <1>4, <1>5, <1>6, <1>7, <1>8 DEF Next, EditorStep, vars

\* A committed slot version is recent enough for any request in flight.
LEMMA ContentAboveFloor ==
    ASSUME TypeOK, FreshInv, NEW r \in Requests, Active(r), NEW s \in Slots
    PROVE  content[s] >= req[r].row.floor[s]
<1>0. PICK p \in Projects : p = req[r].project
  BY DEF TypeOK, RequestState
<1>1. req[r].row \in Stamps(p) /\ project[p] \in Row /\ req[r].row \in Row
  BY <1>0, InStamps DEF TypeOK, RequestState
<1>2. content[s] >= project[p].floor[s] /\ project[p].floor[s] >= req[r].row.floor[s]
  BY <1>1, CurrentCovers DEF FreshInv, CurrentIsNewest, Covers
<1>3. content[s] \in Nat /\ project[p].floor[s] \in Nat /\ req[r].row.floor[s] \in Nat
  BY <1>1 DEF TypeOK, Row, Versions
<1> QED
  BY <1>2, <1>3

LEMMA BuildsKept ==
    ASSUME TypeOK, FreshInv, [Next]_vars
    PROVE  BuildsHaveFloor'
<1>0. req \in [Requests -> RequestState] /\ BuildsHaveFloor
  BY DEF TypeOK, FreshInv
<1> USE DEF BuildsHaveFloor, HasFloor
<1>1. CASE req' = req
  BY <1>0, <1>1
<1>2. ASSUME NEW r \in Requests, NEW p \in Projects, LoadProject(r, p) PROVE BuildsHaveFloor'
  BY <1>0, <1>2 DEF LoadProject, IdleRequest
<1>3. ASSUME NEW r \in Requests, CacheHit(r) PROVE BuildsHaveFloor'
  BY <1>0, <1>3 DEF CacheHit, RequestState
<1>4. ASSUME NEW r \in Requests, CacheMiss(r) PROVE BuildsHaveFloor'
  <2>1. req'[r].step = 1 /\ req'[r].env.row = req'[r].row
        /\ \A q \in Requests \ {r} : req'[q] = req[q]
    BY <1>0, <1>4 DEF CacheMiss, NewEnv, RequestState
  <2>2. \A i \in 1..Len(BuildOrder) : ~ (i < 1)
    BY BuildOrderFacts
  <2> QED
    BY <1>0, <2>1, <2>2
<1>5. ASSUME NEW r \in Requests, ReadTable(r) PROVE BuildsHaveFloor'
  <2> DEFINE read == SlotsRead(BuildOrder[req[r].step], req[r].project)
  <2>1. /\ req[r] \in RequestState /\ req[r].pc = "building"
        /\ req[r].env.row = req[r].row /\ req[r].step \in Nat
    BY <1>0, <1>5 DEF ReadTable, RequestState
  <2>2. /\ \A q \in Requests \ {r} : req'[q] = req[q]
        /\ req'[r].project = req[r].project /\ req'[r].row = req[r].row
        /\ req'[r].step = req[r].step + 1
        /\ req'[r].env.row = req[r].env.row
        /\ \A s \in Slots : req'[r].env.content[s] =
               IF s \in read THEN content[s] ELSE req[r].env.content[s]
    BY <1>0, <1>5 DEF ReadTable, RequestState, Env
  <2>3. ASSUME NEW i \in 1..Len(BuildOrder), i < req[r].step + 1,
               NEW s \in SlotsRead(BuildOrder[i], req[r].project)
        PROVE  req'[r].env.content[s] >= req'[r].env.row.floor[s]
    <3>1. s \in Slots
      BY DEF SlotsRead
    <3>2. CASE s \in read
      BY <2>1, <2>2, <3>1, <3>2, ContentAboveFloor DEF Active
    <3>3. CASE s \notin read
      <4>1. i < req[r].step
        BY <2>1, <2>3, <3>3, BuildOrderFacts
      <4> QED
        BY <1>0, <2>1, <2>2, <3>1, <3>3, <4>1
    <3> QED
      BY <3>2, <3>3
  <2> QED
    BY <1>0, <2>1, <2>2, <2>3
<1>6. ASSUME NEW r \in Requests, StoreEnv(r) PROVE BuildsHaveFloor'
  BY <1>0, <1>6 DEF StoreEnv, RequestState
<1>7. ASSUME NEW r \in Requests, FinishRequest(r) PROVE BuildsHaveFloor'
  BY <1>0, <1>7 DEF FinishRequest, IdleRequest
<1>8. ASSUME NEW a \in Admins, AdminStep(a) PROVE req' = req
  BY <1>8 DEF AdminStep, FlushEdit, InvalidateCaches, CommitEdit, RollbackEdit
<1>9. ASSUME NEW e \in Editors, EditorStep(e) PROVE req' = req
  BY <1>9 DEF EditorStep, BeginProjectEdit, FlushProjectEdit, CommitProjectEdit, RollbackProjectEdit
<1>10. CASE Restart
  BY <1>0, <1>10 DEF Restart, IdleRequest
<1> QED
  BY <1>1, <1>2, <1>3, <1>4, <1>5, <1>6, <1>7, <1>8, <1>9, <1>10 DEF Next, RequestStep, vars
\* What a finished build stores holds everything its row promises.
LEMMA FinishedBuildHasFloor ==
    ASSUME TypeOK, FreshInv, NEW r \in Requests, StoreEnv(r),
           NEW s \in SlotsOf(req[r].project)
    PROVE  HasFloor(req[r].env, s)
<1>1. PICK i \in 1..5 : s \in SlotsRead(BuildOrder[i], req[r].project)
  BY BuildReadsAllSlots
<1>2. i \in 1..Len(BuildOrder) /\ i < req[r].step /\ req[r].pc = "building"
  BY BuildOrderFacts DEF StoreEnv, TypeOK, RequestState
<1> QED
  BY <1>1, <1>2 DEF FreshInv, BuildsHaveFloor

LEMMA StoredKept ==
    ASSUME TypeOK, FreshInv, [Next]_vars
    PROVE  StoredHaveFloor'
<1>0. /\ req \in [Requests -> RequestState] /\ StoredHaveFloor
      /\ cache \in [Projects -> Env \cup {NoEnv}]
  BY DEF TypeOK, FreshInv
<1> USE DEF StoredHaveFloor, HasFloor
<1>1. CASE cache' = cache
  BY <1>0, <1>1
<1>2. ASSUME NEW r \in Requests, StoreEnv(r) PROVE StoredHaveFloor'
  <2>1. \A s \in SlotsOf(req[r].project) : HasFloor(req[r].env, s)
    BY <1>2, FinishedBuildHasFloor
  <2>2. \A p \in Projects : IF p = req[r].project THEN cache'[p] = req[r].env
                                                  ELSE cache'[p] = cache[p]
    BY <1>0, <1>2 DEF StoreEnv
  <2> QED
    BY <1>0, <2>1, <2>2
<1>3. ASSUME NEW r \in Requests, RequestStep(r), ~ StoreEnv(r) PROVE cache' = cache
  BY <1>3 DEF RequestStep, LoadProject, CacheHit, CacheMiss, ReadTable, FinishRequest
<1>4. ASSUME NEW a \in Admins, InvalidateCaches(a) PROVE StoredHaveFloor'
  BY <1>0, <1>4 DEF InvalidateCaches
<1>5. ASSUME NEW a \in Admins, AdminStep(a), ~ InvalidateCaches(a) PROVE cache' = cache
  BY <1>5 DEF AdminStep, FlushEdit, CommitEdit, RollbackEdit
<1>6. ASSUME NEW e \in Editors, EditorStep(e) PROVE cache' = cache
  BY <1>6 DEF EditorStep, BeginProjectEdit, FlushProjectEdit, CommitProjectEdit, RollbackProjectEdit
<1>7. CASE Restart
  BY <1>7 DEF Restart
<1> QED
  BY <1>1, <1>2, <1>3, <1>4, <1>5, <1>6, <1>7 DEF Next, vars

LEMMA ServedKept ==
    ASSUME TypeOK, FreshInv, [Next]_vars
    PROVE  ServedCovers'
<1>0. /\ req \in [Requests -> RequestState] /\ ServedCovers
      /\ cache \in [Projects -> Env \cup {NoEnv}]
  BY DEF TypeOK, FreshInv
<1> USE DEF ServedCovers
<1>1. CASE req' = req
  BY <1>0, <1>1
<1>2. ASSUME NEW r \in Requests, NEW p \in Projects, LoadProject(r, p) PROVE ServedCovers'
  BY <1>0, <1>2 DEF LoadProject, IdleRequest
<1>3. ASSUME NEW r \in Requests, CacheHit(r) PROVE ServedCovers'
  <2>0. PICK p \in Projects : p = req[r].project
    BY <1>0 DEF RequestState
  <2>1. /\ req'[r].env = cache[p] /\ req'[r].row = req[r].row /\ req'[r].project = p
        /\ \A q \in Requests \ {r} : req'[q] = req[q]
    BY <1>0, <1>3, <2>0 DEF CacheHit
  <2>2. cache[p] # NoEnv /\ cache[p].row.updatedAt >= req[r].row.updatedAt /\ Active(r)
    BY <1>3, <2>0 DEF CacheHit, IsFresh, Active
  <2>3. cache[p].row \in Stamps(p) /\ req[r].row \in Stamps(p)
    BY <2>0, <2>2, InStamps
  <2>4. Covers(cache[p].row, req[r].row)
    BY <2>2, <2>3 DEF FreshInv, StampsOrdered
  <2>5. \A s \in SlotsOf(p) : HasFloor(cache[p], s)
    BY <2>2 DEF FreshInv, StoredHaveFloor
  <2> QED
    BY <1>0, <2>1, <2>4, <2>5
<1>4. ASSUME NEW r \in Requests, CacheMiss(r) PROVE ServedCovers'
  BY <1>0, <1>4 DEF CacheMiss, RequestState
<1>5. ASSUME NEW r \in Requests, ReadTable(r) PROVE ServedCovers'
  <2>1. req[r].pc = "building" /\ req'[r].pc = "building"
        /\ \A q \in Requests \ {r} : req'[q] = req[q]
    BY <1>0, <1>5 DEF ReadTable, RequestState
  <2> QED
    BY <1>0, <2>1
<1>6. ASSUME NEW r \in Requests, StoreEnv(r) PROVE ServedCovers'
  <2>1. \A s \in SlotsOf(req[r].project) : HasFloor(req[r].env, s)
    BY <1>6, FinishedBuildHasFloor
  <2>2. req[r].env.row = req[r].row /\ req[r].row \in Row
    BY <1>0, <1>6 DEF StoreEnv, FreshInv, BuildsHaveFloor, RequestState
  <2>3. Covers(req[r].env.row, req[r].row)
    BY <2>2 DEF Covers, Row, Versions
  <2>4. req'[r].env = req[r].env /\ req'[r].row = req[r].row /\ req'[r].project = req[r].project
        /\ \A q \in Requests \ {r} : req'[q] = req[q]
    BY <1>0, <1>6 DEF StoreEnv, RequestState
  <2> QED
    BY <1>0, <2>1, <2>3, <2>4
<1>7. ASSUME NEW r \in Requests, FinishRequest(r) PROVE ServedCovers'
  BY <1>0, <1>7 DEF FinishRequest, IdleRequest
<1>8. ASSUME NEW a \in Admins, AdminStep(a) PROVE req' = req
  BY <1>8 DEF AdminStep, FlushEdit, InvalidateCaches, CommitEdit, RollbackEdit
<1>9. ASSUME NEW e \in Editors, EditorStep(e) PROVE req' = req
  BY <1>9 DEF EditorStep, BeginProjectEdit, FlushProjectEdit, CommitProjectEdit, RollbackProjectEdit
<1>10. CASE Restart
  BY <1>0, <1>10 DEF Restart, IdleRequest
<1> QED
  BY <1>1, <1>2, <1>3, <1>4, <1>5, <1>6, <1>7, <1>8, <1>9, <1>10 DEF Next, RequestStep, vars
-----------------------------------------------------------------------------
(* The guarantees.                                                         *)

LEMMA InitFresh == Init => FreshInv
<1> SUFFICES ASSUME Init PROVE FreshInv
  OBVIOUS
<1>1. \A p \in Projects : \A x \in Stamps(p) : x = FirstRow
  BY InStamps DEF Init, Active, IdleRequest
<1>2. \A s \in Slots : FirstRow.floor[s] = 0 /\ content[s] = 0
  BY DEF Init, FirstRow, ZeroVersions
<1>3. Covers(FirstRow, FirstRow)
  BY <1>2 DEF Covers, FirstRow
<1>4. StampsOrdered
  BY <1>1, <1>3 DEF StampsOrdered
<1>5. CurrentIsNewest
  <2>1. clock = 0 /\ FirstRow.updatedAt = 0 /\ \A p \in Projects : project[p] = FirstRow
    BY DEF Init, FirstRow
  <2>2. \A p \in Projects : \A x \in Stamps(p) : x.updatedAt <= project[p].updatedAt
    BY <1>1, <2>1
  <2>3. \A p \in Projects : \A s \in Slots : content[s] >= project[p].floor[s]
    BY <1>2, <2>1
  <2>4. ASSUME NEW p \in Projects PROVE project[p].updatedAt <= clock
    <3>1. project[p].updatedAt = 0 /\ clock = 0
      BY <2>1
    <3>2. clock \in Nat /\ project[p].updatedAt \in Nat
      BY <3>1
    <3> QED
      BY <3>1, <3>2
  <2> QED
    BY <2>2, <2>3, <2>4, Zenon DEF CurrentIsNewest
<1>6. EditsAhead
  BY DEF Init, EditsAhead, IdleEditor
<1>7. BuildsHaveFloor /\ StoredHaveFloor /\ ServedCovers
  BY DEF Init, BuildsHaveFloor, StoredHaveFloor, ServedCovers, IdleRequest
<1> QED
  BY <1>4, <1>5, <1>6, <1>7 DEF FreshInv

LEMMA NextFresh == SerialEdits /\ TypeOK /\ FreshInv /\ [Next]_vars => FreshInv'
<1> SUFFICES ASSUME SerialEdits, TypeOK, FreshInv, [Next]_vars PROVE FreshInv'
  OBVIOUS
<1>1. StampsOrdered' /\ CurrentIsNewest'
  BY OrderKeptByCopies, OrderKeptByCommit
<1> QED
  BY <1>1, EditsKept, BuildsKept, StoredKept, ServedKept DEF FreshInv

LEMMA FreshIsInvariant == ASSUME SerialEdits PROVE Spec => []FreshInv
<1>1. TypeOK /\ FreshInv /\ [Next]_vars => FreshInv'
  BY NextFresh
<1> QED
  BY <1>1, InitFresh, TypeCorrect, PTL DEF Spec

\* As long as edits of one project row do not overlap, a render never uses an
\* environment built from a row older than the one it loaded (get_environment).
THEOREM RowFreshness == ASSUME SerialEdits PROVE Spec => []ServedRowFresh
<1>1. FreshInv => ServedRowFresh
  BY DEF FreshInv, ServedCovers, ServedRowFresh, Covers
<1> QED
  BY <1>1, FreshIsInvariant, PTL

\* Under the same condition an edit of the project makes every filter, object,
\* macro and parameter committed before it visible to the renders that see it.
THEOREM TouchFreshness == ASSUME SerialEdits PROVE Spec => []TouchRefreshesContent
<1>1. TypeOK /\ FreshInv => TouchRefreshesContent
  <2> SUFFICES ASSUME TypeOK, FreshInv, NEW r \in Requests, req[r].pc = "served",
                      NEW s \in SlotsOf(req[r].project)
               PROVE  req[r].env.content[s] >= req[r].row.floor[s]
    BY DEF TouchRefreshesContent
  <2>1. s \in Slots /\ req[r].env \in Env /\ req[r].row \in Row
    BY DEF SlotsOf, TypeOK, RequestState
  <2>2. req[r].env.content[s] >= req[r].env.row.floor[s]
        /\ req[r].env.row.floor[s] >= req[r].row.floor[s]
    BY <2>1 DEF FreshInv, ServedCovers, HasFloor, Covers
  <2>3. req[r].env.content[s] \in Nat /\ req[r].env.row.floor[s] \in Nat
        /\ req[r].row.floor[s] \in Nat
    BY <2>1 DEF Env, Row, Versions
  <2> QED
    BY <2>2, <2>3
<1> QED
  BY <1>1, FreshIsInvariant, TypeCorrect, PTL
-----------------------------------------------------------------------------
(* Eviction reaches every project.  With QuietEdits no build overlaps an   *)
(* edit of custom content, so what is evicted stays evicted to the commit. *)

LEMMA Shapes ==
    ASSUME TypeOK
    PROVE  /\ req \in [Requests -> RequestState]
           /\ cache \in [Projects -> Env \cup {NoEnv}]
           /\ admin \in [Admins -> [pc : {"idle", "flushed", "invalidated"}, slot : Slots]]
           /\ content \in [Slots -> Nat]
BY DEF TypeOK, Versions

\* An edited slot evicts every project whose environment is built from it.
LEMMA EvictionReaches ==
    ASSUME NEW p \in Projects, NEW s \in SlotsOf(p)
    PROVE  p \in EvictedBy(s)
BY ConstantsAssumption DEF SlotsOf, EvictedBy

LEMMA EditsAloneKept ==
    ASSUME TypeOK, QuietInv, QuietEdits, [Next]_vars
    PROVE  EditsAlone'
<1>0. /\ req \in [Requests -> RequestState] /\ EditsAlone
      /\ admin \in [Admins -> [pc : {"idle", "flushed", "invalidated"}, slot : Slots]]
  BY Shapes DEF QuietInv
<1> USE DEF EditsAlone, EditsCustom, Active
<1>1. CASE UNCHANGED <<req, admin>>
  BY <1>0, <1>1
<1>2. ASSUME NEW r \in Requests, RequestStep(r) PROVE EditsAlone'
  <2>1. CASE \E p \in Projects : LoadProject(r, p)
    BY <1>0, <2>1 DEF LoadProject
  <2>2. CASE ~ \E p \in Projects : LoadProject(r, p)
    <3>1. admin' = admin /\ \A q \in Requests : req'[q].pc # "idle" => req[q].pc # "idle"
      BY <1>0, <1>2, <2>2 DEF RequestStep, CacheHit, CacheMiss, ReadTable, StoreEnv, FinishRequest,
                              IdleRequest, RequestState
    <3> QED
      BY <1>0, <3>1
  <2> QED
    BY <2>1, <2>2
<1>3. ASSUME NEW a \in Admins, AdminStep(a) PROVE EditsAlone'
  <2>1. CASE \E s \in EditedSlots : FlushEdit(a, s)
    BY <1>0, <2>1 DEF FlushEdit
  <2>2. CASE InvalidateCaches(a)
    BY <1>0, <2>2 DEF InvalidateCaches
  <2>3. CASE CommitEdit(a) \/ RollbackEdit(a)
    BY <1>0, <2>3 DEF CommitEdit, RollbackEdit, IdleAdmin
  <2> QED
    BY <1>3, <2>1, <2>2, <2>3 DEF AdminStep
<1>4. ASSUME NEW e \in Editors, EditorStep(e) PROVE UNCHANGED <<req, admin>>
  BY <1>4 DEF EditorStep, BeginProjectEdit, FlushProjectEdit, CommitProjectEdit, RollbackProjectEdit
<1>5. CASE Restart
  BY <1>5 DEF Restart, IdleAdmin
<1> QED
  BY <1>1, <1>2, <1>3, <1>4, <1>5 DEF Next, vars

LEMMA EvictedKept ==
    ASSUME TypeOK, QuietInv, [Next]_vars
    PROVE  EvictedUntilCommit'
<1>0. /\ cache \in [Projects -> Env \cup {NoEnv}] /\ EvictedUntilCommit /\ EditsAlone
      /\ admin \in [Admins -> [pc : {"idle", "flushed", "invalidated"}, slot : Slots]]
      /\ \A s \in Slots : EvictedBy(s) \subseteq Projects
  BY Shapes DEF QuietInv, EvictedBy, Slots
<1> USE DEF EvictedUntilCommit, EditsCustom
<1>1. CASE UNCHANGED <<cache, admin>>
  BY <1>0, <1>1
<1>2. ASSUME NEW r \in Requests, RequestStep(r) PROVE EvictedUntilCommit'
  <2>1. CASE StoreEnv(r)
    <3>1. Active(r)
      BY <2>1 DEF StoreEnv, Active
    <3>2. \A a \in Admins : admin[a].pc # "invalidated"
      BY <1>0, <3>1 DEF EditsAlone
    <3> QED
      BY <2>1, <3>2 DEF StoreEnv
  <2>2. CASE ~ StoreEnv(r)
    BY <1>1, <1>2, <2>2 DEF RequestStep, LoadProject, CacheHit, CacheMiss, ReadTable, FinishRequest
  <2> QED
    BY <2>1, <2>2
<1>3. ASSUME NEW a \in Admins, InvalidateCaches(a) PROVE EvictedUntilCommit'
  <2>1. /\ admin'[a] = [admin[a] EXCEPT !.pc = "invalidated"]
        /\ \A b \in Admins \ {a} : admin'[b] = admin[b]
        /\ admin[a].slot \in CustomSlots
    BY <1>0, <1>3 DEF InvalidateCaches
  <2>2. \A p \in Projects : /\ p \in EvictedBy(admin[a].slot) => cache'[p] = NoEnv
                            /\ cache[p] = NoEnv => cache'[p] = NoEnv
    BY <1>3 DEF InvalidateCaches
  <2>3. admin'[a].slot = admin[a].slot /\ admin'[a].pc = "invalidated"
    BY <1>0, <2>1
  <2>4. ASSUME NEW b \in Admins, admin'[b].pc = "invalidated"
        PROVE  /\ admin'[b].pc # "idle" /\ admin'[b].slot \in CustomSlots
               /\ \A p \in EvictedBy(admin'[b].slot) : cache'[p] = NoEnv
    <3>1. /\ admin'[b].slot = admin[b].slot /\ admin[b].slot \in Slots
          /\ b # a => admin'[b] = admin[b]
      BY <1>0, <2>1, <2>3
    <3>2. admin'[b].pc # "idle" /\ admin'[b].slot \in CustomSlots
      BY <1>0, <2>1, <2>3, <2>4, <3>1
    <3>3. ASSUME NEW p \in EvictedBy(admin[b].slot) PROVE cache'[p] = NoEnv
      <4>1. p \in Projects
        BY <1>0, <3>1
      <4>2. b # a => cache[p] = NoEnv
        BY <1>0, <2>4, <3>1
      <4>3. b = a => p \in EvictedBy(admin[a].slot)
        OBVIOUS
      <4> QED
        BY <2>2, <4>1, <4>2, <4>3
    <3> QED
      BY <3>1, <3>2, <3>3
  <2> QED
    BY <2>4 DEF EvictedBy
<1>4. ASSUME NEW a \in Admins, AdminStep(a), ~ InvalidateCaches(a) PROVE EvictedUntilCommit'
  <2>1. /\ cache' = cache /\ admin'[a].pc # "invalidated"
        /\ \A b \in Admins \ {a} : admin'[b] = admin[b]
    BY <1>0, <1>4 DEF AdminStep, FlushEdit, CommitEdit, RollbackEdit, IdleAdmin
  <2> QED
    BY <1>0, <2>1
<1>5. ASSUME NEW e \in Editors, EditorStep(e) PROVE UNCHANGED <<cache, admin>>
  BY <1>5 DEF EditorStep, BeginProjectEdit, FlushProjectEdit, CommitProjectEdit, RollbackProjectEdit
<1>6. CASE Restart
  BY <1>6 DEF Restart, IdleAdmin
<1> QED
  BY <1>1, <1>2, <1>3, <1>4, <1>5, <1>6 DEF Next, vars

\* Custom content changes only by a commit after an eviction.
LEMMA CustomChanges ==
    ASSUME TypeOK, QuietInv, [Next]_vars
    PROVE  \/ \A s \in CustomSlots : content'[s] = content[s]
           \/ \E a \in Admins :
                 /\ admin[a].pc = "invalidated"
                 /\ \A s \in Slots \ {admin[a].slot} : content'[s] = content[s]
                 /\ UNCHANGED <<cache, req>>
<1>0. CustomSlots \subseteq Slots
  BY DEF CustomSlots, Slots
<1>1. CASE content' = content
  BY <1>1
<1>2. ASSUME NEW a \in Admins, CommitEdit(a)
      PROVE  \/ \A s \in CustomSlots : content'[s] = content[s]
             \/ /\ admin[a].pc = "invalidated"
                /\ \A s \in Slots \ {admin[a].slot} : content'[s] = content[s]
                /\ UNCHANGED <<cache, req>>
  <2>1. \A s \in Slots \ {admin[a].slot} : content'[s] = content[s]
    BY <1>2, Shapes DEF CommitEdit
  <2> QED
    BY <1>0, <1>2, <2>1 DEF CommitEdit, ReadyToCommit
<1>3. ASSUME NEW a \in Admins, AdminStep(a), ~ CommitEdit(a) PROVE content' = content
  BY <1>3 DEF AdminStep, FlushEdit, InvalidateCaches, RollbackEdit
<1>4. ASSUME NEW r \in Requests, RequestStep(r) PROVE content' = content
  BY <1>4 DEF RequestStep, LoadProject, CacheHit, CacheMiss, ReadTable, StoreEnv, FinishRequest
<1>5. ASSUME NEW e \in Editors, EditorStep(e) PROVE content' = content
  BY <1>5 DEF EditorStep, BeginProjectEdit, FlushProjectEdit, CommitProjectEdit, RollbackProjectEdit
<1> QED
  BY <1>1, <1>2, <1>3, <1>4, <1>5 DEF Next, Restart, vars

LEMMA NoCommitUnderRender ==
    ASSUME TypeOK, QuietInv, NEW a \in Admins, admin[a].pc = "invalidated"
    PROVE  \A r \in Requests : ~ Active(r)
BY DEF QuietInv, EvictedUntilCommit, EditsAlone

\* A finished build has read every custom slot since its last change.
LEMMA FinishedBuildIsCommitted ==
    ASSUME TypeOK, QuietInv, NEW r \in Requests, StoreEnv(r),
           NEW s \in SlotsOf(req[r].project) \cap CustomSlots
    PROVE  Holds(req[r].env, s)
<1>1. PICK i \in 1..5 : s \in SlotsRead(BuildOrder[i], req[r].project)
  BY BuildReadsAllSlots
<1>2. i \in 1..Len(BuildOrder) /\ i < req[r].step /\ req[r].pc = "building"
  BY BuildOrderFacts DEF StoreEnv, TypeOK, RequestState
<1> QED
  BY <1>1, <1>2 DEF QuietInv, BuildsAreCommitted

LEMMA StoredCommittedKept ==
    ASSUME TypeOK, QuietInv, [Next]_vars
    PROVE  StoredIsCommitted'
<1>0. /\ req \in [Requests -> RequestState] /\ StoredIsCommitted
      /\ cache \in [Projects -> Env \cup {NoEnv}]
      /\ CustomSlots \subseteq Slots
  BY Shapes DEF QuietInv, CustomSlots, Slots
<1> USE DEF StoredIsCommitted, Holds
<1>1. CASE \A s \in CustomSlots : content'[s] = content[s]
  <2>1. ASSUME NEW r \in Requests, StoreEnv(r) PROVE StoredIsCommitted'
    <3>1. \A s \in SlotsOf(req[r].project) \cap CustomSlots : Holds(req[r].env, s)
      BY <2>1, FinishedBuildIsCommitted
    <3>2. \A p \in Projects : IF p = req[r].project THEN cache'[p] = req[r].env
                                                    ELSE cache'[p] = cache[p]
      BY <1>0, <2>1 DEF StoreEnv
    <3> QED
      BY <1>0, <1>1, <3>1, <3>2
  <2>2. ASSUME ~ \E r \in Requests : StoreEnv(r)
        PROVE  \A p \in Projects : cache'[p] # NoEnv => cache'[p] = cache[p]
    <3>1. ASSUME NEW r \in Requests, RequestStep(r) PROVE cache' = cache
      BY <2>2, <3>1 DEF RequestStep, LoadProject, CacheHit, CacheMiss, ReadTable, FinishRequest
    <3>2. ASSUME NEW a \in Admins, AdminStep(a)
          PROVE  \A p \in Projects : cache'[p] # NoEnv => cache'[p] = cache[p]
      BY <3>2 DEF AdminStep, FlushEdit, InvalidateCaches, CommitEdit, RollbackEdit
    <3>3. ASSUME NEW e \in Editors, EditorStep(e) PROVE cache' = cache
      BY <3>3 DEF EditorStep, BeginProjectEdit, FlushProjectEdit, CommitProjectEdit,
                  RollbackProjectEdit
    <3> QED
      BY <3>1, <3>2, <3>3 DEF Next, Restart, vars
  <2>3. CASE ~ \E r \in Requests : StoreEnv(r)
    BY <1>0, <1>1, <2>2, <2>3
  <2> QED
    BY <2>1, <2>3
<1>2. ASSUME NEW a \in Admins, admin[a].pc = "invalidated",
             \A s \in Slots \ {admin[a].slot} : content'[s] = content[s],
             UNCHANGED <<cache, req>>
      PROVE  StoredIsCommitted'
  <2>1. \A p \in EvictedBy(admin[a].slot) : cache[p] = NoEnv
    BY <1>2 DEF QuietInv, EvictedUntilCommit
  <2>2. ASSUME NEW p \in Projects, cache[p] # NoEnv, NEW s \in SlotsOf(p) \cap CustomSlots
        PROVE  content'[s] = content[s]
    BY <1>0, <1>2, <2>1, <2>2, EvictionReaches
  <2> QED
    BY <1>0, <1>2, <2>2
<1> QED
  BY <1>1, <1>2, CustomChanges

LEMMA BuildsCommittedKept ==
    ASSUME TypeOK, QuietInv, [Next]_vars
    PROVE  BuildsAreCommitted'
<1>0. /\ req \in [Requests -> RequestState] /\ BuildsAreCommitted
      /\ content \in [Slots -> Nat] /\ CustomSlots \subseteq Slots
  BY Shapes DEF QuietInv, CustomSlots, Slots
<1> USE DEF BuildsAreCommitted, Holds
<1>1. ASSUME NEW a \in Admins, admin[a].pc = "invalidated", req' = req
      PROVE  BuildsAreCommitted'
  BY <1>1, NoCommitUnderRender DEF Active
<1>2. CASE \A s \in CustomSlots : content'[s] = content[s]
  <2>1. CASE \A r \in Requests : req'[r].pc = "building" => req'[r] = req[r]
    BY <1>0, <1>2, <2>1
  <2>2. ASSUME NEW r \in Requests, CacheMiss(r) PROVE BuildsAreCommitted'
    <3>1. req'[r].step = 1 /\ \A q \in Requests \ {r} : req'[q] = req[q]
      BY <1>0, <2>2 DEF CacheMiss, RequestState
    <3>2. \A i \in 1..Len(BuildOrder) : ~ (i < 1)
      BY BuildOrderFacts
    <3> QED
      BY <1>0, <1>2, <3>1, <3>2
  <2>3. ASSUME NEW r \in Requests, ReadTable(r) PROVE BuildsAreCommitted'
    <3> DEFINE read == SlotsRead(BuildOrder[req[r].step], req[r].project)
    <3>1. req[r] \in RequestState /\ req[r].pc = "building" /\ req[r].step \in Nat
      BY <1>0, <2>3 DEF ReadTable, RequestState
    <3>2. /\ \A q \in Requests \ {r} : req'[q] = req[q]
          /\ req'[r].project = req[r].project
          /\ req'[r].step = req[r].step + 1
          /\ \A s \in Slots : req'[r].env.content[s] =
                 IF s \in read THEN content[s] ELSE req[r].env.content[s]
      BY <1>0, <2>3 DEF ReadTable, RequestState, Env
    <3>3. ASSUME NEW i \in 1..Len(BuildOrder), i < req[r].step + 1,
                 NEW s \in SlotsRead(BuildOrder[i], req[r].project) \cap CustomSlots
          PROVE  req'[r].env.content[s] >= content'[s]
      <4>1. content'[s] = content[s] /\ content[s] \in Nat
        BY <1>0, <1>2
      <4>2. CASE s \in read
        BY <1>0, <3>2, <4>1, <4>2
      <4>3. CASE s \notin read
        <5>1. i < req[r].step
          BY <3>1, <3>3, <4>3, BuildOrderFacts
        <5> QED
          BY <1>0, <3>1, <3>2, <4>1, <4>3, <5>1
      <4> QED
        BY <4>2, <4>3
    <3>4. ASSUME NEW q \in Requests, q # r, req'[q].pc = "building",
                 NEW i \in 1..Len(BuildOrder), i < req'[q].step,
                 NEW s \in SlotsRead(BuildOrder[i], req'[q].project) \cap CustomSlots
          PROVE  req'[q].env.content[s] >= content'[s]
      BY <1>0, <1>2, <3>2, <3>4
    <3>5. ASSUME NEW q \in Requests, req'[q].pc = "building",
                 NEW i \in 1..Len(BuildOrder), i < req'[q].step,
                 NEW s \in SlotsRead(BuildOrder[i], req'[q].project) \cap CustomSlots
          PROVE  req'[q].env.content[s] >= content'[s]
      BY <3>2, <3>3, <3>4, <3>5
    <3> QED
      BY <3>5
  <2>4. ASSUME NEW r \in Requests, RequestStep(r), ~ CacheMiss(r), ~ ReadTable(r)
        PROVE  \A q \in Requests : req'[q].pc = "building" => req'[q] = req[q]
    <3>1. ASSUME NEW p \in Projects, LoadProject(r, p)
          PROVE  \A q \in Requests : req'[q].pc = "building" => req'[q] = req[q]
      BY <1>0, <3>1 DEF LoadProject, IdleRequest
    <3>2. CASE CacheHit(r) \/ StoreEnv(r)
      BY <1>0, <3>2 DEF CacheHit, StoreEnv, RequestState
    <3>3. CASE FinishRequest(r)
      BY <1>0, <3>3 DEF FinishRequest, IdleRequest
    <3> QED
      BY <2>4, <3>1, <3>2, <3>3 DEF RequestStep
  <2>5. ASSUME NEW a \in Admins, AdminStep(a) PROVE req' = req
    BY <2>5 DEF AdminStep, FlushEdit, InvalidateCaches, CommitEdit, RollbackEdit
  <2>6. ASSUME NEW e \in Editors, EditorStep(e) PROVE req' = req
    BY <2>6 DEF EditorStep, BeginProjectEdit, FlushProjectEdit, CommitProjectEdit,
                RollbackProjectEdit
  <2>7. CASE Restart
    BY <2>7 DEF Restart, IdleRequest
  <2> QED
    BY <2>1, <2>2, <2>3, <2>4, <2>5, <2>6, <2>7 DEF Next, vars
<1> QED
  BY <1>1, <1>2, CustomChanges

LEMMA ServedCommittedKept ==
    ASSUME TypeOK, QuietInv, [Next]_vars
    PROVE  ServedIsCommitted'
<1>0. /\ req \in [Requests -> RequestState] /\ ServedIsCommitted
      /\ CustomSlots \subseteq Slots
  BY Shapes DEF QuietInv, CustomSlots, Slots
<1> USE DEF ServedIsCommitted, Holds
<1>1. ASSUME NEW a \in Admins, admin[a].pc = "invalidated", req' = req
      PROVE  ServedIsCommitted'
  BY <1>1, NoCommitUnderRender DEF Active
<1>2. CASE \A s \in CustomSlots : content'[s] = content[s]
  <2>1. CASE \A r \in Requests : req'[r].pc = "served" => req'[r] = req[r]
    BY <1>0, <1>2, <2>1
  <2>2. ASSUME NEW r \in Requests, CacheHit(r) PROVE ServedIsCommitted'
    <3>0. PICK p \in Projects : p = req[r].project
      BY <1>0 DEF RequestState
    <3>1. /\ req'[r].env = cache[p] /\ req'[r].project = p /\ cache[p] # NoEnv
          /\ \A q \in Requests \ {r} : req'[q] = req[q]
      BY <1>0, <2>2, <3>0 DEF CacheHit, IsFresh
    <3>2. \A s \in SlotsOf(p) \cap CustomSlots : Holds(cache[p], s)
      BY <3>1 DEF QuietInv, StoredIsCommitted
    <3> QED
      BY <1>0, <1>2, <3>1, <3>2
  <2>3. ASSUME NEW r \in Requests, StoreEnv(r) PROVE ServedIsCommitted'
    <3>1. \A s \in SlotsOf(req[r].project) \cap CustomSlots : Holds(req[r].env, s)
      BY <2>3, FinishedBuildIsCommitted
    <3>2. req'[r].env = req[r].env /\ req'[r].project = req[r].project
          /\ \A q \in Requests \ {r} : req'[q] = req[q]
      BY <1>0, <2>3 DEF StoreEnv, RequestState
    <3>3. ASSUME NEW q \in Requests, req'[q].pc = "served",
                 NEW s \in SlotsOf(req'[q].project) \cap CustomSlots
          PROVE  req'[q].env.content[s] >= content'[s]
      <4>1. content'[s] = content[s]
        BY <1>2
      <4>2. CASE q = r
        BY <3>1, <3>2, <3>3, <4>1, <4>2
      <4>3. CASE q # r
        BY <1>0, <3>2, <3>3, <4>1, <4>3
      <4> QED
        BY <4>2, <4>3
    <3> QED
      BY <3>3
  <2>4. ASSUME NEW r \in Requests, RequestStep(r), ~ CacheHit(r), ~ StoreEnv(r)
        PROVE  \A q \in Requests : req'[q].pc = "served" => req'[q] = req[q]
    <3>1. ASSUME NEW p \in Projects, LoadProject(r, p)
          PROVE  \A q \in Requests : req'[q].pc = "served" => req'[q] = req[q]
      BY <1>0, <3>1 DEF LoadProject, IdleRequest
    <3>2. CASE CacheMiss(r)
      BY <1>0, <3>2 DEF CacheMiss, RequestState
    <3>3. CASE ReadTable(r)
      BY <1>0, <3>3 DEF ReadTable, RequestState
    <3>4. CASE FinishRequest(r)
      BY <1>0, <3>4 DEF FinishRequest, IdleRequest
    <3> QED
      BY <2>4, <3>1, <3>2, <3>3, <3>4 DEF RequestStep
  <2>5. ASSUME NEW a \in Admins, AdminStep(a) PROVE req' = req
    BY <2>5 DEF AdminStep, FlushEdit, InvalidateCaches, CommitEdit, RollbackEdit
  <2>6. ASSUME NEW e \in Editors, EditorStep(e) PROVE req' = req
    BY <2>6 DEF EditorStep, BeginProjectEdit, FlushProjectEdit, CommitProjectEdit,
                RollbackProjectEdit
  <2>7. CASE Restart
    BY <2>7 DEF Restart, IdleRequest
  <2> QED
    BY <2>1, <2>2, <2>3, <2>4, <2>5, <2>6, <2>7 DEF Next, vars
<1> QED
  BY <1>1, <1>2, CustomChanges

LEMMA SeenKept ==
    ASSUME TypeOK, QuietInv, [Next]_vars
    PROVE  SeenIsPast'
<1>0. /\ req \in [Requests -> RequestState] /\ SeenIsPast
      /\ content \in [Slots -> Nat] /\ content' \in [Slots -> Nat]
      /\ \A s \in Slots : content'[s] >= content[s]
  BY Shapes, NextTypeOK, NextMonotone DEF QuietInv, TypeOK, Versions
<1>1. ASSUME NEW r \in Requests, NEW p \in Projects, LoadProject(r, p)
      PROVE  req'[r].seen = content /\ \A q \in Requests \ {r} : req'[q] = req[q]
  BY <1>0, <1>1 DEF LoadProject, IdleRequest
<1>2. ASSUME NEW r \in Requests, RequestStep(r), ~ \E p \in Projects : LoadProject(r, p)
      PROVE  \A q \in Requests : Active(q)' => Active(q) /\ req'[q].seen = req[q].seen
  <2> USE DEF Active
  <2>1. CASE CacheHit(r)
    BY <1>0, <2>1 DEF CacheHit, RequestState
  <2>2. CASE CacheMiss(r)
    BY <1>0, <2>2 DEF CacheMiss, RequestState
  <2>3. CASE ReadTable(r)
    BY <1>0, <2>3 DEF ReadTable, RequestState
  <2>4. CASE StoreEnv(r)
    BY <1>0, <2>4 DEF StoreEnv, RequestState
  <2>5. CASE FinishRequest(r)
    BY <1>0, <2>5 DEF FinishRequest, IdleRequest
  <2> QED
    BY <1>2, <2>1, <2>2, <2>3, <2>4, <2>5 DEF RequestStep
<1>3. ASSUME NEW a \in Admins, AdminStep(a) PROVE req' = req
  BY <1>3 DEF AdminStep, FlushEdit, InvalidateCaches, CommitEdit, RollbackEdit
<1>4. ASSUME NEW e \in Editors, EditorStep(e) PROVE req' = req
  BY <1>4 DEF EditorStep, BeginProjectEdit, FlushProjectEdit, CommitProjectEdit, RollbackProjectEdit
<1>5. ASSUME NEW r \in Requests, NEW p \in Projects, LoadProject(r, p)
      PROVE  \A q \in Requests : Active(q)' =>
                \/ Active(q) /\ req'[q].seen = req[q].seen
                \/ req'[q].seen = content
  BY <1>1, <1>5 DEF Active
<1>6. \A q \in Requests : Active(q)' =>
         \/ Active(q) /\ req'[q].seen = req[q].seen
         \/ req'[q].seen = content
  <2>1. CASE Restart
    BY <2>1 DEF Restart, IdleRequest, Active
  <2>2. CASE req' = req
    BY <2>2 DEF Active
  <2> QED
    BY <1>2, <1>3, <1>4, <1>5, <2>1, <2>2 DEF Next, vars
<1>7. ASSUME NEW q \in Requests, Active(q)', NEW s \in Slots
      PROVE  content'[s] >= req'[q].seen[s]
  <2>1. content[s] \in Nat /\ content'[s] \in Nat /\ content'[s] >= content[s]
    BY <1>0
  <2>2. CASE req'[q].seen = content
    BY <2>1, <2>2
  <2>3. CASE Active(q) /\ req'[q].seen = req[q].seen
    <3>1. content[s] >= req[q].seen[s] /\ req[q].seen[s] \in Nat
      BY <1>0, <2>3 DEF SeenIsPast, RequestState, Versions
    <3> QED
      BY <2>1, <2>3, <3>1
  <2> QED
    BY <1>6, <1>7, <2>2, <2>3
<1> QED
  BY <1>7 DEF SeenIsPast

LEMMA InitQuiet == Init => QuietInv
<1> SUFFICES ASSUME Init PROVE QuietInv
  OBVIOUS
<1>1. /\ \A r \in Requests : req[r].pc = "idle"
      /\ \A a \in Admins : admin[a].pc = "idle"
      /\ \A p \in Projects : cache[p] = NoEnv
  BY DEF Init, IdleRequest, IdleAdmin
<1> QED
  BY <1>1 DEF QuietInv, EditsAlone, EditsCustom, EvictedUntilCommit, StoredIsCommitted,
              BuildsAreCommitted, ServedIsCommitted, SeenIsPast, Active

\* While no render overlaps an edit of custom content, a request that starts
\* after the edit committed is served an environment that has it, whatever
\* scope the edit had (_invalidate_caches of custom_filter_service.py).
THEOREM EditsAreSeen == ASSUME QuietEdits PROVE Spec => []SeesCustomEdits
<1>1. TypeOK /\ QuietInv /\ [Next]_vars => QuietInv'
  BY EditsAloneKept, EvictedKept, StoredCommittedKept, BuildsCommittedKept, ServedCommittedKept,
     SeenKept DEF QuietInv
<1>2. TypeOK /\ QuietInv => SeesCustomEdits
  <2> SUFFICES ASSUME TypeOK, QuietInv, NEW r \in Requests, req[r].pc = "served",
                      NEW s \in SlotsOf(req[r].project) \cap CustomSlots
               PROVE  req[r].env.content[s] >= req[r].seen[s]
    BY DEF SeesCustomEdits
  <2>1. s \in Slots /\ req[r].env \in Env /\ req[r].seen \in Versions
    BY DEF SlotsOf, TypeOK, RequestState
  <2>2. req[r].env.content[s] >= content[s] /\ content[s] >= req[r].seen[s]
    BY <2>1 DEF QuietInv, ServedIsCommitted, Holds, SeenIsPast, Active
  <2>3. req[r].env.content[s] \in Nat /\ content[s] \in Nat /\ req[r].seen[s] \in Nat
    BY <2>1, Shapes DEF Env, Versions
  <2> QED
    BY <2>2, <2>3
<1> QED
  BY <1>1, <1>2, InitQuiet, TypeCorrect, PTL DEF Spec
=============================================================================
