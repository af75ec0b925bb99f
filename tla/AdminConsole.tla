---------------------------- MODULE AdminConsole ----------------------------
(***************************************************************************)
(* The console pages that list server rows and change them: the three tabs *)
(* of AdminFilters, AdminTemplates with AdminProjects beside it,           *)
(* Quickpads, AdminApiKeys, AdminUsers, AdminMembers, AdminWebhooks and    *)
(* AdminSecrets.  Each keeps forms in component state, sends mutations the *)
(* user need not wait for, and reads its list through the query cache.  A  *)
(* behaviour is about one of them, its area; the rest of the application   *)
(* is "away".                                                              *)
(*                                                                         *)
(* What a row says is 1 or 2, 0 is no row.  A template is inactive (1) or  *)
(* active (2), a user a member (1) or an admin (2).                        *)
(***************************************************************************)
EXTENDS Naturals, FiniteSets

CONSTANTS
    Rows,         \* ids
    Stored,       \* what the server holds at first
    InUse,        \* filters some template still uses
    Parent,       \* the template a template extends, or None
    MaxGestures,  \* requests the user sends, by area
    MaxChanges    \* changes others make, by area, which delete a row or make it say 2

None == "none"

ASSUME RowsAssumption == /\ InUse \subseteq Rows /\ Stored \in [Rows -> 0..2]
                         /\ Parent \in [Rows -> Rows \cup {None}] /\ None \notin Rows

Tabs == {"filters", "objects", "macros"}
Areas == Tabs \cup {"catalog", "pads", "keys", "users", "members", "webhooks", "secrets"}
Texts == 1..2

ASSUME BoundsAssumption == /\ MaxGestures \in [Areas -> Nat]
                           /\ MaxChanges \in [Areas -> Nat]

VARIABLES
    area,      \* the page the behaviour is about
    view,      \* what is mounted: the page; "projects" shows the templates' list too;
               \* "other" is AdminMembers with another project, or none, selected
    rows,      \* the rows of the server
    rev,       \* changes of them so far
    seen,      \* the cached list: [known, rows, rev, all], all with inactive templates
    fetch,     \* its fetch on the way: [state, rows, rev, all]
    stale,     \* the list is marked invalid
    own,       \* rev as of the last change reported to the page
    search,    \* AdminTemplates shows what a search or a project filter leaves
    form,      \* the form for a new row: [kind, text]
    editor,    \* the row being edited: [row, text, base], base for "Revert" of Quickpads
    ask,       \* the row whose deletion is asked about
    calls,     \* mutations not answered yet: [kind, row, text, done, at]
    reveal,    \* the key on screen
    gestures, changes,  \* for the bounds
    mine       \* history: [form, edit], text typed and neither sent nor given up

listing == <<rev, seen, fetch, stale, own>>
screen == <<search, form, editor, ask, reveal, mine>>
vars == <<area, view, rows, listing, screen, calls, gestures, changes>>

NoRows == [r \in Rows |-> 0]
NoFetch == [state |-> None, rows |-> NoRows, rev |-> 0, all |-> FALSE]
NoForm == [kind |-> None, text |-> 0]
NoEditor == [row |-> None, text |-> 0, base |-> 0]
Nothing == [form |-> 0, edit |-> 0]
Kinds == {"create", "upload", "update", "delete", "project", "unknown"}

Contents == [Rows -> 0..2]
Seen == [known : BOOLEAN, rows : Contents, rev : Nat, all : BOOLEAN]
Fetched == [state : {None, "asked", "read"}, rows : Contents, rev : Nat, all : BOOLEAN]
NewRow == [kind : {None, "create", "import"}, text : 0..2]
Editor == [row : Rows \cup {None}, text : 0..2, base : 0..2]
Call == [kind : Kinds, row : Rows \cup {None}, text : 0..2, done : BOOLEAN,
         at : {"form", "page", "gone"}]

TypeOK ==
    /\ area \in Areas
    /\ view \in {"page", "away"} \cup (IF area = "catalog" THEN {"projects"} ELSE {})
                                 \cup (IF area = "members" THEN {"other"} ELSE {})
    /\ rows \in Contents /\ rev \in Nat /\ own \in 0..rev
    /\ seen \in Seen /\ seen.rev <= rev
    /\ fetch \in Fetched /\ fetch.rev <= rev
    /\ stale \in BOOLEAN /\ search \in BOOLEAN
    /\ form \in NewRow /\ editor \in Editor /\ mine \in [form : 0..2, edit : 0..2]
    /\ ask \in Rows \cup {None} /\ reveal \in Rows \cup {None}
    /\ calls \subseteq Call
    /\ gestures \in 0..MaxGestures[area] /\ changes \in 0..MaxChanges[area]

-----------------------------------------------------------------------------
(* The list and its cache *)

Here == view = "page"
Active == view \in {"page", "projects"}

\* AdminTemplates asks for the active templates and AdminProjects for all of
\* them, under one key.
Listed(r) == seen.rows[r] # 0 /\ (area = "catalog" /\ ~seen.all => seen.rows[r] = 2)

Asked == [NoFetch EXCEPT !.state = "asked", !.all = (view = "projects")]

\* Mutant: without cancelRefetch, a fetch on its way is taken for the answer.
InvalidateJoins ==
    /\ stale' = TRUE
    /\ fetch' = IF Active /\ fetch.state = None THEN Asked ELSE fetch
    /\ UNCHANGED <<rev, seen>>

\* invalidateQueries: an active list is fetched again, in place of a fetch on
\* its way unless that is the first one; any other is marked.
Invalidate ==
    /\ stale' = TRUE
    /\ fetch' = IF Active /\ (seen.known \/ fetch.state = None) THEN Asked ELSE fetch
    /\ UNCHANGED <<rev, seen>>

\* A mounted observer fetches a list that is unknown or marked.
Observed(v) ==
    fetch' = IF v \in {"page", "projects"} /\ fetch.state = None /\ (stale \/ ~seen.known)
             THEN [NoFetch EXCEPT !.state = "asked", !.all = (v = "projects")] ELSE fetch

\* By age, when the window gets the focus.
Ask ==
    /\ Active /\ fetch.state = None
    /\ fetch' = Asked
    /\ UNCHANGED <<area, view, rows, rev, seen, stale, own, screen, calls, gestures, changes>>

Read ==
    /\ fetch.state = "asked"
    /\ fetch' = [fetch EXCEPT !.state = "read", !.rows = rows, !.rev = rev]
    /\ UNCHANGED <<area, view, rows, rev, seen, stale, own, screen, calls, gestures, changes>>

\* Mutant: an effect copies the rows that arrive into the inline editor.
LandReseeds ==
    /\ fetch.state = "read"
    /\ seen' = [known |-> TRUE, rows |-> fetch.rows, rev |-> fetch.rev, all |-> fetch.all]
    /\ editor' = IF editor.row = None THEN editor ELSE [editor EXCEPT !.text = fetch.rows[editor.row]]
    /\ fetch' = NoFetch /\ stale' = FALSE
    /\ UNCHANGED <<area, view, rows, rev, own, search, form, ask, reveal, mine, calls, gestures, changes>>

Land ==
    /\ fetch.state = "read"
    /\ seen' = [known |-> TRUE, rows |-> fetch.rows, rev |-> fetch.rev, all |-> fetch.all]
    /\ fetch' = NoFetch /\ stale' = FALSE
    /\ UNCHANGED <<area, view, rows, rev, own, screen, calls, gestures, changes>>

FetchFails ==
    /\ fetch.state = "asked"
    /\ fetch' = NoFetch
    /\ UNCHANGED <<area, view, rows, rev, seen, stale, own, screen, calls, gestures, changes>>

\* A request survives the component that sent it; what its answer does there does not.
Unmounted(cs, at) == {[c EXCEPT !.at = at] : c \in cs}

PageForm == [NoForm EXCEPT !.kind = IF area = "members" THEN "create" ELSE None]
Blank == search' = FALSE /\ form' = PageForm /\ editor' = NoEditor /\ ask' = None /\ reveal' = None /\ mine' = Nothing

\* Leaving a page unmounts its forms and dialogs.  AdminMembers opens on no project.
Navigate(v) ==
    /\ v # view /\ ~(v = "other" /\ Here)
    /\ v \in {"away", IF area = "members" THEN "other" ELSE "page"}
             \cup (IF area = "catalog" THEN {"projects"} ELSE {})
    /\ view' = v
    /\ Observed(v)
    /\ Blank
    /\ calls' = Unmounted(calls, "gone")
    /\ UNCHANGED <<area, rows, rev, seen, stale, own, gestures, changes>>

\* Another project is chosen: the form above the list stays as it is.
SelectProject ==
    /\ area = "members" /\ view \in {"page", "other"}
    /\ view' = IF Here THEN "other" ELSE "page"
    /\ Observed(view')
    /\ UNCHANGED <<area, rows, rev, seen, stale, own, screen, calls, gestures, changes>>

-----------------------------------------------------------------------------
(* Requests and the server *)

\* isPending, which is the component's.
Pending(k) == \E c \in calls : c.kind = k /\ c.at = "form"

Send(k, r, t) ==
    /\ gestures < MaxGestures[area]
    /\ gestures' = gestures + 1
    /\ calls' = calls \cup {[kind |-> k, row |-> r, text |-> t, done |-> FALSE, at |-> "form"]}

Quietly == UNCHANGED <<area, view, rows, listing, changes>>

Change(r, t) ==
    /\ rows' = [rows EXCEPT ![r] = t]
    /\ rev' = rev + 1

\* The server makes the change a request asks for, under a new id for a new row.
Applied(c, r) ==
    /\ ~c.done
    /\ \/ c.kind \in {"create", "upload"} /\ c.row = None /\ rows[r] = 0
       \/ c.kind \in {"create", "update"} /\ r = c.row /\ (rows[r] # 0 \/ area = "members")
       \/ c.kind = "delete" /\ r = c.row /\ rows[r] # 0
    /\ Change(r, CASE c.kind = "delete" -> 0
                   [] area = "catalog" /\ c.kind # "update" -> 2
                   [] OTHER -> c.text)
    /\ calls' = (calls \ {c}) \cup {[c EXCEPT !.row = r, !.done = TRUE]}
    /\ UNCHANGED <<area, view, seen, fetch, stale, own, screen, gestures, changes>>

ProjectApplied(c) ==
    /\ ~c.done /\ c.kind = "project"
    /\ calls' = (calls \ {c}) \cup {[c EXCEPT !.done = TRUE]}
    /\ UNCHANGED <<area, view, rows, listing, screen, gestures, changes>>

\* Refused, or done and the answer lost: an error line at most.
CallFails(c) ==
    /\ calls' = calls \ {c}
    /\ UNCHANGED <<area, view, rows, listing, screen, gestures, changes>>

Elsewhere(r, t) ==
    /\ changes < MaxChanges[area] /\ rows[r] # t
    /\ changes' = changes + 1
    /\ Change(r, t)
    /\ UNCHANGED <<area, view, seen, fetch, stale, own, screen, calls, gestures>>

\* What the page is told it must show, except: the deletion of a filter in use,
\* a member change told to another project's page, a key whose dialog was closed,
\* and what is told while the first fetch, or one for a page left, is on its way.
Owed(c) ==
    /\ fetch.state = None \/ (Active /\ seen.known)
    /\ ~(area = "filters" /\ c.kind = "delete" /\ c.row \in InUse)
    /\ ~(area = "members" /\ view = "other")
    /\ ~(area = "keys" /\ c.kind = "create" /\ c.at # "form")

\* A request of this kind is answered: its onSuccess runs.
Answered(c, k) ==
    /\ c.kind = k /\ c.done
    /\ own' = IF Owed(c) THEN rev ELSE own
    /\ UNCHANGED <<area, rows, gestures, changes>>

Finish(c) == calls' = calls \ {c}
Unlisted == UNCHANGED <<rev, seen, fetch, stale>>
Stay == UNCHANGED <<view, mine>>

-----------------------------------------------------------------------------
(* Forms *)

\* New rows say 1, but a user may be either.
FormTexts == IF area \in {"users", "members"} THEN Texts ELSE {1}

\* Typing; text typed while a request of the same form is pending, which its
\* answer takes away, is not counted on.
TypeForm(t) ==
    /\ area # "pads" /\ form.kind = "create" /\ t \in FormTexts \ {form.text}
    /\ view \in {"page", "other"}
    /\ form' = [form EXCEPT !.text = t]
    /\ mine' = [mine EXCEPT !.form = IF Pending("create") THEN 0 ELSE t]
    /\ UNCHANGED <<search, editor, ask, reveal, calls, gestures>> /\ Quietly

TypeEditor(t) ==
    /\ area # "pads" /\ editor.row # None /\ t # editor.text
    /\ editor' = [editor EXCEPT !.text = t]
    /\ mine' = [mine EXCEPT !.edit = IF Pending("update") THEN 0 ELSE t]
    /\ UNCHANGED <<search, form, ask, reveal, calls, gestures>> /\ Quietly

Forms(f) ==
    /\ form' = f
    /\ mine' = [mine EXCEPT !.form = 0]
    /\ UNCHANGED <<search, editor, ask, reveal, calls, gestures>> /\ Quietly

SubmitForm(k, r) ==
    /\ form.text # 0 /\ ~Pending(k)
    /\ Send(k, r, form.text)
    /\ mine' = [mine EXCEPT !.form = 0]
    /\ UNCHANGED <<search, form, editor, ask, reveal>> /\ Quietly

\* The tree of a project starts from the templates without a parent, so one
\* whose parent is not listed, being inactive, is found by a search only.
TreeShows ==
    LET Shows[n \in 0..Cardinality(Rows), r \in Rows] ==
          /\ Listed(r)
          /\ Parent[r] \in Rows /\ seen.rows[Parent[r]] # 0 => n > 0 /\ Shows[n - 1, Parent[r]]
    IN  {r \in Rows : Shows[Cardinality(Rows), r]}

\* A search or a project filter leaves a flat list of what matches.
FlatShows == {r \in Rows : Listed(r)}

\* The rows with their buttons.
Offered(r) == Here /\ r \in FlatShows /\ (area = "catalog" /\ ~search => r \in TreeShows)

\* Sent from the list, at once or after the browser's own confirm().
SendFromList(k, r, t) ==
    /\ Send(k, r, t)
    /\ UNCHANGED screen /\ Quietly

AskAbout(r) ==
    /\ ask' = r
    /\ UNCHANGED <<search, form, editor, reveal, mine, calls, gestures>> /\ Quietly

\* Answers that close the form, the inline editor or the question, whichever
\* of them is open by now, if the page that sent the request is still there.
FormAnswered(c, f) ==
    /\ Answered(c, "create") /\ Invalidate /\ Finish(c) /\ Stay
    /\ form' = IF c.at = "form" THEN f ELSE form
    /\ UNCHANGED <<search, editor, ask, reveal>>

EditorAnswered(c) ==
    /\ Answered(c, "update") /\ Invalidate /\ Finish(c) /\ Stay
    /\ editor' = IF c.at = "form" THEN NoEditor ELSE editor
    /\ UNCHANGED <<search, form, ask, reveal>>

ListAnswered(c, k) ==
    /\ Answered(c, k) /\ Invalidate /\ Finish(c) /\ Stay
    /\ UNCHANGED <<search, form, editor, ask, reveal>>

AskAnswered(c) ==
    /\ Answered(c, "delete") /\ Invalidate /\ Finish(c) /\ Stay
    /\ ask' = IF c.at = "form" THEN None ELSE ask
    /\ UNCHANGED <<search, form, editor, reveal>>

-----------------------------------------------------------------------------
(* AdminFilters: three tabs that differ in how they delete *)

\* The button hides the form and keeps what was typed.
ToggleTabForm == Here /\ Forms([form EXCEPT !.kind = IF @ = None THEN "create" ELSE None])

SubmitTabForm == Here /\ form.kind = "create" /\ SubmitForm("create", None)

ToggleEditor(r) ==
    /\ Offered(r)
    /\ editor' = IF editor.row = r THEN NoEditor
                 ELSE [NoEditor EXCEPT !.row = r, !.text = seen.rows[r]]
    /\ mine' = [mine EXCEPT !.edit = 0]
    /\ UNCHANGED <<search, form, ask, reveal, calls, gestures>> /\ Quietly

SaveEditor ==
    /\ editor.row # None /\ Offered(editor.row) /\ ~Pending("update")
    /\ Send("update", editor.row, editor.text)
    /\ mine' = [mine EXCEPT !.edit = 0]
    /\ UNCHANGED <<search, form, editor, ask, reveal>> /\ Quietly

ToggleFilterForm == area = "filters" /\ ToggleTabForm
SubmitFilter == area = "filters" /\ SubmitTabForm
EditFilters == area = "filters" /\ (SaveEditor \/ \E r \in Rows : ToggleEditor(r))
FilterCreated(c) == area = "filters" /\ FormAnswered(c, NoForm)
FilterUpdated(c) == area = "filters" /\ EditorAnswered(c)

\* handleDelete calls the API itself: no question, never disabled, and the list
\* is not refreshed when templates still use the filter that is now gone.
DeleteFilter(r) == area = "filters" /\ Offered(r) /\ SendFromList("delete", r, 0)

FilterDeleted(c) ==
    /\ area = "filters" /\ Answered(c, "delete") /\ Finish(c) /\ Stay
    /\ IF c.row \in InUse THEN Unlisted ELSE Invalidate
    /\ UNCHANGED <<search, form, editor, ask, reveal>>

DeleteFromTab(r) == Offered(r) /\ ~Pending("delete") /\ SendFromList("delete", r, 0)

ToggleObjectForm == area = "objects" /\ ToggleTabForm
SubmitObject == area = "objects" /\ SubmitTabForm
EditObjects == area = "objects" /\ (SaveEditor \/ \E r \in Rows : ToggleEditor(r) \/ DeleteFromTab(r))
ObjectAnswers(c) ==
    area = "objects" /\ (FormAnswered(c, NoForm) \/ EditorAnswered(c) \/ ListAnswered(c, "delete"))

ToggleMacroForm == area = "macros" /\ ToggleTabForm
SubmitMacro == area = "macros" /\ SubmitTabForm
EditMacros == area = "macros" /\ (SaveEditor \/ \E r \in Rows : ToggleEditor(r) \/ DeleteFromTab(r))
MacroAnswers(c) ==
    area = "macros" /\ (FormAnswered(c, NoForm) \/ EditorAnswered(c) \/ ListAnswered(c, "delete"))

-----------------------------------------------------------------------------
(* AdminTemplates, and AdminProjects which counts the same list *)

\* Opening the form clears the import; "Cancel" keeps what was typed.
ToggleTemplateForm ==
    /\ area = "catalog" /\ Here
    /\ Forms([kind |-> IF form.kind = "create" THEN None ELSE "create",
              text |-> IF form.kind = "import" THEN 0 ELSE form.text])

\* Opening the import resets the form.
ToggleImport ==
    /\ area = "catalog" /\ Here
    /\ Forms([kind |-> IF form.kind = "import" THEN None ELSE "import",
              text |-> IF form.kind = "import" THEN form.text ELSE 0])

\* Dropped, or picked in the file dialog; a template is imported or created active.
PickFile ==
    /\ area = "catalog" /\ form.kind = "import" /\ form.text = 0
    /\ Forms([form EXCEPT !.text = 1])

SubmitTemplate == area = "catalog" /\ form.kind = "create" /\ SubmitForm("create", None)
ImportTemplate == area = "catalog" /\ form.kind = "import" /\ SubmitForm("upload", None)

\* The new template opens in the editor, wherever the user is by now.
TemplateCreated(c) ==
    /\ area = "catalog" /\ Answered(c, "create") /\ Invalidate
    /\ view' = "away" /\ Blank
    /\ calls' = Unmounted(calls \ {c}, "gone")

TemplateImported(c) ==
    /\ area = "catalog" /\ Answered(c, "upload") /\ Invalidate /\ Finish(c) /\ Stay
    /\ form' = IF c.at = "form" /\ form.kind = "import" THEN [form EXCEPT !.text = 0] ELSE form
    /\ UNCHANGED <<search, editor, ask, reveal>>

\* The search box and the project filter, or "Clear".
Search ==
    /\ area = "catalog" /\ Here
    /\ search' = ~search
    /\ UNCHANGED <<form, editor, ask, reveal, mine, calls, gestures>> /\ Quietly

\* A badge sends the other value of the one on screen.
Flipped(t) == 3 - t
ToggleFlag(r) == area = "catalog" /\ Offered(r) /\ SendFromList("update", r, Flipped(seen.rows[r]))
FlagToggled(c) == area = "catalog" /\ ListAnswered(c, "update")

AskDeleteTemplate(r) == area = "catalog" /\ Offered(r) /\ ask # r /\ AskAbout(r)
CancelDeleteTemplate == area = "catalog" /\ ask # None /\ AskAbout(None)
DeleteTemplate ==
    /\ area = "catalog" /\ ask # None /\ Offered(ask) /\ ~Pending("delete")
    /\ SendFromList("delete", ask, 0)
TemplateDeleted(c) == area = "catalog" /\ AskAnswered(c)

\* A project is created beside the templates; the refused ones carry an id
\* that Number() made NaN of.
CreateProject == view = "projects" /\ ~Pending("project") /\ SendFromList("project", None, 0)
EditProject == view = "projects" /\ SendFromList("unknown", None, 1)
DeleteProject == view = "projects" /\ ~Pending("unknown") /\ SendFromList("unknown", None, 0)
ProjectCreated(c) == ListAnswered(c, "project")

-----------------------------------------------------------------------------
(* Quickpads: one panel edits a pad or a new one *)

\* The panel's key is the pad and its updated_at, for which its text stands.
Panel(r, t) ==
    /\ form' = NoForm
    /\ editor' = [row |-> r, text |-> t, base |-> t]
    /\ ask' = None

Behind(cs) == {[c EXCEPT !.at = IF @ = "form" THEN "page" ELSE @] : c \in cs}

NewPad ==
    /\ area = "pads" /\ Here /\ form.kind = None
    /\ form' = [NoForm EXCEPT !.kind = "create"]
    /\ editor' = NoEditor /\ ask' = None /\ mine' = Nothing
    /\ calls' = Behind(calls)
    /\ UNCHANGED <<search, reveal, gestures>> /\ Quietly

Told == \E c \in calls : c.at # "gone"

\* The body by hand, by a snippet button or from the assistant.  An answer to
\* any request of the page replaces the panel.
TypePad(t) ==
    /\ area = "pads"
    /\ \/ form.kind = "create" /\ t # form.text
          /\ form' = [form EXCEPT !.text = t]
          /\ mine' = [mine EXCEPT !.form = IF Told THEN 0 ELSE t]
          /\ UNCHANGED editor
       \/ editor.row # None /\ t # editor.text
          /\ editor' = [editor EXCEPT !.text = t]
          /\ mine' = [mine EXCEPT !.edit = IF Told THEN 0 ELSE t]
          /\ UNCHANGED form
    /\ UNCHANGED <<search, ask, reveal, calls, gestures>> /\ Quietly

SelectPad(r) ==
    /\ area = "pads" /\ Offered(r)
    /\ editor.row = r => editor.base # seen.rows[r]
    /\ Panel(r, seen.rows[r])
    /\ mine' = Nothing
    /\ calls' = Behind(calls)
    /\ UNCHANGED <<search, reveal, gestures>> /\ Quietly

RevertPad ==
    /\ area = "pads" /\ editor.row # None /\ editor.text # editor.base
    /\ editor' = [editor EXCEPT !.text = editor.base]
    /\ mine' = [mine EXCEPT !.edit = 0]
    /\ UNCHANGED <<search, form, ask, reveal, calls, gestures>> /\ Quietly

SubmitPad ==
    /\ area = "pads" /\ ~Pending("create") /\ ~Pending("update")
    /\ \/ form.kind = "create" /\ form.text # 0 /\ Send("create", None, form.text)
       \/ editor.row # None /\ Send("update", editor.row, editor.text)
    /\ mine' = Nothing
    /\ UNCHANGED <<search, form, editor, ask, reveal>> /\ Quietly

AskDeletePad == area = "pads" /\ editor.row # None /\ AskAbout(IF ask = None THEN editor.row ELSE None)

DeletePad ==
    /\ area = "pads" /\ ask # None
    /\ Send("delete", ask, 0)
    /\ mine' = Nothing
    /\ UNCHANGED <<search, form, editor, ask, reveal>> /\ Quietly

\* The answer selects the pad that was saved, or nothing after a deletion,
\* whatever was selected since.
PadAnswered(c, k) ==
    /\ area = "pads" /\ Answered(c, k) /\ Invalidate /\ Stay
    /\ calls' = Behind(calls \ {c})
    /\ UNCHANGED <<search, reveal>>

PadSaved(c) ==
    /\ PadAnswered(c, c.kind) /\ c.kind \in {"create", "update"}
    /\ IF c.at = "gone" THEN UNCHANGED <<form, editor, ask>> ELSE Panel(c.row, c.text)

PadDeleted(c) ==
    /\ PadAnswered(c, "delete")
    /\ IF c.at = "gone" THEN UNCHANGED <<form, editor, ask>>
       ELSE form' = NoForm /\ editor' = NoEditor /\ ask' = None

-----------------------------------------------------------------------------
(* AdminApiKeys: dialogs over the list *)

NoDialog == form.kind = None /\ ask = None /\ reveal = None

OpenKeyDialog == area = "keys" /\ Here /\ NoDialog /\ Forms([NoForm EXCEPT !.kind = "create"])

\* The answer is handed to mutate(): without the dialog nothing receives it.
CloseKeyDialog ==
    /\ area = "keys" /\ form.kind = "create"
    /\ form' = NoForm
    /\ mine' = [mine EXCEPT !.form = 0]
    /\ calls' = {IF c.kind = "create" /\ c.at = "form" THEN [c EXCEPT !.at = "page"] ELSE c : c \in calls}
    /\ UNCHANGED <<search, editor, ask, reveal, gestures>> /\ Quietly

SubmitKey == area = "keys" /\ form.kind = "create" /\ SubmitForm("create", None)

\* Mutant: onSuccess given to useMutation instead, which outlives the dialog.
ReceivedByPage(c) == c.at # "gone"

Received(c) == c.at = "form"

KeyCreated(c) ==
    /\ area = "keys" /\ Answered(c, "create") /\ Finish(c) /\ Stay
    /\ IF Received(c) THEN Invalidate /\ form' = NoForm /\ reveal' = c.row
       ELSE Unlisted /\ UNCHANGED <<form, reveal>>
    /\ UNCHANGED <<search, editor, ask>>

\* The key is shown this once.
CloseReveal ==
    /\ reveal # None
    /\ reveal' = None
    /\ UNCHANGED <<search, form, editor, ask, mine, calls, gestures>> /\ Quietly

AskRevoke(r) == area = "keys" /\ Offered(r) /\ NoDialog /\ AskAbout(r)
CancelRevoke == area = "keys" /\ ask # None /\ AskAbout(None)
RevokeKey == area = "keys" /\ ask # None /\ ~Pending("delete") /\ SendFromList("delete", ask, 0)
KeyRevoked(c) == area = "keys" /\ AskAnswered(c)

-----------------------------------------------------------------------------
(* AdminUsers and AdminMembers; a row is a user other than oneself *)

\* "Cancel" resets; "Duplicate" opens the form filled.
ToggleUserForm ==
    /\ area = "users" /\ Here
    /\ Forms(IF form.kind = None THEN [form EXCEPT !.kind = "create"] ELSE NoForm)

DuplicateUser(r) ==
    /\ area = "users" /\ Offered(r)
    /\ Forms([kind |-> "create", text |-> seen.rows[r]])

SubmitUser == area = "users" /\ form.kind = "create" /\ SubmitForm("create", None)
UserCreated(c) == area = "users" /\ FormAnswered(c, NoForm)

ChangeUsers(r) ==
    /\ area = "users" /\ Offered(r)
    /\ \/ ~Pending("update") /\ SendFromList("update", r, Flipped(seen.rows[r]))
       \/ ~Pending("delete") /\ SendFromList("delete", r, 0)

UsersChanged(c) == area = "users" /\ (ListAnswered(c, "update") \/ ListAnswered(c, "delete"))

\* Users who are not members as listed are offered; the server adds or changes.
AddMember(r) == area = "members" /\ Here /\ ~Listed(r) /\ SubmitForm("create", r)

ChangeMembers(r) ==
    /\ area = "members" /\ Offered(r)
    /\ \/ ~Pending("update") /\ SendFromList("update", r, Flipped(seen.rows[r]))
       \/ ~Pending("delete") /\ SendFromList("delete", r, 0)

\* onSuccess is the one of the last render: the list of the project selected now.
ForThisProject == IF view = "other" THEN Unlisted ELSE Invalidate

MemberAdded(c) ==
    /\ area = "members" /\ Answered(c, "create") /\ ForThisProject /\ Finish(c) /\ Stay
    /\ form' = IF c.at = "form" THEN PageForm ELSE form
    /\ UNCHANGED <<search, editor, ask, reveal>>

MembersChanged(c) ==
    /\ area = "members" /\ \E k \in {"update", "delete"} : Answered(c, k)
    /\ ForThisProject /\ Finish(c) /\ Stay
    /\ UNCHANGED <<search, form, editor, ask, reveal>>
-----------------------------------------------------------------------------
(* AdminWebhooks and AdminSecrets *)

\* The form is mounted when it is shown; its button closes the edit form too.
ToggleWebhookForm ==
    /\ area = "webhooks" /\ Here
    /\ form' = [NoForm EXCEPT !.kind = IF form.kind = None THEN "create" ELSE None]
    /\ editor' = NoEditor /\ mine' = Nothing
    /\ UNCHANGED <<search, ask, reveal, calls, gestures>> /\ Quietly

\* parseInt() of the id of the project or template: refused, and the form stays.
SubmitWebhook ==
    /\ area = "webhooks" /\ form.text # 0 /\ ~Pending("unknown")
    /\ Send("unknown", None, form.text)
    /\ UNCHANGED screen /\ Quietly

EditWebhooks ==
    /\ area = "webhooks"
    /\ SaveEditor \/ \E r \in Rows : ToggleEditor(r) \/ DeleteFromTab(r)

WebhookAnswers(c) == area = "webhooks" /\ (EditorAnswered(c) \/ ListAnswered(c, "delete"))

ToggleSecretForm == area = "secrets" /\ ToggleTabForm
SubmitSecret == area = "secrets" /\ SubmitTabForm
SecretCreated(c) == area = "secrets" /\ FormAnswered(c, NoForm)

\* Number() of the id: refused.
DeleteSecret(r) == area = "secrets" /\ Offered(r) /\ SendFromList("unknown", r, 0)
-----------------------------------------------------------------------------
Init ==
    /\ area \in Areas /\ view = "away"
    /\ rows = Stored /\ rev = 0
    /\ seen = [known |-> FALSE, rows |-> NoRows, rev |-> 0, all |-> FALSE]
    /\ fetch = NoFetch /\ stale = FALSE /\ own = 0
    /\ search = FALSE /\ form = NoForm /\ editor = NoEditor /\ ask = None /\ reveal = None /\ mine = Nothing
    /\ calls = {} /\ gestures = 0 /\ changes = 0

Gesture ==
    \/ ToggleFilterForm \/ SubmitFilter \/ EditFilters \/ \E r \in Rows : DeleteFilter(r)
    \/ ToggleObjectForm \/ SubmitObject \/ EditObjects
    \/ ToggleMacroForm \/ SubmitMacro \/ EditMacros
    \/ Search \/ ToggleTemplateForm \/ ToggleImport \/ PickFile \/ SubmitTemplate \/ ImportTemplate
    \/ \E r \in Rows : ToggleFlag(r) \/ AskDeleteTemplate(r)
    \/ CancelDeleteTemplate \/ DeleteTemplate
    \/ CreateProject \/ EditProject \/ DeleteProject
    \/ NewPad \/ RevertPad \/ SubmitPad \/ AskDeletePad \/ DeletePad \/ \E r \in Rows : SelectPad(r)
    \/ OpenKeyDialog \/ CloseKeyDialog \/ SubmitKey \/ CloseReveal
    \/ CancelRevoke \/ RevokeKey \/ \E r \in Rows : AskRevoke(r)
    \/ ToggleUserForm \/ SubmitUser \/ \E r \in Rows : DuplicateUser(r) \/ ChangeUsers(r)
    \/ \E r \in Rows : AddMember(r) \/ ChangeMembers(r)
    \/ ToggleWebhookForm \/ SubmitWebhook \/ EditWebhooks
    \/ ToggleSecretForm \/ SubmitSecret \/ \E r \in Rows : DeleteSecret(r)
    \/ \E t \in Texts : TypeForm(t) \/ TypeEditor(t) \/ TypePad(t)

Succeeds(c) ==
    \/ FilterCreated(c) \/ FilterUpdated(c) \/ FilterDeleted(c)
    \/ ObjectAnswers(c) \/ MacroAnswers(c)
    \/ TemplateCreated(c) \/ TemplateImported(c) \/ FlagToggled(c) \/ TemplateDeleted(c)
    \/ ProjectCreated(c)
    \/ PadSaved(c) \/ PadDeleted(c)
    \/ KeyCreated(c) \/ KeyRevoked(c)
    \/ UserCreated(c) \/ UsersChanged(c) \/ MemberAdded(c) \/ MembersChanged(c)
    \/ WebhookAnswers(c) \/ SecretCreated(c)

Next ==
    \/ Ask \/ Read \/ Land \/ FetchFails
    \/ SelectProject \/ \E v \in {"page", "away", "projects", "other"} : Navigate(v)
    \/ Gesture
    \/ \E c \in calls : Succeeds(c) \/ CallFails(c) \/ ProjectApplied(c) \/ \E r \in Rows : Applied(c, r)
    \/ \E r \in Rows, t \in {0, 2} : Elsewhere(r, t)

Spec == Init /\ [][Next]_vars
-----------------------------------------------------------------------------
(* Properties *)

\* Text typed into a form or an inline editor is there until the user sends it
\* or gives it up: no answer to another request, no refreshed list and no
\* answer that outlived its page takes it away.
EditsKept ==
    /\ mine.edit # 0 => editor.row # None /\ editor.text = mine.edit
    /\ mine.form # 0 => form.kind = "create" /\ form.text = mine.form

\* The key on screen, which cannot be shown again, stays until it is closed: a
\* key created from a dialog that was closed does not take its place.
KeyStaysRevealed == [][reveal # None /\ reveal' # reveal => reveal' = None]_vars

\* The pages keep the contract of Listing: whatever is fetched, cancelled,
\* joined or lost, a list never goes back, and once it rests it holds every
\* change the page was told of and owes (Owed).
Lists == INSTANCE Listing WITH snap <- seen.rev, due <- (stale \/ fetch.state # None)

ListingKept == Lists!Spec
=============================================================================
