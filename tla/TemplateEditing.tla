--------------------------- MODULE TemplateEditing ---------------------------
(***************************************************************************)
(* The template editor in the browser: TemplateEditorPage fetches the body *)
(* and the metadata through the query cache, TemplateEditor copies them    *)
(* into its own state, the user edits them by hand, through the pickers,   *)
(* the source form and the AI assistant, and Save writes the whole file.   *)
(* The data sources of the file come by a query of their own, after the    *)
(* page is up.  Another author, or a pull, may change them meanwhile.      *)
(*                                                                         *)
(* A text is a number that names its version; a data source is its id:     *)
(* what its definition says, and what of it the editor keeps, is left out. *)
(***************************************************************************)
EXTENDS Naturals, FiniteSets

CONSTANTS
    Sources,     \* ids of data sources
    Shared,      \* whether others change the sources while they are edited
    MaxStamp,    \* changes of a text
    MaxOpens,    \* visits of the page
    MaxRuns      \* generations asked of the assistant in one visit

ASSUME Bounds == {MaxStamp, MaxOpens, MaxRuns} \subseteq Nat

None == "none"
\* What is edited beside the sources; the body stands for the metadata too.
Parts == {"body", "parent"}

VARIABLES
    file,     \* what the server has: [text, sources]
    cached,   \* the query cache: [known, text, sources], known what was fetched
    fetch,    \* a fetch of the data sources: [state, sources], what the server read
    page,     \* "away", "loading" or "open"
    mount,    \* visits of the page so far
    draft,    \* the state of the editor: [text, sources]
    dirty,    \* isDirty
    saves,    \* save requests not answered yet
    modal,    \* the dialog over the page
    ai,       \* the assistant: [status, output, streams, runs]
    stamp,    \* versions handed out
    held,     \* history: what this visit last loaded from or saved to the server
    slips,    \* history: changes no dirty flag stands for, made before or during a save
    owed      \* history: the sources this visit was given and the user did not remove

ghosts == <<held, slips, owed>>
server == <<file, cached, fetch>>
vars == <<server, page, mount, draft, dirty, saves, modal, ai, stamp, ghosts>>

Texts == [Parts -> 0..MaxStamp]
Draft == [text : Texts, sources : SUBSET Sources]
Save == [text : Texts, sources : SUBSET Sources, owed : SUBSET Sources,
         mount : 1..MaxOpens]
Assistant == [status : {"idle", "streaming", "done", "error"}, output : SUBSET (1..MaxRuns),
              streams : SUBSET [run : 1..MaxRuns, aborted : BOOLEAN], runs : 0..MaxRuns]

TypeOK ==
    /\ file \in [text : Texts, sources : SUBSET Sources]
    /\ cached \in [known : SUBSET {"text", "sources"}, text : Texts, sources : SUBSET Sources]
    /\ fetch \in [state : {None, "asked", "read"}, sources : SUBSET Sources]
    /\ page \in {"away", "loading", "open"} /\ mount \in 0..MaxOpens
    /\ mount = 0 => page = "away"
    /\ draft \in Draft /\ held \in Draft
    /\ dirty \in BOOLEAN
    /\ \A s \in saves : s \in Save
    /\ modal \in {None, "ai", "include", "macro"}
    /\ ai \in Assistant
    /\ stamp \in 0..MaxStamp
    /\ slips \subseteq {"before", "during"}
    /\ owed \subseteq Sources

-----------------------------------------------------------------------------
(* Visiting the page *)

NoText == [p \in Parts |-> 0]
Blank == [text |-> NoText, sources |-> {}]
IdleAI == [status |-> "idle", output |-> {}, streams |-> {}, runs |-> 0]

\* useState takes the text the cache has now, and nothing a later fetch brings;
\* sources already in the cache fill the draft at once.
Mounts(text) ==
    /\ page' = "open"
    /\ draft' = [text |-> text, sources |-> cached.sources]
    /\ held' = draft'
    /\ owed' = cached.sources
    /\ fetch' = IF "sources" \notin cached.known /\ fetch.state = None
                THEN [fetch EXCEPT !.state = "asked"] ELSE fetch

Open ==
    /\ page = "away" /\ mount < MaxOpens
    /\ mount' = mount + 1
    /\ IF "text" \in cached.known
       THEN Mounts(cached.text)
       ELSE page' = "loading" /\ UNCHANGED <<fetch, draft, held, owed>>
    /\ UNCHANGED <<file, cached, dirty, saves, modal, ai, stamp, slips>>

LoadPage ==
    /\ page = "loading"
    /\ cached' = [cached EXCEPT !.known = @ \cup {"text"}, !.text = file.text]
    /\ Mounts(file.text)
    /\ UNCHANGED <<file, mount, dirty, saves, modal, ai, stamp, slips>>

\* Back to the list, which asks when isDirty is set, or by the sidebar, which
\* does not.  What was not saved is gone.
Leave ==
    /\ page = "open" /\ modal = None
    /\ page' = "away"
    /\ draft' = Blank /\ held' = Blank
    /\ dirty' = FALSE
    /\ slips' = {} /\ owed' = {}
    /\ UNCHANGED <<server, mount, saves, modal, ai, stamp>>

\* The queries of the open page, refetched when stale.
Refetch ==
    /\ page = "open"
    /\ cached' = [cached EXCEPT !.text = file.text]
    /\ UNCHANGED <<file, fetch, page, mount, draft, dirty, saves, modal, ai, stamp, ghosts>>

\* The cache drops what no page has shown for five minutes.
Collect ==
    /\ page = "away" /\ fetch.state = None
    /\ cached' = [known |-> {}, text |-> NoText, sources |-> {}]
    /\ UNCHANGED <<file, fetch, page, mount, draft, dirty, saves, modal, ai, stamp, ghosts>>

Elsewhere(S) ==
    /\ Shared
    /\ file' = [file EXCEPT !.sources = S]
    /\ UNCHANGED <<cached, fetch, page, mount, draft, dirty, saves, modal, ai, stamp, ghosts>>

-----------------------------------------------------------------------------
(* The lists that arrive after the page is up *)

Saving == \E s \in saves : s.mount = mount
Slip == IF Saving THEN {"during"} ELSE {}

SourcesAsk ==
    /\ page = "open" /\ fetch.state = None
    /\ fetch' = [fetch EXCEPT !.state = "asked"]
    /\ UNCHANGED <<file, cached, page, mount, draft, dirty, saves, modal, ai, stamp, ghosts>>

SourcesRead ==
    /\ fetch.state = "asked"
    /\ fetch' = [state |-> "read", sources |-> file.sources]
    /\ UNCHANGED <<file, cached, page, mount, draft, dirty, saves, modal, ai, stamp, ghosts>>

\* The effect runs when the answer differs from the last one, and fills an
\* empty list only.
Fills(S) ==
    /\ page = "open" /\ S # {} /\ draft.sources = {}
    /\ S # cached.sources \/ "sources" \notin cached.known

SourcesLand ==
    /\ fetch.state = "read"
    /\ fetch' = [state |-> None, sources |-> {}]
    /\ cached' = [cached EXCEPT !.known = @ \cup {"sources"}, !.sources = fetch.sources]
    /\ IF Fills(fetch.sources)
       THEN /\ draft' = [draft EXCEPT !.sources = fetch.sources]
            /\ held' = [held EXCEPT !.sources = draft'.sources]
            /\ owed' = fetch.sources
            /\ slips' = slips \cup Slip
       ELSE UNCHANGED <<draft, ghosts>>
    /\ UNCHANGED <<file, page, mount, dirty, saves, modal, ai, stamp>>

SourcesFail ==
    /\ fetch.state = "asked"
    /\ fetch' = [fetch EXCEPT !.state = None]
    /\ UNCHANGED <<file, cached, page, mount, draft, dirty, saves, modal, ai, stamp, ghosts>>

-----------------------------------------------------------------------------
(* Editing *)

Editable == page = "open" /\ modal = None

MarkDirty ==
    /\ dirty' = TRUE
    /\ slips' = slips \cup Slip

\* What every change of a text does to the page.
Change(p) ==
    /\ stamp < MaxStamp
    /\ stamp' = stamp + 1
    /\ draft' = [draft EXCEPT !.text[p] = stamp']
    /\ UNCHANGED <<server, page, mount, saves, ai, held, owed>>

\* executeEdits goes through the onChange of the editor, as typing does.
InsertAtCursor == Change("body") /\ MarkDirty

\* A keystroke, or a completion of a filter or an include path.
EditBody == Editable /\ InsertAtCursor /\ UNCHANGED modal

\* A button of the snippet toolbar.
InsertSnippet == Editable /\ InsertAtCursor /\ UNCHANGED modal

\* Display name, description, sort order, history label: one text of the page.
EditMetadata == Editable /\ Change("body") /\ MarkDirty /\ UNCHANGED modal

EditParent == Editable /\ Change("parent") /\ MarkDirty /\ UNCHANGED modal

\* A press outside a panel closes it, so nothing else happens under it; the
\* button of the other panel closes this one too.
OpenPanel(k) ==
    /\ Editable /\ stamp < MaxStamp
    /\ modal' = k
    /\ UNCHANGED <<server, page, mount, draft, dirty, saves, ai, stamp, ghosts>>

ClosePanel ==
    /\ modal \in {"include", "macro"}
    /\ modal' = None
    /\ UNCHANGED <<server, page, mount, draft, dirty, saves, ai, stamp, ghosts>>

\* The include of a project snippet, its path made relative to the project.
InsertInclude == modal = "include" /\ modal' = None /\ InsertAtCursor

\* A call of a project or global macro, with the arguments of its definition.
InsertMacro == modal = "macro" /\ modal' = None /\ InsertAtCursor

\* A parameter dropped on the body or added from the registry goes into the
\* frontmatter and at the cursor.
AssignParam == Editable /\ InsertAtCursor /\ UNCHANGED modal

\* The source list becomes S.
PutSources(S) ==
    /\ draft' = [draft EXCEPT !.sources = S]
    /\ owed' = owed \cap S
    /\ MarkDirty
    /\ UNCHANGED <<server, page, mount, saves, modal, ai, stamp, held>>

\* A new definition replaces one of its id.
AddSource(t) ==
    /\ Editable
    /\ PutSources(draft.sources \cup {t})

\* The form of an item puts the edited definition in the item's place.
UpdateSource(s, t) ==
    /\ Editable /\ s \in draft.sources
    /\ PutSources((draft.sources \ {s}) \cup {t})

\* Mutant: the removal does not mark the page.
RemoveSourceUnmarked(s) ==
    /\ Editable /\ s \in draft.sources
    /\ draft' = [draft EXCEPT !.sources = @ \ {s}]
    /\ owed' = owed \ {s}
    /\ UNCHANGED <<server, page, mount, dirty, saves, modal, ai, stamp, held, slips>>

RemoveSource(s) ==
    /\ Editable /\ s \in draft.sources
    /\ PutSources(draft.sources \ {s})

-----------------------------------------------------------------------------
(* The assistant *)

OpenAI ==
    /\ Editable
    /\ modal' = "ai"
    /\ UNCHANGED <<server, page, mount, draft, dirty, saves, ai, stamp, ghosts>>

Assist(next) ==
    /\ modal = "ai"
    /\ ai' = next
    /\ UNCHANGED <<server, page, mount, draft, dirty, saves, modal, stamp, ghosts>>

\* Also Regenerate.
Generate ==
    /\ ai.status # "streaming" /\ ai.runs < MaxRuns
    /\ Assist([status |-> "streaming", output |-> {}, runs |-> ai.runs + 1,
               streams |-> ai.streams \cup {[run |-> ai.runs + 1, aborted |-> FALSE]}])

Chunk(s) == Assist([ai EXCEPT !.output = @ \cup {s.run}])

StreamEnds(s, status) ==
    /\ s.aborted => status = "done"
    /\ Assist([ai EXCEPT !.status = status, !.streams = @ \ {s}])

\* Mutant: the button comes back at once, the stream only later.
StopAtOnce(s) ==
    Assist([ai EXCEPT !.status = "done", !.streams = (@ \ {s}) \cup {[s EXCEPT !.aborted = TRUE]}])

\* abort(): the loop ends when its read is rejected.
Stop(s) ==
    /\ ~s.aborted
    /\ Assist([ai EXCEPT !.streams = (@ \ {s}) \cup {[s EXCEPT !.aborted = TRUE]}])

CloseAI ==
    /\ modal = "ai" /\ ai.status # "streaming"
    /\ modal' = None /\ ai' = IdleAI
    /\ UNCHANGED <<server, page, mount, draft, dirty, saves, stamp, ghosts>>

\* The buttons that take the output are there once the stream has ended.
Acceptable == modal = "ai" /\ ai.status # "streaming" /\ ai.output # {}

\* "Insert at cursor" goes through the editor and its onChange; "Replace" and
\* "Append" set the state behind it, and nothing marks the page.
Accept(mode) ==
    /\ Acceptable /\ stamp < MaxStamp
    /\ modal' = None /\ ai' = IdleAI
    /\ stamp' = stamp + 1
    /\ draft' = [draft EXCEPT !.text["body"] = stamp']
    /\ IF mode = "cursor" THEN MarkDirty
       ELSE slips' = slips \cup {IF Saving THEN "during" ELSE "before"} /\ UNCHANGED dirty
    /\ UNCHANGED <<server, page, mount, saves, held, owed>>

-----------------------------------------------------------------------------
(* Saving *)

\* Mutant: the request carries the sources the file had.
WrittenSourcesCached == cached.sources

\* The frontmatter is built from the state of the editor alone.
WrittenSources == draft.sources

Submit ==
    /\ Editable /\ ~Saving
    /\ saves' = saves \cup
         {[text |-> draft.text, sources |-> WrittenSources,
           owed |-> owed, mount |-> mount]}
    /\ slips' = IF slips = {} THEN {} ELSE {"before"}
    /\ UNCHANGED <<server, page, mount, draft, dirty, modal, ai, stamp, held, owed>>

\* TemplateUpdate has no parent_template_id: what the editor sends is dropped.
Applied == Parts \ {"parent"}

Write(s) ==
    file' = [text |-> [p \in Parts |-> IF p \in Applied THEN s.text[p] ELSE file.text[p]],
             sources |-> s.sources]

\* The fetches of the sources that onSuccess starts again: a first one that is
\* on its way goes on.
Invalidate ==
    fetch' = IF page = "open" /\ ("sources" \in cached.known \/ fetch.state = None)
             THEN [state |-> "asked", sources |-> {}] ELSE fetch

SaveOk(s) ==
    /\ saves' = saves \ {s}
    /\ Write(s)
    /\ Invalidate
    /\ IF s.mount = mount /\ page = "open"
       THEN /\ dirty' = FALSE
            /\ held' = [text |-> s.text, sources |-> s.sources]
            /\ slips' = slips \ {"before"}
       ELSE UNCHANGED <<dirty, held, slips>>
    /\ UNCHANGED <<cached, page, mount, draft, modal, ai, stamp, owed>>

\* Refused before the write, or written and the answer lost.
SaveFails(s) ==
    /\ saves' = saves \ {s}
    /\ UNCHANGED file \/ Write(s)
    /\ UNCHANGED <<cached, fetch, page, mount, draft, dirty, modal, ai, stamp, ghosts>>

-----------------------------------------------------------------------------
Init ==
    /\ \E S \in SUBSET Sources : file = [text |-> NoText, sources |-> S]
    /\ cached = [known |-> {}, text |-> NoText, sources |-> {}]
    /\ fetch = [state |-> None, sources |-> {}]
    /\ page = "away" /\ mount = 0
    /\ draft = Blank /\ held = Blank
    /\ dirty = FALSE /\ saves = {}
    /\ modal = None /\ ai = IdleAI
    /\ stamp = 0
    /\ slips = {} /\ owed = {}

Next ==
    \/ Open \/ LoadPage \/ Leave \/ Collect
    \/ Refetch
    \/ \E S \in SUBSET Sources : Elsewhere(S)
    \/ SourcesAsk \/ SourcesRead \/ SourcesLand \/ SourcesFail
    \/ EditBody \/ InsertSnippet \/ EditMetadata \/ EditParent \/ AssignParam
    \/ \E k \in {"include", "macro"} : OpenPanel(k)
    \/ ClosePanel \/ InsertInclude \/ InsertMacro
    \/ \E t \in Sources : AddSource(t)
    \/ \E s \in draft.sources, t \in Sources : UpdateSource(s, t)
    \/ \E s \in draft.sources : RemoveSource(s)
    \/ OpenAI \/ Generate \/ CloseAI
    \/ \E s \in ai.streams :
          \/ Chunk(s) \/ Stop(s)
          \/ \E status \in {"done", "error"} : StreamEnds(s, status)
    \/ \E mode \in {"cursor", "replace", "append"} : Accept(mode)
    \/ Submit
    \/ \E s \in saves : SaveOk(s) \/ SaveFails(s)

Spec == Init /\ [][Next]_vars

-----------------------------------------------------------------------------
(* What the editor promises *)

\* Without the mark the page shows nothing but what it was given or has saved:
\* body, metadata and sources, whichever way each was changed.  The
\* changes setIsDirty(false) and the assistant's Replace and Append let slip
\* are the exceptions.
CleanMeansSaved == page = "open" /\ ~dirty /\ slips = {} => draft = held

\* A save never erases a data source its visit was given and the user did not
\* remove: the list arrives late, again after every save, and fills the draft
\* only when that is empty.
SourcesSurviveSave ==
    [][\A s \in saves \ saves' : file.sources \cap s.owed \subseteq file'.sources]_vars

\* The text the assistant offers comes from one generation, however often the
\* user stopped and asked again.
OneGeneration == Cardinality(ai.output) <= 1
=============================================================================
