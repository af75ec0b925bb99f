--------------------------- MODULE ParameterStudio ---------------------------
(***************************************************************************)
(* The parameter registry as one browser edits it: the list of             *)
(* AdminParameters (drag to reorder, delete, YAML import, the dialog of    *)
(* one parameter with its options) and the parameter tab of the template   *)
(* editor (assigned parameters, drag to reorder, the validation dialog     *)
(* that registers the variables of the template).  Every one of them sends *)
(* several requests for one gesture, and the rows they compute with are    *)
(* copies.                                                                 *)
(***************************************************************************)
EXTENDS Naturals, Sequences, SequencesExt, FiniteSets, StudioState

None == "none"
Ranks == 0..(Cardinality(Params) - 1)
Listing == [Params -> Ranks \cup {Gone}]
OptionIds == Options \X (1..MaxCopies)

order == <<shown, known, updates, broken, sure>>
listing == <<seen, query, stale, missed>>
options == <<opts, made, edit, save>>
validation == <<scan, offer, creating>>
vars == <<gestures, rows, rank, screen, order, listing, deleting, import, dialog, options, validation>>

Update == [param : Params, to : Ranks, run : 1..MaxGestures, page : {"list", "tab"}]
NoSave == [step |-> None, adds |-> {}, drops |-> {}, added |-> {}, removed |-> {}]
NoEdit == [original |-> {}, removed |-> {}, added |-> {}]

TypeOK ==
    /\ rows \in [Params -> {"absent", "active", "deleted"}] /\ rank \in [Params -> Ranks]
    /\ opts \subseteq OptionIds /\ made \in 0..MaxCopies
    /\ screen \in {"list", "tab"}
    /\ seen.known \in BOOLEAN /\ seen.rows \in Listing /\ seen.opts \subseteq OptionIds
    /\ query.state \in {None, "asked", "read"} /\ query.read \in Listing
    /\ stale \in BOOLEAN /\ missed \in BOOLEAN /\ sure \in BOOLEAN
    /\ shown \in Seq(Params) /\ known \in Listing
    /\ \A u \in updates : u \in Update
    /\ gestures \in 0..MaxGestures /\ broken \subseteq 1..MaxGestures
    /\ deleting \subseteq Params
    /\ import \in Seq(Params)
    /\ dialog \in {None, "parameter", "validate"}
    /\ edit \in [original : SUBSET OptionIds, removed : SUBSET OptionIds, added : SUBSET Options]
    /\ save.step \in {None, "row", "add", "drop"} /\ save.adds \subseteq save.added
    /\ save.drops \subseteq save.removed
    /\ scan.state \in {None, "asked", "read"} /\ scan.unregistered \cup scan.read \cup scan.old \subseteq Params
    /\ offer.just \cup offer.busy \cup creating \subseteq Params

-----------------------------------------------------------------------------
(* The copies of what the server lists *)

Asked == [state |-> "asked", read |-> [p \in Params |-> Gone]]
NoFetch == [Asked EXCEPT !.state = None]

\* invalidateQueries(['parameters']): the listing on screen is fetched again,
\* in place of a fetch on its way, unless that is its first one.
Invalidate ==
    IF screen = "list" /\ (seen.known \/ query.state = None)
    THEN query' = Asked /\ UNCHANGED <<seen, stale, missed>>
    ELSE stale' = TRUE /\ missed' = (missed \/ query.state # None) /\ UNCHANGED <<seen, query>>

Gesture == gestures < MaxGestures /\ gestures' = gestures + 1

\* Put the rows l on screen.
Present(l) ==
    /\ known' = l /\ shown' = Sorted(l)
    /\ sure' = FALSE

Visit(k) ==
    /\ screen # k /\ dialog = None
    /\ screen' = k
    /\ Present(IF k = "tab" THEN View ELSE IF seen.known THEN seen.rows ELSE [p \in Params |-> Gone])
    /\ query' = IF k = "list" /\ query.state = None /\ (stale \/ ~seen.known) THEN Asked ELSE query
    /\ edit' = NoEdit /\ offer' = [just |-> {}, busy |-> {}]
    /\ UNCHANGED <<gestures, rows, rank, opts, made, seen, stale, missed, updates, broken, deleting, import,
                   dialog, save, scan, creating>>

\* Stale by age, when the window gets the focus.
Ask ==
    /\ screen = "list" /\ query.state = None
    /\ query' = Asked
    /\ UNCHANGED <<gestures, rows, rank, screen, order, seen, stale, missed, deleting, import, dialog, options, validation>>

Read ==
    /\ query.state = "asked"
    /\ query' = [state |-> "read", read |-> View]
    /\ UNCHANGED <<gestures, rows, rank, screen, order, seen, stale, missed, deleting, import, dialog, options, validation>>

\* Rows that differ from the last ones are put on screen in their own order.
Land ==
    /\ query.state = "read"
    /\ query' = NoFetch
    /\ seen' = [known |-> TRUE, rows |-> query.read, opts |-> opts]
    /\ stale' = FALSE
    /\ IF screen = "list" /\ (query.read # seen.rows \/ ~seen.known)
       THEN Present(query.read) ELSE UNCHANGED <<known, shown, sure>>
    /\ UNCHANGED <<gestures, rows, rank, screen, missed, updates, broken, deleting, import, dialog, options, validation>>

\* Any state change of AdminParameters hands its sections new arrays, and their
\* effect puts the cached order back on screen.
Rerender ==
    /\ screen = "list" /\ seen.known
    /\ Present(seen.rows)
    /\ UNCHANGED <<gestures, rows, rank, screen, listing, updates, broken, deleting, import, dialog, options, validation>>

-----------------------------------------------------------------------------
(* The order *)

Position(i) == i - 1

\* Mutant: the last row is never sent.
OutdatedButLast(s) == {i \in 1..(Len(s) - 1) : known[s[i]] # Position(i)}

\* The places in s of the rows whose copied sort_order is another one.
Outdated(s) == {i \in DOMAIN s : known[s[i]] # Position(i)}

\* reorderMut and handleReorder: one request for each row that needs one.
Drag(i, j) ==
    /\ dialog = None /\ i # j
    /\ Gesture
    /\ shown' = InsertAt(RemoveAt(shown, i), j, shown[i])
    /\ updates' = updates \cup
         {[param |-> shown'[n], to |-> Position(n), run |-> gestures', page |-> screen] :
             n \in Outdated(shown')}
    /\ sure' = (updates = {} /\ known = View)
    /\ UNCHANGED <<rows, rank, screen, listing, known, broken, deleting, import, dialog, options, validation>>

\* The tab invalidates once all requests of a drag are done, the list never.
UpdateLands(u) ==
    /\ rows[u.param] = "active"
    /\ rank' = [rank EXCEPT ![u.param] = u.to]
    /\ updates' = updates \ {u}
    /\ IF u.page = "tab" /\ u.run \notin broken /\ \A v \in updates' : v.run # u.run
       THEN Invalidate ELSE UNCHANGED listing
    /\ UNCHANGED <<gestures, rows, screen, shown, known, broken, sure, deleting, import, dialog, options, validation>>

UpdateFails(u) ==
    /\ updates' = updates \ {u}
    /\ broken' = broken \cup {u.run}
    /\ sure' = FALSE
    /\ UNCHANGED <<gestures, rows, rank, screen, listing, shown, known, deleting, import, dialog, options, validation>>

\* A parameter picked from the registry goes to the end of the tab with the
\* rank its row has, and leaves it again; the effect sorts what is assigned.
Assign(p) ==
    /\ screen = "tab" /\ dialog = None /\ rows[p] = "active" /\ known[p] = Gone
    /\ Present([known EXCEPT ![p] = rank[p]])
    /\ UNCHANGED <<gestures, rows, rank, screen, listing, updates, broken, deleting, import, dialog, options, validation>>

Unassign(p) ==
    /\ screen = "tab" /\ dialog = None /\ known[p] # Gone
    /\ Present([known EXCEPT ![p] = Gone])
    /\ UNCHANGED <<gestures, rows, rank, screen, listing, updates, broken, deleting, import, dialog, options, validation>>

-----------------------------------------------------------------------------
(* Deleting and importing *)

\* Confirmed in its dialog; a deleted row keeps its name.
Delete(p) ==
    /\ Gesture
    /\ screen = "list" /\ dialog = None /\ known[p] # Gone /\ p \notin deleting
    /\ deleting' = deleting \cup {p}
    /\ UNCHANGED <<rows, rank, screen, order, listing, import, dialog, options, validation>>

\* Mutant: the listing is not fetched again.
DeleteLandsSilently(p) ==
    /\ deleting' = deleting \ {p}
    /\ rows[p] = "active"
    /\ rows' = [rows EXCEPT ![p] = "deleted"]
    /\ sure' = FALSE
    /\ UNCHANGED <<gestures, rank, screen, shown, known, updates, broken, listing, import, dialog, options, validation>>

DeleteLands(p) ==
    /\ deleting' = deleting \ {p}
    /\ rows[p] = "active"
    /\ rows' = [rows EXCEPT ![p] = "deleted"]
    /\ sure' = FALSE
    /\ Invalidate
    /\ UNCHANGED <<gestures, rank, screen, shown, known, updates, broken, import, dialog, options, validation>>

\* Not found, or no answer.
DeleteFails(p) ==
    /\ deleting' = deleting \ {p}
    /\ UNCHANGED <<gestures, rows, rank, screen, order, listing, import, dialog, options, validation>>

\* A new row, of rank 0; refused for a name the scope knows, deleted or not.
Create(p) ==
    /\ rows[p] = "absent"
    /\ rows' = [rows EXCEPT ![p] = "active"]
    /\ rank' = [rank EXCEPT ![p] = 0]
    /\ sure' = FALSE

Refused(p) == rows[p] # "absent" /\ UNCHANGED <<rows, rank, sure>>

StartImport ==
    /\ screen = "list" /\ dialog = None /\ import = << >>
    /\ Gesture
    /\ import' = ImportFile
    /\ UNCHANGED <<rows, rank, screen, order, listing, deleting, dialog, options, validation>>

\* The parameters of the file one after the other; one that is refused is
\* skipped.  The page may be left meanwhile.
ImportNext ==
    /\ import # << >>
    /\ Create(Head(import)) \/ Refused(Head(import))
    /\ import' = Tail(import)
    /\ scan' = [scan EXCEPT !.old = @ \cup {p \in Params : rows'[p] # rows[p]}]
    /\ IF import' = << >> THEN Invalidate ELSE UNCHANGED listing
    /\ UNCHANGED <<gestures, screen, shown, known, updates, broken, deleting, dialog, options, offer, creating>>

-----------------------------------------------------------------------------
(* The dialog of a parameter *)

\* Its options are those of the row on the list.
OpenDialog ==
    /\ screen = "list" /\ dialog = None /\ known[Choice] # Gone
    /\ dialog' = "parameter"
    /\ edit' = [original |-> seen.opts, removed |-> {}, added |-> {}]
    /\ UNCHANGED <<gestures, rows, rank, screen, order, listing, deleting, import, opts, made, save, validation>>

AddOption(v) ==
    /\ dialog = "parameter" /\ v \notin edit.added
    /\ edit' = [edit EXCEPT !.added = @ \cup {v}]
    /\ UNCHANGED <<gestures, rows, rank, screen, order, listing, deleting, import, dialog, opts, made, save, validation>>

RemoveOption(o) ==
    /\ dialog = "parameter" /\ o \in edit.original \ edit.removed
    /\ edit' = [edit EXCEPT !.removed = @ \cup {o}]
    /\ UNCHANGED <<gestures, rows, rank, screen, order, listing, deleting, import, dialog, opts, made, save, validation>>

\* Escape closes it, a save that runs goes on.
CloseDialog ==
    /\ dialog # None
    /\ dialog' = None
    /\ edit' = NoEdit /\ offer' = [just |-> {}, busy |-> {}]
    /\ UNCHANGED <<gestures, rows, rank, screen, order, listing, deleting, import, opts, made, save, scan, creating>>

\* saveMut: the row, then each new option, then each removed one.
StartSave ==
    /\ dialog = "parameter" /\ save.step = None
    /\ Gesture
    /\ save' = [step |-> "row", adds |-> edit.added, drops |-> edit.removed,
                added |-> edit.added, removed |-> edit.removed]
    /\ UNCHANGED <<rows, rank, screen, order, listing, deleting, import, dialog, opts, made, edit, validation>>

SaveRow ==
    /\ save.step = "row" /\ rows[Choice] = "active"
    /\ save' = [save EXCEPT !.step = "add"]
    /\ UNCHANGED <<gestures, rows, rank, screen, order, listing, deleting, import, dialog, opts, made, edit, validation>>

\* Every attempt creates the new options again.
SaveAdd(v) ==
    /\ save.step = "add" /\ v \in save.adds /\ rows[Choice] = "active"
    /\ made < MaxCopies
    /\ made' = made + 1
    /\ opts' = opts \cup {<<v, made'>>}
    /\ save' = [save EXCEPT !.adds = @ \ {v}]
    /\ UNCHANGED <<gestures, rows, rank, screen, order, listing, deleting, import, dialog, edit, validation>>

AddsDone ==
    /\ save.step = "add" /\ save.adds = {}
    /\ save' = [save EXCEPT !.step = "drop"]
    /\ UNCHANGED <<gestures, rows, rank, screen, order, listing, deleting, import, dialog, opts, made, edit, validation>>

\* An option that is gone already is not found, and the save fails.
SaveDrop(o) ==
    /\ save.step = "drop" /\ o \in save.drops \cap opts /\ rows[Choice] = "active"
    /\ opts' = opts \ {o}
    /\ save' = [save EXCEPT !.drops = @ \ {o}]
    /\ UNCHANGED <<gestures, made, rows, rank, screen, order, listing, deleting, import, dialog, edit, validation>>

\* Mutant: nobody waits for the deletions.
DropsSent == save.step = "drop"

DropsDone == save.step = "drop" /\ save.drops = {}

\* onSaved closes whichever dialog of a parameter is open.
SaveDone ==
    /\ DropsDone
    /\ save' = NoSave
    /\ Invalidate
    /\ dialog' = IF dialog = "parameter" THEN None ELSE dialog
    /\ edit' = NoEdit
    /\ UNCHANGED <<gestures, rows, rank, screen, order, deleting, import, opts, made, validation>>

\* A request of the save failed: what was sent before it stays done.
SaveFails ==
    /\ save.step # None
    /\ save' = NoSave
    /\ UNCHANGED <<gestures, rows, rank, screen, order, listing, deleting, import, dialog, opts, made, edit, validation>>

-----------------------------------------------------------------------------
(* The validation dialog of the tab *)

OpenValidation ==
    /\ screen = "tab" /\ dialog = None /\ scan.state = None
    /\ dialog' = "validate"
    /\ scan' = [scan EXCEPT !.state = "asked", !.read = {}]
    /\ UNCHANGED <<gestures, rows, rank, screen, order, listing, deleting, import, options, offer, creating>>

ScanRead ==
    /\ scan.state = "asked"
    /\ scan' = [scan EXCEPT !.state = "read", !.read = {p \in Params : rows[p] # "active"}, !.old = {}]
    /\ UNCHANGED <<gestures, rows, rank, screen, order, listing, deleting, import, dialog, options, offer, creating>>

ScanLand ==
    /\ scan.state = "read"
    /\ scan' = [scan EXCEPT !.known = TRUE, !.state = None, !.unregistered = scan.read, !.read = {}]
    /\ UNCHANGED <<gestures, rows, rank, screen, order, listing, deleting, import, dialog, options, offer, creating>>

\* What the dialog lists with a button; while a scan runs it shows a spinner.
Register(p) ==
    /\ p \in Offered
    /\ Gesture
    /\ offer' = [offer EXCEPT !.busy = @ \cup {p}]
    /\ creating' = creating \cup {p}
    /\ UNCHANGED <<rows, rank, screen, order, listing, deleting, import, dialog, options, scan>>

\* Mutant: the scan is not repeated.
Rescan == scan

\* onCreated: the scan starts again, in place of one that runs.
Repeated == [scan EXCEPT !.state = "asked", !.read = {}]

Registered(p) ==
    /\ creating' = creating \ {p}
    /\ Create(p)
    /\ Invalidate
    /\ scan' = Repeated
    /\ offer' = [just |-> IF p \in offer.busy THEN offer.just \cup {p} ELSE offer.just,
                 busy |-> offer.busy \ {p}]
    /\ UNCHANGED <<gestures, screen, shown, known, updates, broken, deleting, import, dialog, options>>

RegisterFails(p) ==
    /\ creating' = creating \ {p}
    /\ offer' = [offer EXCEPT !.busy = @ \ {p}]
    /\ UNCHANGED <<gestures, rows, rank, screen, order, listing, deleting, import, dialog, options, scan>>

-----------------------------------------------------------------------------
Init ==
    /\ rows \in [Params -> {"absent", "active"}] /\ rows[Choice] = "active"
    /\ rank = [p \in Params |-> 0]
    /\ \E v \in Options : opts = {<<v, 1>>}
    /\ made = 1
    /\ screen = "list"
    /\ seen = [known |-> FALSE, rows |-> [p \in Params |-> Gone], opts |-> {}]
    /\ query = Asked /\ stale = FALSE /\ missed = FALSE
    /\ shown = << >> /\ known = [p \in Params |-> Gone]
    /\ gestures = 0 /\ updates = {} /\ broken = {} /\ sure = FALSE
    /\ deleting = {} /\ import = << >>
    /\ dialog = None /\ edit = NoEdit /\ save = NoSave
    /\ scan = [known |-> FALSE, state |-> None, unregistered |-> {}, read |-> {}, old |-> {}]
    /\ offer = [just |-> {}, busy |-> {}] /\ creating = {}

Next ==
    \/ \E k \in {"list", "tab"} : Visit(k)
    \/ Ask \/ Read \/ Land \/ Rerender
    \/ \E i, j \in DOMAIN shown : Drag(i, j)
    \/ \E u \in updates : UpdateLands(u) \/ UpdateFails(u)
    \/ \E p \in Params : Assign(p) \/ Unassign(p) \/ Delete(p)
    \/ \E p \in deleting : DeleteLands(p) \/ DeleteFails(p)
    \/ StartImport \/ ImportNext
    \/ OpenDialog \/ CloseDialog \/ StartSave \/ SaveRow \/ AddsDone \/ SaveDone \/ SaveFails
    \/ \E v \in Options : AddOption(v) \/ SaveAdd(v)
    \/ \E o \in OptionIds : RemoveOption(o) \/ SaveDrop(o)
    \/ OpenValidation \/ ScanRead \/ ScanLand
    \/ \E p \in Params : Register(p)
    \/ \E p \in creating : Registered(p) \/ RegisterFails(p)

Spec == Init /\ [][Next]_vars

-----------------------------------------------------------------------------
(* The inductive invariants (TemplateEditingProofs).                       *)

\* The sequence s holds each member of S once.
Enumerates(s, S) ==
    /\ s \in [1..Cardinality(S) -> S]
    /\ \A p \in S : \E i \in DOMAIN s : s[i] = p

\* Until its requests are answered, each row of a sure drag has its place on
\* the server or a request that gives it its place.
OrderInv ==
    /\ rank \in [Params -> Ranks] /\ known \in Listing /\ seen.rows \in Listing
    /\ query.read \in Listing
    /\ Enumerates(shown, Held(known))
    /\ \A u \in updates : u.param \in Params /\ u.to \in Ranks
    /\ sure => /\ \A p \in Params : p \in Held(known) <=> rows[p] = "active"
               /\ \A i \in DOMAIN shown : \/ rank[shown[i]] = Position(i)
                                          \/ \E u \in updates : u.param = shown[i]
               /\ \A u \in updates : \E i \in DOMAIN shown : u.param = shown[i] /\ u.to = Position(i)

\* The rows of a listing are those there are.
Fresh(l) == \A p \in Params : (l[p] = Gone) = (rows[p] # "active")

\* Without an import that runs, only a listing marked stale or missed is old.
ListInv ==
    /\ rows \in [Params -> {"absent", "active", "deleted"}]
    /\ import = << >> /\ ~missed =>
           /\ query.state = "read" => Fresh(query.read)
           /\ seen.known /\ query.state = None /\ ~stale => Fresh(seen.rows)

ScanType == [known : BOOLEAN, state : {None, "asked", "read"}, unregistered : SUBSET Params,
             read : SUBSET Params, old : SUBSET Params]

\* What a scan read, or the dialog knows from one, was registered since by an import only.
ScanInv ==
    /\ rows \in [Params -> {"absent", "active", "deleted"}] /\ scan \in ScanType
    /\ scan.state = "read" => \A p \in scan.read \ scan.old : rows[p] # "active"
    /\ scan.known /\ scan.state = None =>
           \A p \in scan.unregistered \ scan.old : rows[p] # "active"

SaveType == [step : {None, "row", "add", "drop"}, adds : SUBSET Options, drops : SUBSET OptionIds,
             added : SUBSET Options, removed : SUBSET OptionIds]
EditType == [original : SUBSET OptionIds, removed : SUBSET OptionIds, added : SUBSET Options]

\* Nobody has seen, let alone removed, an option row not made yet; a save still
\* has to create or drop what it has not.
SaveInv ==
    /\ made \in 1..MaxCopies /\ save \in SaveType /\ edit \in EditType
    /\ opts \cup seen.opts \subseteq OptionIds
    /\ \A o \in opts \cup seen.opts \cup edit.original \cup edit.removed \cup save.removed : o[2] <= made
    /\ save.drops \subseteq save.removed /\ save.removed \cap opts \subseteq save.drops
    /\ \A v \in save.added \ save.adds : \E n \in 1..made : <<v, n>> \in opts \ save.removed
    /\ save.step = "drop" => save.adds = {}
=============================================================================
