----------------------------- MODULE StudioState -----------------------------
(* The pages of ParameterStudio: their state, and what they promise.        *)
EXTENDS Naturals, Sequences, FiniteSets

CONSTANTS
    Params,      \* names of parameters; all of them variables of the template
    NameOrder,   \* the names in alphabetical order
    Options,     \* option values of Choice
    Choice,      \* the parameter that is a select field
    ImportFile,  \* the parameters of the YAML file, in its order
    MaxGestures, \* deletions, saves and registrations, together
    MaxCopies    \* option rows the server ever creates

StudioConstants ==
    /\ IsFiniteSet(Params) /\ Choice \in Params
    /\ NameOrder \in Seq(Params) /\ {NameOrder[i] : i \in DOMAIN NameOrder} = Params /\ Len(NameOrder) = Cardinality(Params)
    /\ ImportFile \in Seq(Params)
    /\ MaxGestures \in Nat /\ MaxCopies \in Nat \ {0}

ASSUME StudioAssumption == StudioConstants

VARIABLES
    rows,       \* the parameter rows: "absent", "active", or "deleted" with its name kept
    rank,       \* their sort_order
    opts,       \* the option rows of Choice
    made,       \* option rows created so far
    screen,     \* "list" or "tab"
    seen,       \* the cached listing and options of the list page
    query,      \* its fetch on the way: [state, read]
    stale,      \* the listing was invalidated while its page was away
    shown,      \* the order on screen
    known,      \* the ranks of the rows on screen, as they were copied
    updates,    \* sort_order requests not answered yet
    gestures,   \* number of gestures
    broken,     \* drags one of whose requests failed
    deleting,   \* delete requests not answered yet
    import,     \* the import that runs: what is left of the file
    dialog,     \* the dialog over the page
    edit,       \* the options in the dialog of a parameter: [original, removed, added]
    save,       \* the save that runs: [step, adds, drops, added, removed]
    scan,       \* the variables of the template: [known, state, unregistered, read,
                \* old], the last what an import created since the server read it
    offer,      \* in the validation dialog: [just, busy]
    creating,   \* create requests of the validation dialog not answered yet
    sure,       \* history: one drag since the copies were true, and nothing else
    missed      \* history: the listing may be older than it counts

-----------------------------------------------------------------------------
(* What the server lists, and what the validation dialog offers *)

Gone == Cardinality(Params)             \* the rank a listing gives what it does not hold
View == [p \in Params |-> IF rows[p] = "active" THEN rank[p] ELSE Gone]

\* By sort_order, then by name: the i-th row has i - 1 rows ahead of it.
Place(p) == CHOOSE i \in DOMAIN NameOrder : NameOrder[i] = p
Held(l) == {p \in Params : l[p] # Gone}
Ahead(l, p) == {q \in Held(l) : l[q] < l[p] \/ (l[q] = l[p] /\ Place(q) < Place(p))}
Sorted(l) == [i \in 1..Cardinality(Held(l)) |->
                CHOOSE p \in Held(l) : Cardinality(Ahead(l, p)) = i - 1]

Offered ==
    IF dialog = "validate" /\ scan.known /\ scan.state = "none"
    THEN scan.unregistered \ (offer.just \cup offer.busy) ELSE {}

-----------------------------------------------------------------------------
(* What the pages promise *)

\* One drag over true copies: once its requests are answered, the order the
\* server lists is the one on screen.
OrderAsShown == sure /\ updates = {} => Sorted(View) = shown

\* Once no request is on its way the list holds the rows there are, whichever
\* page, dialog or file changed them; missed names the exception, a change made
\* elsewhere in the browser while a fetch of the list was on its way.
ListShowsRows ==
    screen = "list" /\ seen.known /\ query.state = "none" /\ import = << >> /\ ~stale /\ ~missed
        => \A p \in Params : (seen.rows[p] = Gone) = (rows[p] # "active")

\* A dialog that a save closes has done what it showed: each option the user
\* added is there, and none of those removed, whatever failed in earlier attempts.
SaveApplies ==
    [][save.step # "none" /\ save'.step = "none" /\ dialog' # dialog
         => /\ \A v \in save.added : \E n \in 1..MaxCopies : <<v, n>> \in opts
            /\ save.removed \cap opts = {}]_<<save, dialog>>

\* A variable the dialog offers to register is not registered: neither a late
\* answer of a dialog that was closed nor a scan it overtakes offers it again
\* (one that an import created since the scan may be).
OfferedIsUnregistered == \A p \in Offered \ scan.old : rows[p] # "active"
=============================================================================
