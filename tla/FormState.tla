------------------------------ MODULE FormState ------------------------------
(* The form of RenderForm: its definition, its state, and what is promised.  *)
EXTENDS Naturals, FiniteSets

CONSTANTS
    Fields,        \* the parameters of the definition
    Instant,       \* select, multiselect and checkbox fields
    Derived,       \* derived parameters, never editable
    LoadLocked,    \* made readonly by an on_load source
    Required,      \* fields the user must fill
    Hidden,        \* fields of widget type "hidden", registered without rules
    ShownWhen,     \* [field -> [param, op, values]] for the fields that have a visible_when
    Mappings,      \* the on_change mappings: [on, to, auto, ro]
    Lookup,        \* what the data source answers for a value
    Values,        \* values a field can hold
    Empty,         \* the empty value
    Null,          \* JSON null
    Default,       \* [Fields -> Values], what the definition starts a field with
    Features,      \* the optional features of the template
    DefaultOn,     \* the features enabled from the start
    InOrder,       \* whether answers for one field arrive in the order asked
    MaxEdits, MaxCalls, MaxLoads, MaxRenders, MaxPresets   \* bounds of the model

Triggers == {m.on : m \in Mappings}
FilledBy(x) == {m.to : m \in {n \in Mappings : n.on = x}}

\* Fields an on-change of x can write, directly or through the cascade.
Reach == [x \in Fields |->
            LET closed == {S \in SUBSET Fields : /\ FilledBy(x) \subseteq S
                                                 /\ \A y \in S : FilledBy(y) \subseteq S}
            IN  {f \in Fields : \A S \in closed : f \in S}]

FieldSets ==
    /\ IsFiniteSet(Fields)
    /\ Instant \cup Derived \cup LoadLocked \cup Required \cup Hidden \subseteq Fields
    /\ DOMAIN ShownWhen \subseteq Fields
    /\ \A m \in Mappings : m.on \in Fields /\ m.to \in Fields /\ m.ro \in BOOLEAN
    /\ Empty \in Values /\ Null \notin Values /\ Default \in [Fields -> Values]
    /\ Lookup \in [Values \cup {Null} -> Values \cup {Null}]
    /\ DefaultOn \subseteq Features
    /\ {MaxEdits, MaxLoads, MaxRenders} \subseteq Nat

\* The sources the model allows: a field has one source, and no source fills,
\* even in several steps, the field that triggers it.
OneSource ==
    /\ \A m, n \in Mappings : m.to = n.to => m = n
    /\ \A x \in Fields : x \notin Reach[x]

ASSUME FormAssumption == FieldSets /\ OneSource

VARIABLES
    formKey,    \* of RenderPage: the form that is mounted
    value,      \* what react-hook-form holds for each field
    readonly,   \* the readonly flag after the enrichment overrides
    folded,     \* fields of the sections the user folded, not mounted
    timers,     \* fields with a debounce timer running
    calls,      \* on-change requests not answered yet, oldest first
    loading,    \* fields with a spinner
    enabled,    \* enabledFeatureIds
    renders,    \* render requests not answered yet
    sent,       \* number of renders submitted
    result,     \* the render shown under the form
    refused,    \* the last render was refused for its feature ids
    presets,    \* saved presets, as the toolbar lists them
    edits,      \* number of edits, for the bound
    kept,       \* history: the user's value that nothing asked for may replace
    due         \* history: fields whose source owes them the lookup of its trigger

Untouched == [none |-> TRUE]
Live(c) == c.mount = formKey
Quiet == timers = {} /\ ~ \E i \in DOMAIN calls : Live(calls[i])

-----------------------------------------------------------------------------
(* What the form promises *)

\* What the user typed while nothing was under way that could fill the field,
\* and what a preset put into a fresh form, stays until the user changes the
\* field or one that fills it (triggerOnChange sets every field of an answer).
QuietEditsKept == \A f \in Fields : kept[f] # Untouched => value[f] = kept[f]

\* Once every timer and request is done, a filled field shows what its source
\* answers for the value its trigger shows, unless the user changed it or the
\* lookup failed (ordering of the answers, cascade on the server and again
\* through the watch subscription).  Answers for one field have to come in the
\* order asked, and the form has to watch the trigger.
AutofillSettles ==
    InOrder /\ Quiet =>
        \A m \in Mappings :
            m.auto /\ m.on \notin Derived \cup LoadLocked /\ m.to \in due
                => value[m.to] = Lookup[value[m.on]]

\* The output under the form is that of the newest render this form got an
\* answer for: a slower answer, of this form or of the one a preset replaced,
\* never takes its place (renderMut.isPending, the key of the form).
ShownResultIsNewest ==
    /\ \A r \in renders : r.mount = formKey => result < r.id
    /\ \A r, q \in renders : r.mount = formKey /\ q.mount = formKey => r = q

\* Every spinner stops: the cascade of changes an answer causes ends, and no
\* field stays greyed out after a request that failed.
FormSettles == []<>(Quiet /\ loading = {})
=============================================================================
