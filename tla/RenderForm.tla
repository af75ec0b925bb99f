----------------------------- MODULE RenderForm -----------------------------
(***************************************************************************)
(* The render form in the browser: RenderPage, the DynamicForm it mounts   *)
(* and the widgets of its fields.  The user edits fields; a change asks    *)
(* the server which other fields to fill (at once for a select, after a    *)
(* pause of 500 ms for a text field); the answers come back while the      *)
(* user goes on typing, submitting, or loading a preset, which mounts a    *)
(* fresh form.                                                             *)
(*                                                                         *)
(* A value is a model value.  Lookup stands for the external data source:  *)
(* what it returns for the value of the field that triggers it.            *)
(***************************************************************************)
EXTENDS Naturals, Sequences, SequencesExt, FiniteSets, FormState

NoResult == 0
formVars == <<value, readonly, folded, timers, loading, enabled>>
ghosts == <<edits, kept, due>>
vars == <<formKey, formVars, calls, renders, sent, result, refused, presets, ghosts>>

Call == [on : Fields, arg : Values \cup {Null}, mount : 0..MaxLoads]
Render == [mount : 0..MaxLoads, id : 1..MaxRenders, features : SUBSET {Null}]

TypeOK ==
    /\ formKey \in 0..MaxLoads
    /\ value \in [Fields -> Values \cup {Null}]
    /\ readonly \in [Fields -> BOOLEAN]
    /\ folded \subseteq Fields /\ timers \subseteq Fields /\ loading \subseteq Fields
    /\ \A i \in DOMAIN calls : calls[i] \in Call
    /\ enabled \subseteq Features
    /\ \A r \in renders : r \in Render
    /\ sent \in 0..MaxRenders /\ result \in 0..MaxRenders
    /\ refused \in BOOLEAN
    /\ presets \subseteq [Fields -> Values \cup {Null}]
    /\ edits \in 0..MaxEdits
    /\ \A f \in Fields : kept[f] \in Values \cup {Null, Untouched}
    /\ due \subseteq Fields

-----------------------------------------------------------------------------
(* The definition, the widgets and the server's answer *)

\* The value a freshly mounted form starts a field with: ?? skips null.
BuildDefaults(prefill) ==
    [f \in Fields |-> IF prefill[f] # Null THEN prefill[f] ELSE Default[f]]

Visible(f, vals) ==
    f \in DOMAIN ShownWhen =>
        LET c == ShownWhen[f] IN
        IF c.op \in {"eq", "in"} THEN vals[c.param] \in c.values ELSE vals[c.param] \notin c.values

\* A field the page renders: its section is open and its condition holds.
OnScreen(f) == f \notin folded /\ Visible(f, value)

\* What the rules of a widget let through.  A field that is not on screen, is
\* hidden or shown as ReadonlyWidget has no rule to break.
Accepts(f) ==
    f \in Required /\ OnScreen(f) /\ f \notin Hidden /\ ~readonly[f] /\ f \notin Derived
        => value[f] \notin {Empty, Null}

Source(f) == CHOOSE m \in Mappings : m.to = f

\* DataSourceResolver.resolve_on_change: the fields the sources of x fill, then
\* what the sources fill that those fields trigger.  A mapping without auto_fill
\* still answers, with a null prefill, and triggers nothing.
Enriched == [x \in Fields |->
               LET closed == {S \in SUBSET Fields :
                                 /\ FilledBy(x) \subseteq S
                                 /\ \A m \in Mappings : m.to \in S /\ m.auto => FilledBy(m.to) \subseteq S}
               IN  {f \in Fields : \A S \in closed : f \in S}]

\* What is looked up for each of them, starting from the value arg of x.
LookedUp ==
    [x \in Fields |-> [arg \in Values \cup {Null} |->
       LET found[f \in Enriched[x]] ==
             IF ~Source(f).auto THEN Null
             ELSE Lookup[IF Source(f).on = x THEN arg ELSE found[Source(f).on]]
       IN  [f \in Enriched[x] |-> found[f]]]]

Answer(x, arg) ==
    [f \in Enriched[x] |-> [prefill |-> LookedUp[x][arg][f], ro |-> Source(f).ro]]

-----------------------------------------------------------------------------
(* Changes and what they trigger *)

Listens(f) == f \notin Derived \cup LoadLocked

\* Mutant: the request carries what the fields held before the change.
NewCallsBefore(F, vals) ==
    LET s == SetToSeq({f \in F : Listens(f) /\ f \in Instant})
    IN  [i \in DOMAIN s |-> [on |-> s[i], arg |-> value[s[i]], mount |-> formKey]]

NewCalls(F, vals) ==
    LET s == SetToSeq({f \in F : Listens(f) /\ f \in Instant})
    IN  [i \in DOMAIN s |-> [on |-> s[i], arg |-> vals[s[i]], mount |-> formKey]]

\* The watch subscription: instant fields ask at once, others restart their timer.
Notify(F, vals, rest) ==
    /\ calls' = rest \o NewCalls(F, vals)
    /\ Len(calls') <= MaxCalls
    /\ timers' = timers \cup {f \in F : Listens(f) /\ f \notin Instant}

\* Fields something already under way may still write.
Threatened ==
    UNION ({Reach[f] : f \in timers} \cup {Reach[calls[i].on] : i \in {j \in DOMAIN calls : Live(calls[j])}})

\* A field of the mounted form, typed in or picked.  A loading field only has
\* pointer-events off: the keyboard still reaches it.
Edit(f, v) ==
    /\ edits < MaxEdits
    /\ OnScreen(f) /\ f \notin Hidden \cup Derived /\ ~readonly[f] /\ value[f] # v
    /\ value' = [value EXCEPT ![f] = v]
    /\ Notify({f}, value', calls)
    /\ loading' = loading \cup ({f} \cap Instant)
    /\ edits' = edits + 1
    /\ kept' = [g \in Fields |-> IF g = f THEN IF f \in Threatened THEN Untouched ELSE v
                                 ELSE IF g \in Reach[f] THEN Untouched ELSE kept[g]]
    /\ due' = (due \ {f}) \cup {m.to : m \in {n \in Mappings : n.on = f /\ n.auto}}
    /\ UNCHANGED <<formKey, readonly, folded, enabled, renders, sent, result, refused, presets>>

TimerFires(f) ==
    /\ f \in timers
    /\ Len(calls) < MaxCalls
    /\ timers' = timers \ {f}
    /\ calls' = Append(calls, [on |-> f, arg |-> value[f], mount |-> formKey])
    /\ loading' = loading \cup {f}
    /\ UNCHANGED <<formKey, value, readonly, folded, enabled, renders, sent, result, refused, presets, ghosts>>

MayArrive(i) == InOrder => \A j \in 1..(i - 1) : calls[j].on # calls[i].on

\* The answer of a request: every prefill that is there is set, null included,
\* and setValue notifies the subscription like an edit does.
Filled(i) ==
    LET c == calls[i]
        answer == Answer(c.on, c.arg)
        written == DOMAIN answer
        started == {f \in written : Listens(f) /\ f \in Instant}
    IN  /\ MayArrive(i) /\ Live(c)
        /\ value' = [f \in Fields |-> IF f \in written THEN answer[f].prefill ELSE value[f]]
        /\ Notify(written, value', RemoveAt(calls, i))
        /\ readonly' = [f \in Fields |-> IF f \in written THEN answer[f].ro ELSE readonly[f]]
        /\ loading' = (loading \cup started) \ {c.on}
        /\ due' = due \cup {m.to : m \in {n \in Mappings : n.on \in written /\ n.auto}}
        /\ UNCHANGED <<formKey, folded, enabled, renders, sent, result, refused, presets, edits, kept>>

\* Mutant: no finally around the request.
NotFilledNoFinally(i) ==
    /\ MayArrive(i) /\ Live(calls[i])
    /\ calls' = RemoveAt(calls, i)
    /\ due' = due \ Reach[calls[i].on]
    /\ UNCHANGED <<formKey, value, readonly, folded, timers, loading, enabled, renders, sent, result,
                   refused, presets, edits, kept>>

\* A failed request, or a source that failed with on_error "warn" and fills nothing.
NotFilled(i) ==
    /\ MayArrive(i) /\ Live(calls[i])
    /\ calls' = RemoveAt(calls, i)
    /\ loading' = loading \ {calls[i].on}
    /\ due' = due \ Reach[calls[i].on]
    /\ UNCHANGED <<formKey, value, readonly, folded, timers, enabled, renders, sent, result, refused,
                   presets, edits, kept>>

\* An answer for a form that is no longer mounted changes nothing on screen.
LateAnswer(i) ==
    /\ MayArrive(i) /\ ~Live(calls[i])
    /\ calls' = RemoveAt(calls, i)
    /\ UNCHANGED <<formKey, formVars, renders, sent, result, refused, presets, ghosts>>

FoldSection(F) ==
    /\ folded' = IF F \subseteq folded THEN folded \ F ELSE folded \cup F
    /\ UNCHANGED <<formKey, value, readonly, timers, loading, enabled, calls, renders, sent, result,
                   refused, presets, ghosts>>

ToggleFeature(f) ==
    /\ enabled' = IF f \in enabled THEN enabled \ {f} ELSE enabled \cup {f}
    /\ UNCHANGED <<formKey, value, readonly, folded, timers, loading, calls, renders, sent, result,
                   refused, presets, ghosts>>

-----------------------------------------------------------------------------
(* Rendering *)

\* Mutant: the button stays enabled while a render runs.
RenderingUnseen == FALSE

Rendering == \E r \in renders : r.mount = formKey

\* feature_ids: [...enabledFeatureIds].map(Number): a UUID becomes NaN, and
\* NaN becomes null in JSON.
AsNumber(f) == Null

\* The values sent are those of the visible fields and of the enabled features;
\* what the server makes of them is RenderPipeline's.
Submit ==
    /\ ~Rendering
    /\ sent < MaxRenders
    /\ \A f \in Fields : Accepts(f)
    /\ sent' = sent + 1
    /\ renders' = renders \cup
         {[mount |-> formKey, id |-> sent + 1, features |-> {AsNumber(f) : f \in enabled}]}
    /\ UNCHANGED <<formKey, formVars, calls, result, refused, presets, ghosts>>

\* RenderRequest takes feature_ids as a list of strings: null is refused.
RenderAnswered(r) ==
    /\ r.features = {}
    /\ renders' = renders \ {r}
    /\ IF r.mount = formKey THEN result' = r.id /\ refused' = FALSE
                          ELSE UNCHANGED <<result, refused>>
    /\ UNCHANGED <<formKey, formVars, calls, sent, presets, ghosts>>

RenderFailed(r) ==
    /\ renders' = renders \ {r}
    /\ refused' = IF r.mount = formKey THEN r.features # {} ELSE refused
    /\ UNCHANGED <<formKey, formVars, calls, sent, result, presets, ghosts>>

-----------------------------------------------------------------------------
(* Presets *)

SavePreset ==
    /\ Cardinality(presets) < MaxPresets
    /\ presets' = presets \cup {value}
    /\ UNCHANGED <<formKey, formVars, calls, renders, sent, result, refused, ghosts>>

DeletePreset(p) ==
    /\ presets' = presets \ {p}
    /\ UNCHANGED <<formKey, formVars, calls, renders, sent, result, refused, ghosts>>

FreshForm(prefill) ==
    /\ value' = BuildDefaults(prefill)
    /\ readonly' = [f \in Fields |-> f \in LoadLocked]
    /\ folded' = {} /\ timers' = {} /\ loading' = {}
    /\ enabled' = DefaultOn
    /\ result' = NoResult /\ refused' = FALSE

\* Mutant: the preset is put into the mounted form, its key unchanged.
LoadPresetInPlace(p) ==
    /\ formKey < MaxLoads
    /\ FreshForm(p)
    /\ kept' = BuildDefaults(p)
    /\ due' = {}
    /\ UNCHANGED <<formKey, calls, renders, sent, presets, edits>>

\* The key of the form changes, so React mounts a new one with the preset.
LoadPreset(p) ==
    /\ formKey < MaxLoads
    /\ formKey' = formKey + 1
    /\ FreshForm(p)
    /\ kept' = BuildDefaults(p)
    /\ due' = {}
    /\ UNCHANGED <<calls, renders, sent, presets, edits>>

-----------------------------------------------------------------------------
Init ==
    /\ formKey = 0
    /\ value = Default
    /\ readonly = [f \in Fields |-> f \in LoadLocked]
    /\ folded = {} /\ timers = {} /\ loading = {}
    /\ calls = << >>
    /\ enabled = DefaultOn
    /\ renders = {} /\ sent = 0 /\ result = NoResult /\ refused = FALSE
    /\ presets = {}
    /\ edits = 0
    /\ kept = [f \in Fields |-> Untouched]
    /\ due = {}

Answers == \E i \in DOMAIN calls : Filled(i) \/ NotFilled(i) \/ LateAnswer(i)

Next ==
    \/ \E f \in Fields, v \in Values : Edit(f, v)
    \/ \E f \in Fields : TimerFires(f)
    \/ Answers
    \/ FoldSection(Required)
    \/ \E f \in Features : ToggleFeature(f)
    \/ Submit
    \/ \E r \in renders : RenderAnswered(r) \/ RenderFailed(r)
    \/ SavePreset
    \/ \E p \in presets : DeletePreset(p) \/ LoadPreset(p)

\* The browser runs its timers and every request is answered or fails.
Fairness ==
    /\ \A f \in Fields : WF_vars(TimerFires(f))
    /\ WF_vars(Answers)

Spec == Init /\ [][Next]_vars /\ Fairness

-----------------------------------------------------------------------------
(* The inductive invariants (TemplateEditingProofs).                       *)

\* A render was asked of a form that is mounted or was, before its answer is shown.
RendersInv ==
    /\ formKey \in Nat /\ sent \in Nat /\ result \in 0..sent
    /\ \A r \in renders : r.mount \in 0..formKey /\ r.id \in 1..sent
    /\ ShownResultIsNewest

\* A sequence, whatever it holds.
IsSeq(s) == s \in Seq({s[i] : i \in DOMAIN s})

\* What is kept is on screen, and nothing under way can reach it.
QuietInv ==
    /\ formKey \in Nat /\ DOMAIN value = Fields /\ timers \subseteq Fields
    /\ IsSeq(calls)
    /\ \A i \in DOMAIN calls : calls[i].on \in Fields /\ calls[i].mount \in 0..formKey
    /\ \A f \in Fields : kept[f] # Untouched => value[f] = kept[f] /\ f \notin Threatened

\* Requests s of the mounted form: the last one for a field x asks with what the
\* field shows, v[x], unless a timer of T is going to ask again.
AsksWhatIsShown(s, T, v) ==
    \A i \in DOMAIN s :
        LET x == s[i].on IN
        Live(s[i]) /\ Listens(x) /\ x \notin T /\ s[i].arg # v[x]
            => \E j \in DOMAIN s : j > i /\ s[j].on = x /\ Live(s[j])

\* Something under way is going to ask what x fills.
AsksAgain(x) == x \in timers \/ \E i \in DOMAIN calls : calls[i].on = x /\ Live(calls[i])

\* A field that is due shows what its trigger gives, or somebody will ask.
SettleInv ==
    /\ value \in [Fields -> Values \cup {Null}]
    /\ presets \subseteq [Fields -> Values \cup {Null}]
    /\ \A i \in DOMAIN calls : calls[i].arg \in Values \cup {Null}
    /\ InOrder => AsksWhatIsShown(calls, timers, value)
    /\ InOrder => \A m \in Mappings :
                     m.auto /\ Listens(m.on) /\ m.to \in due
                         => AsksAgain(m.on) \/ value[m.to] = Lookup[value[m.on]]
=============================================================================
