---------------------------- MODULE DataSources ----------------------------
(* What a form gets from remote APIs (datasource_resolver.py), and how the  *)
(* renderer asks for it (template_renderer.py).                             *)
(*                                                                          *)
(* A template's front matter lists data sources. Those with the trigger     *)
(* on_load are fetched in parallel when a form is opened, or a template     *)
(* rendered; a change of a parameter fetches those it triggers, one by one, *)
(* and what they fill in may trigger more. Every fetch goes through one     *)
(* cache of the process. Nothing else is shared, so a request may run       *)
(* between any two awaits of another.                                       *)
(*                                                                          *)
(* resolve_on_change calls itself once per mapping. Here its pending calls  *)
(* are the agenda of a request: the loops that are not finished, innermost  *)
(* first. The dicts of the calls are merged in the order of the fetches, so *)
(* one dict per request is enough.                                          *)
EXTENDS Naturals, Sequences

CONSTANTS
    N,          \* length of the list of data sources
    Params,     \* names of parameters
    Endpoints,  \* URL templates
    Templates,  \* the lists of data sources to explore
    Requests,   \* forms opened and fields changed
    Values,     \* what a user types, or an API has in a field
    Blank,      \* the value of a parameter before
    Nil,        \* null, as a value
    NoBody,     \* no JSON: the fetch failed, or the body is null
    Bodies,     \* what an API answers: a subset of Body
    Missing,    \* no entry in a dict
    OnLoad,     \* the trigger "on_load"
    Default,    \* a front matter without cache_ttl
    MaxTime     \* bound of the clock

Sources == 1..N
Content == Values \cup {Nil}

\* A body has the mapped field, or not (Missing), or is null.
Body == Content \cup {Missing, NoBody}

Mapping == [to : Params, fill : BOOLEAN]
Source == [trigger : Params \cup {OnLoad}, endpoint : Endpoints,
           uses : SUBSET Params, mapping : Seq(Mapping), block : BOOLEAN,
           secret : BOOLEAN, ttl : Nat \cup {Default}]

Given == [Params -> Values \cup {Blank}]
Urls == [endpoint : Endpoints,
         rendered : UNION {[names -> Values \cup {Blank}] : names \in SUBSET Params}]
Entry == [key : [url : Urls, params : Given], body : Body,
          expiry : Nat, url : Urls, got : Nat, by : Sources]
Use == [entry : Entry, params : Given, at : Nat]

\* cache_ttl of a source that has none: 60 seconds, in ticks of this clock.
DefaultTtl == 2

ASSUME SourcesAssumption ==
    /\ N \in Nat /\ MaxTime \in Nat
    /\ Templates \subseteq [Sources -> Source]
    /\ Bodies \subseteq Body
    /\ OnLoad \notin Params /\ Default \notin Nat
    /\ Blank \notin Content /\ Nil \notin Values
    /\ Missing \notin Content \cup Use \cup {Blank, NoBody} /\ NoBody \notin Content

VARIABLES
    source,    \* the list of data sources of the template
    clock,     \* time.monotonic
    cache,     \* _CACHE: entries of a key, a body and an expiry; url, got and by
               \* say, for the properties, which answer it was, when, to whom
    phase,     \* of a request: "idle", "load", "change", "answered", "refused"
    given,     \* the parameters a request came with
    changed,   \* the parameter it says was changed
    visited,   \* the set of that name
    agenda,    \* what the calls of resolve_on_change still have to do
    call,      \* a request's fetch of a source: "idle", "todo", "secret", "http"
    batch,     \* the enrichments a fetch gave
    merged,    \* the enrichments of the request
    asked,     \* how often a request has begun with a source, up to 2
    failed,    \* the sources that failed it
    used       \* what a source was answered with, when, and what it had asked

vars == <<source, clock, cache, phase, given, changed, visited, agenda, call,
          batch, merged, asked, failed, used>>
-----------------------------------------------------------------------------
(* Sources and their mappings                                              *)

\* "rendered" says with what the URL template was rendered.
Url(s, params) == [endpoint |-> source[s].endpoint,
                   rendered |-> [p \in source[s].uses |-> params[p]]]

Key(s, params) == [url |-> Url(s, params), params |-> params]

Ttl(s) == IF source[s].ttl = Default THEN DefaultTtl ELSE source[s].ttl

Nothing == [p \in Params |-> Missing]

\* _apply_mappings: a field without auto_fill makes an entry without a value.
Enrichments(s, body) ==
    [p \in Params |->
        LET to == {i \in DOMAIN source[s].mapping : source[s].mapping[i].to = p}
        IN  IF to = {} \/ body \in {Missing, NoBody} THEN Missing
            ELSE IF \E i \in to : source[s].mapping[i].fill THEN body
            ELSE Nil]

\* dict.update
Update(dict, new) == [p \in Params |-> IF new[p] = Missing THEN dict[p] ELSE new[p]]

\* Parameters with what was filled in.
\* Mistake: the cascade goes on with the old parameters.
FilledNot(params, new) == params

Filled(params, new) == [p \in Params |-> IF new[p] \in Values THEN new[p] ELSE params[p]]

OnLoadSources == {s \in Sources : source[s].trigger = OnLoad}

\* A call for a parameter, a turn of its loop over the sources, and a turn of the
\* loop over the mappings of a source: those with nothing to do only pass.
Item(kind, of, params) == [kind |-> kind, of |-> of, params |-> params]

Turns(p, params) ==
    [s \in Sources |->
        Item(IF source[s].trigger = p THEN "source" ELSE "pass", s, params)]

Cascade(s, params) ==
    [i \in DOMAIN source[s].mapping |->
        Item(IF source[s].mapping[i].fill THEN "param" ELSE "pass",
             source[s].mapping[i].to, params)]
-----------------------------------------------------------------------------
(* Requests                                                                *)

\* resolve_params_for_form, for a form or for a render: the fetches of all
\* on_load sources are tasks of their own.
Load(r) ==
    /\ phase[r] = "idle"
    /\ phase' = [phase EXCEPT ![r] = "load"]
    /\ call' = [call EXCEPT ![r] = [s \in Sources |->
                   IF s \in OnLoadSources THEN "todo" ELSE "idle"]]
    /\ asked' = [asked EXCEPT ![r] = [s \in Sources |->
                   IF s \in OnLoadSources THEN 1 ELSE 0]]
    /\ UNCHANGED <<source, clock, cache, given, changed, visited, agenda,
                   batch, merged, failed, used>>

\* The user has changed p to v.
Change(r, p, v) ==
    /\ phase[r] = "idle"
    /\ phase' = [phase EXCEPT ![r] = "change"]
    /\ changed' = [changed EXCEPT ![r] = p]
    /\ given' = [given EXCEPT ![r][p] = v]
    /\ agenda' = [agenda EXCEPT ![r] = <<Item("param", p, given'[r])>>]
    /\ UNCHANGED <<source, clock, cache, visited, call, batch, merged, asked,
                   failed, used>>

\* Mistake: visited is never added to.
VisitUnmarked(r) ==
    /\ phase[r] = "change" /\ agenda[r] # <<>> /\ Head(agenda[r]).kind = "param"
    /\ LET p == Head(agenda[r]).of
       IN  /\ agenda' = [agenda EXCEPT ![r] = Turns(p, Head(@).params) \o Tail(@)]
           /\ call' = [call EXCEPT ![r] = [s \in Sources |->
                          IF source[s].trigger = p THEN "todo" ELSE @[s]]]
           /\ asked' = [asked EXCEPT ![r] = [s \in Sources |->
                           IF source[s].trigger = p /\ @[s] < 2 THEN @[s] + 1 ELSE @[s]]]
    /\ UNCHANGED <<source, clock, cache, phase, given, changed, visited, batch,
                   merged, failed, used>>

\* A call of resolve_on_change, up to its loop over the sources.
Visit(r) ==
    /\ phase[r] = "change" /\ agenda[r] # <<>> /\ Head(agenda[r]).kind = "param"
    /\ LET p == Head(agenda[r]).of
       IN  IF p \in visited[r]
           THEN /\ agenda' = [agenda EXCEPT ![r] = Tail(@)]
                /\ UNCHANGED <<visited, call, asked>>
           ELSE /\ visited' = [visited EXCEPT ![r] = @ \cup {p}]
                /\ agenda' = [agenda EXCEPT ![r] = Turns(p, Head(@).params) \o Tail(@)]
                /\ call' = [call EXCEPT ![r] = [s \in Sources |->
                               IF source[s].trigger = p THEN "todo" ELSE @[s]]]
                /\ asked' = [asked EXCEPT ![r] = [s \in Sources |->
                                IF source[s].trigger = p THEN @[s] + 1 ELSE @[s]]]
    /\ UNCHANGED <<source, clock, cache, phase, given, changed, batch, merged,
                   failed, used>>

\* The loops go on.
Pass(r) ==
    /\ phase[r] = "change" /\ agenda[r] # <<>> /\ Head(agenda[r]).kind = "pass"
    /\ agenda' = [agenda EXCEPT ![r] = Tail(@)]
    /\ UNCHANGED <<source, clock, cache, phase, given, changed, visited, call,
                   batch, merged, asked, failed, used>>
-----------------------------------------------------------------------------
(* One fetch                                                               *)

\* The parameters the fetch of s has. Fetches of a load outlive its answer.
With(r, s) == IF phase[r] = "change" THEN Head(agenda[r]).params ELSE given[r]

\* Is it the turn of s? A change fetches one source after the other.
InTurn(r, s) ==
    phase[r] = "change" => /\ agenda[r] # <<>>
                           /\ Head(agenda[r]).kind = "source"
                           /\ Head(agenda[r]).of = s

Entries(s, params) == {e \in cache : e.key = Key(s, params)}

\* Mistake: the expiry is not looked at.
LiveAlways(e) == TRUE

Live(e) == clock < e.expiry

\* What _cache_get finds. A body of null is stored and never found.
Cached(s, params) ==
    {e \in Entries(s, params) : Live(e) /\ e.body # NoBody}

\* _resolve_one has body, or nothing: the enrichments, and for a change the
\* loop over the mappings, whether or not the fetch gave anything.
Enrich(r, s, body) ==
    LET new == Enrichments(s, body)
    IN  /\ call' = [call EXCEPT ![r][s] = "idle"]
        /\ batch' = [batch EXCEPT ![r][s] = new]
        /\ IF phase[r] = "change"
           THEN /\ merged' = [merged EXCEPT ![r] = Update(@, new)]
                /\ agenda' = [agenda EXCEPT ![r] =
                                 Cascade(s, Filled(Head(@).params, new)) \o Tail(@)]
           ELSE UNCHANGED <<merged, agenda>>
        /\ UNCHANGED <<source, clock, phase, given, changed, visited, asked>>

Uses(r, s, e) ==
    used' = [used EXCEPT ![r][s] = [entry |-> e, params |-> With(r, s), at |-> clock]]

CacheHit(r, s) ==
    /\ call[r][s] = "todo" /\ InTurn(r, s)
    /\ \E e \in Cached(s, With(r, s)) :
          Enrich(r, s, e.body) /\ Uses(r, s, e)
    /\ UNCHANGED <<cache, failed>>

\* An expired entry is deleted. Then the credentials are looked up.
CacheMiss(r, s) ==
    /\ call[r][s] = "todo" /\ InTurn(r, s) /\ Cached(s, With(r, s)) = {}
    /\ cache' = {e \in cache : e \in Entries(s, With(r, s)) => Live(e)}
    /\ call' = [call EXCEPT ![r][s] = IF source[s].secret THEN "secret" ELSE "http"]
    /\ UNCHANGED <<source, clock, phase, given, changed, visited, agenda, batch,
                   merged, asked, failed, used>>

SecretFound(r, s) ==
    /\ call[r][s] = "secret"
    /\ call' = [call EXCEPT ![r][s] = "http"]
    /\ UNCHANGED <<source, clock, cache, phase, given, changed, visited, agenda,
                   batch, merged, asked, failed, used>>

\* The API has answered: _cache_set, unless the source's ttl is 0.
Answered(r, s, body) ==
    /\ call[r][s] = "http"
    /\ LET key == Key(s, With(r, s))
           entry == [key |-> key, body |-> body, expiry |-> clock + Ttl(s),
                     url |-> Url(s, With(r, s)), got |-> clock, by |-> s]
       IN  /\ cache' = IF Ttl(s) > 0 THEN {e \in cache : e.key # key} \cup {entry}
                       ELSE cache
           /\ Uses(r, s, entry)
    /\ Enrich(r, s, body)
    /\ UNCHANGED failed

\* _handle_error of a source that only warns.
Warn(r, s) ==
    /\ call[r][s] \in {"secret", "http"} /\ ~source[s].block
    /\ Enrich(r, s, NoBody)
    /\ failed' = [failed EXCEPT ![r] = @ \cup {s}]
    /\ UNCHANGED <<cache, used>>

\* An exception leaves the fetch: the source blocks, its URL cannot be
\* rendered or its Vault not be reached. A change is refused. A form or a
\* render goes on, with no enrichments at all; the other fetches go on too.
Raise(r, s) ==
    /\ \/ call[r][s] \in {"secret", "http"} /\ source[s].block
       \/ call[r][s] = "todo" /\ InTurn(r, s)
       \/ call[r][s] = "secret"
    /\ call' = [call EXCEPT ![r] = [t \in Sources |->
                   IF t = s \/ phase[r] = "change" THEN "idle" ELSE @[t]]]
    /\ failed' = [failed EXCEPT ![r] = @ \cup {s}]
    /\ phase' = [phase EXCEPT ![r] = CASE @ = "load" -> "answered"
                                       [] @ = "change" -> "refused"
                                       [] OTHER -> @]
    /\ agenda' = [agenda EXCEPT ![r] = <<>>]
    /\ UNCHANGED <<source, clock, cache, given, changed, visited, batch, merged,
                   asked, used>>
-----------------------------------------------------------------------------
(* Answers                                                                 *)

\* Mistake: dicts are merged the other way round.
FirstOf(S) == CHOOSE s \in S : \A t \in S : s <= t

LastOf(S) == CHOOSE s \in S : \A t \in S : t <= s

\* Mistake: a failed fetch is waited for.
AnswerLoadSuccess(r) ==
    /\ phase[r] = "load" /\ \A s \in Sources : call[r][s] = "idle"
    /\ failed[r] = {}
    /\ phase' = [phase EXCEPT ![r] = "answered"]
    /\ UNCHANGED <<source, clock, cache, given, changed, visited, agenda, call,
                   batch, merged, asked, failed, used>>

\* asyncio.gather gives the dicts in the order of the list, however they came.
AnswerLoad(r) ==
    /\ phase[r] = "load" /\ \A s \in Sources : call[r][s] = "idle"
    /\ phase' = [phase EXCEPT ![r] = "answered"]
    /\ merged' = [merged EXCEPT ![r] = [p \in Params |->
          LET have == {s \in OnLoadSources : batch[r][s][p] # Missing}
          IN  IF have = {} THEN Missing ELSE batch[r][LastOf(have)][p]]]
    /\ UNCHANGED <<source, clock, cache, given, changed, visited, agenda, call,
                   batch, asked, failed, used>>

AnswerChange(r) ==
    /\ phase[r] = "change" /\ agenda[r] = <<>>
    /\ phase' = [phase EXCEPT ![r] = "answered"]
    /\ UNCHANGED <<source, clock, cache, given, changed, visited, agenda, call,
                   batch, merged, asked, failed, used>>

Tick ==
    /\ clock < MaxTime
    /\ clock' = clock + 1
    /\ UNCHANGED <<source, cache, phase, given, changed, visited, agenda, call,
                   batch, merged, asked, failed, used>>
-----------------------------------------------------------------------------
Init ==
    /\ source \in Templates
    /\ clock = 0
    /\ cache = {}
    /\ phase = [r \in Requests |-> "idle"]
    /\ given = [r \in Requests |-> [p \in Params |-> Blank]]
    /\ changed = [r \in Requests |-> OnLoad]
    /\ visited = [r \in Requests |-> {}]
    /\ agenda = [r \in Requests |-> <<>>]
    /\ call = [r \in Requests |-> [s \in Sources |-> "idle"]]
    /\ batch = [r \in Requests |-> [s \in Sources |-> Nothing]]
    /\ merged = [r \in Requests |-> Nothing]
    /\ asked = [r \in Requests |-> [s \in Sources |-> 0]]
    /\ failed = [r \in Requests |-> {}]
    /\ used = [r \in Requests |-> [s \in Sources |-> Missing]]

Fetch(r, s) ==
    \/ CacheHit(r, s) \/ CacheMiss(r, s) \/ SecretFound(r, s)
    \/ \E body \in Bodies : Answered(r, s, body)
    \/ Warn(r, s) \/ Raise(r, s)

Step(r) ==
    \/ Visit(r) \/ Pass(r) \/ AnswerLoad(r) \/ AnswerChange(r)
    \/ \E s \in Sources : Fetch(r, s)

Next ==
    \/ \E r \in Requests : \/ Load(r) \/ Step(r)
                           \/ \E p \in Params, v \in Values : Change(r, p, v)
    \/ Tick

Spec == Init /\ [][Next]_vars

\* The event loop runs what is ready, and a client gives up after 10 seconds.
FairSpec == Spec /\ \A r \in Requests : WF_vars(Step(r))
-----------------------------------------------------------------------------
(* Properties                                                              *)

Enriched == [Params -> Content \cup {Missing}]
Items == [kind : {"param"}, of : Params, params : Given]
           \cup [kind : {"source"}, of : Sources, params : Given]
           \cup [kind : {"pass"}, of : Params \cup Sources, params : Given]

\* Every variable keeps its shape.
TypeOK ==
    /\ source \in Templates
    /\ clock \in 0..MaxTime
    /\ cache \subseteq Entry
    /\ phase \in [Requests -> {"idle", "load", "change", "answered", "refused"}]
    /\ given \in [Requests -> Given]
    /\ changed \in [Requests -> Params \cup {OnLoad}]
    /\ visited \in [Requests -> SUBSET Params]
    /\ agenda \in [Requests -> Seq(Items)]
    /\ call \in [Requests -> [Sources -> {"idle", "todo", "secret", "http"}]]
    /\ batch \in [Requests -> [Sources -> Enriched]]
    /\ merged \in [Requests -> Enriched]
    /\ asked \in [Requests -> [Sources -> Nat]]
    /\ failed \in [Requests -> SUBSET Sources]
    /\ used \in [Requests -> [Sources -> Use \cup {Missing}]]

Replied(r) == phase[r] = "answered"

\* Whatever requests share the cache, what a source is given is an answer to
\* the URL it asks for, and not older than the ttl of the source whose answer
\* it was (_cache_get, _cache_set, the key of _fetch).
AnswersAreOwnAndFresh ==
    \A r \in Requests, s \in Sources :
        used[r][s] # Missing =>
            LET e == used[r][s].entry
            IN  /\ e.url = Url(s, used[r][s].params)
                /\ used[r][s].at = e.got \/ used[r][s].at < e.got + Ttl(e.by)

\* The parameters a change of p can reach through what sources fill in.
Reached(p) ==
    {q \in Params :
        \A S \in SUBSET Params :
            (/\ p \in S
             /\ \A s \in Sources : source[s].trigger \in S =>
                   \A i \in DOMAIN source[s].mapping :
                       source[s].mapping[i].fill => source[s].mapping[i].to \in S)
            => q \in S}

\* However sources trigger each other, in forks, joins or circles, an answered
\* change has fetched each source it can reach once, and no other
\* (resolve_on_change and its visited set).
CascadeAsksOnce ==
    /\ \A r \in Requests, s \in Sources : asked[r][s] <= 1
    /\ \A r \in Requests : Replied(r) /\ changed[r] \in Params =>
          \A s \in Sources :
              asked[r][s] = 1 <=> source[s].trigger \in Reached(changed[r])

\* Nothing that p reaches has two sources, and nothing fills p.
Untangled(p) ==
    \A q \in Reached(p) :
        LET fillers == {s \in Sources :
                          /\ source[s].trigger \in Reached(p)
                          /\ \E i \in DOMAIN source[s].mapping : source[s].mapping[i].to = q}
        IN  /\ q = p => fillers = {}
            /\ \A s, t \in fillers : s = t

\* Where no two sources meet in one parameter, the answer to a change is of one
\* piece: each source was asked with the value that its trigger has in the end.
CascadeIsCoherent ==
    \A r \in Requests : Replied(r) /\ changed[r] \in Params /\ Untangled(changed[r]) =>
        \A s \in Sources : used[r][s] # Missing =>
            LET p == source[s].trigger
            IN  used[r][s].params[p] = IF merged[r][p] \in Values THEN merged[r][p]
                                       ELSE given[r][p]

\* In whatever order the fetches of a form come back, a parameter has the
\* answer of the last source in the list that has one for it; or some fetch
\* raised and there is none for any parameter (resolve_on_load).
LoadIsInOrder ==
    \A r \in Requests : Replied(r) /\ changed[r] \notin Params =>
        \/ failed[r] # {} /\ merged[r] = Nothing
        \/ \A p \in Params, s \in OnLoadSources :
              LET new(t) == IF used[r][t] = Missing THEN Missing
                            ELSE Enrichments(t, used[r][t].entry.body)[p]
              IN  new(s) # Missing /\ merged[r][p] # new(s) =>
                     \E t \in OnLoadSources : s < t /\ new(t) = merged[r][p]

\* Every form is answered, every change too or refused, though triggers form
\* a circle; and fetches that outlive their form end.
EveryRequestEnds ==
    \A r \in Requests :
        phase[r] \in {"load", "change"} ~>
            /\ phase[r] \in {"answered", "refused"}
            /\ \A s \in Sources : call[r][s] = "idle"
=============================================================================
