-------------------------- MODULE DataSourcesProofs --------------------------
(***************************************************************************)
(* Answers from the cache are a source's own and fresh, forms are filled   *)
(* in the order of the list, and a change asks each source it reaches once *)
(* and, where no two meet, gets an answer of one piece: for any lists of   *)
(* sources, any requests and any graph of triggers.                        *)
(***************************************************************************)
EXTENDS DataSources, SequenceTheorems, WellFoundedInduction, TLAPS

Phases == {"idle", "load", "change", "answered", "refused"}
Places == {"idle", "todo", "secret", "http"}

-----------------------------------------------------------------------------
(* Types and the cache                                                     *)

\* A fetch of a change that waits is the one whose turn it is.
TurnIsKept ==
    \A r \in Requests, s \in Sources :
        /\ call[r][s] \in {"secret", "http"} => InTurn(r, s)
        /\ phase[r] = "idle" => call[r][s] = "idle"

\* An entry is under the URL that gave it, until the ttl of who asked is over.
CacheIsTrue ==
    \A e \in cache : e.url = e.key.url /\ e.expiry = e.got + Ttl(e.by)

BasicInv == TypeOK /\ TurnIsKept /\ CacheIsTrue /\ AnswersAreOwnAndFresh

LEMMA SourceTypes ==
    ASSUME TypeOK, NEW s \in Sources
    PROVE  /\ source[s] \in Source
           /\ source[s].trigger \in Params \cup {OnLoad}
           /\ source[s].mapping \in Seq(Mapping)
           /\ source[s].uses \in SUBSET Params
           /\ Ttl(s) \in Nat
           /\ \A params \in Given : Url(s, params) \in Urls
           /\ \A params \in Given : Key(s, params) \in [url : Urls, params : Given]
<1>1. source[s] \in Source
  BY SourcesAssumption DEF TypeOK
<1>2. \A params \in Given : Url(s, params) \in Urls
  <2>1. TAKE params \in Given
  <2>2. [p \in source[s].uses |-> params[p]] \in [source[s].uses -> Values \cup {Blank}]
    BY <1>1 DEF Source, Given
  <2>3. source[s].uses \in SUBSET Params /\ source[s].endpoint \in Endpoints
    BY <1>1 DEF Source
  <2>4. [p \in source[s].uses |-> params[p]]
          \in UNION {[names -> Values \cup {Blank}] : names \in SUBSET Params}
    BY <2>2, <2>3
  <2>5. QED
    BY <2>3, <2>4 DEF Url, Urls
<1>3. Ttl(s) \in Nat
  BY <1>1, SourcesAssumption DEF Source, Ttl, DefaultTtl
<1>4. \A params \in Given : Key(s, params) \in [url : Urls, params : Given]
  BY <1>2 DEF Key
<1>5. QED
  BY <1>1, <1>2, <1>3, <1>4 DEF Source

LEMMA EnrichmentTypes ==
    ASSUME TypeOK, NEW s \in Sources, NEW body \in Body
    PROVE  Enrichments(s, body) \in Enriched
<1>1. SUFFICES ASSUME NEW p \in Params
               PROVE  Enrichments(s, body)[p] \in Content \cup {Missing}
  BY DEF Enriched, Enrichments
<1>2. Nil \in Content /\ (body \notin {Missing, NoBody} => body \in Content)
  BY DEF Content, Body
<1>3. QED
  BY <1>2 DEF Enrichments

LEMMA FilledTypes ==
    ASSUME NEW params \in Given, NEW new \in Enriched
    PROVE  Filled(params, new) \in Given
BY DEF Filled, Given, Enriched

LEMMA UpdateTypes ==
    ASSUME NEW dict \in Enriched, NEW new \in Enriched
    PROVE  Update(dict, new) \in Enriched
BY DEF Update, Enriched

LEMMA CascadeTypes ==
    ASSUME TypeOK, NEW s \in Sources, NEW params \in Given
    PROVE  /\ Cascade(s, params) \in Seq(Items)
           /\ DOMAIN Cascade(s, params) = DOMAIN source[s].mapping
<1>1. source[s].mapping \in Seq(Mapping)
  BY SourceTypes
<1>2. \A i \in DOMAIN source[s].mapping : Cascade(s, params)[i] \in Items
  <2>1. TAKE i \in DOMAIN source[s].mapping
  <2>2. source[s].mapping[i] \in Mapping
    BY <1>1
  <2>3. source[s].mapping[i].to \in Params
    BY <2>2 DEF Mapping
  <2>4. \A kind \in {"param", "pass"} : Item(kind, source[s].mapping[i].to, params) \in Items
    BY <2>3 DEF Item, Items
  <2>5. QED
    BY <2>4 DEF Cascade
<1>3. DOMAIN Cascade(s, params) = 1..Len(source[s].mapping) /\ Len(source[s].mapping) \in Nat
  BY <1>1 DEF Cascade
<1> DEFINE n == Len(source[s].mapping)
<1>4. Cascade(s, params) \in [1..n -> Items] /\ n \in Nat
  BY <1>1, <1>2, <1>3 DEF Cascade
<1>5. \A m \in Nat : [1..m -> Items] \subseteq Seq(Items)
  OBVIOUS
<1>6. DOMAIN Cascade(s, params) = DOMAIN source[s].mapping
  BY DEF Cascade
<1> HIDE DEF n
<1>7. QED
  BY <1>4, <1>5, <1>6

LEMMA TurnsTypes ==
    ASSUME TypeOK, NEW p \in Params, NEW params \in Given
    PROVE  Turns(p, params) \in Seq(Items) /\ DOMAIN Turns(p, params) = Sources
<1>1. Turns(p, params) \in [1..N -> Items]
  BY SourcesAssumption DEF Turns, Item, Items, Sources
<1>2. QED
  BY <1>1, SourcesAssumption DEF Turns, Sources

\* The head of an agenda, and what is left without it.
LEMMA AgendaTypes ==
    ASSUME TypeOK, NEW r \in Requests, agenda[r] # <<>>
    PROVE  /\ Head(agenda[r]) \in Items
           /\ Head(agenda[r]).params \in Given
           /\ Head(agenda[r]).kind = "param" => Head(agenda[r]).of \in Params
           /\ Head(agenda[r]).kind = "source" => Head(agenda[r]).of \in Sources
           /\ Tail(agenda[r]) \in Seq(Items)
<1>1. agenda[r] \in Seq(Items)
  BY DEF TypeOK
<1>2. Head(agenda[r]) \in Items /\ Tail(agenda[r]) \in Seq(Items)
  BY <1>1
<1>3. QED
  BY <1>2 DEF Items

LEMMA WithTypes ==
    ASSUME TypeOK, NEW r \in Requests, NEW s \in Sources, InTurn(r, s)
    PROVE  With(r, s) \in Given
BY AgendaTypes DEF With, InTurn, TypeOK

\* A list has a last one of any of its sources.
LEMMA LastExists ==
    ASSUME NEW S, S \subseteq 1..N, N \in Nat, S # {}
    PROVE  LastOf(S) \in S /\ \A t \in S : t <= LastOf(S)
<1> DEFINE back == {N - s : s \in S}
           less == {ss \in Nat \X Nat : ss[1] < ss[2]}
<1>1. back \subseteq Nat /\ back # {}
  <2>1. ASSUME NEW s \in S PROVE N - s \in Nat
    <3>1. s \in 1..N
      OBVIOUS
    <3>2. QED
      BY <3>1
  <2>2. PICK s \in S : TRUE
    OBVIOUS
  <2>3. N - s \in back
    OBVIOUS
  <2>4. QED
    BY <2>1, <2>3
<1>2. \E x \in back : \A y \in back : ~ (<<y, x>> \in less)
  <2>1. IsWellFoundedOn(less, Nat)
    BY NatLessThanWellFounded DEF OpToRel
  <2> HIDE DEF back, less
  <2>2. QED
    BY <1>1, <2>1, WFMin
<1>3. PICK x \in back : \A y \in back : ~ (<<y, x>> \in less)
  BY <1>2
<1>4. ASSUME NEW y \in back PROVE x <= y
  <2> x \in Nat /\ y \in Nat
    BY <1>1
  <2>1. ~(y < x)
    BY <1>3
  <2>2. QED
    BY <2>1
<1>5. PICK s \in S : x = N - s
  OBVIOUS
<1>6. ASSUME NEW t \in S PROVE t <= s
  <2>1. x <= N - t
    BY <1>4
  <2>2. t \in Int /\ s \in Int
    <3> HIDE DEF back, less
    <3>1. t \in 1..N /\ s \in 1..N
      OBVIOUS
    <3>2. QED
      BY <3>1
  <2>3. QED
    BY <2>1, <2>2, <1>5
<1>7. QED
  BY <1>6 DEF LastOf
-----------------------------------------------------------------------------
LEMMA InitBasic == Init => BasicInv
<1> SUFFICES ASSUME Init PROVE BasicInv
  OBVIOUS
<1>1. Nothing \in Enriched
  BY DEF Nothing, Enriched
<1>2. [p \in Params |-> Blank] \in Given
  BY DEF Given
<1>3. <<>> \in Seq(Items)
  OBVIOUS
<1>4. TypeOK
  BY <1>1, <1>2, <1>3, SourcesAssumption DEF Init, TypeOK
<1>5. TurnIsKept /\ CacheIsTrue /\ AnswersAreOwnAndFresh
  BY DEF Init, TurnIsKept, CacheIsTrue, AnswersAreOwnAndFresh
<1>6. QED
  BY <1>4, <1>5 DEF BasicInv

\* Nothing asked of the cache, nothing answered: what it holds stays true.
LEMMA CacheAside ==
    ASSUME BasicInv, UNCHANGED <<source, cache, used>>
    PROVE  CacheIsTrue' /\ AnswersAreOwnAndFresh'
<1>1. source' = source /\ cache' = cache /\ used' = used
  OBVIOUS
<1>2. CacheIsTrue'
  BY <1>1 DEF BasicInv, CacheIsTrue, Ttl
<1>3. AnswersAreOwnAndFresh'
  BY <1>1 DEF BasicInv, AnswersAreOwnAndFresh, Url, Ttl
<1>4. QED
  BY <1>2, <1>3

\* Only what happens to the request r can be a matter of turns.
LEMMA OtherTurns ==
    ASSUME BasicInv, NEW r \in Requests, NEW q \in Requests, q # r,
           NEW s \in Sources,
           call'[q] = call[q], phase'[q] = phase[q], agenda'[q] = agenda[q]
    PROVE  /\ call'[q][s] \in {"secret", "http"} => InTurn(q, s)'
           /\ phase'[q] = "idle" => call'[q][s] = "idle"
BY DEF BasicInv, TurnIsKept, InTurn

LEMMA BeginBasic ==
    ASSUME BasicInv, NEW r \in Requests,
           \/ Load(r)
           \/ \E p \in Params, v \in Values : Change(r, p, v)
    PROVE  BasicInv'
<1>1. CASE Load(r)
  <2>1. TypeOK'
    BY <1>1 DEF BasicInv, TypeOK, Load
  <2>2. TurnIsKept'
    <3>1. \A s \in Sources : call'[r][s] \in {"todo", "idle"}
      BY <1>1 DEF Load, BasicInv, TypeOK
    <3>2. SUFFICES ASSUME NEW q \in Requests, q # r, NEW s \in Sources
                   PROVE  /\ call'[q][s] \in {"secret", "http"} => InTurn(q, s)'
                          /\ phase'[q] = "idle" => call'[q][s] = "idle"
      <4>1. phase'[r] = "load"
        BY <1>1 DEF Load, BasicInv, TypeOK
      <4>2. QED
        BY <3>1, <4>1 DEF TurnIsKept
    <3>3. call'[q] = call[q] /\ phase'[q] = phase[q] /\ agenda'[q] = agenda[q]
      BY <1>1, <3>2 DEF Load, BasicInv, TypeOK
    <3>4. QED
      BY <3>2, <3>3, OtherTurns
  <2>3. UNCHANGED <<source, cache, used>>
    BY <1>1 DEF Load
  <2>4. QED
    BY <2>1, <2>2, <2>3, CacheAside DEF BasicInv
<1>2. CASE \E p \in Params, v \in Values : Change(r, p, v)
  <2> PICK p \in Params, v \in Values : Change(r, p, v)
    BY <1>2
  <2>1. given' \in [Requests -> Given]
    BY DEF BasicInv, TypeOK, Change, Given
  <2>2. <<Item("param", p, given'[r])>> \in Seq(Items)
    BY <2>1 DEF Item, Items
  <2>3. TypeOK'
    BY <2>1, <2>2 DEF BasicInv, TypeOK, Change
  <2>4. TurnIsKept'
    <3> SUFFICES ASSUME NEW q \in Requests, NEW s \in Sources
                 PROVE  /\ call'[q][s] \in {"secret", "http"} => InTurn(q, s)'
                        /\ phase'[q] = "idle" => call'[q][s] = "idle"
      BY DEF TurnIsKept
    <3>1. CASE q # r
      <4>1. call'[q] = call[q] /\ phase'[q] = phase[q] /\ agenda'[q] = agenda[q]
        BY <3>1 DEF Change, BasicInv, TypeOK
      <4>2. QED
        BY <3>1, <4>1, OtherTurns
    <3>2. CASE q = r
      BY <3>2 DEF Change, BasicInv, TypeOK, TurnIsKept
    <3>3. QED
      BY <3>1, <3>2
  <2>5. UNCHANGED <<source, cache, used>>
    BY DEF Change
  <2>6. QED
    BY <2>3, <2>4, <2>5, CacheAside DEF BasicInv
<1>3. QED
  BY <1>1, <1>2
-----------------------------------------------------------------------------
LEMMA VisitBasic ==
    ASSUME BasicInv, NEW r \in Requests, Visit(r) \/ Pass(r)
    PROVE  BasicInv'
<1> DEFINE head == Head(agenda[r])
<1>1. /\ phase[r] = "change" /\ agenda[r] # <<>> /\ head.kind \in {"param", "pass"}
      /\ UNCHANGED <<source, clock, cache, phase, given, changed, batch, merged,
                     failed, used>>
  BY DEF Visit, Pass
<1>2. /\ head \in Items /\ head.params \in Given /\ Tail(agenda[r]) \in Seq(Items)
      /\ head.kind = "param" => head.of \in Params
  BY <1>1, AgendaTypes DEF BasicInv
<1>3. \A s \in Sources : call[r][s] \notin {"secret", "http"}
  BY <1>1 DEF BasicInv, TurnIsKept, InTurn
<1>4. /\ visited' \in [Requests -> SUBSET Params]
      /\ agenda' \in [Requests -> Seq(Items)]
      /\ call' \in [Requests -> [Sources -> Places]]
      /\ asked' \in [Requests -> [Sources -> Nat]]
      /\ \A s \in Sources : call'[r][s] \notin {"secret", "http"}
      /\ \A q \in Requests \ {r} : call'[q] = call[q] /\ agenda'[q] = agenda[q]
  <2>1. CASE Pass(r) \/ (Visit(r) /\ head.of \in visited[r])
    <3>1. agenda' = [agenda EXCEPT ![r] = Tail(@)] /\ UNCHANGED <<visited, call, asked>>
      BY <2>1 DEF Pass, Visit
    <3>2. QED
      BY <3>1, <1>2, <1>3 DEF BasicInv, TypeOK, Places
  <2>2. CASE Visit(r) /\ head.of \notin visited[r]
    <3> DEFINE p == head.of
    <3>1. p \in Params
      BY <2>2, <1>2 DEF Visit
    <3>2. Turns(p, head.params) \in Seq(Items)
      BY <3>1, <1>2, TurnsTypes DEF BasicInv
    <3>3. Turns(p, head.params) \o Tail(agenda[r]) \in Seq(Items)
      BY <3>2, <1>2
    <3>4. /\ visited' = [visited EXCEPT ![r] = @ \cup {p}]
          /\ agenda' = [agenda EXCEPT ![r] = Turns(p, head.params) \o Tail(@)]
          /\ call' = [call EXCEPT ![r] = [s \in Sources |->
                         IF source[s].trigger = p THEN "todo" ELSE @[s]]]
          /\ asked' = [asked EXCEPT ![r] = [s \in Sources |->
                          IF source[s].trigger = p THEN @[s] + 1 ELSE @[s]]]
      BY <2>2 DEF Visit
    <3>5. visited' \in [Requests -> SUBSET Params] /\ agenda' \in [Requests -> Seq(Items)]
      BY <3>1, <3>3, <3>4 DEF BasicInv, TypeOK
    <3>6. /\ call' \in [Requests -> [Sources -> Places]]
          /\ asked' \in [Requests -> [Sources -> Nat]]
          /\ \A s \in Sources : call'[r][s] \notin {"secret", "http"}
      <4> HIDE DEF p
      <4>1. call \in [Requests -> [Sources -> Places]] /\ asked \in [Requests -> [Sources -> Nat]]
        BY DEF BasicInv, TypeOK, Places
      <4>2. call'[r] = [s \in Sources |-> IF source[s].trigger = p THEN "todo" ELSE call[r][s]]
        BY <3>4, <4>1
      <4>3. QED
        BY <3>4, <4>1, <4>2, <1>3 DEF Places
    <3>7. QED
      BY <3>4, <3>5, <3>6 DEF BasicInv, TypeOK
  <2>3. QED
    BY <2>1, <2>2
<1>5. TypeOK'
  BY <1>1, <1>4 DEF BasicInv, TypeOK, Places
<1>6. TurnIsKept'
  <2> SUFFICES ASSUME NEW q \in Requests, NEW s \in Sources
               PROVE  /\ call'[q][s] \in {"secret", "http"} => InTurn(q, s)'
                      /\ phase'[q] = "idle" => call'[q][s] = "idle"
    BY DEF TurnIsKept
  <2>1. CASE q # r
    BY <1>1, <1>4, <2>1, OtherTurns
  <2>2. CASE q = r
    BY <1>1, <1>4, <2>2
  <2>3. QED
    BY <2>1, <2>2
<1>7. QED
  BY <1>1, <1>5, <1>6, CacheAside DEF BasicInv

LEMMA AnswerBasic ==
    ASSUME BasicInv, NEW r \in Requests, AnswerLoad(r) \/ AnswerChange(r)
    PROVE  BasicInv'
<1>1. /\ phase' = [phase EXCEPT ![r] = "answered"]
      /\ UNCHANGED <<source, clock, cache, given, changed, visited, agenda, call,
                     batch, asked, failed, used>>
      /\ phase[r] \in {"load", "change"}
  BY DEF AnswerLoad, AnswerChange
<1>2. merged' \in [Requests -> Enriched]
  <2>1. CASE AnswerLoad(r)
    <3> DEFINE have(p) == {s \in OnLoadSources : batch[r][s][p] # Missing}
               dict == [p \in Params |-> IF have(p) = {} THEN Missing
                                         ELSE batch[r][LastOf(have(p))][p]]
    <3>1. merged' = [merged EXCEPT ![r] = dict]
      BY <2>1 DEF AnswerLoad
    <3>2. ASSUME NEW p \in Params PROVE dict[p] \in Content \cup {Missing}
      <4>1. CASE have(p) = {}
        BY <4>1
      <4>2. CASE have(p) # {}
        <5>1. have(p) \subseteq 1..N /\ N \in Nat
          BY SourcesAssumption DEF OnLoadSources, Sources
        <5> HIDE DEF have
        <5>2. LastOf(have(p)) \in have(p)
          BY <5>1, <4>2, LastExists
        <5>3. batch[r][LastOf(have(p))] \in Enriched
          BY <5>1, <5>2 DEF BasicInv, TypeOK, Sources
        <5>4. QED
          BY <4>2, <5>3 DEF Enriched
      <4>3. QED
        BY <4>1, <4>2
    <3> HIDE DEF dict
    <3>3. dict \in Enriched
      <4> USE DEF dict
      <4>1. dict = [p \in Params |-> dict[p]]
        OBVIOUS
      <4> HIDE DEF dict
      <4>2. QED
        BY <4>1, <3>2 DEF Enriched
    <3>4. QED
      BY <3>1, <3>3 DEF BasicInv, TypeOK
  <2>2. CASE AnswerChange(r)
    BY <2>2 DEF AnswerChange, BasicInv, TypeOK
  <2>3. QED
    BY <2>1, <2>2
<1>3. TypeOK'
  BY <1>1, <1>2 DEF BasicInv, TypeOK
<1>4. TurnIsKept'
  <2> SUFFICES ASSUME NEW q \in Requests, NEW s \in Sources
               PROVE  /\ call'[q][s] \in {"secret", "http"} => InTurn(q, s)'
                      /\ phase'[q] = "idle" => call'[q][s] = "idle"
    BY DEF TurnIsKept
  <2>1. CASE q # r
    <3>1. call'[q] = call[q] /\ phase'[q] = phase[q] /\ agenda'[q] = agenda[q]
      BY <1>1, <2>1 DEF BasicInv, TypeOK
    <3>2. QED
      BY <2>1, <3>1, OtherTurns
  <2>2. CASE q = r
    BY <1>1, <2>2 DEF InTurn, BasicInv, TypeOK
  <2>3. QED
    BY <2>1, <2>2
<1>5. QED
  BY <1>1, <1>3, <1>4, CacheAside DEF BasicInv
-----------------------------------------------------------------------------
\* What a fetch leaves when it is done.
LEMMA EnrichTypes ==
    ASSUME BasicInv, NEW r \in Requests, NEW s \in Sources, NEW body \in Body,
           InTurn(r, s), Enrich(r, s, body)
    PROVE  /\ call' \in [Requests -> [Sources -> Places]]
           /\ batch' \in [Requests -> [Sources -> Enriched]]
           /\ merged' \in [Requests -> Enriched]
           /\ agenda' \in [Requests -> Seq(Items)]
           /\ call' = [call EXCEPT ![r][s] = "idle"]
           /\ \A q \in Requests \ {r} : agenda'[q] = agenda[q]
           /\ UNCHANGED <<source, clock, phase, given, changed, visited, asked>>
<1> DEFINE new == Enrichments(s, body)
<1>1. TypeOK
  BY DEF BasicInv
<1>2. new \in Enriched
  BY <1>1, EnrichmentTypes
<1> HIDE DEF new
<1>3. /\ call' = [call EXCEPT ![r][s] = "idle"]
      /\ batch' = [batch EXCEPT ![r][s] = new]
      /\ UNCHANGED <<source, clock, phase, given, changed, visited, asked>>
  BY DEF Enrich, new
<1>4. call' \in [Requests -> [Sources -> Places]] /\ batch' \in [Requests -> [Sources -> Enriched]]
  BY <1>1, <1>2, <1>3 DEF TypeOK, Places
<1>5. CASE phase[r] = "change"
  <2>1. /\ merged' = [merged EXCEPT ![r] = Update(@, new)]
        /\ agenda' = [agenda EXCEPT ![r] = Cascade(s, Filled(Head(@).params, new)) \o Tail(@)]
    BY <1>5 DEF Enrich, new
  <2>2. agenda[r] # <<>> /\ Head(agenda[r]).params \in Given /\ Tail(agenda[r]) \in Seq(Items)
    BY <1>1, <1>5, AgendaTypes DEF InTurn
  <2>3. Filled(Head(agenda[r]).params, new) \in Given
    BY <1>2, <2>2, FilledTypes
  <2>4. Cascade(s, Filled(Head(agenda[r]).params, new)) \in Seq(Items)
    BY <1>1, <2>3, CascadeTypes
  <2>5. Cascade(s, Filled(Head(agenda[r]).params, new)) \o Tail(agenda[r]) \in Seq(Items)
    BY <2>2, <2>4
  <2>6. Update(merged[r], new) \in Enriched
    BY <1>1, <1>2, UpdateTypes DEF TypeOK
  <2>7. agenda' \in [Requests -> Seq(Items)] /\ \A q \in Requests \ {r} : agenda'[q] = agenda[q]
    BY <1>1, <2>1, <2>5 DEF TypeOK
  <2>8. merged' \in [Requests -> Enriched]
    BY <1>1, <2>1, <2>6 DEF TypeOK
  <2>9. QED
    BY <1>3, <1>4, <2>7, <2>8
<1>6. CASE phase[r] # "change"
  <2>1. UNCHANGED <<merged, agenda>>
    BY <1>6 DEF Enrich
  <2>2. QED
    BY <1>1, <1>3, <1>4, <2>1 DEF TypeOK
<1>7. QED
  BY <1>5, <1>6

\* The end of one fetch moves no turn from another: in a change there was none.
LEMMA EndKeepsTurns ==
    ASSUME BasicInv, NEW r \in Requests, NEW s \in Sources, InTurn(r, s),
           call[r][s] # "idle",
           call' \in [Requests -> [Sources -> Places]],
           call' = [call EXCEPT ![r][s] = "idle"],
           phase' = phase,
           \A q \in Requests \ {r} : agenda'[q] = agenda[q]
    PROVE  TurnIsKept'
<1> SUFFICES ASSUME NEW q \in Requests, NEW t \in Sources
             PROVE  /\ call'[q][t] \in {"secret", "http"} => InTurn(q, t)'
                    /\ phase'[q] = "idle" => call'[q][t] = "idle"
  BY DEF TurnIsKept
<1>1. CASE q # r
  <2>1. call'[q] = call[q] /\ phase'[q] = phase[q] /\ agenda'[q] = agenda[q]
    BY <1>1 DEF BasicInv, TypeOK
  <2>2. QED
    BY <1>1, <2>1, OtherTurns
<1>2. CASE q = r
  <2>1. call'[r][s] = "idle" /\ (t # s => call'[r][t] = call[r][t])
    BY DEF BasicInv, TypeOK
  <2>2. phase[r] # "idle"
    BY DEF BasicInv, TurnIsKept
  <2>3. t # s /\ call[r][t] \in {"secret", "http"} => phase[r] # "change"
    BY DEF BasicInv, TurnIsKept, InTurn
  <2>4. QED
    BY <1>2, <2>1, <2>2, <2>3 DEF InTurn
<1>3. QED
  BY <1>1, <1>2
-----------------------------------------------------------------------------
\* What is used of an entry that is true, in time and in answer to the URL of
\* s, is an answer of its own.
LEMMA UseIsOwn ==
    ASSUME BasicInv, NEW r \in Requests, NEW s \in Sources, NEW e \in Entry,
           InTurn(r, s), Uses(r, s, e), source' = source,
           e.url = Url(s, With(r, s)),
           clock = e.got \/ clock < e.got + Ttl(e.by)
    PROVE  AnswersAreOwnAndFresh' /\ used' \in [Requests -> [Sources -> Use \cup {Missing}]]
<1> DEFINE u == [entry |-> e, params |-> With(r, s), at |-> clock]
<1>1. u \in Use
  BY WithTypes DEF BasicInv, TypeOK, Use
<1>2. used' = [used EXCEPT ![r][s] = u]
  BY DEF Uses
<1>3. u.entry = e /\ u.params = With(r, s) /\ u.at = clock
  OBVIOUS
<1> HIDE DEF u
<1>4. used' \in [Requests -> [Sources -> Use \cup {Missing}]]
  BY <1>1, <1>2 DEF BasicInv, TypeOK
<1>5. used'[r][s] = u
  BY <1>2 DEF BasicInv, TypeOK
<1>6. \A q \in Requests, t \in Sources :
         (q # r \/ t # s) => used'[q][t] = used[q][t]
  BY <1>2 DEF BasicInv, TypeOK
<1>7. AnswersAreOwnAndFresh'
  <2> SUFFICES ASSUME NEW q \in Requests, NEW t \in Sources, used'[q][t] # Missing
               PROVE  /\ used'[q][t].entry.url = Url(t, used'[q][t].params)
                      /\ \/ used'[q][t].at = used'[q][t].entry.got
                         \/ used'[q][t].at < used'[q][t].entry.got + Ttl(used'[q][t].entry.by)
    BY DEF AnswersAreOwnAndFresh, Url, Ttl
  <2>1. CASE q = r /\ t = s
    BY <1>3, <1>5, <2>1
  <2>2. CASE q # r \/ t # s
    <3>1. used'[q][t] = used[q][t]
      BY <1>6, <2>2
    <3>2. QED
      BY <3>1 DEF BasicInv, AnswersAreOwnAndFresh
  <2>3. QED
    BY <2>1, <2>2
<1>8. QED
  BY <1>4, <1>7

LEMMA HitBasic ==
    ASSUME BasicInv, NEW r \in Requests, NEW s \in Sources, CacheHit(r, s)
    PROVE  BasicInv'
<1>1. call[r][s] = "todo" /\ InTurn(r, s) /\ UNCHANGED <<cache, failed>>
  BY DEF CacheHit
<1>2. PICK e \in Cached(s, With(r, s)) : Enrich(r, s, e.body) /\ Uses(r, s, e)
  BY DEF CacheHit
<1>3. e \in cache /\ e \in Entry /\ e.key = Key(s, With(r, s)) /\ clock < e.expiry
  BY DEF Cached, Entries, Live, BasicInv, TypeOK
<1>4. e.body \in Body
  BY <1>3 DEF Entry
<1>5. /\ call' \in [Requests -> [Sources -> Places]]
      /\ batch' \in [Requests -> [Sources -> Enriched]]
      /\ merged' \in [Requests -> Enriched]
      /\ agenda' \in [Requests -> Seq(Items)]
      /\ call' = [call EXCEPT ![r][s] = "idle"]
      /\ \A q \in Requests \ {r} : agenda'[q] = agenda[q]
      /\ UNCHANGED <<source, clock, phase, given, changed, visited, asked>>
  BY <1>1, <1>2, <1>4, EnrichTypes
<1>6. e.url = Url(s, With(r, s)) /\ clock < e.got + Ttl(e.by)
  <2>1. e.url = e.key.url /\ e.expiry = e.got + Ttl(e.by)
    BY <1>3 DEF BasicInv, CacheIsTrue
  <2>2. e.key.url = Url(s, With(r, s))
    BY <1>3 DEF Key
  <2>3. QED
    BY <1>3, <2>1, <2>2
<1>7. AnswersAreOwnAndFresh' /\ used' \in [Requests -> [Sources -> Use \cup {Missing}]]
  BY <1>1, <1>2, <1>3, <1>5, <1>6, UseIsOwn
<1>8. TypeOK'
  BY <1>1, <1>5, <1>7 DEF BasicInv, TypeOK, Places
<1>9. TurnIsKept'
  <2>1. phase' = phase /\ call[r][s] # "idle"
    BY <1>1, <1>5
  <2>2. QED
    BY <1>1, <1>5, <2>1, EndKeepsTurns
<1>10. CacheIsTrue'
  <2>1. source' = source /\ cache' = cache
    BY <1>1, <1>5
  <2>2. QED
    BY <2>1 DEF BasicInv, CacheIsTrue, Ttl
<1>11. QED
  BY <1>7, <1>8, <1>9, <1>10 DEF BasicInv

LEMMA AnsweredBasic ==
    ASSUME BasicInv, NEW r \in Requests, NEW s \in Sources, NEW body \in Bodies,
           Answered(r, s, body)
    PROVE  BasicInv'
<1> DEFINE key == Key(s, With(r, s))
           entry == [key |-> key, body |-> body, expiry |-> clock + Ttl(s),
                     url |-> Url(s, With(r, s)), got |-> clock, by |-> s]
<1>1. call[r][s] = "http" /\ InTurn(r, s) /\ UNCHANGED failed /\ Enrich(r, s, body)
  BY DEF Answered, BasicInv, TurnIsKept
<1>2. /\ cache' = IF Ttl(s) > 0 THEN {e \in cache : e.key # key} \cup {entry} ELSE cache
      /\ Uses(r, s, entry)
  BY DEF Answered
<1>3. body \in Body /\ With(r, s) \in Given
  BY <1>1, SourcesAssumption, WithTypes DEF BasicInv
<1>4. entry \in Entry
  <2>1. /\ Ttl(s) \in Nat /\ Url(s, With(r, s)) \in Urls
        /\ key \in [url : Urls, params : Given]
    BY <1>3, SourceTypes DEF BasicInv
  <2>2. clock \in Nat
    BY SourcesAssumption DEF BasicInv, TypeOK
  <2> HIDE DEF key
  <2>3. QED
    BY <1>3, <2>1, <2>2 DEF Entry
<1>5. /\ call' \in [Requests -> [Sources -> Places]]
      /\ batch' \in [Requests -> [Sources -> Enriched]]
      /\ merged' \in [Requests -> Enriched]
      /\ agenda' \in [Requests -> Seq(Items)]
      /\ call' = [call EXCEPT ![r][s] = "idle"]
      /\ \A q \in Requests \ {r} : agenda'[q] = agenda[q]
      /\ UNCHANGED <<source, clock, phase, given, changed, visited, asked>>
  BY <1>1, <1>3, EnrichTypes
<1>6. /\ entry.url = Url(s, With(r, s)) /\ entry.url = entry.key.url /\ clock = entry.got
      /\ entry.expiry = entry.got + Ttl(entry.by)
  BY DEF Key
<1> HIDE DEF entry, key
<1>7. AnswersAreOwnAndFresh' /\ used' \in [Requests -> [Sources -> Use \cup {Missing}]]
  BY <1>1, <1>2, <1>4, <1>5, <1>6, UseIsOwn
<1>8. cache' \subseteq Entry
  BY <1>2, <1>4 DEF BasicInv, TypeOK
<1>9. TypeOK'
  BY <1>1, <1>5, <1>7, <1>8 DEF BasicInv, TypeOK, Places
<1>10. TurnIsKept'
  <2>1. phase' = phase /\ call[r][s] # "idle"
    BY <1>1, <1>5
  <2>2. QED
    BY <1>1, <1>5, <2>1, EndKeepsTurns
<1>11. CacheIsTrue'
  <2> SUFFICES ASSUME NEW e \in cache'
               PROVE  e.url = e.key.url /\ e.expiry = e.got + Ttl(e.by)
    BY <1>5 DEF CacheIsTrue, Ttl
  <2>1. e \in cache \/ e = entry
    BY <1>2
  <2>2. QED
    BY <1>6, <2>1 DEF BasicInv, CacheIsTrue
<1>12. QED
  BY <1>7, <1>9, <1>10, <1>11 DEF BasicInv
-----------------------------------------------------------------------------
\* A miss and a lookup: one call of r goes to the next place, in its turn.
LEMMA MoveBasic ==
    ASSUME BasicInv, NEW r \in Requests, NEW s \in Sources,
           CacheMiss(r, s) \/ SecretFound(r, s)
    PROVE  BasicInv'
<1>1. /\ InTurn(r, s) /\ call[r][s] # "idle" /\ cache' \subseteq cache
      /\ UNCHANGED <<source, clock, phase, given, changed, visited, agenda, batch,
                     merged, asked, failed, used>>
  BY DEF CacheMiss, SecretFound, BasicInv, TurnIsKept
<1>2. PICK place \in {"secret", "http"} : call' = [call EXCEPT ![r][s] = place]
  BY DEF CacheMiss, SecretFound
<1>3. TypeOK'
  BY <1>1, <1>2 DEF BasicInv, TypeOK
<1>4. TurnIsKept'
  <2> SUFFICES ASSUME NEW q \in Requests, NEW t \in Sources
               PROVE  /\ call'[q][t] \in {"secret", "http"} => InTurn(q, t)'
                      /\ phase'[q] = "idle" => call'[q][t] = "idle"
    BY DEF TurnIsKept
  <2>1. CASE q = r /\ t = s
    <3>1. InTurn(r, s)' /\ phase'[r] # "idle"
      BY <1>1 DEF InTurn, BasicInv, TurnIsKept
    <3>2. QED
      BY <2>1, <3>1
  <2>2. CASE q # r \/ t # s
    <3>1. call'[q][t] = call[q][t]
      BY <1>2, <2>2 DEF BasicInv, TypeOK
    <3>2. QED
      BY <1>1, <3>1 DEF InTurn, BasicInv, TurnIsKept
  <2>3. QED
    BY <2>1, <2>2
<1>5. CacheIsTrue' /\ AnswersAreOwnAndFresh'
  <2>1. source' = source /\ used' = used
    BY <1>1
  <2>2. CacheIsTrue'
    BY <1>1, <2>1 DEF BasicInv, CacheIsTrue, Ttl
  <2>3. AnswersAreOwnAndFresh'
    BY <2>1 DEF BasicInv, AnswersAreOwnAndFresh, Url, Ttl
  <2>4. QED
    BY <2>2, <2>3
<1>6. QED
  BY <1>3, <1>4, <1>5 DEF BasicInv

LEMMA WarnBasic ==
    ASSUME BasicInv, NEW r \in Requests, NEW s \in Sources, Warn(r, s)
    PROVE  BasicInv'
<1>1. /\ InTurn(r, s) /\ call[r][s] # "idle" /\ UNCHANGED <<cache, used>>
      /\ Enrich(r, s, NoBody)
      /\ failed' = [failed EXCEPT ![r] = @ \cup {s}]
  BY DEF Warn, BasicInv, TurnIsKept
<1>2. NoBody \in Body
  BY DEF Body
<1>3. /\ call' \in [Requests -> [Sources -> Places]]
      /\ batch' \in [Requests -> [Sources -> Enriched]]
      /\ merged' \in [Requests -> Enriched]
      /\ agenda' \in [Requests -> Seq(Items)]
      /\ call' = [call EXCEPT ![r][s] = "idle"]
      /\ \A q \in Requests \ {r} : agenda'[q] = agenda[q]
      /\ UNCHANGED <<source, clock, phase, given, changed, visited, asked>>
  BY <1>1, <1>2, EnrichTypes
<1>4. TypeOK'
  BY <1>1, <1>3 DEF BasicInv, TypeOK, Places
<1>5. TurnIsKept'
  <2>1. phase' = phase
    BY <1>3
  <2>2. QED
    BY <1>1, <1>3, <2>1, EndKeepsTurns
<1>6. QED
  BY <1>1, <1>3, <1>4, <1>5, CacheAside DEF BasicInv

LEMMA RaiseBasic ==
    ASSUME BasicInv, NEW r \in Requests, NEW s \in Sources, Raise(r, s)
    PROVE  BasicInv'
<1>1. /\ call' = [call EXCEPT ![r] = [t \in Sources |->
                     IF t = s \/ phase[r] = "change" THEN "idle" ELSE @[t]]]
      /\ failed' = [failed EXCEPT ![r] = @ \cup {s}]
      /\ phase' = [phase EXCEPT ![r] = CASE @ = "load" -> "answered"
                                         [] @ = "change" -> "refused"
                                         [] OTHER -> @]
      /\ agenda' = [agenda EXCEPT ![r] = <<>>]
      /\ UNCHANGED <<source, clock, cache, given, changed, visited, batch, merged,
                     asked, used>>
      /\ call[r][s] # "idle"
  BY DEF Raise
<1>2. /\ phase' \in [Requests -> Phases]
      /\ phase'[r] = CASE phase[r] = "load" -> "answered"
                       [] phase[r] = "change" -> "refused"
                       [] OTHER -> phase[r]
      /\ \A q \in Requests \ {r} : phase'[q] = phase[q]
  BY <1>1 DEF BasicInv, TypeOK, Phases
<1>3. /\ call' \in [Requests -> [Sources -> Places]]
      /\ \A t \in Sources :
            call'[r][t] = IF t = s \/ phase[r] = "change" THEN "idle" ELSE call[r][t]
      /\ \A q \in Requests \ {r} : call'[q] = call[q]
  <2>1. call \in [Requests -> [Sources -> Places]]
    BY DEF BasicInv, TypeOK, Places
  <2>2. QED
    BY <1>1, <2>1 DEF Places
<1>4. agenda' \in [Requests -> Seq(Items)] /\ \A q \in Requests \ {r} : agenda'[q] = agenda[q]
  BY <1>1 DEF BasicInv, TypeOK
<1>5. TypeOK'
  BY <1>1, <1>2, <1>3, <1>4 DEF BasicInv, TypeOK, Places, Phases
<1>6. TurnIsKept'
  <2> SUFFICES ASSUME NEW q \in Requests, NEW t \in Sources
               PROVE  /\ call'[q][t] \in {"secret", "http"} => InTurn(q, t)'
                      /\ phase'[q] = "idle" => call'[q][t] = "idle"
    BY DEF TurnIsKept
  <2>1. CASE q # r
    <3>1. call'[q] = call[q] /\ phase'[q] = phase[q] /\ agenda'[q] = agenda[q]
      BY <1>2, <1>3, <1>4, <2>1
    <3>2. QED
      BY <2>1, <3>1, OtherTurns
  <2>2. CASE q = r
    <3>1. phase'[r] # "change" /\ phase[r] # "idle"
      BY <1>1, <1>2 DEF BasicInv, TurnIsKept
    <3>2. phase'[r] # "idle"
      BY <1>2, <3>1
    <3>3. QED
      BY <2>2, <3>1, <3>2 DEF InTurn
  <2>3. QED
    BY <2>1, <2>2
<1>7. QED
  BY <1>1, <1>5, <1>6, CacheAside DEF BasicInv

LEMMA NextBasic == BasicInv /\ [Next]_vars => BasicInv'
<1> SUFFICES ASSUME BasicInv, [Next]_vars PROVE BasicInv'
  OBVIOUS
<1>1. ASSUME NEW r \in Requests, Load(r) \/ \E p \in Params, v \in Values : Change(r, p, v)
      PROVE  BasicInv'
  BY <1>1, BeginBasic
<1>2. ASSUME NEW r \in Requests, Step(r) PROVE BasicInv'
  <2>1. CASE Visit(r) \/ Pass(r)
    BY <2>1, VisitBasic
  <2>2. CASE AnswerLoad(r) \/ AnswerChange(r)
    BY <2>2, AnswerBasic
  <2>3. ASSUME NEW s \in Sources, Fetch(r, s) PROVE BasicInv'
    BY <2>3, HitBasic, MoveBasic, AnsweredBasic, WarnBasic, RaiseBasic DEF Fetch
  <2>4. QED
    BY <1>2, <2>1, <2>2, <2>3 DEF Step
<1>3. CASE Tick
  <2>1. clock' \in 0..MaxTime
    BY <1>3, SourcesAssumption DEF Tick, BasicInv, TypeOK
  <2>2. UNCHANGED <<source, cache, phase, given, changed, visited, agenda, call,
                    batch, merged, asked, failed, used>>
    BY <1>3 DEF Tick
  <2>3. TypeOK' /\ TurnIsKept'
    BY <2>1, <2>2 DEF BasicInv, TypeOK, TurnIsKept, InTurn
  <2>4. QED
    BY <2>2, <2>3, CacheAside DEF BasicInv
<1>4. CASE UNCHANGED vars
  <2>1. TypeOK' /\ TurnIsKept'
    BY <1>4 DEF vars, BasicInv, TypeOK, TurnIsKept, InTurn
  <2>2. UNCHANGED <<source, cache, used>>
    BY <1>4 DEF vars
  <2>3. QED
    BY <2>1, <2>2, CacheAside DEF BasicInv
<1>5. QED
  BY <1>1, <1>2, <1>3, <1>4 DEF Next

LEMMA Basics == Spec => []BasicInv
<1>1. Init => BasicInv
  BY InitBasic
<1>2. BasicInv /\ [Next]_vars => BasicInv'
  BY NextBasic
<1>3. QED
  BY <1>1, <1>2, PTL DEF Spec

\* Every variable keeps its shape.
THEOREM TypeCorrect == Spec => []TypeOK
<1>1. BasicInv => TypeOK
  BY DEF BasicInv
<1>2. QED
  BY <1>1, Basics, PTL

\* Whatever requests share the cache, a source gets an answer to the URL it asks
\* for, at most as old as the ttl it was stored with (_fetch).
THEOREM OwnAndFresh == Spec => []AnswersAreOwnAndFresh
<1>1. BasicInv => AnswersAreOwnAndFresh
  BY DEF BasicInv
<1>2. QED
  BY <1>1, Basics, PTL
-----------------------------------------------------------------------------
(* Forms are filled in the order of the list                               *)

\* Two requests meet in the cache only.
LEMMA OneRequest ==
    ASSUME BasicInv, NEW r \in Requests, NEW q \in Requests, q # r,
           \/ Load(r) \/ Step(r)
           \/ \E p \in Params, v \in Values : Change(r, p, v)
    PROVE  /\ source' = source
           /\ phase'[q] = phase[q] /\ changed'[q] = changed[q] /\ call'[q] = call[q]
           /\ given'[q] = given[q] /\ visited'[q] = visited[q] /\ agenda'[q] = agenda[q]
           /\ batch'[q] = batch[q] /\ merged'[q] = merged[q]
           /\ asked'[q] = asked[q] /\ failed'[q] = failed[q] /\ used'[q] = used[q]
<1>1. CASE Load(r)
  BY <1>1 DEF Load, BasicInv, TypeOK
<1>2. CASE \E p \in Params, v \in Values : Change(r, p, v)
  BY <1>2 DEF Change, BasicInv, TypeOK
<1>3. CASE Visit(r)
  BY <1>3 DEF Visit, BasicInv, TypeOK
<1>4. CASE Pass(r) \/ AnswerChange(r)
  BY <1>4 DEF Pass, AnswerChange, BasicInv, TypeOK
<1>5. CASE AnswerLoad(r)
  BY <1>5 DEF AnswerLoad, BasicInv, TypeOK
<1>6. ASSUME NEW s \in Sources, NEW body, Enrich(r, s, body),
             UNCHANGED used \/ (\E e : Uses(r, s, e)),
             UNCHANGED failed \/ failed' = [failed EXCEPT ![r] = @ \cup {s}]
      PROVE  /\ source' = source
             /\ phase'[q] = phase[q] /\ changed'[q] = changed[q] /\ call'[q] = call[q]
             /\ given'[q] = given[q] /\ visited'[q] = visited[q] /\ agenda'[q] = agenda[q]
             /\ batch'[q] = batch[q] /\ merged'[q] = merged[q]
             /\ asked'[q] = asked[q] /\ failed'[q] = failed[q] /\ used'[q] = used[q]
  <2>1. /\ call'[q] = call[q] /\ batch'[q] = batch[q]
        /\ UNCHANGED <<source, phase, given, changed, visited, asked>>
    BY <1>6 DEF Enrich, BasicInv, TypeOK
  <2>2. agenda'[q] = agenda[q] /\ merged'[q] = merged[q]
    BY <1>6 DEF Enrich, BasicInv, TypeOK
  <2>3. used'[q] = used[q] /\ failed'[q] = failed[q]
    BY <1>6 DEF Uses, BasicInv, TypeOK
  <2>4. QED
    BY <2>1, <2>2, <2>3
<1>8. CASE \E s \in Sources : CacheHit(r, s)
  BY <1>6, <1>8 DEF CacheHit
<1>9. CASE \E s \in Sources, body \in Bodies : Answered(r, s, body)
  BY <1>6, <1>9 DEF Answered
<1>10. CASE \E s \in Sources : Warn(r, s)
  BY <1>6, <1>10 DEF Warn
<1>11. CASE \E s \in Sources : CacheMiss(r, s) \/ SecretFound(r, s)
  BY <1>11 DEF CacheMiss, SecretFound, BasicInv, TypeOK
<1>12. CASE \E s \in Sources : Raise(r, s)
  BY <1>12 DEF Raise, BasicInv, TypeOK
<1>13. QED
  BY <1>1, <1>2, <1>3, <1>4, <1>5, <1>8, <1>9, <1>10, <1>11, <1>12 DEF Step, Fetch
-----------------------------------------------------------------------------
\* What the fetch of s has given r.
Gave(r, s) ==
    IF used[r][s] = Missing THEN Nothing ELSE Enrichments(s, used[r][s].entry.body)

ListOrder(r) ==
    \A p \in Params :
        LET have == {s \in OnLoadSources : batch[r][s][p] # Missing}
        IN  merged[r][p] = IF have = {} THEN Missing ELSE batch[r][LastOf(have)][p]

\* A form is under way or answered; a source that is not done has given
\* nothing; an answer has everything in order, or nothing after an exception.
LoadKept(r) ==
    /\ changed[r] \in Params => phase[r] \in {"change", "answered", "refused"}
    /\ changed[r] \notin Params =>
         /\ phase[r] \in {"idle", "load", "answered"}
         /\ \A s \in Sources : batch[r][s] = Gave(r, s)
         /\ \A s \in Sources : call[r][s] # "idle" \/ phase[r] = "idle" => used[r][s] = Missing
         /\ phase[r] \in {"idle", "load"} => merged[r] = Nothing
         /\ phase[r] = "answered" =>
              \/ failed[r] # {} /\ merged[r] = Nothing
              \/ ListOrder(r) /\ \A s \in Sources : call[r][s] = "idle"

LEMMA LoadOfOthers ==
    ASSUME BasicInv, NEW r \in Requests, LoadKept(r),
           /\ source' = source
           /\ phase'[r] = phase[r] /\ changed'[r] = changed[r] /\ call'[r] = call[r]
           /\ batch'[r] = batch[r] /\ merged'[r] = merged[r]
           /\ failed'[r] = failed[r] /\ used'[r] = used[r]
    PROVE  LoadKept(r)'
<1>1. \A s \in Sources : Gave(r, s)' = Gave(r, s)
  BY DEF Gave, Enrichments, Nothing
<1>2. ListOrder(r)' = ListOrder(r)
  BY DEF ListOrder, OnLoadSources, LastOf
<1>3. Nothing' = Nothing
  BY DEF Nothing
<1>4. QED
  BY <1>1, <1>2, <1>3 DEF LoadKept

\* The fetch of s is done, with an entry or without.
LEMMA EnrichLoad ==
    ASSUME BasicInv, NEW r \in Requests, LoadKept(r), NEW s \in Sources,
           NEW body \in Body, call[r][s] # "idle", InTurn(r, s), Enrich(r, s, body),
           \/ /\ used'[r] = used[r] /\ body = NoBody
           \/ \E e \in Entry : e.body = body /\ Uses(r, s, e),
           \/ failed' = failed
           \/ failed'[r] = failed[r] \cup {s}
    PROVE  LoadKept(r)'
<1>1. /\ source' = source /\ phase'[r] = phase[r] /\ changed'[r] = changed[r]
      /\ batch' = [batch EXCEPT ![r][s] = Enrichments(s, body)]
      /\ call' = [call EXCEPT ![r][s] = "idle"]
  BY DEF Enrich
<1>2. CASE changed[r] \in Params
  BY <1>1, <1>2 DEF LoadKept
<1>3. CASE changed[r] \notin Params
  <2>1. phase[r] \in {"load", "answered"} /\ used[r][s] = Missing
    BY <1>3 DEF LoadKept, BasicInv, TurnIsKept
  <2>2. merged'[r] = merged[r]
    BY <2>1 DEF Enrich
  <2>3. \A t \in Sources : t # s =>
           batch'[r][t] = batch[r][t] /\ call'[r][t] = call[r][t] /\ used'[r][t] = used[r][t]
    BY <1>1 DEF Uses, BasicInv, TypeOK
  <2>4. batch'[r][s] = Enrichments(s, body) /\ call'[r][s] = "idle"
    BY <1>1 DEF BasicInv, TypeOK
  <2>5. batch'[r][s] = Gave(r, s)'
    <3>1. CASE used'[r] = used[r] /\ body = NoBody
      <4>1. Enrichments(s, body) = Nothing
        BY <3>1 DEF Enrichments, Nothing
      <4>2. QED
        BY <2>1, <2>4, <3>1, <4>1 DEF Gave, Nothing
    <3>2. ASSUME NEW e \in Entry, e.body = body, Uses(r, s, e)
          PROVE  batch'[r][s] = Gave(r, s)'
      <4> DEFINE u == [entry |-> e, params |-> With(r, s), at |-> clock]
      <4>1. u \in Use
        BY WithTypes, SourcesAssumption DEF BasicInv, TypeOK, Use
      <4>2. used'[r][s] = u /\ u.entry = e
        BY <3>2 DEF Uses, BasicInv, TypeOK
      <4> HIDE DEF u
      <4>3. used'[r][s] # Missing
        BY <4>1, <4>2, SourcesAssumption
      <4>4. Gave(r, s)' = Enrichments(s, used'[r][s].entry.body)
        BY <1>1, <4>3 DEF Gave, Enrichments
      <4>5. QED
        BY <2>4, <3>2, <4>2, <4>4
    <3>3. QED
      BY <3>1, <3>2
  <2>6. \A t \in Sources : t # s => batch'[r][t] = Gave(r, t)'
    BY <1>1, <1>3, <2>3 DEF LoadKept, Gave, Enrichments, Nothing
  <2>7. \A t \in Sources : call'[r][t] # "idle" => used'[r][t] = Missing
    BY <1>3, <2>3, <2>4 DEF LoadKept
  <2>8. phase[r] = "answered" => failed'[r] # {} /\ merged'[r] = Nothing'
    <3>1. phase[r] = "answered" => failed[r] # {} /\ merged[r] = Nothing
      BY <1>3 DEF LoadKept
    <3>2. failed[r] \subseteq failed'[r]
      OBVIOUS
    <3>3. QED
      BY <2>2, <3>1, <3>2 DEF Nothing
  <2>9. phase[r] = "load" => merged'[r] = Nothing'
    BY <1>3, <2>2 DEF LoadKept, Nothing
  <2>10. QED
    BY <1>1, <1>3, <2>1, <2>5, <2>6, <2>7, <2>8, <2>9 DEF LoadKept
<1>4. QED
  BY <1>2, <1>3
-----------------------------------------------------------------------------
LEMMA StepLoad ==
    ASSUME BasicInv, NEW r \in Requests, LoadKept(r),
           \/ Load(r) \/ Step(r)
           \/ \E p \in Params, v \in Values : Change(r, p, v)
    PROVE  LoadKept(r)'
<1>1. CASE Load(r)
  <2>1. /\ phase[r] = "idle" /\ phase'[r] = "load"
        /\ UNCHANGED <<source, changed, batch, merged, failed, used>>
    BY <1>1 DEF Load, BasicInv, TypeOK
  <2>2. changed[r] \notin Params
    BY <2>1 DEF LoadKept
  <2>3. \A s \in Sources : Gave(r, s)' = Gave(r, s)
    BY <2>1 DEF Gave, Enrichments, Nothing
  <2>4. QED
    BY <2>1, <2>2, <2>3 DEF LoadKept, Nothing
<1>2. CASE \E p \in Params, v \in Values : Change(r, p, v)
  <2>1. changed'[r] \in Params /\ phase'[r] = "change"
    BY <1>2 DEF Change, BasicInv, TypeOK
  <2>2. QED
    BY <2>1 DEF LoadKept
<1>3. CASE Visit(r) \/ Pass(r) \/ AnswerChange(r)
  <2>1. phase[r] = "change" /\ changed' = changed /\ phase'[r] \in {"change", "answered"}
    BY <1>3 DEF Visit, Pass, AnswerChange, BasicInv, TypeOK
  <2>2. changed'[r] \in Params
    BY <2>1 DEF LoadKept
  <2>3. QED
    BY <2>1, <2>2 DEF LoadKept
<1>4. CASE AnswerLoad(r)
  <2>1. /\ phase[r] = "load" /\ phase'[r] = "answered"
        /\ \A s \in Sources : call[r][s] = "idle"
        /\ UNCHANGED <<source, changed, batch, call, failed, used>>
    BY <1>4 DEF AnswerLoad, BasicInv, TypeOK
  <2>2. changed[r] \notin Params
    BY <2>1 DEF LoadKept
  <2>3. ListOrder(r)'
    <3>1. merged'[r] = [p \in Params |->
             LET have == {s \in OnLoadSources : batch[r][s][p] # Missing}
             IN  IF have = {} THEN Missing ELSE batch[r][LastOf(have)][p]]
      BY <1>4 DEF AnswerLoad, BasicInv, TypeOK
    <3>2. \A p \in Params :
             LET have == {s \in OnLoadSources : batch[r][s][p] # Missing}
             IN  merged'[r][p] = IF have = {} THEN Missing ELSE batch[r][LastOf(have)][p]
      BY <3>1
    <3>3. OnLoadSources' = OnLoadSources /\ batch'[r] = batch[r]
      BY <2>1 DEF OnLoadSources
    <3>4. QED
      BY <3>2, <3>3 DEF ListOrder
  <2>4. \A s \in Sources : Gave(r, s)' = Gave(r, s)
    BY <2>1 DEF Gave, Enrichments, Nothing
  <2>5. QED
    BY <2>1, <2>2, <2>3, <2>4 DEF LoadKept
<1>5. ASSUME NEW s \in Sources, CacheHit(r, s) PROVE LoadKept(r)'
  <2>1. call[r][s] # "idle" /\ InTurn(r, s) /\ failed' = failed
    BY <1>5 DEF CacheHit
  <2>2. PICK e \in cache : Enrich(r, s, e.body) /\ Uses(r, s, e)
    BY <1>5 DEF CacheHit, Cached, Entries
  <2>3. e \in Entry /\ e.body \in Body
    BY DEF BasicInv, TypeOK, Entry
  <2>4. QED
    BY <2>1, <2>2, <2>3, EnrichLoad
<1>6. ASSUME NEW s \in Sources, NEW body \in Bodies, Answered(r, s, body)
      PROVE  LoadKept(r)'
  <2> DEFINE entry == [key |-> Key(s, With(r, s)), body |-> body, expiry |-> clock + Ttl(s),
                       url |-> Url(s, With(r, s)), got |-> clock, by |-> s]
  <2>1. /\ call[r][s] # "idle" /\ InTurn(r, s) /\ failed' = failed
        /\ Enrich(r, s, body) /\ Uses(r, s, entry)
    BY <1>6 DEF Answered, BasicInv, TurnIsKept
  <2>2. body \in Body /\ With(r, s) \in Given /\ clock \in Nat
    BY <2>1, SourcesAssumption, WithTypes DEF BasicInv, TypeOK
  <2>3. entry \in Entry
    <3>1. /\ Ttl(s) \in Nat /\ Url(s, With(r, s)) \in Urls
          /\ Key(s, With(r, s)) \in [url : Urls, params : Given]
      BY <2>2, SourceTypes DEF BasicInv
    <3>2. QED
      BY <2>2, <3>1 DEF Entry
  <2>4. entry.body = body
    OBVIOUS
  <2> HIDE DEF entry
  <2>5. QED
    BY <2>1, <2>2, <2>3, <2>4, EnrichLoad
<1>7. ASSUME NEW s \in Sources, Warn(r, s) PROVE LoadKept(r)'
  <2>1. /\ call[r][s] # "idle" /\ InTurn(r, s) /\ used' = used
        /\ Enrich(r, s, NoBody) /\ failed'[r] = failed[r] \cup {s}
    BY <1>7 DEF Warn, BasicInv, TurnIsKept, TypeOK
  <2>2. NoBody \in Body
    BY DEF Body
  <2>3. QED
    BY <2>1, <2>2, EnrichLoad
<1>8. ASSUME NEW s \in Sources, CacheMiss(r, s) \/ SecretFound(r, s) PROVE LoadKept(r)'
  <2>1. /\ call[r][s] # "idle" /\ \A t \in Sources : t # s => call'[r][t] = call[r][t]
        /\ UNCHANGED <<source, phase, changed, batch, merged, failed, used>>
    BY <1>8 DEF CacheMiss, SecretFound, BasicInv, TypeOK
  <2>2. \A t \in Sources : Gave(r, t)' = Gave(r, t)
    BY <2>1 DEF Gave, Enrichments, Nothing
  <2>3. \A t \in Sources : call'[r][t] # "idle" => call[r][t] # "idle"
    BY <2>1
  <2>4. (ListOrder(r) /\ \A t \in Sources : call[r][t] = "idle") => FALSE
    BY <2>1
  <2>5. QED
    BY <2>1, <2>2, <2>3, <2>4 DEF LoadKept, Nothing
<1>9. ASSUME NEW s \in Sources, Raise(r, s) PROVE LoadKept(r)'
  <2>1. /\ call[r][s] # "idle"
        /\ \A t \in Sources : call'[r][t] # "idle" => call[r][t] # "idle"
        /\ failed'[r] # {}
        /\ phase'[r] = CASE phase[r] = "load" -> "answered"
                         [] phase[r] = "change" -> "refused"
                         [] OTHER -> phase[r]
        /\ UNCHANGED <<source, changed, batch, merged, used>>
    BY <1>9 DEF Raise, BasicInv, TypeOK
  <2>2. \A t \in Sources : Gave(r, t)' = Gave(r, t)
    BY <2>1 DEF Gave, Enrichments, Nothing
  <2>3. CASE changed[r] \in Params
    BY <2>1, <2>3 DEF LoadKept
  <2>4. CASE changed[r] \notin Params
    <3>1. phase[r] \in {"load", "answered"}
      BY <2>1, <2>4 DEF LoadKept, BasicInv, TurnIsKept
    <3>2. phase'[r] = "answered" /\ merged[r] = Nothing
      BY <2>1, <2>4, <3>1 DEF LoadKept
    <3>3. QED
      BY <2>1, <2>2, <2>4, <3>1, <3>2 DEF LoadKept, Nothing
  <2>5. QED
    BY <2>3, <2>4
<1>10. QED
  BY <1>1, <1>2, <1>3, <1>4, <1>5, <1>6, <1>7, <1>8, <1>9 DEF Step, Fetch

LEMMA LoadsKept == Spec => [](\A r \in Requests : LoadKept(r))
<1> DEFINE Kept == \A r \in Requests : LoadKept(r)
<1>1. Init => Kept
  BY SourcesAssumption DEF Init, LoadKept, Gave, Nothing
<1>2. BasicInv /\ Kept /\ [Next]_vars => Kept'
  <2> SUFFICES ASSUME BasicInv, Kept, [Next]_vars, NEW r \in Requests
               PROVE  LoadKept(r)'
    OBVIOUS
  <2>1. ASSUME NEW q \in Requests,
               \/ Load(q) \/ Step(q)
               \/ \E p \in Params, v \in Values : Change(q, p, v)
        PROVE  LoadKept(r)'
    <3>1. CASE q = r
      BY <2>1, <3>1, StepLoad
    <3>2. CASE q # r
      <4>1. /\ source' = source
            /\ phase'[r] = phase[r] /\ changed'[r] = changed[r] /\ call'[r] = call[r]
            /\ batch'[r] = batch[r] /\ merged'[r] = merged[r]
            /\ failed'[r] = failed[r] /\ used'[r] = used[r]
        BY <2>1, <3>2, OneRequest
      <4>2. QED
        BY <4>1, LoadOfOthers
    <3>3. QED
      BY <3>1, <3>2
  <2>2. CASE Tick \/ UNCHANGED vars
    <3>1. UNCHANGED <<source, phase, changed, call, batch, merged, failed, used>>
      BY <2>2 DEF Tick, vars
    <3>2. QED
      BY <3>1, LoadOfOthers
  <2>3. QED
    BY <2>1, <2>2 DEF Next
<1> HIDE DEF Kept
<1>3. Spec => []Kept
  BY <1>1, <1>2, Basics, PTL DEF Spec
<1>4. QED
  BY <1>3 DEF Kept

\* In whatever order the fetches of a form come back, each parameter has the
\* answer of the last source of the list that has one for it.
THEOREM FormsInOrder == Spec => []LoadIsInOrder
<1>1. BasicInv /\ (\A r \in Requests : LoadKept(r)) => LoadIsInOrder
  <2> SUFFICES ASSUME BasicInv, NEW r \in Requests, LoadKept(r), phase[r] = "answered",
                      changed[r] \notin Params, ListOrder(r),
                      NEW p \in Params, NEW s \in OnLoadSources,
                      Gave(r, s)[p] # Missing, merged[r][p] # Gave(r, s)[p]
               PROVE  \E t \in OnLoadSources : s < t /\ Gave(r, t)[p] = merged[r][p]
    <3>1. \A q \in Requests, t \in Sources, o \in Params :
             Gave(q, t)[o] = IF used[q][t] = Missing THEN Missing
                             ELSE Enrichments(t, used[q][t].entry.body)[o]
      BY DEF Gave, Nothing
    <3>2. QED
      BY <3>1 DEF LoadIsInOrder, Replied, LoadKept, OnLoadSources
  <2> DEFINE have == {t \in OnLoadSources : batch[r][t][p] # Missing}
  <2>1. \A t \in OnLoadSources : batch[r][t] = Gave(r, t)
    BY DEF LoadKept, OnLoadSources
  <2>2. s \in have /\ merged[r][p] = batch[r][LastOf(have)][p]
    BY <2>1 DEF ListOrder
  <2>3. have \subseteq 1..N /\ N \in Nat
    BY SourcesAssumption DEF OnLoadSources, Sources
  <2>4. LastOf(have) \in have /\ s <= LastOf(have)
    <3> HIDE DEF have
    <3>1. QED
      BY <2>2, <2>3, LastExists
  <2>5. LastOf(have) \in OnLoadSources /\ merged[r][p] = Gave(r, LastOf(have))[p]
    BY <2>1, <2>2, <2>4
  <2>6. s < LastOf(have)
    <3>1. s \in 1..N /\ LastOf(have) \in 1..N /\ s <= LastOf(have)
      <4> HIDE DEF have
      <4>1. QED
        BY <2>2, <2>3, <2>4
    <3>2. s # LastOf(have)
      BY <2>5
    <3>3. \A i, j \in 1..N : i <= j /\ i # j => i < j
      BY <2>3
    <3>4. QED
      BY <3>1, <3>2, <3>3
  <2>7. QED
    BY <2>5, <2>6
<1>2. QED
  BY <1>1, Basics, LoadsKept, PTL
-----------------------------------------------------------------------------
(* What a change can reach                                                 *)

\* A set that what sources of its parameters fill in does not leave.
Closed(S) ==
    \A s \in Sources : source[s].trigger \in S =>
        \A i \in DOMAIN source[s].mapping :
            source[s].mapping[i].fill => source[s].mapping[i].to \in S

LEMMA ReachedMeans ==
    ASSUME NEW p \in Params
    PROVE  Reached(p) = {q \in Params : \A S \in SUBSET Params : p \in S /\ Closed(S) => q \in S}
BY DEF Reached, Closed

LEMMA ReachedStarts ==
    ASSUME NEW p \in Params
    PROVE  p \in Reached(p) /\ Reached(p) \subseteq Params
BY ReachedMeans

LEMMA ReachedLeast ==
    ASSUME NEW p \in Params, NEW S \in SUBSET Params, p \in S, Closed(S)
    PROVE  Reached(p) \subseteq S
BY ReachedMeans

LEMMA ReachedGoesOn ==
    ASSUME TypeOK, NEW p \in Params, NEW s \in Sources, source[s].trigger \in Reached(p),
           NEW i \in DOMAIN source[s].mapping, source[s].mapping[i].fill
    PROVE  source[s].mapping[i].to \in Reached(p)
<1> DEFINE q == source[s].mapping[i].to
<1>1. q \in Params
  <2>1. source[s].mapping \in Seq(Mapping)
    BY SourceTypes
  <2>2. source[s].mapping[i] \in Mapping
    BY <2>1
  <2>3. QED
    BY <2>2 DEF Mapping
<1>2. ASSUME NEW S \in SUBSET Params, p \in S, Closed(S) PROVE q \in S
  BY <1>2, ReachedLeast DEF Closed
<1> HIDE DEF q
<1>3. q \in Reached(p)
  BY <1>1, <1>2, ReachedMeans
<1>4. QED
  BY <1>3 DEF q
-----------------------------------------------------------------------------
(* Agendas                                                                 *)

LEMMA RangeHeadTail ==
    ASSUME NEW S, NEW list \in Seq(S), list # <<>>
    PROVE  Range(list) = {Head(list)} \cup Range(Tail(list))
<1>1. /\ Tail(list) \in Seq(S) /\ Len(Tail(list)) = Len(list) - 1
      /\ \A i \in 1..Len(Tail(list)) : Tail(list)[i] = list[i + 1]
  BY HeadTailProperties
<1>2. Head(list) = list[1] /\ Len(list) \in Nat \ {0}
  OBVIOUS
<1>3. /\ Range(list) = {list[i] : i \in 1..Len(list)}
      /\ Range(Tail(list)) = {Tail(list)[i] : i \in 1..Len(Tail(list))}
  BY <1>1, RangeEquality
<1>4. ASSUME NEW i \in 1..Len(list) PROVE list[i] \in {Head(list)} \cup Range(Tail(list))
  <2>1. CASE i = 1
    BY <1>2, <2>1
  <2>2. CASE i # 1
    <3>1. i - 1 \in 1..Len(Tail(list)) /\ Tail(list)[i - 1] = list[i]
      BY <1>1, <1>2, <2>2
    <3>2. QED
      BY <1>3, <3>1
  <2>3. QED
    BY <2>1, <2>2
<1>5. ASSUME NEW i \in 1..Len(Tail(list)) PROVE Tail(list)[i] \in Range(list)
  <2>1. i + 1 \in 1..Len(list)
    BY <1>1, <1>2
  <2>2. QED
    BY <1>1, <1>3, <2>1
<1>6. Head(list) \in Range(list)
  BY <1>2, <1>3
<1>7. QED
  BY <1>3, <1>4, <1>5, <1>6

LEMMA RangeJoin == \A s, t \in Seq(Items) : Range(s \o t) = Range(s) \cup Range(t)
BY RangeConcatenation, Zenon

\* No source is twice on an agenda.
Once(list) ==
    \A i, j \in DOMAIN list :
        /\ list[i].kind = "source" /\ list[j].kind = "source"
        /\ list[i].of = list[j].of
        => i = j

LEMMA OnceTail ==
    ASSUME NEW list \in Seq(Items), list # <<>>, Once(list)
    PROVE  /\ Once(Tail(list))
           /\ \A item \in Range(Tail(list)) :
                 item.kind = "source" /\ Head(list).kind = "source" => item.of # Head(list).of
<1>1. /\ Tail(list) \in Seq(Items) /\ Len(Tail(list)) = Len(list) - 1
      /\ \A i \in 1..Len(Tail(list)) : Tail(list)[i] = list[i + 1]
  BY HeadTailProperties
<1>2. /\ Head(list) = list[1] /\ Len(list) \in Nat \ {0} /\ DOMAIN list = 1..Len(list)
      /\ DOMAIN Tail(list) = 1..Len(Tail(list))
  BY <1>1
<1>3. \A i \in DOMAIN Tail(list) : i + 1 \in DOMAIN list /\ i + 1 # 1 /\ Tail(list)[i] = list[i + 1]
  BY <1>1, <1>2
<1>4. \A i, j \in DOMAIN Tail(list) : i + 1 = j + 1 => i = j
  BY <1>1, <1>2
<1>5. Once(Tail(list))
  BY <1>3, <1>4 DEF Once
<1>6. ASSUME NEW item \in Range(Tail(list)), item.kind = "source", Head(list).kind = "source"
      PROVE  item.of # Head(list).of
  <2>1. PICK i \in DOMAIN Tail(list) : item = Tail(list)[i]
    BY DEF Range
  <2>2. 1 \in DOMAIN list
    BY <1>2
  <2>3. QED
    BY <1>2, <1>3, <1>6, <2>1, <2>2 DEF Once
<1>7. QED
  BY <1>5, <1>6

LEMMA OnceJoin ==
    ASSUME NEW s \in Seq(Items), NEW t \in Seq(Items), Once(s), Once(t),
           \A x \in Range(s), y \in Range(t) :
              ~(x.kind = "source" /\ y.kind = "source" /\ x.of = y.of)
    PROVE  Once(s \o t)
<1>1. /\ s \o t \in Seq(Items) /\ Len(s \o t) = Len(s) + Len(t)
      /\ \A i \in 1 .. Len(s) + Len(t) :
            (s \o t)[i] = IF i <= Len(s) THEN s[i] ELSE t[i - Len(s)]
  BY ConcatProperties
<1>2. /\ Len(s) \in Nat /\ Len(t) \in Nat /\ DOMAIN s = 1..Len(s) /\ DOMAIN t = 1..Len(t)
      /\ DOMAIN (s \o t) = 1..(Len(s) + Len(t))
  BY <1>1
<1> SUFFICES ASSUME NEW i \in DOMAIN (s \o t), NEW j \in DOMAIN (s \o t),
                    (s \o t)[i].kind = "source", (s \o t)[j].kind = "source",
                    (s \o t)[i].of = (s \o t)[j].of
             PROVE  i = j
  BY DEF Once
<1>3. \A k \in DOMAIN (s \o t) :
         \/ k \in DOMAIN s /\ (s \o t)[k] = s[k] /\ s[k] \in Range(s)
         \/ k - Len(s) \in DOMAIN t /\ (s \o t)[k] = t[k - Len(s)] /\ t[k - Len(s)] \in Range(t)
  <2> TAKE k \in DOMAIN (s \o t)
  <2>1. CASE k <= Len(s)
    <3>1. k \in DOMAIN s /\ (s \o t)[k] = s[k]
      BY <1>1, <1>2, <2>1
    <3>2. QED
      BY <3>1 DEF Range
  <2>2. CASE ~(k <= Len(s))
    <3>1. k - Len(s) \in DOMAIN t /\ (s \o t)[k] = t[k - Len(s)]
      BY <1>1, <1>2, <2>2
    <3>2. QED
      BY <3>1 DEF Range
  <2>3. QED
    BY <2>1, <2>2
<1>4. CASE i \in DOMAIN s /\ (s \o t)[i] = s[i] /\ s[i] \in Range(s)
  <2>1. CASE j \in DOMAIN s /\ (s \o t)[j] = s[j]
    BY <1>4, <2>1 DEF Once
  <2>2. CASE (s \o t)[j] = t[j - Len(s)] /\ t[j - Len(s)] \in Range(t)
    BY <1>4, <2>2
  <2>3. QED
    BY <1>3, <2>1, <2>2
<1>5. CASE i - Len(s) \in DOMAIN t /\ (s \o t)[i] = t[i - Len(s)] /\ t[i - Len(s)] \in Range(t)
  <2>1. CASE (s \o t)[j] = s[j] /\ s[j] \in Range(s)
    BY <1>5, <2>1
  <2>2. CASE j - Len(s) \in DOMAIN t /\ (s \o t)[j] = t[j - Len(s)]
    <3>1. i - Len(s) = j - Len(s)
      BY <1>5, <2>2 DEF Once
    <3>2. QED
      BY <1>2, <3>1
  <2>3. QED
    BY <1>3, <2>1, <2>2
<1>6. QED
  BY <1>3, <1>4, <1>5

\* The turns of a call for p are those of its sources, each once.
LEMMA TurnsItems ==
    ASSUME TypeOK, NEW p \in Params, NEW params \in Given
    PROVE  /\ Once(Turns(p, params))
           /\ \A item \in Range(Turns(p, params)) :
                 /\ item.params = params /\ item.kind # "param"
                 /\ item.kind = "source" => item.of \in Sources /\ source[item.of].trigger = p
           /\ \A s \in Sources : source[s].trigger = p =>
                 \E item \in Range(Turns(p, params)) : item.kind = "source" /\ item.of = s
<1> DEFINE kind(s) == IF source[s].trigger = p THEN "source" ELSE "pass"
<1>1. /\ DOMAIN Turns(p, params) = Sources
      /\ \A s \in Sources : /\ Turns(p, params)[s].kind = kind(s)
                            /\ Turns(p, params)[s].of = s
                            /\ Turns(p, params)[s].params = params
  BY DEF Turns, Item
<1>2. Range(Turns(p, params)) = {Turns(p, params)[s] : s \in Sources}
  BY <1>1 DEF Range
<1>3. Once(Turns(p, params))
  BY <1>1 DEF Once
<1>4. QED
  BY <1>1, <1>2, <1>3

\* The calls that the fetch of s leads to are those for what it fills in.
LEMMA CascadeItems ==
    ASSUME TypeOK, NEW s \in Sources, NEW params \in Given
    PROVE  /\ Once(Cascade(s, params))
           /\ \A item \in Range(Cascade(s, params)) :
                 /\ item.params = params /\ item.kind # "source"
                 /\ item.kind = "param" => \E i \in DOMAIN source[s].mapping :
                       source[s].mapping[i].fill /\ item.of = source[s].mapping[i].to
           /\ \A i \in DOMAIN source[s].mapping : source[s].mapping[i].fill =>
                 \E item \in Range(Cascade(s, params)) :
                    item.kind = "param" /\ item.of = source[s].mapping[i].to
<1>1. /\ DOMAIN Cascade(s, params) = DOMAIN source[s].mapping
      /\ \A i \in DOMAIN source[s].mapping :
            /\ Cascade(s, params)[i].kind
                 = IF source[s].mapping[i].fill THEN "param" ELSE "pass"
            /\ Cascade(s, params)[i].of = source[s].mapping[i].to
            /\ Cascade(s, params)[i].params = params
  BY DEF Cascade, Item
<1>2. Range(Cascade(s, params)) = {Cascade(s, params)[i] : i \in DOMAIN source[s].mapping}
  BY <1>1 DEF Range
<1>3. Once(Cascade(s, params))
  BY <1>1 DEF Once
<1>4. QED
  BY <1>1, <1>2, <1>3
-----------------------------------------------------------------------------
(* What the steps of a change do                                           *)

\* A parameter's call is over, under way or on the agenda.
Pending(r, q) ==
    \/ q \in visited[r]
    \/ \E item \in Range(agenda[r]) : item.kind = "param" /\ item.of = q

SourceAhead(r, s) == \E item \in Range(agenda[r]) : item.kind = "source" /\ item.of = s

LEMMA AgendaHead ==
    ASSUME BasicInv, NEW r \in Requests, agenda[r] # <<>>
    PROVE  /\ Range(agenda[r]) = {Head(agenda[r])} \cup Range(Tail(agenda[r]))
           /\ Head(agenda[r]) \in Items /\ Head(agenda[r]).params \in Given
           /\ Range(agenda[r]) \subseteq Items
<1>1. agenda[r] \in Seq(Items)
  BY DEF BasicInv, TypeOK
<1>2. Range(agenda[r]) = {Head(agenda[r])} \cup Range(Tail(agenda[r]))
  BY <1>1, RangeHeadTail
<1>3. Range(agenda[r]) \subseteq Items
  BY <1>1, RangeOfSeq
<1>4. QED
  BY <1>2, <1>3, AgendaTypes DEF BasicInv

\* A first call for a parameter.
LEMMA VisitNew ==
    ASSUME BasicInv, NEW r \in Requests, Visit(r), Head(agenda[r]).of \notin visited[r]
    PROVE  LET p == Head(agenda[r]).of
               params == Head(agenda[r]).params
           IN  /\ p \in Params /\ params \in Given
               /\ agenda[r] # <<>> /\ Head(agenda[r]).kind = "param"
               /\ agenda'[r] = Turns(p, params) \o Tail(agenda[r])
               /\ Range(agenda'[r]) = Range(Turns(p, params)) \cup Range(Tail(agenda[r]))
               /\ visited'[r] = visited[r] \cup {p}
               /\ \A s \in Sources :
                     /\ call'[r][s] = IF source[s].trigger = p THEN "todo" ELSE call[r][s]
                     /\ asked'[r][s] = asked[r][s] + IF source[s].trigger = p THEN 1 ELSE 0
<1> DEFINE p == Head(agenda[r]).of
           params == Head(agenda[r]).params
<1>1. /\ agenda[r] # <<>> /\ Head(agenda[r]).kind = "param"
      /\ visited' = [visited EXCEPT ![r] = @ \cup {p}]
      /\ agenda' = [agenda EXCEPT ![r] = Turns(p, params) \o Tail(@)]
      /\ call' = [call EXCEPT ![r] = [s \in Sources |->
                     IF source[s].trigger = p THEN "todo" ELSE @[s]]]
      /\ asked' = [asked EXCEPT ![r] = [s \in Sources |->
                      IF source[s].trigger = p THEN @[s] + 1 ELSE @[s]]]
  BY DEF Visit
<1>2. p \in Params /\ params \in Given /\ Tail(agenda[r]) \in Seq(Items)
  BY <1>1, AgendaTypes DEF BasicInv
<1>3. Turns(p, params) \in Seq(Items)
  BY <1>2, TurnsTypes DEF BasicInv
<1> HIDE DEF p, params
<1>4. /\ visited'[r] = visited[r] \cup {p}
      /\ agenda'[r] = Turns(p, params) \o Tail(agenda[r])
      /\ call'[r] = [s \in Sources |-> IF source[s].trigger = p THEN "todo" ELSE call[r][s]]
      /\ asked'[r] = [s \in Sources |->
                         IF source[s].trigger = p THEN asked[r][s] + 1 ELSE asked[r][s]]
  BY <1>1 DEF BasicInv, TypeOK
<1>5. Range(agenda'[r]) = Range(Turns(p, params)) \cup Range(Tail(agenda[r]))
  <2>1. /\ Turns(p, params) \in Seq(Items) /\ Tail(agenda[r]) \in Seq(Items)
        /\ agenda'[r] = Turns(p, params) \o Tail(agenda[r])
    BY <1>2, <1>3, <1>4
  <2>2. QED
    BY <2>1, RangeJoin, Zenon
<1>6. \A s \in Sources :
         asked'[r][s] = asked[r][s] + IF source[s].trigger = p THEN 1 ELSE 0
  BY <1>4 DEF BasicInv, TypeOK
<1>7. \A s \in Sources :
         call'[r][s] = IF source[s].trigger = p THEN "todo" ELSE call[r][s]
  BY <1>4
<1>8. QED
  BY <1>1, <1>2, <1>4, <1>5, <1>6, <1>7 DEF p, params

\* A call for a parameter that had one, and a turn with nothing to do.
Skip(r) == Pass(r) \/ (Visit(r) /\ Head(agenda[r]).of \in visited[r])

LEMMA SkipItems ==
    ASSUME BasicInv, NEW r \in Requests, Skip(r)
    PROVE  /\ agenda[r] # <<>> /\ Head(agenda[r]).kind \in {"param", "pass"}
           /\ Head(agenda[r]).kind = "param" => Head(agenda[r]).of \in visited[r]
           /\ agenda'[r] = Tail(agenda[r])
           /\ UNCHANGED <<source, phase, given, changed, visited, call, merged, asked, used>>
BY DEF Skip, Pass, Visit, BasicInv, TypeOK

\* The end of a fetch of a change, with a body or without.
LEMMA EnrichItems ==
    ASSUME BasicInv, NEW r \in Requests, NEW s \in Sources, NEW body \in Body,
           InTurn(r, s), Enrich(r, s, body), phase[r] = "change"
    PROVE  LET new == Enrichments(s, body)
               params == Filled(Head(agenda[r]).params, new)
           IN  /\ new \in Enriched /\ params \in Given
               /\ agenda[r] # <<>>
               /\ Head(agenda[r]).kind = "source" /\ Head(agenda[r]).of = s
               /\ agenda'[r] = Cascade(s, params) \o Tail(agenda[r])
               /\ Range(agenda'[r]) = Range(Cascade(s, params)) \cup Range(Tail(agenda[r]))
               /\ merged'[r] = Update(merged[r], new)
               /\ call'[r][s] = "idle"
               /\ \A t \in Sources : t # s => call'[r][t] = call[r][t]
               /\ UNCHANGED <<source, phase, given, changed, visited, asked>>
<1> DEFINE new == Enrichments(s, body)
           params == Filled(Head(agenda[r]).params, new)
<1>1. /\ agenda[r] # <<>> /\ Head(agenda[r]).kind = "source" /\ Head(agenda[r]).of = s
      /\ Tail(agenda[r]) \in Seq(Items) /\ Head(agenda[r]).params \in Given
  BY AgendaTypes DEF BasicInv, InTurn
<1>2. new \in Enriched
  BY EnrichmentTypes DEF BasicInv
<1> HIDE DEF new
<1>3. params \in Given
  BY <1>1, <1>2, FilledTypes
<1> HIDE DEF params
<1>4. Cascade(s, params) \in Seq(Items)
  BY <1>3, CascadeTypes DEF BasicInv
<1>5. /\ call' = [call EXCEPT ![r][s] = "idle"]
      /\ merged' = [merged EXCEPT ![r] = Update(@, new)]
      /\ agenda' = [agenda EXCEPT ![r] = Cascade(s, params) \o Tail(@)]
      /\ UNCHANGED <<source, phase, given, changed, visited, asked>>
  BY DEF Enrich, new, params
<1>6. /\ agenda'[r] = Cascade(s, params) \o Tail(agenda[r])
      /\ merged'[r] = Update(merged[r], new)
      /\ call'[r][s] = "idle" /\ \A t \in Sources : t # s => call'[r][t] = call[r][t]
  BY <1>5 DEF BasicInv, TypeOK
<1>7. Range(agenda'[r]) = Range(Cascade(s, params)) \cup Range(Tail(agenda[r]))
  <2>1. /\ Cascade(s, params) \in Seq(Items) /\ Tail(agenda[r]) \in Seq(Items)
        /\ agenda'[r] = Cascade(s, params) \o Tail(agenda[r])
    BY <1>1, <1>4, <1>6
  <2>2. QED
    BY <2>1, RangeJoin, Zenon
<1>8. QED
  BY <1>1, <1>2, <1>3, <1>5, <1>6, <1>7 DEF new, params

\* Each fetch that ends does so by Enrich, in its turn.
LEMMA FetchEnds ==
    ASSUME BasicInv, NEW r \in Requests, NEW s \in Sources,
           \/ CacheHit(r, s) \/ Warn(r, s)
           \/ \E body \in Bodies : Answered(r, s, body)
    PROVE  /\ call[r][s] # "idle" /\ InTurn(r, s)
           /\ \E body \in Body :
                 /\ Enrich(r, s, body)
                 /\ \/ used' = used
                    \/ \E e \in Entry : Uses(r, s, e)
<1>1. call[r][s] # "idle" /\ InTurn(r, s)
  BY DEF CacheHit, Warn, Answered, BasicInv, TurnIsKept
<1>2. CASE CacheHit(r, s)
  <2>1. PICK e \in cache : Enrich(r, s, e.body) /\ Uses(r, s, e)
    BY <1>2 DEF CacheHit, Cached, Entries
  <2>2. e \in Entry /\ e.body \in Body
    BY DEF BasicInv, TypeOK, Entry
  <2>3. QED
    BY <1>1, <2>1, <2>2
<1>3. CASE Warn(r, s)
  <2>1. NoBody \in Body
    BY DEF Body
  <2>2. QED
    BY <1>1, <1>3, <2>1 DEF Warn
<1>4. ASSUME NEW body \in Bodies, Answered(r, s, body)
      PROVE  \E b \in Body : /\ Enrich(r, s, b)
                             /\ \E e \in Entry : Uses(r, s, e)
  <2> DEFINE entry == [key |-> Key(s, With(r, s)), body |-> body, expiry |-> clock + Ttl(s),
                       url |-> Url(s, With(r, s)), got |-> clock, by |-> s]
  <2>1. Enrich(r, s, body) /\ Uses(r, s, entry)
    BY <1>4 DEF Answered
  <2>2. body \in Body /\ With(r, s) \in Given /\ clock \in Nat
    BY <1>1, SourcesAssumption, WithTypes DEF BasicInv, TypeOK
  <2>3. entry \in Entry
    <3>1. /\ Ttl(s) \in Nat /\ Url(s, With(r, s)) \in Urls
          /\ Key(s, With(r, s)) \in [url : Urls, params : Given]
      BY <2>2, SourceTypes DEF BasicInv
    <3>2. QED
      BY <2>2, <3>1 DEF Entry
  <2> HIDE DEF entry
  <2>4. QED
    BY <2>1, <2>2, <2>3
<1>5. QED
  BY <1>1, <1>2, <1>3, <1>4
-----------------------------------------------------------------------------
(* A change asks each source it reaches once                               *)

\* A source is asked with its trigger's only call. The calls are for what the
\* change can reach, and what is not on the agenda any more has been followed.
AskedKept(r) ==
    /\ changed[r] \notin Params => \A s \in Sources : asked[r][s] <= 1
    /\ phase[r] = "idle" => /\ visited[r] = {} /\ agenda[r] = <<>>
                            /\ \A s \in Sources : asked[r][s] = 0
    /\ changed[r] \in Params =>
         /\ \A s \in Sources :
               asked[r][s] = IF source[s].trigger \in visited[r] THEN 1 ELSE 0
         /\ visited[r] \subseteq Reached(changed[r])
         /\ phase[r] = "answered" => Reached(changed[r]) \subseteq visited[r]
    /\ phase[r] = "change" =>
         /\ Pending(r, changed[r])
         /\ \A item \in Range(agenda[r]) :
               /\ item.kind = "param" => item.of \in Reached(changed[r])
               /\ item.kind = "source" => source[item.of].trigger \in visited[r]
         /\ \A s \in Sources : source[s].trigger \in visited[r] =>
               \/ SourceAhead(r, s)
               \/ \A i \in DOMAIN source[s].mapping :
                     source[s].mapping[i].fill => Pending(r, source[s].mapping[i].to)

LEMMA AskedOfOthers ==
    ASSUME NEW r \in Requests, AskedKept(r), source' = source,
           phase'[r] = phase[r], changed'[r] = changed[r], visited'[r] = visited[r],
           agenda'[r] = agenda[r], asked'[r] = asked[r]
    PROVE  AskedKept(r)'
<1>1. \A p : Reached(p)' = Reached(p)
  BY DEF Reached
<1>2. \A q : Pending(r, q)' = Pending(r, q)
  BY DEF Pending
<1>3. \A s : SourceAhead(r, s)' = SourceAhead(r, s)
  BY DEF SourceAhead
<1>4. QED
  BY <1>1, <1>2, <1>3 DEF AskedKept

LEMMA ReachedStays == ASSUME source' = source PROVE \A p : Reached(p)' = Reached(p)
BY DEF Reached

LEMMA VisitAsked ==
    ASSUME BasicInv, NEW r \in Requests, LoadKept(r), AskedKept(r), Visit(r),
           Head(agenda[r]).of \notin visited[r]
    PROVE  AskedKept(r)'
<1> DEFINE p == Head(agenda[r]).of
           params == Head(agenda[r]).params
           rest == Range(Tail(agenda[r]))
           goal == changed[r]
<1>1. /\ p \in Params /\ params \in Given
      /\ agenda[r] # <<>> /\ Head(agenda[r]).kind = "param"
      /\ Range(agenda'[r]) = Range(Turns(p, params)) \cup rest
      /\ visited'[r] = visited[r] \cup {p}
      /\ \A s \in Sources :
            asked'[r][s] = asked[r][s] + IF source[s].trigger = p THEN 1 ELSE 0
  BY VisitNew
<1>2. phase[r] = "change" /\ UNCHANGED <<source, phase, changed>>
  BY DEF Visit
<1>3. Range(agenda[r]) = {Head(agenda[r])} \cup rest
  BY <1>1, AgendaHead
<1>4. goal \in Params /\ p \in Reached(goal)
  <2>1. goal \in Params
    BY <1>2 DEF LoadKept
  <2>2. QED
    BY <1>1, <1>2, <1>3, <2>1 DEF AskedKept
<1>5. /\ \A item \in Range(Turns(p, params)) :
            /\ item.params = params /\ item.kind # "param"
            /\ item.kind = "source" => item.of \in Sources /\ source[item.of].trigger = p
      /\ \A s \in Sources : source[s].trigger = p =>
            \E item \in Range(Turns(p, params)) : item.kind = "source" /\ item.of = s
  BY <1>1, TurnsItems DEF BasicInv
<1> HIDE DEF p, params, rest, goal
<1>6. \A s \in Sources :
         asked'[r][s] = IF source[s].trigger \in visited'[r] THEN 1 ELSE 0
  <2> TAKE s \in Sources
  <2>1. asked[r][s] = IF source[s].trigger \in visited[r] THEN 1 ELSE 0
    BY <1>4 DEF AskedKept, goal
  <2>2. p \notin visited[r]
    BY DEF p
  <2>3. QED
    BY <1>1, <2>1, <2>2
<1>7. visited'[r] \subseteq Reached(goal)
  BY <1>1, <1>4 DEF AskedKept, goal
<1>8. \A q : Pending(r, q) => Pending(r, q)'
  <2>1. Head(agenda[r]).of \in visited'[r]
    BY <1>1 DEF p
  <2>2. QED
    BY <1>1, <1>3, <2>1 DEF Pending
<1>9. \A item \in Range(agenda'[r]) :
         /\ item.kind = "param" => item.of \in Reached(goal)
         /\ item.kind = "source" => source[item.of].trigger \in visited'[r]
  BY <1>1, <1>2, <1>3, <1>5 DEF AskedKept, goal
<1>10. \A s \in Sources : SourceAhead(r, s) => SourceAhead(r, s)'
  BY <1>1, <1>3 DEF SourceAhead
<1>11. \A s \in Sources : source[s].trigger = p => SourceAhead(r, s)'
  BY <1>1, <1>5 DEF SourceAhead
<1>12. \A s \in Sources : source[s].trigger \in visited'[r] =>
         \/ SourceAhead(r, s)'
         \/ \A i \in DOMAIN source[s].mapping :
               source[s].mapping[i].fill => Pending(r, source[s].mapping[i].to)'
  BY <1>1, <1>2, <1>8, <1>10, <1>11 DEF AskedKept
<1>13. Pending(r, goal)'
  BY <1>2, <1>8 DEF AskedKept, goal
<1>14. Reached(goal)' = Reached(goal) /\ goal' = goal
  BY <1>2, ReachedStays DEF goal
<1>15. QED
  BY <1>2, <1>4, <1>6, <1>7, <1>9, <1>12, <1>13, <1>14 DEF AskedKept, goal

\* The agenda goes on without its head, perhaps with more.
LEMMA GoOnAsked ==
    ASSUME BasicInv, NEW r \in Requests, LoadKept(r), AskedKept(r),
           phase[r] = "change", agenda[r] # <<>>,
           UNCHANGED <<source, phase, changed, visited, asked>>,
           NEW more, Range(agenda'[r]) = more \cup Range(Tail(agenda[r])),
           \A item \in more : /\ item.kind # "source"
                              /\ item.kind = "param" => item.of \in Reached(changed[r]),
           Head(agenda[r]).kind = "param" => Head(agenda[r]).of \in visited[r],
           Head(agenda[r]).kind = "source" =>
              /\ Head(agenda[r]).of \in Sources
              /\ \A i \in DOMAIN source[Head(agenda[r]).of].mapping :
                    source[Head(agenda[r]).of].mapping[i].fill =>
                       \E item \in more :
                          /\ item.kind = "param"
                          /\ item.of = source[Head(agenda[r]).of].mapping[i].to
    PROVE  AskedKept(r)'
<1> DEFINE goal == changed[r]
           rest == Range(Tail(agenda[r]))
           head == Head(agenda[r])
<1>1. Range(agenda[r]) = {head} \cup rest
  BY AgendaHead
<1>2. goal \in Params /\ goal' = goal /\ Reached(goal)' = Reached(goal)
  BY ReachedStays DEF LoadKept
<1>3. \A q : Pending(r, q) => Pending(r, q)'
  BY <1>1 DEF Pending
<1>4. \A item \in Range(agenda'[r]) :
         /\ item.kind = "param" => item.of \in Reached(goal)
         /\ item.kind = "source" => source[item.of].trigger \in visited'[r]
  BY <1>1 DEF AskedKept
<1>5. ASSUME NEW s \in Sources, source[s].trigger \in visited'[r]
      PROVE  \/ SourceAhead(r, s)'
             \/ \A i \in DOMAIN source[s].mapping :
                   source[s].mapping[i].fill => Pending(r, source[s].mapping[i].to)'
  <2>1. CASE head.kind = "source" /\ head.of = s
    BY <2>1 DEF Pending
  <2>2. CASE ~(head.kind = "source" /\ head.of = s)
    <3>1. SourceAhead(r, s) => SourceAhead(r, s)'
      BY <1>1, <2>2 DEF SourceAhead
    <3>2. QED
      BY <1>3, <1>5, <3>1 DEF AskedKept
  <2>3. QED
    BY <2>1, <2>2
<1>6. Pending(r, goal)'
  BY <1>3 DEF AskedKept
<1>7. /\ \A s \in Sources :
            asked'[r][s] = IF source[s].trigger \in visited'[r] THEN 1 ELSE 0
      /\ visited'[r] \subseteq Reached(goal)
  BY <1>2 DEF AskedKept
<1> HIDE DEF goal, rest, head
<1>8. QED
  BY <1>2, <1>4, <1>5, <1>6, <1>7 DEF AskedKept, goal

LEMMA StepAsked ==
    ASSUME BasicInv, NEW r \in Requests, LoadKept(r), AskedKept(r),
           \/ Load(r) \/ Step(r)
           \/ \E p \in Params, v \in Values : Change(r, p, v)
    PROVE  AskedKept(r)'
<1>1. CASE Load(r)
  <2>1. /\ phase[r] = "idle" /\ phase'[r] = "load"
        /\ UNCHANGED <<changed, visited, agenda>>
        /\ asked'[r] = [s \in Sources |-> IF s \in OnLoadSources THEN 1 ELSE 0]
    BY <1>1 DEF Load, BasicInv, TypeOK
  <2>2. changed[r] \notin Params /\ \A s \in Sources : asked'[r][s] <= 1
    BY <2>1 DEF LoadKept
  <2>3. QED
    BY <2>1, <2>2 DEF AskedKept
<1>2. ASSUME NEW p \in Params, NEW v \in Values, Change(r, p, v) PROVE AskedKept(r)'
  <2>1. /\ phase[r] = "idle" /\ phase'[r] = "change" /\ changed'[r] = p
        /\ agenda'[r] = <<Item("param", p, given'[r])>>
        /\ UNCHANGED <<source, visited, asked>>
    BY <1>2 DEF Change, BasicInv, TypeOK
  <2>2. visited'[r] = {} /\ \A s \in Sources : asked'[r][s] = 0
    BY <2>1 DEF AskedKept
  <2>3. /\ \A item \in Range(agenda'[r]) : item.kind = "param" /\ item.of = p
        /\ \E item \in Range(agenda'[r]) : item.kind = "param" /\ item.of = p
    <3>1. Range(agenda'[r]) = {Item("param", p, given'[r])}
      BY <2>1 DEF Range
    <3>2. QED
      BY <3>1 DEF Item
  <2>4. p \in Reached(p)' /\ Pending(r, p)'
    <3>1. p \in Reached(p)
      BY ReachedStarts
    <3>2. QED
      BY <2>1, <2>3, <3>1, ReachedStays DEF Pending
  <2>5. QED
    BY <2>1, <2>2, <2>3, <2>4 DEF AskedKept
<1>3. CASE Visit(r) /\ Head(agenda[r]).of \notin visited[r]
  BY <1>3, VisitAsked
<1>4. CASE Skip(r)
  <2>1. /\ agenda[r] # <<>> /\ Head(agenda[r]).kind \in {"param", "pass"}
        /\ Head(agenda[r]).kind = "param" => Head(agenda[r]).of \in visited[r]
        /\ Range(agenda'[r]) = {} \cup Range(Tail(agenda[r]))
        /\ UNCHANGED <<source, phase, changed, visited, asked>>
    BY <1>4, SkipItems
  <2>2. phase[r] = "change"
    BY <1>4 DEF Skip, Pass, Visit
  <2>3. QED
    BY <2>1, <2>2, GoOnAsked
<1>5. CASE AnswerLoad(r)
  <2>1. /\ phase[r] = "load" /\ phase'[r] = "answered"
        /\ UNCHANGED <<changed, asked>>
    BY <1>5 DEF AnswerLoad, BasicInv, TypeOK
  <2>2. changed[r] \notin Params
    BY <2>1 DEF LoadKept
  <2>3. QED
    BY <2>1, <2>2 DEF AskedKept
<1>6. CASE AnswerChange(r)
  <2> DEFINE goal == changed[r]
  <2>1. /\ phase[r] = "change" /\ phase'[r] = "answered" /\ agenda[r] = <<>>
        /\ UNCHANGED <<source, changed, visited, asked>>
    BY <1>6 DEF AnswerChange, BasicInv, TypeOK
  <2>2. goal \in Params
    BY <2>1 DEF LoadKept
  <2>3. Range(agenda[r]) = {}
    BY <2>1 DEF Range
  <2>4. goal \in visited[r] /\ Closed(visited[r])
    BY <2>1, <2>3 DEF AskedKept, Pending, SourceAhead, Closed
  <2>5. visited[r] \in SUBSET Params
    BY DEF BasicInv, TypeOK
  <2>6. Reached(goal) \subseteq visited[r]
    BY <2>2, <2>4, <2>5, ReachedLeast
  <2>7. Reached(goal)' = Reached(goal)
    BY <2>1, ReachedStays
  <2>8. QED
    BY <2>1, <2>2, <2>6, <2>7 DEF AskedKept
<1>7. ASSUME NEW s \in Sources,
             \/ CacheHit(r, s) \/ Warn(r, s)
             \/ \E body \in Bodies : Answered(r, s, body)
      PROVE  AskedKept(r)'
  <2>1. InTurn(r, s)
    BY <1>7, FetchEnds
  <2>2. PICK body \in Body : Enrich(r, s, body)
    BY <1>7, FetchEnds
  <2>3. UNCHANGED <<source, phase, changed, visited, asked>>
    BY <2>2 DEF Enrich
  <2>4. CASE phase[r] = "change"
    <3> DEFINE params == Filled(Head(agenda[r]).params, Enrichments(s, body))
    <3>1. /\ agenda[r] # <<>> /\ params \in Given
          /\ Head(agenda[r]).kind = "source" /\ Head(agenda[r]).of = s
          /\ Range(agenda'[r]) = Range(Cascade(s, params)) \cup Range(Tail(agenda[r]))
      BY <2>1, <2>2, <2>4, EnrichItems
    <3> HIDE DEF params
    <3>2. source[s].trigger \in Reached(changed[r]) /\ changed[r] \in Params
      <4>1. Head(agenda[r]) \in Range(agenda[r])
        BY <3>1, AgendaHead
      <4>2. source[s].trigger \in visited[r]
        BY <2>4, <3>1, <4>1 DEF AskedKept
      <4>3. changed[r] \in Params
        BY <2>4 DEF LoadKept
      <4>4. QED
        BY <4>2, <4>3 DEF AskedKept
    <3>3. \A item \in Range(Cascade(s, params)) :
             /\ item.kind # "source"
             /\ item.kind = "param" => item.of \in Reached(changed[r])
      BY <3>1, <3>2, CascadeItems, ReachedGoesOn DEF BasicInv
    <3>4. \A i \in DOMAIN source[s].mapping : source[s].mapping[i].fill =>
             \E item \in Range(Cascade(s, params)) :
                item.kind = "param" /\ item.of = source[s].mapping[i].to
      BY <3>1, CascadeItems DEF BasicInv
    <3>5. QED
      BY <2>3, <2>4, <3>1, <3>3, <3>4, GoOnAsked
  <2>5. CASE phase[r] # "change"
    <3>1. agenda' = agenda
      BY <2>2, <2>5 DEF Enrich
    <3>2. QED
      BY <2>3, <3>1, AskedOfOthers
  <2>6. QED
    BY <2>4, <2>5
<1>8. ASSUME NEW s \in Sources, CacheMiss(r, s) \/ SecretFound(r, s) PROVE AskedKept(r)'
  <2>1. UNCHANGED <<source, phase, changed, visited, agenda, asked>>
    BY <1>8 DEF CacheMiss, SecretFound
  <2>2. QED
    BY <2>1, AskedOfOthers
<1>9. ASSUME NEW s \in Sources, Raise(r, s) PROVE AskedKept(r)'
  <2>1. /\ phase[r] # "idle"
        /\ phase'[r] = CASE phase[r] = "load" -> "answered"
                         [] phase[r] = "change" -> "refused"
                         [] OTHER -> phase[r]
        /\ UNCHANGED <<source, changed, visited, asked>>
    BY <1>9 DEF Raise, BasicInv, TurnIsKept, TypeOK
  <2>2. phase[r] = "load" => changed[r] \notin Params
    BY DEF LoadKept
  <2>3. phase'[r] \notin {"idle", "change"}
    BY <2>1
  <2>4. phase'[r] = "answered" => phase[r] = "answered" \/ changed[r] \notin Params
    BY <2>1, <2>2
  <2>5. Reached(changed[r])' = Reached(changed[r])
    BY <2>1, ReachedStays
  <2>6. QED
    BY <2>1, <2>3, <2>4, <2>5 DEF AskedKept
<1>10. QED
  BY <1>1, <1>2, <1>3, <1>4, <1>5, <1>6, <1>7, <1>8, <1>9 DEF Step, Fetch, Skip

LEMMA AlwaysAsked == Spec => [](\A r \in Requests : AskedKept(r))
<1> DEFINE Loads == \A r \in Requests : LoadKept(r)
           Kept == \A r \in Requests : AskedKept(r)
<1>1. Init => Kept
  BY SourcesAssumption DEF Init, AskedKept
<1>2. BasicInv /\ Loads /\ Kept /\ [Next]_vars => Kept'
  <2> SUFFICES ASSUME BasicInv, Loads, Kept, [Next]_vars, NEW r \in Requests
               PROVE  AskedKept(r)'
    OBVIOUS
  <2>1. ASSUME NEW q \in Requests,
               \/ Load(q) \/ Step(q)
               \/ \E p \in Params, v \in Values : Change(q, p, v)
        PROVE  AskedKept(r)'
    <3>1. CASE q = r
      BY <2>1, <3>1, StepAsked
    <3>2. CASE q # r
      <4>1. /\ source' = source
            /\ phase'[r] = phase[r] /\ changed'[r] = changed[r]
            /\ visited'[r] = visited[r] /\ agenda'[r] = agenda[r]
            /\ asked'[r] = asked[r]
        BY <2>1, <3>2, OneRequest
      <4>2. QED
        BY <4>1, AskedOfOthers
    <3>3. QED
      BY <3>1, <3>2
  <2>2. CASE Tick \/ UNCHANGED vars
    <3>1. UNCHANGED <<source, phase, changed, visited, agenda, asked>>
      BY <2>2 DEF Tick, vars
    <3>2. QED
      BY <3>1, AskedOfOthers
  <2>3. QED
    BY <2>1, <2>2 DEF Next
<1>3. Spec => []Loads
  BY LoadsKept
<1> HIDE DEF Loads, Kept
<1>4. Spec => []Kept
  BY <1>1, <1>2, <1>3, Basics, PTL DEF Spec
<1>5. QED
  BY <1>4 DEF Kept

\* However sources trigger each other, an answered change has asked each
\* source it can reach once, and no other (resolve_on_change, visited).
THEOREM CascadeOnce == Spec => []CascadeAsksOnce
<1>1. (\A r \in Requests : AskedKept(r)) => CascadeAsksOnce
  BY DEF AskedKept, CascadeAsksOnce, Replied
<1>2. QED
  BY <1>1, AlwaysAsked, PTL

-----------------------------------------------------------------------------
(* The answer to a change is of one piece                                  *)

\* The fetches of a change that are not done are the sources on its agenda.
CallsKept(r) ==
    /\ phase[r] = "idle" => \A s \in Sources : used[r][s] = Missing
    /\ changed[r] \in Params /\ phase[r] # "change" =>
         \A s \in Sources : call[r][s] = "idle"
    /\ phase[r] = "change" =>
         /\ Once(agenda[r])
         /\ \A s \in Sources : call[r][s] # "idle" <=> SourceAhead(r, s)

Done(r, s) == source[s].trigger \in visited[r] /\ call[r][s] = "idle"

\* The sources that a change of p can reach and that have a mapping to q.
Fillers(p, q) ==
    {s \in Sources : /\ source[s].trigger \in Reached(p)
                     /\ \E i \in DOMAIN source[s].mapping : source[s].mapping[i].to = q}

\* Nothing will be filled into q any more.
Settled(r, q) == \A s \in Fillers(changed[r], q) : Done(r, s)

Final(r, q) == IF merged[r][q] \in Values THEN merged[r][q] ELSE given[r][q]

Right(r, q, params) == Settled(r, q) /\ params[q] = Final(r, q)

\* A parameter is untouched until the source that fills it is done, and only
\* then is what it triggers called, with the value it keeps.
CoherentKept(r) ==
    phase[r] \in {"change", "answered"} /\ changed[r] \in Params /\ Untangled(changed[r]) =>
      /\ \A q \in Reached(changed[r]) : ~Settled(r, q) =>
            /\ merged[r][q] = Missing
            /\ \A item \in Range(agenda[r]) : item.params[q] = given[r][q]
      /\ \A item \in Range(agenda[r]) :
            /\ item.kind = "param" => Right(r, item.of, item.params)
            /\ item.kind = "source" => Right(r, source[item.of].trigger, item.params)
      /\ \A s \in Sources : used[r][s] # Missing =>
            /\ source[s].trigger \in visited[r]
            /\ Right(r, source[s].trigger, used[r][s].params)

LEMMA CoherentOfOthers ==
    ASSUME NEW r \in Requests, CallsKept(r), CoherentKept(r), source' = source,
           phase'[r] = phase[r], changed'[r] = changed[r], visited'[r] = visited[r],
           agenda'[r] = agenda[r], call'[r] = call[r], merged'[r] = merged[r],
           given'[r] = given[r], used'[r] = used[r]
    PROVE  CallsKept(r)' /\ CoherentKept(r)'
<1>1. \A p : Reached(p)' = Reached(p)
  BY ReachedStays
<1>2. \A p, q : Fillers(p, q)' = Fillers(p, q)
  BY <1>1 DEF Fillers
<1>3. \A p : Untangled(p)' = Untangled(p)
  BY <1>1 DEF Untangled
<1>4. \A s : SourceAhead(r, s)' = SourceAhead(r, s)
  BY DEF SourceAhead
<1>5. \A q : Settled(r, q)' = Settled(r, q)
  BY <1>2 DEF Settled, Done
<1>6. \A q, params : Right(r, q, params)' = Right(r, q, params)
  BY <1>5 DEF Right, Final
<1>7. CallsKept(r)'
  BY <1>4 DEF CallsKept, Once
<1>8. CoherentKept(r)'
  BY <1>1, <1>3, <1>5, <1>6 DEF CoherentKept
<1>9. QED
  BY <1>7, <1>8

LEMMA UntangledStays == ASSUME source' = source PROVE \A p : Untangled(p)' = Untangled(p)
BY ReachedStays DEF Untangled

LEMMA FillersStay == ASSUME source' = source PROVE \A p, q : Fillers(p, q)' = Fillers(p, q)
BY ReachedStays DEF Fillers

\* Two fillers of a parameter that an untangled change reaches are one.
LEMMA OneFiller ==
    ASSUME NEW p, Untangled(p), NEW q \in Reached(p)
    PROVE  /\ \A s, t \in Fillers(p, q) : s = t
           /\ q = p => Fillers(p, q) = {}
BY DEF Untangled, Fillers

-----------------------------------------------------------------------------
\* Once settled, a parameter stays so, and keeps its value.
LEMMA RightStays ==
    ASSUME NEW r \in Requests, UNCHANGED <<source, changed, given>>,
           \A s \in Sources : Done(r, s) => Done(r, s)',
           \A q \in Reached(changed[r]) : Settled(r, q) => merged'[r][q] = merged[r][q]
    PROVE  \A q \in Reached(changed[r]) :
              /\ Settled(r, q) => Settled(r, q)'
              /\ \A params : Right(r, q, params) => Right(r, q, params)'
<1> TAKE q \in Reached(changed[r])
<1>1. Fillers(changed[r], q)' = Fillers(changed[r], q) /\ Fillers(changed[r], q) \subseteq Sources
  BY FillersStay DEF Fillers
<1>2. Settled(r, q) => Settled(r, q)'
  BY <1>1 DEF Settled
<1>3. Settled(r, q) => Final(r, q)' = Final(r, q)
  BY DEF Final
<1>4. QED
  BY <1>2, <1>3 DEF Right

LEMMA VisitCoherent ==
    ASSUME BasicInv, NEW r \in Requests, LoadKept(r), AskedKept(r), CallsKept(r),
           CoherentKept(r), Visit(r), Head(agenda[r]).of \notin visited[r]
    PROVE  CallsKept(r)' /\ CoherentKept(r)'
<1> DEFINE rest == Tail(agenda[r])
           goal == changed[r]
<1>0. PICK p, params : p = Head(agenda[r]).of /\ params = Head(agenda[r]).params
  OBVIOUS
<1>1. /\ p \in Params /\ params \in Given
      /\ agenda[r] # <<>> /\ Head(agenda[r]).kind = "param"
      /\ agenda'[r] = Turns(p, params) \o rest
      /\ Range(agenda'[r]) = Range(Turns(p, params)) \cup Range(rest)
      /\ visited'[r] = visited[r] \cup {p}
      /\ \A s \in Sources :
            call'[r][s] = IF source[s].trigger = p THEN "todo" ELSE call[r][s]
  BY <1>0, VisitNew
<1>2. phase[r] = "change" /\ UNCHANGED <<source, phase, given, changed, merged, used>>
  BY DEF Visit
<1>3. /\ Range(agenda[r]) = {Head(agenda[r])} \cup Range(rest)
      /\ agenda[r] \in Seq(Items) /\ rest \in Seq(Items) /\ Range(agenda[r]) \subseteq Items
  BY <1>1, AgendaHead, AgendaTypes DEF BasicInv, TypeOK
<1>4. goal \in Params /\ p \in Reached(goal) /\ p \notin visited[r]
  <2>1. goal \in Params
    BY <1>2 DEF LoadKept
  <2>2. QED
    BY <1>0, <1>1, <1>2, <1>3, <2>1 DEF AskedKept
<1>5. /\ Once(Turns(p, params)) /\ Turns(p, params) \in Seq(Items)
      /\ \A item \in Range(Turns(p, params)) :
            /\ item.params = params /\ item.kind # "param"
            /\ item.kind = "source" => item.of \in Sources /\ source[item.of].trigger = p
      /\ \A s \in Sources : source[s].trigger = p =>
            \E item \in Range(Turns(p, params)) : item.kind = "source" /\ item.of = s
  BY <1>1, TurnsItems, TurnsTypes DEF BasicInv
<1>6. \A item \in Range(rest) : item.kind = "source" => source[item.of].trigger \in visited[r]
  BY <1>2, <1>3 DEF AskedKept
<1>7. Once(agenda'[r])
  <2>1. Once(rest)
    BY <1>1, <1>2, <1>3, OnceTail DEF CallsKept
  <2>2. \A x \in Range(Turns(p, params)), y \in Range(rest) :
           ~(x.kind = "source" /\ y.kind = "source" /\ x.of = y.of)
    BY <1>4, <1>5, <1>6
  <2> HIDE DEF rest
  <2>3. QED
    BY <1>1, <1>3, <1>5, <2>1, <2>2, OnceJoin
<1> HIDE DEF rest, goal
<1>8. \A s \in Sources : call'[r][s] # "idle" <=> SourceAhead(r, s)'
  <2> TAKE s \in Sources
  <2>1. SourceAhead(r, s) <=> \E item \in Range(rest) : item.kind = "source" /\ item.of = s
    BY <1>1, <1>3 DEF SourceAhead
  <2>2. CASE source[s].trigger = p
    <3>1. SourceAhead(r, s)'
      BY <1>1, <1>5, <2>2 DEF SourceAhead
    <3>2. QED
      BY <1>1, <2>2, <3>1
  <2>3. CASE source[s].trigger # p
    <3>1. SourceAhead(r, s)' <=> SourceAhead(r, s)
      BY <1>1, <1>5, <2>1, <2>3 DEF SourceAhead
    <3>2. call'[r][s] = call[r][s]
      BY <1>1, <2>3
    <3>3. QED
      BY <1>2, <3>1, <3>2 DEF CallsKept
  <2>4. QED
    BY <2>2, <2>3
<1>9. CallsKept(r)'
  BY <1>2, <1>7, <1>8 DEF CallsKept
<1>10. CoherentKept(r)'
  <2> SUFFICES ASSUME Untangled(goal)
               PROVE  /\ \A q \in Reached(goal) : ~Settled(r, q)' =>
                            /\ merged'[r][q] = Missing
                            /\ \A item \in Range(agenda'[r]) : item.params[q] = given'[r][q]
                      /\ \A item \in Range(agenda'[r]) :
                            /\ item.kind = "param" => Right(r, item.of, item.params)'
                            /\ item.kind = "source" =>
                                  Right(r, source[item.of].trigger, item.params)'
                      /\ \A s \in Sources : used'[r][s] # Missing =>
                            /\ source[s].trigger \in visited'[r]
                            /\ Right(r, source[s].trigger, used[r][s].params)'
    <3>1. Reached(goal)' = Reached(goal) /\ Untangled(goal)' = Untangled(goal) /\ goal' = goal
      BY <1>2, ReachedStays, UntangledStays DEF goal
    <3>2. QED
      BY <1>2, <3>1 DEF CoherentKept, goal
  <2>1. \A q \in Reached(goal) :
           /\ Settled(r, q) => Settled(r, q)'
           /\ \A ps : Right(r, q, ps) => Right(r, q, ps)'
    <3>1. \A s \in Sources : Done(r, s) => Done(r, s)'
      BY <1>1, <1>2, <1>4 DEF Done
    <3>2. QED
      BY <1>2, <3>1, RightStays DEF goal
  <2>2. visited[r] \subseteq Reached(goal)
    BY <1>4 DEF AskedKept, goal
  <2>3. /\ \A q \in Reached(goal) : ~Settled(r, q) =>
              /\ merged[r][q] = Missing
              /\ \A item \in Range(agenda[r]) : item.params[q] = given[r][q]
        /\ \A item \in Range(agenda[r]) :
              /\ item.kind = "param" => Right(r, item.of, item.params)
              /\ item.kind = "source" => Right(r, source[item.of].trigger, item.params)
        /\ \A s \in Sources : used[r][s] # Missing =>
              /\ source[s].trigger \in visited[r]
              /\ Right(r, source[s].trigger, used[r][s].params)
    BY <1>2, <1>4 DEF CoherentKept, goal
  <2>4. Right(r, p, params)'
    <3>1. Right(r, p, params)
      BY <1>0, <1>1, <1>3, <2>3
    <3>2. QED
      BY <1>4, <2>1, <3>1
  <2>5. ASSUME NEW q \in Reached(goal), ~Settled(r, q)'
        PROVE  /\ merged'[r][q] = Missing
               /\ \A item \in Range(agenda'[r]) : item.params[q] = given'[r][q]
    <3>1. /\ merged[r][q] = Missing
          /\ \A item \in Range(agenda[r]) : item.params[q] = given[r][q]
      BY <2>1, <2>3, <2>5
    <3>2. params[q] = given[r][q]
      BY <1>0, <1>3, <3>1
    <3>3. QED
      BY <1>1, <1>2, <1>3, <1>5, <3>1, <3>2
  <2>6. ASSUME NEW item \in Range(agenda'[r])
        PROVE  /\ item.kind = "param" => Right(r, item.of, item.params)'
               /\ item.kind = "source" => Right(r, source[item.of].trigger, item.params)'
    <3>1. CASE item \in Range(Turns(p, params))
      BY <1>2, <1>5, <2>4, <3>1
    <3>2. CASE item \in Range(rest)
      <4>1. item \in Range(agenda[r])
        BY <1>3, <3>2
      <4>2. /\ item.kind = "param" => item.of \in Reached(goal)
            /\ item.kind = "source" => source[item.of].trigger \in Reached(goal)
        BY <1>2, <2>2, <4>1 DEF AskedKept, goal
      <4>3. QED
        BY <1>2, <2>1, <2>3, <4>1, <4>2
    <3>3. QED
      BY <1>1, <3>1, <3>2
  <2>7. ASSUME NEW s \in Sources, used'[r][s] # Missing
        PROVE  /\ source[s].trigger \in visited'[r]
               /\ Right(r, source[s].trigger, used[r][s].params)'
    <3>1. /\ source[s].trigger \in visited[r]
          /\ Right(r, source[s].trigger, used[r][s].params)
      BY <1>2, <2>3, <2>7
    <3>2. QED
      BY <1>1, <1>2, <2>1, <2>2, <3>1
  <2>8. QED
    BY <2>5, <2>6, <2>7
<1>11. QED
  BY <1>9, <1>10

\* The agenda goes on without a head that had nothing to do.
LEMMA SkipCoherent ==
    ASSUME BasicInv, NEW r \in Requests, LoadKept(r), AskedKept(r), CallsKept(r),
           CoherentKept(r), Skip(r)
    PROVE  CallsKept(r)' /\ CoherentKept(r)'
<1>1. /\ agenda[r] # <<>> /\ Head(agenda[r]).kind \in {"param", "pass"}
      /\ agenda'[r] = Tail(agenda[r])
      /\ UNCHANGED <<source, phase, given, changed, visited, call, merged, used>>
  BY SkipItems
<1>2. phase[r] = "change" /\ agenda[r] \in Seq(Items)
  BY DEF Skip, Pass, Visit, BasicInv, TypeOK
<1>3. Range(agenda[r]) = {Head(agenda[r])} \cup Range(agenda'[r])
  BY <1>1, AgendaHead
<1>4. Once(agenda'[r])
  BY <1>1, <1>2, OnceTail DEF CallsKept
<1>5. \A s \in Sources : SourceAhead(r, s)' <=> SourceAhead(r, s)
  BY <1>1, <1>3 DEF SourceAhead
<1>6. CallsKept(r)'
  BY <1>1, <1>2, <1>4, <1>5 DEF CallsKept
<1>7. \A p : Reached(p)' = Reached(p) /\ Untangled(p)' = Untangled(p)
  BY <1>1, ReachedStays, UntangledStays
<1>8. \A q : Settled(r, q)' = Settled(r, q)
  BY <1>1, FillersStay DEF Settled, Done
<1>9. \A q, params : Right(r, q, params)' = Right(r, q, params)
  BY <1>1, <1>8 DEF Right, Final
<1>10. CoherentKept(r)'
  BY <1>1, <1>3, <1>7, <1>8, <1>9 DEF CoherentKept
<1>11. QED
  BY <1>6, <1>10

LEMMA EnrichCoherent ==
    ASSUME BasicInv, NEW r \in Requests, LoadKept(r), AskedKept(r), CallsKept(r),
           CoherentKept(r), NEW s \in Sources, NEW body \in Body, InTurn(r, s),
           call[r][s] # "idle", Enrich(r, s, body), phase[r] = "change",
           used' = used \/ \E e \in Entry : Uses(r, s, e)
    PROVE  CallsKept(r)' /\ CoherentKept(r)'
<1> DEFINE rest == Tail(agenda[r])
           goal == changed[r]
<1>1. PICK new, params, before :
         /\ new = Enrichments(s, body)
         /\ before = Head(agenda[r]).params
         /\ params = Filled(before, new)
  OBVIOUS
<1>2. /\ new \in Enriched /\ params \in Given
      /\ agenda[r] # <<>>
      /\ Head(agenda[r]).kind = "source" /\ Head(agenda[r]).of = s
      /\ agenda'[r] = Cascade(s, params) \o rest
      /\ Range(agenda'[r]) = Range(Cascade(s, params)) \cup Range(rest)
      /\ merged'[r] = Update(merged[r], new)
      /\ call'[r][s] = "idle"
      /\ \A t \in Sources : t # s => call'[r][t] = call[r][t]
      /\ UNCHANGED <<source, phase, given, changed, visited>>
  BY <1>1, EnrichItems
<1>3. /\ Range(agenda[r]) = {Head(agenda[r])} \cup Range(rest)
      /\ agenda[r] \in Seq(Items) /\ rest \in Seq(Items) /\ Range(agenda[r]) \subseteq Items
  BY <1>2, AgendaHead, AgendaTypes DEF BasicInv, TypeOK
<1>4. /\ goal \in Params /\ visited[r] \subseteq Reached(goal)
      /\ source[s].trigger \in visited[r] /\ Reached(goal) \subseteq Params
  <2>1. goal \in Params
    BY DEF LoadKept
  <2>2. QED
    BY <1>2, <1>3, <2>1, ReachedStarts DEF AskedKept
<1>5. /\ Once(Cascade(s, params)) /\ Cascade(s, params) \in Seq(Items)
      /\ \A item \in Range(Cascade(s, params)) :
            /\ item.params = params /\ item.kind # "source"
            /\ item.kind = "param" => \E i \in DOMAIN source[s].mapping :
                  source[s].mapping[i].fill /\ item.of = source[s].mapping[i].to
  BY <1>2, CascadeItems, CascadeTypes DEF BasicInv
<1>6. /\ Once(rest)
      /\ \A item \in Range(rest) : item.kind = "source" => item.of # s
  BY <1>2, <1>3, OnceTail DEF CallsKept
<1>7. Once(agenda'[r])
  <2>1. \A x \in Range(Cascade(s, params)), y \in Range(rest) :
           ~(x.kind = "source" /\ y.kind = "source" /\ x.of = y.of)
    BY <1>5
  <2> HIDE DEF rest
  <2>2. QED
    BY <1>2, <1>3, <1>5, <1>6, <2>1, OnceJoin
<1> HIDE DEF rest, goal
<1>8. \A t \in Sources : call'[r][t] # "idle" <=> SourceAhead(r, t)'
  <2> TAKE t \in Sources
  <2>1. SourceAhead(r, t)' <=> \E item \in Range(rest) : item.kind = "source" /\ item.of = t
    BY <1>2, <1>5 DEF SourceAhead
  <2>2. CASE t = s
    BY <1>2, <1>6, <2>1, <2>2
  <2>3. CASE t # s
    <3>1. SourceAhead(r, t)' <=> SourceAhead(r, t)
      BY <1>2, <1>3, <2>1, <2>3 DEF SourceAhead
    <3>2. QED
      BY <1>2, <2>3, <3>1 DEF CallsKept
  <2>4. QED
    BY <2>2, <2>3
<1>9. CallsKept(r)'
  BY <1>2, <1>7, <1>8 DEF CallsKept
<1>10. \A q \in Params :
          /\ new[q] # Missing => \E i \in DOMAIN source[s].mapping : source[s].mapping[i].to = q
          /\ merged'[r][q] = IF new[q] = Missing THEN merged[r][q] ELSE new[q]
          /\ params[q] = IF new[q] \in Values THEN new[q] ELSE before[q]
          /\ Missing \notin Values
  BY <1>1, <1>2, SourcesAssumption DEF Enrichments, Update, Filled, Content
<1>11. \A q \in Reached(goal) : new[q] # Missing => s \in Fillers(goal, q)
  BY <1>4, <1>10 DEF Fillers
<1>12. \A q \in Reached(goal) : s \in Fillers(goal, q) => ~Settled(r, q)
  BY DEF Settled, Done, goal
<1>13. \A q \in Reached(goal) :
          /\ Settled(r, q) => Settled(r, q)'
          /\ \A ps : Right(r, q, ps) => Right(r, q, ps)'
  <2>1. \A t \in Sources : Done(r, t) => Done(r, t)'
    BY <1>2 DEF Done
  <2>2. \A q \in Reached(goal) : Settled(r, q) => merged'[r][q] = merged[r][q]
    BY <1>4, <1>10, <1>11, <1>12
  <2>3. QED
    BY <1>2, <2>1, <2>2, RightStays DEF goal
<1>14. CoherentKept(r)'
  <2> SUFFICES ASSUME Untangled(goal)
               PROVE  /\ \A q \in Reached(goal) : ~Settled(r, q)' =>
                            /\ merged'[r][q] = Missing
                            /\ \A item \in Range(agenda'[r]) : item.params[q] = given'[r][q]
                      /\ \A item \in Range(agenda'[r]) :
                            /\ item.kind = "param" => Right(r, item.of, item.params)'
                            /\ item.kind = "source" =>
                                  Right(r, source[item.of].trigger, item.params)'
                      /\ \A t \in Sources : used'[r][t] # Missing =>
                            /\ source[t].trigger \in visited'[r]
                            /\ Right(r, source[t].trigger, used[r][t].params)'
    <3>1. Reached(goal)' = Reached(goal) /\ Untangled(goal)' = Untangled(goal) /\ goal' = goal
      BY <1>2, ReachedStays, UntangledStays DEF goal
    <3>2. QED
      BY <1>2, <3>1 DEF CoherentKept, goal
  <2>1. /\ \A q \in Reached(goal) : ~Settled(r, q) =>
              /\ merged[r][q] = Missing
              /\ \A item \in Range(agenda[r]) : item.params[q] = given[r][q]
        /\ \A item \in Range(agenda[r]) :
              /\ item.kind = "param" => Right(r, item.of, item.params)
              /\ item.kind = "source" => Right(r, source[item.of].trigger, item.params)
        /\ \A t \in Sources : used[r][t] # Missing =>
              /\ source[t].trigger \in visited[r]
              /\ Right(r, source[t].trigger, used[r][t].params)
    BY <1>4 DEF CoherentKept, goal
  <2>2. \A q \in Reached(goal) : s \in Fillers(goal, q) => Settled(r, q)'
    <3>1. \A q \in Reached(goal) : s \in Fillers(goal, q) => Fillers(goal, q) = {s}
      BY OneFiller
    <3>2. Done(r, s)'
      BY <1>2, <1>4 DEF Done
    <3>3. \A q : Fillers(changed[r], q)' = Fillers(goal, q)
      BY <1>2, FillersStay DEF goal
    <3>4. QED
      BY <3>1, <3>2, <3>3 DEF Settled
  <2>3. ASSUME NEW q \in Reached(goal), ~Settled(r, q)'
        PROVE  /\ merged'[r][q] = Missing
               /\ \A item \in Range(agenda'[r]) : item.params[q] = given'[r][q]
    <3>1. /\ merged[r][q] = Missing /\ before[q] = given[r][q]
          /\ \A item \in Range(rest) : item.params[q] = given[r][q]
      BY <1>1, <1>3, <1>13, <2>1, <2>3
    <3>2. new[q] = Missing
      BY <1>11, <2>2, <2>3
    <3>3. merged'[r][q] = Missing /\ params[q] = given[r][q]
      BY <1>4, <1>10, <3>1, <3>2
    <3>4. QED
      BY <1>2, <1>5, <3>1, <3>3
  <2>4. ASSUME NEW item \in Range(agenda'[r])
        PROVE  /\ item.kind = "param" => Right(r, item.of, item.params)'
               /\ item.kind = "source" => Right(r, source[item.of].trigger, item.params)'
    <3>1. CASE item \in Range(Cascade(s, params))
      <4> SUFFICES ASSUME item.kind = "param" PROVE Right(r, item.of, item.params)'
        BY <1>5, <3>1
      <4>1. PICK i \in DOMAIN source[s].mapping :
               source[s].mapping[i].fill /\ item.of = source[s].mapping[i].to
        BY <1>5, <3>1
      <4>2. item.of \in Reached(goal) /\ s \in Fillers(goal, item.of)
        BY <1>4, <4>1, ReachedGoesOn DEF BasicInv, Fillers
      <4>3. Settled(r, item.of)'
        BY <2>2, <4>2
      <4>4. merged[r][item.of] = Missing /\ before[item.of] = given[r][item.of]
        BY <1>1, <1>3, <1>12, <2>1, <4>2
      <4>5. params[item.of] = Final(r, item.of)'
        BY <1>2, <1>4, <1>10, <4>2, <4>4 DEF Final
      <4>6. QED
        BY <1>5, <3>1, <4>3, <4>5 DEF Right
    <3>2. CASE item \in Range(rest)
      <4>1. item \in Range(agenda[r])
        BY <1>3, <3>2
      <4>2. /\ item.kind = "param" => item.of \in Reached(goal)
            /\ item.kind = "source" => source[item.of].trigger \in Reached(goal)
        BY <1>4, <4>1 DEF AskedKept, goal
      <4>3. QED
        BY <1>2, <1>13, <2>1, <4>1, <4>2
    <3>3. QED
      BY <1>2, <3>1, <3>2
  <2>5. ASSUME NEW t \in Sources, used'[r][t] # Missing
        PROVE  /\ source[t].trigger \in visited'[r]
               /\ Right(r, source[t].trigger, used[r][t].params)'
    <3>1. CASE used'[r][t] = used[r][t]
      <4>1. source[t].trigger \in visited[r] /\ Right(r, source[t].trigger, used[r][t].params)
        BY <2>1, <2>5, <3>1
      <4>2. QED
        BY <1>2, <1>4, <1>13, <3>1, <4>1
    <3>2. CASE used'[r][t] # used[r][t]
      <4>1. t = s /\ used'[r][t].params = With(r, s)
        BY <3>2 DEF Uses, BasicInv, TypeOK
      <4>2. used'[r][t].params = before
        BY <1>1, <4>1 DEF With
      <4>3. Right(r, source[s].trigger, before)
        BY <1>1, <1>2, <1>3, <2>1
      <4>4. QED
        BY <1>2, <1>4, <1>13, <4>1, <4>2, <4>3
    <3>3. QED
      BY <3>1, <3>2
  <2>6. QED
    BY <2>3, <2>4, <2>5
<1>15. QED
  BY <1>9, <1>14

LEMMA StepCoherent ==
    ASSUME BasicInv, NEW r \in Requests, LoadKept(r), AskedKept(r), CallsKept(r),
           CoherentKept(r),
           \/ Load(r) \/ Step(r)
           \/ \E p \in Params, v \in Values : Change(r, p, v)
    PROVE  CallsKept(r)' /\ CoherentKept(r)'
<1>1. CASE Load(r)
  <2>1. phase[r] = "idle" /\ phase'[r] = "load" /\ changed' = changed
    BY <1>1 DEF Load, BasicInv, TypeOK
  <2>2. changed[r] \notin Params
    BY <2>1 DEF LoadKept
  <2>3. QED
    BY <2>1, <2>2 DEF CallsKept, CoherentKept
<1>2. ASSUME NEW p \in Params, NEW v \in Values, Change(r, p, v)
      PROVE  CallsKept(r)' /\ CoherentKept(r)'
  <2>1. /\ phase[r] = "idle" /\ phase'[r] = "change" /\ changed'[r] = p
        /\ agenda'[r] = <<Item("param", p, given'[r])>>
        /\ UNCHANGED <<source, visited, call, merged, used>>
    BY <1>2 DEF Change, BasicInv, TypeOK
  <2>2. /\ \A q \in Params : merged'[r][q] = Missing
        /\ \A s \in Sources : call'[r][s] = "idle" /\ used'[r][s] = Missing
    BY <2>1 DEF LoadKept, CallsKept, Nothing, BasicInv, TurnIsKept
  <2>3. /\ Range(agenda'[r]) = {Item("param", p, given'[r])}
        /\ DOMAIN agenda'[r] = {1}
    BY <2>1 DEF Range
  <2>4. \A item \in Range(agenda'[r]) :
           item.kind = "param" /\ item.of = p /\ item.params = given'[r]
    BY <2>3 DEF Item
  <2>5. Once(agenda'[r])
    BY <2>3 DEF Once
  <2>6. CallsKept(r)'
    BY <2>1, <2>2, <2>4, <2>5 DEF CallsKept, SourceAhead
  <2>7. p \in Reached(p)' /\ Reached(p)' \subseteq Params
    BY <2>1, ReachedStarts, ReachedStays
  <2>8. Untangled(p)' => Settled(r, p)'
    <3>1. Untangled(p) => Fillers(p, p) = {}
      BY ReachedStarts, OneFiller
    <3>2. Untangled(p)' = Untangled(p) /\ Fillers(changed[r], p)' = Fillers(p, p)
      BY <2>1, UntangledStays, FillersStay
    <3>3. QED
      BY <3>1, <3>2 DEF Settled
  <2>9. Missing \notin Values
    BY SourcesAssumption DEF Content
  <2>10. Final(r, p)' = given'[r][p]
    BY <2>2, <2>9 DEF Final
  <2>11. CoherentKept(r)'
    BY <2>1, <2>2, <2>4, <2>7, <2>8, <2>10 DEF CoherentKept, Right
  <2>12. QED
    BY <2>6, <2>11
<1>3. CASE Visit(r) /\ Head(agenda[r]).of \notin visited[r]
  BY <1>3, VisitCoherent
<1>4. CASE Skip(r)
  BY <1>4, SkipCoherent
<1>5. CASE AnswerLoad(r)
  <2>1. phase[r] = "load" /\ phase'[r] = "answered" /\ changed' = changed
    BY <1>5 DEF AnswerLoad, BasicInv, TypeOK
  <2>2. changed[r] \notin Params
    BY <2>1 DEF LoadKept
  <2>3. QED
    BY <2>1, <2>2 DEF CallsKept, CoherentKept
<1>6. CASE AnswerChange(r)
  <2>1. /\ phase[r] = "change" /\ phase'[r] = "answered" /\ agenda[r] = <<>>
        /\ UNCHANGED <<source, given, changed, visited, agenda, call, merged, used>>
    BY <1>6 DEF AnswerChange, BasicInv, TypeOK
  <2>2. Range(agenda[r]) = {}
    BY <2>1 DEF Range
  <2>3. \A s \in Sources : call'[r][s] = "idle"
    BY <2>1, <2>2 DEF CallsKept, SourceAhead
  <2>4. CallsKept(r)'
    BY <2>1, <2>3 DEF CallsKept
  <2>5. \A p : Reached(p)' = Reached(p) /\ Untangled(p)' = Untangled(p)
    BY <2>1, ReachedStays, UntangledStays
  <2>6. \A q : Settled(r, q)' = Settled(r, q)
    BY <2>1, FillersStay DEF Settled, Done
  <2>7. \A q, params : Right(r, q, params)' = Right(r, q, params)
    BY <2>1, <2>6 DEF Right, Final
  <2>8. CoherentKept(r)'
    BY <2>1, <2>5, <2>6, <2>7 DEF CoherentKept
  <2>9. QED
    BY <2>4, <2>8
<1>7. ASSUME NEW s \in Sources,
             \/ CacheHit(r, s) \/ Warn(r, s)
             \/ \E body \in Bodies : Answered(r, s, body)
      PROVE  CallsKept(r)' /\ CoherentKept(r)'
  <2>1. call[r][s] # "idle" /\ InTurn(r, s)
    BY <1>7, FetchEnds
  <2>2. PICK body \in Body : /\ Enrich(r, s, body)
                             /\ used' = used \/ \E e \in Entry : Uses(r, s, e)
    BY <1>7, FetchEnds
  <2>3. CASE phase[r] = "change"
    BY <2>1, <2>2, <2>3, EnrichCoherent
  <2>4. CASE phase[r] # "change"
    <3>1. phase[r] # "idle" /\ changed[r] \notin Params
      BY <2>1, <2>4 DEF CallsKept, BasicInv, TurnIsKept
    <3>2. UNCHANGED <<phase, changed>>
      BY <2>2 DEF Enrich
    <3>3. QED
      BY <2>4, <3>1, <3>2 DEF CallsKept, CoherentKept
  <2>5. QED
    BY <2>3, <2>4
<1>8. ASSUME NEW s \in Sources, CacheMiss(r, s) \/ SecretFound(r, s)
      PROVE  CallsKept(r)' /\ CoherentKept(r)'
  <2>1. /\ call[r][s] # "idle"
        /\ UNCHANGED <<source, phase, given, changed, visited, agenda, merged, used>>
    BY <1>8 DEF CacheMiss, SecretFound
  <2>2. /\ call'[r][s] # "idle"
        /\ \A t \in Sources : t # s => call'[r][t] = call[r][t]
    BY <1>8 DEF CacheMiss, SecretFound, BasicInv, TypeOK
  <2>3. \A t \in Sources : call'[r][t] = "idle" <=> call[r][t] = "idle"
    BY <2>1, <2>2
  <2>4. \A t : SourceAhead(r, t)' = SourceAhead(r, t)
    BY <2>1 DEF SourceAhead
  <2>5. CallsKept(r)'
    BY <2>1, <2>3, <2>4 DEF CallsKept, Once
  <2>6. \A p : Reached(p)' = Reached(p) /\ Untangled(p)' = Untangled(p)
    BY <2>1, ReachedStays, UntangledStays
  <2>7. \A q : Settled(r, q)' <=> Settled(r, q)
    <3>1. \A q : Fillers(changed[r], q)' = Fillers(changed[r], q)
      BY <2>1, FillersStay
    <3>2. \A t \in Sources : Done(r, t)' <=> Done(r, t)
      BY <2>1, <2>3 DEF Done
    <3>3. \A q : Fillers(changed[r], q) \subseteq Sources
      BY DEF Fillers
    <3>4. QED
      BY <3>1, <3>2, <3>3 DEF Settled
  <2>8. \A q, params : Right(r, q, params)' <=> Right(r, q, params)
    BY <2>1, <2>7 DEF Right, Final
  <2>9. CoherentKept(r)'
    BY <2>1, <2>6, <2>7, <2>8 DEF CoherentKept
  <2>10. QED
    BY <2>5, <2>9
<1>9. ASSUME NEW s \in Sources, Raise(r, s) PROVE CallsKept(r)' /\ CoherentKept(r)'
  <2>1. /\ call[r][s] # "idle" /\ phase[r] # "idle" /\ changed' = changed
        /\ phase'[r] = CASE phase[r] = "load" -> "answered"
                         [] phase[r] = "change" -> "refused"
                         [] OTHER -> phase[r]
        /\ phase[r] = "change" => \A t \in Sources : call'[r][t] = "idle"
    BY <1>9 DEF Raise, BasicInv, TurnIsKept, TypeOK
  <2>2. changed[r] \notin Params \/ phase[r] = "change"
    BY <2>1 DEF CallsKept
  <2>3. CASE changed[r] \notin Params
    <3>1. phase'[r] \notin {"idle", "change"}
      BY <2>1
    <3>2. QED
      BY <2>1, <2>3, <3>1 DEF CallsKept, CoherentKept
  <2>4. CASE phase[r] = "change"
    BY <2>1, <2>4 DEF CallsKept, CoherentKept
  <2>5. QED
    BY <2>2, <2>3, <2>4
<1>10. QED
  BY <1>1, <1>2, <1>3, <1>4, <1>5, <1>6, <1>7, <1>8, <1>9 DEF Step, Fetch, Skip

LEMMA AlwaysCoherent == Spec => [](\A r \in Requests : CallsKept(r) /\ CoherentKept(r))
<1> DEFINE Loads == \A r \in Requests : LoadKept(r)
           Askeds == \A r \in Requests : AskedKept(r)
           Kept == \A r \in Requests : CallsKept(r) /\ CoherentKept(r)
<1>1. Init => Kept
  BY SourcesAssumption DEF Init, CallsKept, CoherentKept
<1>2. BasicInv /\ Loads /\ Askeds /\ Kept /\ [Next]_vars => Kept'
  <2> SUFFICES ASSUME BasicInv, Loads, Askeds, Kept, [Next]_vars, NEW r \in Requests
               PROVE  CallsKept(r)' /\ CoherentKept(r)'
    OBVIOUS
  <2>1. ASSUME NEW q \in Requests,
               \/ Load(q) \/ Step(q)
               \/ \E p \in Params, v \in Values : Change(q, p, v)
        PROVE  CallsKept(r)' /\ CoherentKept(r)'
    <3>1. CASE q = r
      BY <2>1, <3>1, StepCoherent
    <3>2. CASE q # r
      <4>1. /\ source' = source
            /\ phase'[r] = phase[r] /\ changed'[r] = changed[r]
            /\ visited'[r] = visited[r] /\ agenda'[r] = agenda[r]
            /\ call'[r] = call[r] /\ merged'[r] = merged[r]
            /\ given'[r] = given[r] /\ used'[r] = used[r]
        BY <2>1, <3>2, OneRequest
      <4>2. QED
        BY <4>1, CoherentOfOthers
    <3>3. QED
      BY <3>1, <3>2
  <2>2. CASE Tick \/ UNCHANGED vars
    <3>1. UNCHANGED <<source, phase, given, changed, visited, agenda, call, merged, used>>
      BY <2>2 DEF Tick, vars
    <3>2. QED
      BY <3>1, CoherentOfOthers
  <2>3. QED
    BY <2>1, <2>2 DEF Next
<1>3. Spec => []Loads /\ []Askeds
  BY LoadsKept, AlwaysAsked
<1> HIDE DEF Loads, Askeds, Kept
<1>4. Spec => []Kept
  BY <1>1, <1>2, <1>3, Basics, PTL DEF Spec
<1>5. QED
  BY <1>4 DEF Kept

\* Where no two sources meet in one parameter, each source a change has asked
\* was asked with the value its trigger has in the answer, in whatever order
\* the loops of resolve_on_change reached it.
THEOREM CascadeCoherent == Spec => []CascadeIsCoherent
<1>1. (\A r \in Requests : CallsKept(r) /\ CoherentKept(r)) => CascadeIsCoherent
  BY DEF CoherentKept, CascadeIsCoherent, Replied, Right, Final
<1>2. QED
  BY <1>1, AlwaysCoherent, PTL
=============================================================================
