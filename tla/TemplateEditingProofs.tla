----------------------- MODULE TemplateEditingProofs -----------------------
(* Theorems about TemplateEditing for any sources, visits and edits, about  *)
(* RenderForm for any definition, mappings and bounds, and about            *)
(* ParameterStudio for any parameters, options and import file.             *)
EXTENDS TemplateEditing, FormState, StudioState, FiniteSetTheorems, SequenceTheorems, TLAPS

(* Shapes *)

LEMMA DraftTyped == ASSUME NEW d \in Draft PROVE d.text \in Texts /\ d.sources \in SUBSET Sources
  BY DEF Draft

LEMMA TextPut ==
    ASSUME NEW d \in Draft, NEW p \in Parts, NEW n \in 0..MaxStamp
    PROVE  /\ [d EXCEPT !.text[p] = n] \in Draft
           /\ [d EXCEPT !.text[p] = n].sources = d.sources
  BY DEF Draft, Texts

LEMMA SourcesPut ==
    ASSUME NEW d \in Draft, NEW S \in SUBSET Sources
    PROVE  /\ [d EXCEPT !.sources = S] \in Draft
           /\ [d EXCEPT !.sources = S].sources = S
           /\ [d EXCEPT !.sources = S].text = d.text
  BY DEF Draft

LEMMA Nothing == NoText \in Texts /\ Blank \in Draft /\ IdleAI \in Assistant
  BY Bounds DEF NoText, Texts, Blank, Draft, IdleAI, Assistant

LEMMA InitTyped == Init => TypeOK
<1> SUFFICES ASSUME Init PROVE TypeOK
  OBVIOUS
<1>1. file \in [text : Texts, sources : SUBSET Sources]
  BY Nothing DEF Init
<1>2. mount \in 0..MaxOpens /\ stamp \in 0..MaxStamp
  BY Bounds DEF Init
<1>3. /\ cached \in [known : SUBSET {"text", "sources"}, text : Texts, sources : SUBSET Sources]
      /\ fetch \in [state : {None, "asked", "read"}, sources : SUBSET Sources]
  BY Nothing DEF Init, None
<1>4. dirty \in BOOLEAN
  BY DEF Init
<1>5. QED
  BY <1>1, <1>2, <1>3, <1>4, Nothing DEF Init, TypeOK

LEMMA MountsTyped ==
    ASSUME TypeOK, NEW text \in Texts, Mounts(text)
    PROVE  /\ draft' \in Draft /\ held' \in Draft /\ owed' \in SUBSET Sources /\ page' = "open"
           /\ fetch' \in [state : {None, "asked", "read"}, sources : SUBSET Sources]
<1>1. cached.sources \in SUBSET Sources
  BY DEF TypeOK
<1>2. draft' \in Draft
  BY <1>1 DEF Mounts, Draft
<1>3. QED
  BY <1>1, <1>2 DEF Mounts, TypeOK

LEMMA PageTyped ==
    ASSUME TypeOK, Open \/ LoadPage \/ Leave \/ Collect \/ Refetch
                   \/ \E S \in SUBSET Sources : Elsewhere(S)
    PROVE  TypeOK'
<1>1. CASE Open
  <2>1. mount' \in 0..MaxOpens
    BY <1>1, Bounds DEF Open, TypeOK
  <2>2. CASE "text" \in cached.known
    <3>1. Mounts(cached.text) /\ cached.text \in Texts
      BY <1>1, <2>2 DEF Open, TypeOK
    <3>2. QED
      BY <1>1, <2>1, <3>1, MountsTyped DEF Open, TypeOK
  <2>3. CASE "text" \notin cached.known
    BY <1>1, <2>1, <2>3 DEF Open, TypeOK
  <2>4. QED
    BY <2>2, <2>3
<1>2. CASE LoadPage
  <2>1. file.text \in Texts
    BY DEF TypeOK
  <2>2. cached' \in [known : SUBSET {"text", "sources"}, text : Texts, sources : SUBSET Sources]
    BY <1>2, <2>1 DEF LoadPage, TypeOK
  <2>3. QED
    BY <1>2, <2>1, <2>2, MountsTyped DEF LoadPage, TypeOK
<1>3. CASE Leave
  BY <1>3, Nothing DEF Leave, TypeOK, server
<1>4. CASE Collect
  BY <1>4, Nothing DEF Collect, TypeOK, ghosts
<1>5. CASE Refetch
  <2>1. cached' \in [known : SUBSET {"text", "sources"}, text : Texts, sources : SUBSET Sources]
    BY <1>5 DEF Refetch, TypeOK
  <2>2. QED
    BY <1>5, <2>1 DEF Refetch, TypeOK, ghosts
<1>6. CASE \E S \in SUBSET Sources : Elsewhere(S)
  <2>1. file' \in [text : Texts, sources : SUBSET Sources]
    BY <1>6 DEF Elsewhere, TypeOK
  <2>2. QED
    BY <1>6, <2>1 DEF Elsewhere, TypeOK, ghosts
<1>7. QED
  BY <1>1, <1>2, <1>3, <1>4, <1>5, <1>6

LEMMA FetchTyped ==
    ASSUME TypeOK, SourcesAsk \/ SourcesRead \/ SourcesLand \/ SourcesFail
    PROVE  TypeOK'
<1>1. CASE SourcesAsk \/ SourcesRead \/ SourcesFail
  <2>1. fetch' \in [state : {None, "asked", "read"}, sources : SUBSET Sources]
    BY <1>1 DEF SourcesAsk, SourcesRead, SourcesFail, TypeOK
  <2>2. QED
    BY <1>1, <2>1 DEF SourcesAsk, SourcesRead, SourcesFail, TypeOK, ghosts
<1>2. CASE SourcesLand
  <2>1. fetch.sources \in SUBSET Sources
    BY DEF TypeOK
  <2>2. cached' \in [known : SUBSET {"text", "sources"}, text : Texts, sources : SUBSET Sources]
    BY <1>2, <2>1 DEF SourcesLand, TypeOK
  <2>3. fetch' \in [state : {None, "asked", "read"}, sources : SUBSET Sources]
    BY <1>2 DEF SourcesLand
  <2>4. CASE Fills(fetch.sources)
    <3>1. draft' = [draft EXCEPT !.sources = fetch.sources] /\ draft' \in Draft
      BY <1>2, <2>1, <2>4, SourcesPut DEF SourcesLand, TypeOK
    <3>2. draft'.sources = fetch.sources
      BY <3>1, <2>1, SourcesPut DEF TypeOK
    <3>3. held' \in Draft
      BY <1>2, <2>1, <2>4, <3>2, SourcesPut DEF SourcesLand, TypeOK
    <3>4. slips' \subseteq {"before", "during"}
      BY <1>2, <2>4 DEF SourcesLand, Slip, TypeOK
    <3>5. QED
      BY <1>2, <2>1, <2>2, <2>3, <2>4, <3>1, <3>3, <3>4 DEF SourcesLand, TypeOK
  <2>5. CASE ~ Fills(fetch.sources)
    BY <1>2, <2>2, <2>3, <2>5 DEF SourcesLand, TypeOK, ghosts
  <2>6. QED
    BY <2>4, <2>5
<1>3. QED
  BY <1>1, <1>2

LEMMA ChangeTyped ==
    ASSUME TypeOK, NEW p \in Parts, Change(p), MarkDirty, modal' \in {None, modal}
    PROVE  TypeOK'
<1>1. stamp' \in 0..MaxStamp
  BY Bounds DEF Change, TypeOK
<1>2. draft' \in Draft
  BY <1>1, TextPut DEF Change, TypeOK
<1>3. slips' \subseteq {"before", "during"}
  BY DEF MarkDirty, Slip, TypeOK
<1>4. QED
  BY <1>1, <1>2, <1>3 DEF Change, MarkDirty, TypeOK, server

LEMMA PutTyped ==
    ASSUME TypeOK, NEW S \in SUBSET Sources, PutSources(S)
    PROVE  TypeOK'
<1>1. draft' \in Draft
  BY SourcesPut DEF PutSources, TypeOK
<1>2. slips' \subseteq {"before", "during"}
  BY DEF PutSources, MarkDirty, Slip, TypeOK
<1>3. QED
  BY <1>1, <1>2 DEF PutSources, MarkDirty, TypeOK, server

\* Every change of the body or of the metadata marks the page.
Marks(p) == Change(p) /\ MarkDirty /\ modal' \in {None, modal}

LEMMA EditsMark ==
    ASSUME EditBody \/ InsertSnippet \/ EditMetadata \/ EditParent \/ AssignParam
           \/ InsertInclude \/ InsertMacro
    PROVE  \E p \in Parts : Marks(p)
  BY DEF EditBody, InsertSnippet, EditMetadata, EditParent, AssignParam, InsertInclude,
         InsertMacro, InsertAtCursor, Marks, Parts, Editable

\* Every change of the sources is a list the page takes over.
LEMMA SourcesArePut ==
    ASSUME TypeOK,
           \/ \E t \in Sources : AddSource(t)
           \/ \E s \in draft.sources, t \in Sources : UpdateSource(s, t)
           \/ \E s \in draft.sources : RemoveSource(s)
    PROVE  \E S \in SUBSET Sources : PutSources(S)
<1>1. draft.sources \in SUBSET Sources
  BY DraftTyped DEF TypeOK
<1>2. QED
  BY <1>1 DEF AddSource, UpdateSource, RemoveSource

\* What the steps of the assistant leave alone.
Aside ==
    UNCHANGED <<server, page, mount, draft, dirty, saves, stamp, ghosts>>

LEMMA AssistantTyped ==
    ASSUME TypeOK,
           \/ \E k \in {"include", "macro"} : OpenPanel(k)
           \/ ClosePanel \/ OpenAI \/ Generate \/ CloseAI
           \/ \E s \in ai.streams : \/ Chunk(s) \/ Stop(s)
                                    \/ \E status \in {"done", "error"} : StreamEnds(s, status)
    PROVE  TypeOK' /\ Aside
<1>1. Aside
  BY DEF OpenPanel, ClosePanel, OpenAI, Generate, CloseAI, Chunk, Stop, StreamEnds, Assist, Aside,
         ghosts, server
<1>2. modal' \in {None, "ai", "include", "macro"}
  BY DEF TypeOK, OpenPanel, ClosePanel, OpenAI, Generate, CloseAI, Chunk, Stop, StreamEnds, Assist
<1>3. ai' \in Assistant
  <2>1. CASE Generate
    <3> DEFINE n == ai.runs + 1
               new == [run |-> n, aborted |-> FALSE]
    <3>1. n \in 1..MaxRuns /\ n \in 0..MaxRuns
      BY <2>1, Bounds DEF Generate, TypeOK, Assistant
    <3>2. ai' = [status |-> "streaming", output |-> {}, runs |-> n, streams |-> ai.streams \cup {new}]
      BY <2>1 DEF Generate, Assist
    <3> HIDE DEF n
    <3>3. new \in [run : 1..MaxRuns, aborted : BOOLEAN]
      BY <3>1
    <3> HIDE DEF new
    <3>4. ai.streams \in SUBSET [run : 1..MaxRuns, aborted : BOOLEAN]
      BY DEF TypeOK, Assistant
    <3>5. QED
      BY <3>1, <3>2, <3>3, <3>4 DEF Assistant
  <2>2. CASE \E s \in ai.streams : \/ Chunk(s) \/ Stop(s)
                                   \/ \E status \in {"done", "error"} : StreamEnds(s, status)
    <3>1. PICK s \in ai.streams : \/ Chunk(s) \/ Stop(s)
                                  \/ \E status \in {"done", "error"} : StreamEnds(s, status)
      BY <2>2
    <3>2. s \in [run : 1..MaxRuns, aborted : BOOLEAN]
      BY DEF TypeOK, Assistant
    <3>3. CASE Chunk(s)
      BY <3>2, <3>3 DEF Chunk, Assist, TypeOK, Assistant
    <3>4. CASE Stop(s)
      <4>1. [s EXCEPT !.aborted = TRUE] \in [run : 1..MaxRuns, aborted : BOOLEAN]
        BY <3>2
      <4>2. QED
        BY <3>4, <4>1 DEF Stop, Assist, TypeOK, Assistant
    <3>5. CASE \E status \in {"done", "error"} : StreamEnds(s, status)
      <4>1. PICK status \in {"done", "error"} : StreamEnds(s, status)
        BY <3>5
      <4>2. ai' = [ai EXCEPT !.status = status, !.streams = @ \ {s}]
        BY <4>1 DEF StreamEnds, Assist
      <4>3. QED
        BY <4>2 DEF TypeOK, Assistant
    <3>6. QED
      BY <3>1, <3>3, <3>4, <3>5
  <2>3. CASE ai' = ai \/ ai' = IdleAI
    BY <2>3, Nothing DEF TypeOK
  <2>4. QED
    BY <2>1, <2>2, <2>3 DEF OpenPanel, ClosePanel, OpenAI, CloseAI
<1>4. QED
  BY <1>1, <1>2, <1>3 DEF Aside, TypeOK, server, ghosts

LEMMA AcceptTyped ==
    ASSUME TypeOK, NEW mode, Accept(mode)
    PROVE  TypeOK'
<1>1. stamp' \in 0..MaxStamp
  BY Bounds DEF Accept, TypeOK
<1>2. draft' \in Draft
  BY <1>1, TextPut DEF Accept, TypeOK, Parts
<1>3. slips' \subseteq {"before", "during"} /\ dirty' \in BOOLEAN
  BY DEF Accept, MarkDirty, Slip, TypeOK
<1>4. QED
  BY <1>1, <1>2, <1>3, Nothing DEF Accept, TypeOK, server

LEMMA SaveTyped ==
    ASSUME TypeOK, Submit \/ \E s \in saves : SaveOk(s) \/ SaveFails(s)
    PROVE  TypeOK'
<1>1. CASE Submit
  <2>1. draft.text \in Texts /\ draft.sources \in SUBSET Sources
    BY DraftTyped DEF TypeOK
  <2>2. mount \in 1..MaxOpens
    BY <1>1, Bounds DEF Submit, Editable, TypeOK
  <2>3. [text |-> draft.text, sources |-> WrittenSources, owed |-> owed, mount |-> mount] \in Save
    BY <2>1, <2>2 DEF TypeOK, Save, WrittenSources
  <2>4. QED
    BY <1>1, <2>3 DEF Submit, TypeOK, server
<1>2. CASE \E s \in saves : SaveOk(s) \/ SaveFails(s)
  <2>1. PICK s \in saves : SaveOk(s) \/ SaveFails(s)
    BY <1>2
  <2>2. s.text \in Texts /\ s.sources \in SUBSET Sources
    BY DEF TypeOK, Save
  <2>3. ASSUME Write(s) PROVE file' \in [text : Texts, sources : SUBSET Sources]
    <3>1. [p \in Parts |-> IF p \in Applied THEN s.text[p] ELSE file.text[p]] \in Texts
      BY <2>2 DEF TypeOK, Texts
    <3>2. QED
      BY <2>2, <2>3, <3>1 DEF Write
  <2>4. CASE SaveOk(s)
    <3>1. file' \in [text : Texts, sources : SUBSET Sources]
      BY <2>3, <2>4 DEF SaveOk
    <3>2. fetch' \in [state : {None, "asked", "read"}, sources : SUBSET Sources]
      BY <2>4 DEF SaveOk, Invalidate, TypeOK
    <3>3. held' \in Draft /\ slips' \subseteq {"before", "during"}
      <4>1. [text |-> s.text, sources |-> s.sources] \in Draft
        BY <2>2 DEF Draft
      <4>2. CASE s.mount = mount /\ page = "open"
        BY <2>4, <4>1, <4>2 DEF SaveOk, TypeOK
      <4>3. CASE ~ (s.mount = mount /\ page = "open")
        BY <2>4, <4>3 DEF SaveOk, TypeOK
      <4>4. QED
        BY <4>2, <4>3
    <3>4. dirty' \in BOOLEAN
      BY <2>4 DEF SaveOk, TypeOK
    <3>5. QED
      BY <2>4, <3>1, <3>2, <3>3, <3>4 DEF SaveOk, TypeOK
  <2>5. CASE SaveFails(s)
    <3>1. file' \in [text : Texts, sources : SUBSET Sources]
      BY <2>3, <2>5 DEF SaveFails, TypeOK
    <3>2. QED
      BY <2>5, <3>1 DEF SaveFails, TypeOK, ghosts
  <2>6. QED
    BY <2>1, <2>4, <2>5
<1>3. QED
  BY <1>1, <1>2

LEMMA NextTyped == TypeOK /\ [Next]_vars => TypeOK'
<1> SUFFICES ASSUME TypeOK, [Next]_vars PROVE TypeOK'
  OBVIOUS
<1>1. CASE UNCHANGED vars
  BY <1>1 DEF vars, server, ghosts, TypeOK
<1>2. CASE Next
  BY <1>2, PageTyped, FetchTyped, EditsMark, ChangeTyped, SourcesArePut, PutTyped, AssistantTyped,
     AcceptTyped, SaveTyped DEF Next, Marks
<1>3. QED
  BY <1>1, <1>2

\* Every variable of the editor keeps its shape (TypeOK).
THEOREM TypeCorrect == Spec => []TypeOK
  BY InitTyped, NextTyped, PTL DEF Spec
-----------------------------------------------------------------------------
(* Sources outlive every save                                               *)

\* A visit still has what it was given and did not remove; so has each save.
OwedInv ==
    /\ owed \subseteq draft.sources
    /\ \A s \in saves : s.owed \subseteq s.sources

LEMMA OwedKept ==
    ASSUME TypeOK, OwedInv, [Next]_vars
    PROVE  OwedInv'
<1> USE DEF OwedInv
<1>1. ASSUME draft'.sources = draft.sources, owed' = owed, saves' \subseteq saves PROVE OwedInv'
  BY <1>1
<1>2. ASSUME NEW text, Mounts(text), saves' = saves PROVE OwedInv'
  BY <1>2 DEF Mounts
<1>3. CASE Open \/ LoadPage
  <2>1. CASE \E text : Mounts(text)
    BY <1>2, <1>3, <2>1 DEF Open, LoadPage
  <2>2. CASE UNCHANGED <<fetch, draft, held, owed>>
    BY <1>1, <1>3, <2>2 DEF Open, LoadPage
  <2>3. QED
    BY <1>3, <2>1, <2>2 DEF Open, LoadPage
<1>4. CASE Leave
  BY <1>4 DEF Leave, Blank
<1>5. CASE SourcesLand
  <2>1. CASE Fills(fetch.sources)
    <3>1. fetch.sources \in SUBSET Sources
      BY DEF TypeOK
    <3>2. /\ draft' = [draft EXCEPT !.sources = fetch.sources]
          /\ owed' = fetch.sources /\ saves' = saves
      BY <1>5, <2>1 DEF SourcesLand
    <3>3. draft'.sources = fetch.sources
      BY <3>1, <3>2, SourcesPut DEF TypeOK
    <3>4. QED
      BY <3>2, <3>3
  <2>2. CASE ~ Fills(fetch.sources)
    BY <1>1, <1>5, <2>2 DEF SourcesLand, ghosts
  <2>3. QED
    BY <2>1, <2>2
<1>6. CASE EditBody \/ InsertSnippet \/ EditMetadata \/ EditParent \/ AssignParam
           \/ InsertInclude \/ InsertMacro
  <2>1. PICK p \in Parts : Change(p)
    BY <1>6, EditsMark DEF Marks
  <2>2. stamp' \in 0..MaxStamp
    BY <2>1, Bounds DEF Change, TypeOK
  <2>3. draft'.sources = draft.sources
    BY <2>1, <2>2, TextPut DEF Change, TypeOK
  <2>4. QED
    BY <1>1, <2>1, <2>3 DEF Change
<1>7. CASE \/ \E t \in Sources : AddSource(t)
           \/ \E s \in draft.sources, t \in Sources : UpdateSource(s, t)
           \/ \E s \in draft.sources : RemoveSource(s)
  <2>1. PICK S \in SUBSET Sources : PutSources(S)
    BY <1>7, SourcesArePut
  <2>2. draft'.sources = S
    BY <2>1, SourcesPut DEF PutSources, TypeOK
  <2>3. owed' \subseteq S /\ saves' = saves
    BY <2>1 DEF PutSources
  <2>4. QED
    BY <2>2, <2>3
<1>8. CASE \E mode \in {"cursor", "replace", "append"} : Accept(mode)
  <2>1. stamp' \in 0..MaxStamp
    BY <1>8, Bounds DEF Accept, TypeOK
  <2>2. draft'.sources = draft.sources
    BY <1>8, <2>1, TextPut DEF Accept, TypeOK, Parts
  <2>3. QED
    BY <1>1, <1>8, <2>2 DEF Accept
<1>9. CASE Submit
  BY <1>9 DEF Submit, WrittenSources
<1>10. CASE \E s \in saves : SaveOk(s) \/ SaveFails(s)
  BY <1>1, <1>10 DEF SaveOk, SaveFails, ghosts
<1>11. CASE Aside
  BY <1>1, <1>11 DEF Aside, ghosts
<1>12. CASE Collect \/ Refetch \/ SourcesAsk \/ SourcesRead \/ SourcesFail
            \/ (\E S \in SUBSET Sources : Elsewhere(S)) \/ UNCHANGED vars
  BY <1>1, <1>12 DEF Collect, Refetch, SourcesAsk, SourcesRead, SourcesFail, Elsewhere, ghosts, vars
<1>13. QED
  BY <1>3, <1>4, <1>5, <1>6, <1>7, <1>8, <1>9, <1>10, <1>11, <1>12, AssistantTyped DEF Next

LEMMA Owed == Spec => [](TypeOK /\ OwedInv)
<1>1. Init => TypeOK /\ OwedInv
  BY InitTyped DEF Init, OwedInv, Blank
<1>2. TypeOK /\ OwedInv /\ [Next]_vars => TypeOK' /\ OwedInv'
  BY NextTyped, OwedKept
<1>3. QED
  BY <1>1, <1>2, PTL DEF Spec

\* Who writes the file: a save that ends, or somebody elsewhere.
LEMMA FileSteps ==
    ASSUME Next
    PROVE  \/ file' = file
           \/ \E s \in saves : saves' = saves \ {s} /\ Write(s)
           \/ \E S \in SUBSET Sources : Elsewhere(S)
<1>1. CASE Open \/ LoadPage \/ Leave \/ Collect \/ Refetch \/ SourcesAsk \/ SourcesRead
           \/ SourcesLand \/ SourcesFail \/ Submit
  BY <1>1 DEF Open, LoadPage, Leave, Collect, Refetch, SourcesAsk, SourcesRead, SourcesLand,
              SourcesFail, Submit, server
<1>2. CASE EditBody \/ InsertSnippet \/ EditMetadata \/ EditParent \/ AssignParam
           \/ InsertInclude \/ InsertMacro
  BY <1>2, EditsMark DEF Marks, Change, server
<1>3. CASE \/ \E t \in Sources : AddSource(t)
           \/ \E s \in draft.sources, t \in Sources : UpdateSource(s, t)
           \/ \E s \in draft.sources : RemoveSource(s)
           \/ \E mode \in {"cursor", "replace", "append"} : Accept(mode)
  BY <1>3 DEF AddSource, UpdateSource, RemoveSource, PutSources, Accept, server
<1>4. CASE \/ \E k \in {"include", "macro"} : OpenPanel(k)
           \/ ClosePanel \/ OpenAI \/ Generate \/ CloseAI
           \/ \E s \in ai.streams : \/ Chunk(s) \/ Stop(s)
                                    \/ \E status \in {"done", "error"} : StreamEnds(s, status)
  BY <1>4 DEF OpenPanel, ClosePanel, OpenAI, Generate, CloseAI, Chunk, Stop, StreamEnds, Assist,
              server
<1>5. CASE \E s \in saves : SaveOk(s) \/ SaveFails(s)
  BY <1>5 DEF SaveOk, SaveFails
<1>6. QED
  BY <1>1, <1>2, <1>3, <1>4, <1>5 DEF Next

\* A save never erases a source its visit was given and the user did not remove
\* (SourcesSurviveSave).
THEOREM SourcesSurvive == Spec => SourcesSurviveSave
<1>1. OwedInv /\ [Next]_vars
        => [\A s \in saves \ saves' : file.sources \cap s.owed \subseteq file'.sources]_vars
  <2> SUFFICES ASSUME OwedInv, Next, NEW s \in saves \ saves'
               PROVE  file.sources \cap s.owed \subseteq file'.sources
    OBVIOUS
  <2>1. s.owed \subseteq s.sources
    BY DEF OwedInv
  <2>2. CASE file' = file
    BY <2>2
  <2>3. CASE \E t \in saves : saves' = saves \ {t} /\ Write(t)
    <3>1. Write(s)
      BY <2>3
    <3>2. file'.sources = s.sources
      BY <3>1 DEF Write
    <3>3. QED
      BY <2>1, <3>2
  <2>4. CASE \E S \in SUBSET Sources : Elsewhere(S)
    BY <2>4 DEF Elsewhere
  <2>5. QED
    BY <2>2, <2>3, <2>4, FileSteps
<1>2. QED
  BY <1>1, Owed, PTL DEF Spec, SourcesSurviveSave
-----------------------------------------------------------------------------
(* One generation                                                           *)

\* At most one stream, of the newest generation, and only while it is shown
\* as running.
StreamInv ==
    /\ \A s \in ai.streams : s.run = ai.runs /\ ai.status = "streaming"
    /\ \A s, t \in ai.streams : s = t
    /\ ai.output \subseteq {ai.runs}

LEMMA AiSteps ==
    ASSUME [Next]_vars
    PROVE  \/ ai' = ai \/ ai' = IdleAI \/ Generate
           \/ \E s \in ai.streams : \/ Chunk(s) \/ Stop(s)
                                    \/ \E status \in {"done", "error"} : StreamEnds(s, status)
<1>1. CASE Open \/ LoadPage \/ Leave \/ Collect \/ Refetch \/ SourcesAsk \/ SourcesRead
           \/ SourcesLand \/ SourcesFail \/ Submit \/ \E S \in SUBSET Sources : Elsewhere(S)
  BY <1>1 DEF Open, LoadPage, Leave, Collect, Refetch, SourcesAsk, SourcesRead, SourcesLand,
              SourcesFail, Submit, Elsewhere
<1>2. CASE EditBody \/ InsertSnippet \/ EditMetadata \/ EditParent \/ AssignParam
           \/ InsertInclude \/ InsertMacro
  BY <1>2, EditsMark DEF Marks, Change
<1>3. CASE \/ \E t \in Sources : AddSource(t)
           \/ \E s \in draft.sources, t \in Sources : UpdateSource(s, t)
           \/ \E s \in draft.sources : RemoveSource(s)
           \/ \E mode \in {"cursor", "replace", "append"} : Accept(mode)
  BY <1>3 DEF AddSource, UpdateSource, RemoveSource, PutSources, Accept
<1>4. CASE \/ \E k \in {"include", "macro"} : OpenPanel(k)
           \/ ClosePanel \/ OpenAI \/ CloseAI
           \/ \E s \in saves : SaveOk(s) \/ SaveFails(s)
  BY <1>4 DEF OpenPanel, ClosePanel, OpenAI, CloseAI, SaveOk, SaveFails
<1>5. QED
  BY <1>1, <1>2, <1>3, <1>4 DEF Next, vars

LEMMA StreamKept ==
    ASSUME TypeOK, StreamInv, [Next]_vars
    PROVE  StreamInv'
<1>1. CASE ai' = ai
  BY <1>1 DEF StreamInv
<1>2. CASE ai' = IdleAI
  BY <1>2 DEF StreamInv, IdleAI
<1>3. CASE Generate
  <2> DEFINE n == ai.runs + 1
             new == [run |-> n, aborted |-> FALSE]
  <2>1. ai.streams = {}
    BY <1>3 DEF Generate, StreamInv
  <2>2. ai' = [status |-> "streaming", output |-> {}, runs |-> n, streams |-> {new}]
    BY <1>3, <2>1 DEF Generate, Assist
  <2>3. new.run = n
    OBVIOUS
  <2> HIDE DEF n, new
  <2>4. QED
    BY <2>2, <2>3 DEF StreamInv
<1>4. ASSUME NEW s \in ai.streams, Chunk(s) PROVE StreamInv'
  <2>1. ai' = [ai EXCEPT !.output = ai.output \cup {s.run}]
    BY <1>4 DEF Chunk, Assist
  <2>2. QED
    BY <2>1 DEF StreamInv, TypeOK, Assistant
<1>5. ASSUME NEW s \in ai.streams, Stop(s) PROVE StreamInv'
  <2> DEFINE new == [s EXCEPT !.aborted = TRUE]
  <2>1. ai' = [ai EXCEPT !.streams = (ai.streams \ {s}) \cup {new}]
    BY <1>5 DEF Stop, Assist
  <2>2. s \in [run : 1..MaxRuns, aborted : BOOLEAN]
    BY DEF TypeOK, Assistant
  <2>3. new.run = s.run
    BY <2>2
  <2> HIDE DEF new
  <2>4. ai.streams \ {s} = {}
    BY DEF StreamInv
  <2>5. QED
    BY <2>1, <2>3, <2>4 DEF StreamInv, TypeOK, Assistant
<1>6. ASSUME NEW s \in ai.streams, NEW status \in {"done", "error"}, StreamEnds(s, status)
      PROVE  StreamInv'
  <2>1. ai' = [ai EXCEPT !.status = status, !.streams = ai.streams \ {s}]
    BY <1>6 DEF StreamEnds, Assist
  <2>2. ai.streams \ {s} = {}
    BY DEF StreamInv
  <2>3. QED
    BY <2>1, <2>2 DEF StreamInv, TypeOK, Assistant
<1>7. QED
  BY <1>1, <1>2, <1>3, <1>4, <1>5, <1>6, AiSteps

\* The text the assistant offers comes from one generation (OneGeneration).
THEOREM OneGenerationShown == Spec => []OneGeneration
<1>1. Init => StreamInv
  BY DEF Init, StreamInv, IdleAI
<1>2. TypeOK /\ StreamInv /\ [Next]_vars => StreamInv'
  BY StreamKept
<1>3. StreamInv => OneGeneration
  <2> SUFFICES ASSUME StreamInv PROVE Cardinality(ai.output) <= 1
    BY DEF OneGeneration
  <2>1. IsFiniteSet({ai.runs}) /\ Cardinality({ai.runs}) = 1
    BY FS_Singleton
  <2>2. Cardinality(ai.output) <= Cardinality({ai.runs})
    BY <2>1, FS_Subset DEF StreamInv
  <2>3. QED
    BY <2>1, <2>2
<1>4. QED
  BY <1>1, <1>2, <1>3, TypeCorrect, PTL DEF Spec
-----------------------------------------------------------------------------
(* The mark of unsaved changes                                              *)

Written(s) == [text |-> s.text, sources |-> s.sources]

\* A save on its way holds what the page shows, but for what slipped in since;
\* those of earlier visits have their numbers.
CleanInv ==
    /\ CleanMeansSaved
    /\ \A s \in saves : s.mount <= mount
    /\ page = "loading" => \A s \in saves : s.mount # mount
    /\ page = "open" /\ "during" \notin slips =>
          \A s \in saves : s.mount = mount => draft = Written(s)

\* Steps that mark the page, and steps that leave it as it is.
LEMMA CleanByMark ==
    ASSUME CleanInv, MarkDirty, UNCHANGED <<page, mount, saves>>
    PROVE  CleanInv'
<1>1. CleanMeansSaved'
  BY DEF CleanMeansSaved, MarkDirty
<1>2. "during" \notin slips' => \A s \in saves : s.mount # mount
  BY DEF MarkDirty, Slip, Saving
<1>3. QED
  BY <1>1, <1>2 DEF CleanInv

LEMMA CleanByStay ==
    ASSUME CleanInv, UNCHANGED <<page, mount, draft, dirty, held, slips>>, saves' \subseteq saves
    PROVE  CleanInv'
  BY DEF CleanInv, CleanMeansSaved, Written

LEMMA CleanByMount ==
    ASSUME CleanInv, TypeOK, NEW text, Mounts(text), saves' = saves, mount' = mount,
           page = "loading"
    PROVE  CleanInv'
  BY DEF CleanInv, CleanMeansSaved, Mounts

LEMMA CleanKept ==
    ASSUME TypeOK, CleanInv, [Next]_vars
    PROVE  CleanInv'
<1>1. CASE Open
  <2>1. \A s \in saves : s.mount <= mount' /\ s.mount # mount'
    BY <1>1, Bounds DEF Open, CleanInv, TypeOK, Save
  <2>2. saves' = saves /\ page' \in {"open", "loading"}
    BY <1>1 DEF Open, Mounts
  <2>3. page' = "open" => draft' = held'
    BY <1>1 DEF Open, Mounts
  <2>4. QED
    BY <2>1, <2>2, <2>3 DEF CleanInv, CleanMeansSaved
<1>2. CASE LoadPage
  BY <1>2, CleanByMount DEF LoadPage
<1>3. CASE Leave
  BY <1>3 DEF Leave, CleanInv, CleanMeansSaved
<1>4. CASE Collect \/ Refetch \/ SourcesAsk \/ SourcesRead \/ SourcesFail
           \/ (\E S \in SUBSET Sources : Elsewhere(S)) \/ UNCHANGED vars
  BY <1>4, CleanByStay DEF Collect, Refetch, SourcesAsk, SourcesRead, SourcesFail, Elsewhere,
                           ghosts, vars
<1>5. CASE SourcesLand
  <2>1. CASE Fills(fetch.sources)
    <3>1. /\ draft' = [draft EXCEPT !.sources = fetch.sources]
          /\ held' = [held EXCEPT !.sources = draft'.sources]
          /\ slips' = slips \cup Slip
          /\ UNCHANGED <<page, mount, dirty, saves>>
      BY <1>5, <2>1 DEF SourcesLand
    <3>2. draft'.sources = fetch.sources
      BY <1>5, <3>1, SourcesPut DEF TypeOK
    <3>3. draft = held => draft' = held'
      BY <3>1, <3>2
    <3>4. CleanMeansSaved'
      BY <3>1, <3>3 DEF CleanInv, CleanMeansSaved
    <3>5. "during" \notin slips' => \A s \in saves : s.mount # mount
      BY <3>1 DEF Slip, Saving
    <3>6. QED
      BY <3>1, <3>4, <3>5 DEF CleanInv
  <2>2. CASE ~ Fills(fetch.sources)
    BY <1>5, <2>2, CleanByStay DEF SourcesLand, ghosts
  <2>3. QED
    BY <2>1, <2>2
<1>7. CASE EditBody \/ InsertSnippet \/ EditMetadata \/ EditParent \/ AssignParam
           \/ InsertInclude \/ InsertMacro
  BY <1>7, CleanByMark, EditsMark DEF Marks, Change
<1>8. CASE \/ \E t \in Sources : AddSource(t)
           \/ \E s \in draft.sources, t \in Sources : UpdateSource(s, t)
           \/ \E s \in draft.sources : RemoveSource(s)
  BY <1>8, CleanByMark DEF AddSource, UpdateSource, RemoveSource, PutSources
<1>9. CASE \E mode \in {"cursor", "replace", "append"} : Accept(mode)
  <2>1. PICK mode \in {"cursor", "replace", "append"} : Accept(mode)
    BY <1>9
  <2>2. CASE mode = "cursor"
    BY <2>1, <2>2, CleanByMark DEF Accept
  <2>3. CASE mode # "cursor"
    <3>1. /\ slips' = slips \cup {IF Saving THEN "during" ELSE "before"}
          /\ UNCHANGED <<page, mount, saves, dirty>>
      BY <2>1, <2>3 DEF Accept
    <3>2. CleanMeansSaved'
      BY <3>1 DEF CleanMeansSaved
    <3>3. "during" \notin slips' => \A s \in saves : s.mount # mount
      BY <3>1 DEF Saving
    <3>4. QED
      BY <3>1, <3>2, <3>3 DEF CleanInv
  <2>4. QED
    BY <2>2, <2>3
<1>10. CASE Submit
  <2> DEFINE new == [text |-> draft.text, sources |-> WrittenSources, owed |-> owed, mount |-> mount]
  <2>1. /\ saves' = saves \cup {new} /\ \A s \in saves : s.mount # mount
        /\ page = "open" /\ UNCHANGED <<page, mount, draft, dirty, held>>
    BY <1>10 DEF Submit, Saving, Editable
  <2>2. slips' = {} => slips = {}
    BY <1>10 DEF Submit
  <2>3. CleanMeansSaved'
    BY <2>1, <2>2 DEF CleanInv, CleanMeansSaved
  <2>4. draft = Written(new) /\ new.mount = mount
    BY DEF Written, WrittenSources, TypeOK, Draft
  <2> HIDE DEF new
  <2>5. \A s \in saves' : s.mount <= mount
    BY <2>1, <2>4 DEF CleanInv, TypeOK
  <2>6. \A s \in saves' : s.mount = mount => draft = Written(s)
    BY <2>1, <2>4
  <2>7. QED
    BY <2>1, <2>3, <2>5, <2>6 DEF CleanInv, Written
<1>11. CASE \E s \in saves : SaveOk(s)
  <2>1. PICK s \in saves : SaveOk(s)
    BY <1>11
  <2>2. CASE s.mount = mount /\ page = "open"
    <3>1. /\ saves' = saves \ {s} /\ held' = Written(s) /\ slips' = slips \ {"before"}
          /\ UNCHANGED <<page, mount, draft>>
      BY <2>1, <2>2 DEF SaveOk, Written
    <3>2. "during" \notin slips' => "during" \notin slips
      BY <3>1
    <3>3. CleanMeansSaved'
      BY <2>2, <3>1, <3>2 DEF CleanInv, CleanMeansSaved
    <3>4. QED
      BY <3>1, <3>2, <3>3 DEF CleanInv, Written
  <2>3. CASE ~ (s.mount = mount /\ page = "open")
    BY <2>1, <2>3, CleanByStay DEF SaveOk
  <2>4. QED
    BY <2>2, <2>3
<1>12. CASE \E s \in saves : SaveFails(s)
  BY <1>12, CleanByStay DEF SaveFails, ghosts
<1>13. CASE Aside
  BY <1>13, CleanByStay DEF Aside, ghosts
<1>14. QED
  BY <1>1, <1>2, <1>3, <1>4, <1>5, <1>7, <1>8, <1>9, <1>10, <1>11, <1>12, <1>13, AssistantTyped
     DEF Next

\* Without the mark the page shows what it was given or has saved
\* (CleanMeansSaved): whatever is edited while a save is on its way, and whenever
\* the list of sources arrives, slips apart.
THEOREM CleanIsSaved == Spec => []CleanMeansSaved
<1>1. Init => CleanInv
  BY DEF Init, CleanInv, CleanMeansSaved
<1>2. TypeOK /\ CleanInv /\ [Next]_vars => CleanInv'
  BY CleanKept
<1>3. CleanInv => CleanMeansSaved
  BY DEF CleanInv
<1>4. QED
  BY <1>1, <1>2, <1>3, TypeCorrect, PTL DEF Spec

-----------------------------------------------------------------------------
(* The render form.  Its two invariants: a render that waits is newer than  *)
(* the one shown, and only one waits for the mounted form; a value the user *)
(* may rely on is out of reach of every timer and request under way.        *)

Form == INSTANCE RenderForm

LEMMA FormHypotheses == Form!FieldSets /\ Form!OneSource
  BY FormAssumption DEF FieldSets, OneSource, Reach, FilledBy, Form!FieldSets, Form!OneSource,
     Form!Reach, Form!FilledBy, Form!IsFiniteSet, IsFiniteSet

LEMMA FormRendersStep ==
    ASSUME Form!RendersInv, [Form!Next]_Form!vars
    PROVE  Form!RendersInv'
<1>1. /\ formKey \in Nat /\ sent \in Nat /\ result \in 0..sent
      /\ \A r \in renders : r.mount \in 0..formKey /\ r.id \in 1..sent
      /\ \A r \in renders : r.mount = formKey => result < r.id
      /\ \A r, q \in renders : r.mount = formKey /\ q.mount = formKey => r = q
  BY DEF Form!RendersInv, Form!ShownResultIsNewest
<1>2. CASE UNCHANGED <<formKey, renders, sent, result>>
  BY <1>1, <1>2 DEF Form!RendersInv, Form!ShownResultIsNewest
<1>3. ASSUME Form!Submit PROVE Form!RendersInv'
  <2> DEFINE new == [mount |-> formKey, id |-> sent + 1,
                     features |-> {Form!AsNumber(f) : f \in enabled}]
  <2>1. /\ renders' = renders \cup {new} /\ sent' = sent + 1 /\ formKey' = formKey
        /\ result' = result /\ \A r \in renders : r.mount # formKey
    BY <1>3 DEF Form!Submit, Form!Rendering
  <2>2. new.mount = formKey /\ new.id = sent + 1
    OBVIOUS
  <2> HIDE DEF new
  <2> QED BY <1>1, <2>1, <2>2 DEF Form!RendersInv, Form!ShownResultIsNewest
<1>4. ASSUME NEW r \in renders, Form!RenderAnswered(r) PROVE Form!RendersInv'
  <2>1. /\ renders' = renders \ {r} /\ sent' = sent /\ formKey' = formKey
        /\ result' = result \/ (r.mount = formKey /\ result' = r.id)
    BY <1>4 DEF Form!RenderAnswered
  <2> QED BY <1>1, <2>1 DEF Form!RendersInv, Form!ShownResultIsNewest
<1>5. ASSUME NEW r \in renders, Form!RenderFailed(r) PROVE Form!RendersInv'
  <2>1. renders' = renders \ {r} /\ sent' = sent /\ formKey' = formKey /\ result' = result
    BY <1>5 DEF Form!RenderFailed
  <2> QED BY <1>1, <2>1 DEF Form!RendersInv, Form!ShownResultIsNewest
<1>6. ASSUME NEW p, Form!LoadPreset(p) PROVE Form!RendersInv'
  <2>1. renders' = renders /\ sent' = sent /\ formKey' = formKey + 1 /\ result' = 0
    BY <1>6 DEF Form!LoadPreset, Form!FreshForm, Form!NoResult
  <2> QED BY <1>1, <2>1 DEF Form!RendersInv, Form!ShownResultIsNewest
<1>7. ASSUME ~UNCHANGED <<formKey, renders, sent, result>>
      PROVE  \/ Form!Submit
             \/ \E r \in renders : Form!RenderAnswered(r) \/ Form!RenderFailed(r)
             \/ \E p \in presets : Form!LoadPreset(p)
  BY <1>7 DEF Form!Next, Form!vars, Form!Answers, Form!Edit, Form!TimerFires, Form!Filled,
     Form!NotFilled, Form!LateAnswer, Form!FoldSection, Form!ToggleFeature, Form!SavePreset,
     Form!DeletePreset
<1> QED BY <1>2, <1>3, <1>4, <1>5, <1>6, <1>7

\* The output under the form is that of the newest render it got an answer for.
THEOREM NewestResultShown == Form!Spec => []ShownResultIsNewest
<1>1. Form!Init => Form!RendersInv
  BY DEF Form!Init, Form!RendersInv, Form!ShownResultIsNewest, Form!NoResult
<1>2. Form!RendersInv /\ [Form!Next]_Form!vars => Form!RendersInv'
  BY FormRendersStep
<1>3. Form!RendersInv => ShownResultIsNewest
  BY DEF Form!RendersInv, Form!ShownResultIsNewest, ShownResultIsNewest
<1> QED BY <1>1, <1>2, <1>3, PTL DEF Form!Spec

\* A sequence of anything is a sequence of what it holds.
LEMMA SeqSelf ==
    ASSUME NEW S, NEW s \in Seq(S)
    PROVE  /\ Form!IsSeq(s)
           /\ Len(s) \in Nat /\ DOMAIN s = 1..Len(s)
<1>1. Len(s) \in Nat /\ DOMAIN s = 1..Len(s) /\ s \in [1..Len(s) -> S]
  BY LenProperties
<1> DEFINE T == {s[i] : i \in DOMAIN s}
<1>2. \A i \in 1..Len(s) : s[i] \in T
  BY <1>1
<1> HIDE DEF T
<1>3. s \in [1..Len(s) -> T]
  BY <1>1, <1>2
<1>4. s \in Seq(T)
  BY <1>1, <1>3
<1> QED BY <1>1, <1>4 DEF T, Form!IsSeq

LEMMA SeqAppend ==
    ASSUME NEW s, Form!IsSeq(s), NEW c
    PROVE  /\ Form!IsSeq(Append(s, c))
           /\ \A i \in DOMAIN Append(s, c) :
                 Append(s, c)[i] = c \/ \E j \in DOMAIN s : Append(s, c)[i] = s[j]
<1> DEFINE S == {s[i] : i \in DOMAIN s} \cup {c}
           t == Append(s, c)
<1>1. s \in Seq(S) /\ c \in S
  BY DEF Form!IsSeq
<1>2. /\ t \in Seq(S) /\ DOMAIN t = 1..Len(s) + 1 /\ Len(t) = Len(s) + 1
      /\ Len(s) \in Nat /\ DOMAIN s = 1..Len(s)
      /\ t[Len(s) + 1] = c /\ \A i \in 1..Len(s) : t[i] = s[i]
  <2> HIDE DEF S
  <2> QED BY <1>1
<1>3. \A i \in DOMAIN t : t[i] = c \/ \E j \in DOMAIN s : t[i] = s[j]
  <2> HIDE DEF t
  <2> QED BY <1>2
<1>4. Form!IsSeq(t)
  <2> HIDE DEF t, S
  <2> QED BY <1>2, SeqSelf
<1> QED BY <1>3, <1>4

LEMMA SeqJoin ==
    ASSUME NEW s, NEW u, Form!IsSeq(s), Form!IsSeq(u)
    PROVE  /\ Form!IsSeq(s \o u)
           /\ \A i \in DOMAIN (s \o u) : \/ \E j \in DOMAIN s : (s \o u)[i] = s[j]
                                         \/ \E j \in DOMAIN u : (s \o u)[i] = u[j]
<1> DEFINE S == {s[i] : i \in DOMAIN s} \cup {u[i] : i \in DOMAIN u}
           t == s \o u
<1>1. s \in Seq(S) /\ u \in Seq(S)
  BY DEF Form!IsSeq
<1>2. /\ t \in Seq(S) /\ DOMAIN t = 1..Len(s) + Len(u) /\ Len(t) = Len(s) + Len(u)
      /\ Len(s) \in Nat /\ DOMAIN s = 1..Len(s) /\ Len(u) \in Nat /\ DOMAIN u = 1..Len(u)
      /\ \A i \in 1..Len(s) : t[i] = s[i]
      /\ \A i \in Len(s) + 1 .. Len(s) + Len(u) : t[i] = u[i - Len(s)]
  <2> HIDE DEF S
  <2> QED BY <1>1
<1>3. \A i \in DOMAIN t : \/ \E j \in DOMAIN s : t[i] = s[j]
                          \/ \E j \in DOMAIN u : t[i] = u[j]
  <2> HIDE DEF t
  <2> TAKE i \in DOMAIN t
  <2>1. CASE i \in 1..Len(s)
    BY <1>2, <2>1
  <2>2. CASE i \notin 1..Len(s)
    <3>1. i - Len(s) \in DOMAIN u /\ t[i] = u[i - Len(s)]
      BY <1>2, <2>2
    <3> QED BY <3>1
  <2> QED BY <2>1, <2>2
<1>4. Form!IsSeq(t)
  <2> HIDE DEF t, S
  <2> QED BY <1>2, SeqSelf
<1> QED BY <1>3, <1>4

LEMMA SeqJoined ==
    ASSUME NEW s, NEW u, Form!IsSeq(s), Form!IsSeq(u), NEW i \in DOMAIN (s \o u)
    PROVE  (\E j \in DOMAIN s : (s \o u)[i] = s[j]) \/ (\E j \in DOMAIN u : (s \o u)[i] = u[j])
  BY SeqJoin

LEMMA SeqWithout ==
    ASSUME NEW s, Form!IsSeq(s), NEW k \in DOMAIN s
    PROVE  /\ Form!IsSeq(Form!RemoveAt(s, k))
           /\ \A i \in DOMAIN Form!RemoveAt(s, k) : \E j \in DOMAIN s : Form!RemoveAt(s, k)[i] = s[j]
<1> DEFINE S == {s[i] : i \in DOMAIN s}
           a == SubSeq(s, 1, k - 1)
           b == SubSeq(s, k + 1, Len(s))
           t == a \o b
<1>1. Form!RemoveAt(s, k) = t
  BY DEF Form!RemoveAt
<1>2. Len(s) \in Nat /\ DOMAIN s = 1..Len(s) /\ k \in 1..Len(s)
  <2>1. s \in Seq(S)
    BY DEF Form!IsSeq
  <2> HIDE DEF S
  <2> QED BY <2>1, LenProperties
<1>3. \A i \in 1..Len(s) : s[i] \in S
  BY <1>2
<1> HIDE DEF S
<1>4. a \in Seq(S) /\ Len(a) = k - 1 /\ \A i \in 1..(k - 1) : a[i] = s[i]
  <2>1. /\ \A i \in 1..(k - 1) : s[i] \in S
        /\ 1 \in Int /\ k - 1 \in Int /\ k - 1 >= 0
    BY <1>2, <1>3
  <2>2. /\ a \in Seq(S) /\ Len(a) = (IF 1 <= k - 1 THEN k - 1 - 1 + 1 ELSE 0)
        /\ \A i \in 1..(k - 1 - 1 + 1) : a[i] = s[1 + i - 1]
    BY <2>1, SubSeqProperties
  <2> HIDE DEF a
  <2> QED BY <2>1, <2>2
<1>5. b \in Seq(S) /\ Len(b) = Len(s) - k /\ \A i \in 1..(Len(s) - k) : b[i] = s[k + i]
  <2> DEFINE m == k + 1
             n == Len(s)
  <2>1. /\ \A i \in m..n : s[i] \in S
        /\ m \in Int /\ n \in Int /\ m <= n + 1
    BY <1>2, <1>3
  <2>2. b = SubSeq(s, m, n) /\ n - m + 1 = Len(s) - k
    BY <1>2
  <2>3. \A i \in Int : m + i - 1 = k + i
    BY <1>2
  <2> HIDE DEF b, m, n
  <2>4. /\ b \in Seq(S) /\ Len(b) = (IF m <= n THEN n - m + 1 ELSE 0)
        /\ \A i \in 1..(n - m + 1) : b[i] = s[m + i - 1]
    BY <2>1, <2>2, SubSeqProperties
  <2>5. Len(b) = n - m + 1
    BY <2>1, <2>4
  <2>6. \A i \in 1..(Len(s) - k) : i \in Int /\ b[i] = s[m + i - 1]
    BY <2>2, <2>4
  <2>7. \A i \in 1..(Len(s) - k) : b[i] = s[k + i]
    BY <2>3, <2>6
  <2>8. Len(b) = Len(s) - k
    BY <2>2, <2>5
  <2> QED BY <2>4, <2>7, <2>8
<1> HIDE DEF a, b
<1>6. /\ Form!IsSeq(a) /\ DOMAIN a = 1..(k - 1)
      /\ Form!IsSeq(b) /\ DOMAIN b = 1..(Len(s) - k)
  <2>1. Form!IsSeq(a) /\ DOMAIN a = 1..Len(a)
    BY <1>4, SeqSelf
  <2>2. Form!IsSeq(b) /\ DOMAIN b = 1..Len(b)
    BY <1>5, SeqSelf
  <2> QED BY <1>4, <1>5, <2>1, <2>2
<1>7. /\ Form!IsSeq(t)
      /\ \A i \in DOMAIN t : \/ \E j \in DOMAIN a : t[i] = a[j]
                             \/ \E j \in DOMAIN b : t[i] = b[j]
  <2>1. Form!IsSeq(a)
    BY <1>6
  <2>2. Form!IsSeq(b)
    BY <1>6
  <2>3. Form!IsSeq(a \o b)
    BY <2>1, <2>2, SeqJoin
  <2>4. \A i \in DOMAIN (a \o b) : \/ \E j \in DOMAIN a : (a \o b)[i] = a[j]
                                  \/ \E j \in DOMAIN b : (a \o b)[i] = b[j]
    BY <2>1, <2>2, SeqJoined
  <2> QED BY <2>3, <2>4
<1> HIDE DEF t
<1>8. /\ \A j \in DOMAIN a : j \in DOMAIN s /\ a[j] = s[j]
      /\ \A j \in DOMAIN b : k + j \in DOMAIN s /\ b[j] = s[k + j]
  <2>1. /\ \A j \in 1..(k - 1) : j \in 1..Len(s)
        /\ \A j \in 1..(Len(s) - k) : k + j \in 1..Len(s)
    BY <1>2
  <2> QED BY <1>2, <1>4, <1>5, <1>6, <2>1
<1>9. \A i \in DOMAIN t : \E j \in DOMAIN s : t[i] = s[j]
  BY <1>7, <1>8
<1> QED BY <1>1, <1>7, <1>9

LEMMA SameCardinality == ASSUME NEW S PROVE Form!Cardinality(S) = Cardinality(S)
  BY SMT DEF Form!Cardinality, Cardinality

LEMMA SameFinite == ASSUME NEW S PROVE Form!IsFiniteSet(S) <=> IsFiniteSet(S)
  BY DEF Form!IsFiniteSet, IsFiniteSet

LEMMA SetAsSeq ==
    ASSUME NEW S, IsFiniteSet(S)
    PROVE  /\ Form!IsSeq(Form!SetToSeq(S))
           /\ \A i \in DOMAIN Form!SetToSeq(S) : Form!SetToSeq(S)[i] \in S
<1> DEFINE D == 1..Cardinality(S)
           t == Form!SetToSeq(S)
<1>1. Cardinality(S) \in Nat /\ ExistsBijection(D, S)
  BY FS_CardinalityType
<1>2. \E g \in [D -> S] : IsInjective(g)
  BY <1>1 DEF ExistsBijection, Bijection, Injection
<1>3. \E g \in [D -> S] : Form!IsInjective(g)
  BY <1>2 DEF IsInjective, Form!IsInjective
<1>4. t = CHOOSE g \in [D -> S] : Form!IsInjective(g)
  BY SameCardinality DEF Form!SetToSeq
<1>5. t \in [D -> S]
  <2> HIDE DEF t, D
  <2> QED BY <1>3, <1>4
<1>6. t \in Seq(S)
  <2> HIDE DEF t
  <2> QED BY <1>1, <1>5
<1>7. DOMAIN t = D /\ \A i \in D : t[i] \in S
  <2> HIDE DEF t, D
  <2> QED BY <1>5
<1> QED BY <1>6, <1>7, SeqSelf

LEMMA ReachClosed ==
    ASSUME Form!FieldSets, NEW x \in Fields
    PROVE  /\ Form!Reach[x] \subseteq Fields
           /\ Form!FilledBy(x) \subseteq Form!Reach[x]
           /\ \A y \in Form!Reach[x] : Form!FilledBy(y) \subseteq Form!Reach[x]
           /\ \A S \in SUBSET Fields :
                 Form!FilledBy(x) \subseteq S /\ (\A y \in S : Form!FilledBy(y) \subseteq S)
                 => Form!Reach[x] \subseteq S
<1> DEFINE closed == {S \in SUBSET Fields : /\ Form!FilledBy(x) \subseteq S
                                            /\ \A y \in S : Form!FilledBy(y) \subseteq S}
           R == {f \in Fields : \A S \in closed : f \in S}
<1>1. Form!Reach[x] = R
  BY DEF Form!Reach
<1>2. \A y \in Fields : Form!FilledBy(y) \subseteq Fields
  BY DEF Form!FieldSets, Form!FilledBy
<1>3. R \subseteq Fields /\ Form!FilledBy(x) \subseteq R
  BY <1>2
<1>4. \A y \in R : Form!FilledBy(y) \subseteq R
  BY <1>2
<1>5. \A S \in SUBSET Fields :
         Form!FilledBy(x) \subseteq S /\ (\A y \in S : Form!FilledBy(y) \subseteq S) => R \subseteq S
  OBVIOUS
<1> HIDE DEF R
<1> QED BY <1>1, <1>3, <1>4, <1>5

LEMMA ReachWithin ==
    ASSUME Form!FieldSets, NEW x \in Fields, NEW y \in Form!Reach[x]
    PROVE  y \in Fields /\ Form!Reach[y] \subseteq Form!Reach[x]
<1>1. Form!Reach[x] \in SUBSET Fields
  BY ReachClosed
<1>2. y \in Fields
  BY <1>1
<1>3. /\ Form!FilledBy(y) \subseteq Form!Reach[x]
      /\ \A z \in Form!Reach[x] : Form!FilledBy(z) \subseteq Form!Reach[x]
  BY ReachClosed
<1> QED BY <1>1, <1>2, <1>3, ReachClosed

LEMMA EnrichedReached ==
    ASSUME Form!FieldSets, NEW x \in Fields
    PROVE  Form!Enriched[x] \subseteq Form!Reach[x]
<1> DEFINE closed == {S \in SUBSET Fields :
                         /\ Form!FilledBy(x) \subseteq S
                         /\ \A m \in Mappings : m.to \in S /\ m.auto => Form!FilledBy(m.to) \subseteq S}
<1>1. Form!Enriched[x] = {f \in Fields : \A S \in closed : f \in S}
  BY DEF Form!Enriched
<1>2. Form!Reach[x] \in closed
  BY ReachClosed
<1> HIDE DEF closed
<1> QED BY <1>1, <1>2

LEMMA AnswerReached ==
    ASSUME Form!FieldSets, NEW x \in Fields, NEW arg
    PROVE  DOMAIN Form!Answer(x, arg) \subseteq Form!Reach[x]
  BY EnrichedReached DEF Form!Answer

LEMMA CallsAsked ==
    ASSUME Form!FieldSets, NEW F \in SUBSET Fields, NEW vals
    PROVE  /\ Form!IsSeq(Form!NewCalls(F, vals))
           /\ \A i \in DOMAIN Form!NewCalls(F, vals) :
                 /\ Form!NewCalls(F, vals)[i].on \in F
                 /\ Form!NewCalls(F, vals)[i].mount = formKey
<1> DEFINE S == {f \in F : Form!Listens(f) /\ f \in Instant}
           s == Form!SetToSeq(S)
           t == [i \in DOMAIN s |-> [on |-> s[i], arg |-> vals[s[i]], mount |-> formKey]]
<1>1. IsFiniteSet(S)
  <2>1. IsFiniteSet(Fields) /\ S \in SUBSET Fields
    BY SameFinite DEF Form!FieldSets
  <2> HIDE DEF S
  <2> QED BY <2>1, FS_Subset
<1>2. S \subseteq F
  OBVIOUS
<1>3. Form!NewCalls(F, vals) = t
  BY DEF Form!NewCalls
<1> HIDE DEF S
<1>4. Form!IsSeq(s)
  BY <1>1, SetAsSeq
<1>5. \A i \in DOMAIN s : s[i] \in S
  BY <1>1, SetAsSeq
<1> HIDE DEF s
<1>6. Len(s) \in Nat /\ DOMAIN s = 1..Len(s)
  <2> DEFINE T == {s[i] : i \in DOMAIN s}
  <2>1. s \in Seq(T)
    BY <1>4 DEF Form!IsSeq
  <2> HIDE DEF T
  <2> QED BY <2>1, LenProperties
<1>7. DOMAIN t = 1..Len(s)
  BY <1>6
<1>8. \A i \in DOMAIN t : t[i].on \in F /\ t[i].mount = formKey
  BY <1>2, <1>5
<1>9. Form!IsSeq(t)
  <2> DEFINE T == {t[i] : i \in 1..Len(s)}
  <2>1. t \in [1..Len(s) -> T]
    BY <1>6
  <2> HIDE DEF T, t
  <2>2. t \in Seq(T)
    BY <1>6, <2>1
  <2> QED BY <2>2, SeqSelf
<1> HIDE DEF t
<1> QED BY <1>3, <1>8, <1>9

LEMMA FormQuietStep ==
    ASSUME Form!FieldSets, Form!OneSource, Form!QuietInv, [Form!Next]_Form!vars
    PROVE  Form!QuietInv'
<1> DEFINE Kept(f) == kept[f] # Form!Untouched => value[f] = kept[f] /\ f \notin Form!Threatened
           Asked(c) == c.on \in Fields /\ c.mount \in 0..formKey
<1>1. /\ formKey \in Nat /\ DOMAIN value = Fields /\ timers \subseteq Fields /\ Form!IsSeq(calls)
      /\ \A i \in DOMAIN calls : Asked(calls[i])
      /\ \A f \in Fields : Kept(f)
  BY DEF Form!QuietInv
<1>2. \A f : f \in Form!Threatened <=>
               \/ \E x \in timers : f \in Form!Reach[x]
               \/ \E i \in DOMAIN calls : calls[i].mount = formKey /\ f \in Form!Reach[calls[i].on]
  BY DEF Form!Threatened, Form!Live
<1>3. \A f : f \in Form!Threatened' <=>
               \/ \E x \in timers' : f \in Form!Reach[x]
               \/ \E i \in DOMAIN calls' :
                     calls'[i].mount = formKey' /\ f \in Form!Reach[calls'[i].on]
  BY DEF Form!Threatened, Form!Live
<1>4. ASSUME /\ formKey' \in Nat /\ DOMAIN value' = Fields /\ timers' \subseteq Fields
             /\ Form!IsSeq(calls')
             /\ \A i \in DOMAIN calls' : calls'[i].on \in Fields /\ calls'[i].mount \in 0..formKey'
             /\ \A f \in Fields : kept'[f] # Form!Untouched =>
                                     value'[f] = kept'[f] /\ f \notin Form!Threatened'
      PROVE  Form!QuietInv'
  BY <1>4 DEF Form!QuietInv, Form!IsSeq
<1>5. CASE UNCHANGED <<formKey, value, timers, calls, kept>>
  <2>1. \A f \in Fields : f \in Form!Threatened' => f \in Form!Threatened
    BY <1>2, <1>3, <1>5
  <2> QED BY <1>1, <1>4, <1>5, <2>1
<1>6. ASSUME NEW f \in Fields, NEW v \in Values, Form!Edit(f, v) PROVE Form!QuietInv'
  <2> DEFINE new == Form!NewCalls({f}, value')
  <2>1. /\ value' = [value EXCEPT ![f] = v] /\ formKey' = formKey /\ calls' = calls \o new
        /\ timers' \subseteq timers \cup {f}
        /\ kept' = [g \in Fields |->
                      IF g = f THEN IF f \in Form!Threatened THEN Form!Untouched ELSE v
                      ELSE IF g \in Form!Reach[f] THEN Form!Untouched ELSE kept[g]]
    BY <1>6 DEF Form!Edit, Form!Notify
  <2>2. Form!IsSeq(new) /\ \A i \in DOMAIN new : new[i].on = f /\ new[i].mount = formKey
    BY CallsAsked
  <2> HIDE DEF new
  <2>3. /\ Form!IsSeq(calls')
        /\ \A i \in DOMAIN calls' : \/ \E j \in DOMAIN calls : calls'[i] = calls[j]
                                    \/ calls'[i].on = f /\ calls'[i].mount = formKey
    <3>1. Form!IsSeq(calls)
      BY <1>1
    <3>2. Form!IsSeq(new)
      BY <2>2
    <3>3. Form!IsSeq(calls \o new)
      BY <3>1, <3>2, SeqJoin
    <3>4. \A i \in DOMAIN (calls \o new) : \/ \E j \in DOMAIN calls : (calls \o new)[i] = calls[j]
                                           \/ \E j \in DOMAIN new : (calls \o new)[i] = new[j]
      BY <3>1, <3>2, SeqJoined
    <3> QED BY <2>1, <2>2, <3>3, <3>4
  <2>4. \A g : g \in Form!Threatened' => g \in Form!Threatened \/ g \in Form!Reach[f]
    <3> TAKE g
    <3>1. ASSUME NEW y \in timers', g \in Form!Reach[y]
          PROVE  g \in Form!Threatened \/ g \in Form!Reach[f]
      BY <1>2, <2>1, <3>1
    <3>2. ASSUME NEW j \in DOMAIN calls', calls'[j].mount = formKey, g \in Form!Reach[calls'[j].on]
          PROVE  g \in Form!Threatened \/ g \in Form!Reach[f]
      BY <1>2, <2>3, <3>2
    <3> QED BY <1>3, <2>1, <3>1, <3>2
  <2>5. f \notin Form!Reach[f]
    BY DEF Form!OneSource
  <2>6. ASSUME NEW g \in Fields, kept'[g] # Form!Untouched
        PROVE  value'[g] = kept'[g] /\ g \notin Form!Threatened'
    <3>1. CASE g = f
      BY <1>1, <2>1, <2>4, <2>5, <2>6, <3>1
    <3>2. CASE g # f
      BY <1>1, <2>1, <2>4, <2>6, <3>2
    <3> QED BY <3>1, <3>2
  <2>7. \A i \in DOMAIN calls' : calls'[i].on \in Fields /\ calls'[i].mount \in 0..formKey'
    BY <1>1, <2>1, <2>3
  <2>8. DOMAIN value' = Fields /\ timers' \subseteq Fields
    BY <1>1, <2>1
  <2> QED BY <1>1, <1>4, <2>1, <2>3, <2>6, <2>7, <2>8
<1>7. ASSUME NEW f \in Fields, Form!TimerFires(f) PROVE Form!QuietInv'
  <2> DEFINE c == [on |-> f, arg |-> value[f], mount |-> formKey]
  <2>1. /\ f \in timers /\ timers' = timers \ {f} /\ calls' = Append(calls, c)
        /\ formKey' = formKey /\ value' = value /\ kept' = kept
    BY <1>7 DEF Form!TimerFires, Form!ghosts
  <2>2. c.on = f /\ c.mount = formKey
    OBVIOUS
  <2> HIDE DEF c
  <2>3. Form!IsSeq(calls') /\ \A i \in DOMAIN calls' : calls'[i] = c \/ \E j \in DOMAIN calls : calls'[i] = calls[j]
    <3>1. Form!IsSeq(calls)
      BY <1>1
    <3> QED BY <2>1, <3>1, SeqAppend
  <2>4. \A g : g \in Form!Threatened' => g \in Form!Threatened
    BY <1>2, <1>3, <2>1, <2>2, <2>3
  <2>5. \A i \in DOMAIN calls' : calls'[i].on \in Fields /\ calls'[i].mount \in 0..formKey'
    BY <1>1, <2>1, <2>2, <2>3
  <2> QED BY <1>1, <1>4, <2>1, <2>3, <2>4, <2>5
<1>8. ASSUME NEW i \in DOMAIN calls, calls' = Form!RemoveAt(calls, i),
             UNCHANGED <<formKey, value, timers, kept>>
      PROVE  Form!QuietInv'
  <2>1. /\ Form!IsSeq(calls')
        /\ \A j \in DOMAIN calls' : \E k \in DOMAIN calls : calls'[j] = calls[k]
    <3>1. Form!IsSeq(calls)
      BY <1>1
    <3> QED BY <1>8, <3>1, SeqWithout
  <2>2. \A g : g \in Form!Threatened' => g \in Form!Threatened
    BY <1>2, <1>3, <1>8, <2>1
  <2>3. \A j \in DOMAIN calls' : calls'[j].on \in Fields /\ calls'[j].mount \in 0..formKey'
    BY <1>1, <1>8, <2>1
  <2> QED BY <1>1, <1>4, <1>8, <2>1, <2>2, <2>3
<1>9. ASSUME NEW i \in DOMAIN calls, Form!Filled(i) PROVE Form!QuietInv'
  <2> DEFINE x == calls[i].on
             answer == Form!Answer(x, calls[i].arg)
             written == DOMAIN answer
             rest == Form!RemoveAt(calls, i)
             new == Form!NewCalls(written, value')
  <2>1. /\ calls[i].mount = formKey /\ formKey' = formKey /\ kept' = kept
        /\ value' = [f \in Fields |-> IF f \in written THEN answer[f].prefill ELSE value[f]]
        /\ calls' = rest \o new /\ timers' \subseteq timers \cup written
    BY <1>9 DEF Form!Filled, Form!Notify, Form!Live
  <2>2. x \in Fields
    BY <1>1
  <2>3. written \subseteq Form!Reach[x] /\ Form!Reach[x] \subseteq Fields
    BY <2>2, AnswerReached, ReachClosed
  <2> HIDE DEF answer
  <2>4. Form!IsSeq(new) /\ \A j \in DOMAIN new : new[j].on \in written /\ new[j].mount = formKey
    <3>1. written \in SUBSET Fields
      BY <2>3
    <3> HIDE DEF written
    <3> QED BY <3>1, CallsAsked
  <2>5. Form!IsSeq(rest) /\ \A j \in DOMAIN rest : \E k \in DOMAIN calls : rest[j] = calls[k]
    <3>1. Form!IsSeq(calls)
      BY <1>1
    <3> QED BY <3>1, SeqWithout
  <2>6. \A y \in written : y \in Fields /\ Form!Reach[y] \subseteq Form!Reach[x]
    BY <2>2, <2>3, ReachWithin
  <2>7. \A f \in Form!Reach[x] : f \in Form!Threatened
    BY <1>2, <2>1
  <2> HIDE DEF x, written, rest, new
  <2>8. /\ Form!IsSeq(calls')
        /\ \A j \in DOMAIN calls' : \/ \E k \in DOMAIN calls : calls'[j] = calls[k]
                                    \/ calls'[j].on \in written /\ calls'[j].mount = formKey
    <3>1. Form!IsSeq(rest)
      BY <2>5
    <3>2. Form!IsSeq(new)
      BY <2>4
    <3>3. Form!IsSeq(rest \o new)
      BY <3>1, <3>2, SeqJoin
    <3>4. \A j \in DOMAIN (rest \o new) : \/ \E k \in DOMAIN rest : (rest \o new)[j] = rest[k]
                                          \/ \E k \in DOMAIN new : (rest \o new)[j] = new[k]
      BY <3>1, <3>2, SeqJoined
    <3> QED BY <2>1, <2>4, <2>5, <3>3, <3>4
  <2>9. \A g : g \in Form!Threatened' => g \in Form!Threatened
    <3> TAKE g
    <3>1. ASSUME NEW y \in written, g \in Form!Reach[y] PROVE g \in Form!Threatened
      BY <2>6, <2>7, <3>1
    <3>2. ASSUME NEW y \in timers', g \in Form!Reach[y] PROVE g \in Form!Threatened
      BY <1>2, <2>1, <3>1, <3>2
    <3>3. ASSUME NEW j \in DOMAIN calls', calls'[j].mount = formKey, g \in Form!Reach[calls'[j].on]
          PROVE  g \in Form!Threatened
      <4>1. CASE \E k \in DOMAIN calls : calls'[j] = calls[k]
        BY <1>2, <3>3, <4>1
      <4>2. CASE calls'[j].on \in written
        BY <3>1, <3>3, <4>2
      <4> QED BY <2>8, <4>1, <4>2
    <3> QED BY <1>3, <2>1, <3>2, <3>3
  <2>10. \A f \in Fields : kept'[f] # Form!Untouched =>
                              value'[f] = kept'[f] /\ f \notin Form!Threatened'
    BY <1>1, <2>1, <2>3, <2>7, <2>9
  <2>11. \A j \in DOMAIN calls' : calls'[j].on \in Fields /\ calls'[j].mount \in 0..formKey'
    BY <1>1, <2>1, <2>6, <2>8
  <2>12. DOMAIN value' = Fields /\ timers' \subseteq Fields
    BY <1>1, <2>1, <2>3
  <2> QED BY <1>1, <1>4, <2>1, <2>8, <2>10, <2>11, <2>12
<1>10. ASSUME NEW p, Form!LoadPreset(p) PROVE Form!QuietInv'
  <2>1. /\ formKey' = formKey + 1 /\ timers' = {} /\ calls' = calls
        /\ value' = Form!BuildDefaults(p) /\ kept' = Form!BuildDefaults(p)
    BY <1>10 DEF Form!LoadPreset, Form!FreshForm
  <2>2. DOMAIN value' = Fields
    BY <2>1 DEF Form!BuildDefaults
  <2>3. \A i \in DOMAIN calls' : calls'[i].on \in Fields /\ calls'[i].mount \in 0..formKey
    BY <1>1, <2>1
  <2>4. /\ formKey' \in Nat
        /\ \A i \in DOMAIN calls' : calls'[i].mount \in 0..formKey' /\ calls'[i].mount # formKey'
    BY <1>1, <2>1, <2>3
  <2>5. \A f : f \notin Form!Threatened'
    BY <1>3, <2>1, <2>4
  <2> QED BY <1>1, <1>4, <2>1, <2>2, <2>3, <2>4, <2>5
<1>11. ASSUME ~UNCHANGED <<formKey, value, timers, calls, kept>>
       PROVE  \/ \E f \in Fields, v \in Values : Form!Edit(f, v)
              \/ \E f \in Fields : Form!TimerFires(f)
              \/ \E i \in DOMAIN calls : Form!Filled(i) \/ Form!NotFilled(i) \/ Form!LateAnswer(i)
              \/ \E p \in presets : Form!LoadPreset(p)
  BY <1>11 DEF Form!Next, Form!vars, Form!formVars, Form!ghosts, Form!Answers, Form!FoldSection,
     Form!ToggleFeature, Form!Submit, Form!RenderAnswered, Form!RenderFailed, Form!SavePreset,
     Form!DeletePreset
<1>12. ASSUME NEW i \in DOMAIN calls, Form!NotFilled(i) \/ Form!LateAnswer(i) PROVE Form!QuietInv'
  <2>1. calls' = Form!RemoveAt(calls, i) /\ UNCHANGED <<formKey, value, timers, kept>>
    BY <1>12 DEF Form!NotFilled, Form!LateAnswer, Form!formVars, Form!ghosts
  <2> QED BY <1>8, <2>1
<1> QED BY <1>5, <1>6, <1>7, <1>9, <1>10, <1>11, <1>12

\* What the user typed while nothing under way could fill the field, and what a
\* preset put into a fresh form, stays until the user changes the field or one
\* that fills it.
THEOREM QuietEdits == Form!Spec => []QuietEditsKept
<1>1. Form!Init => Form!QuietInv
  BY FormHypotheses DEF Form!Init, Form!QuietInv, Form!FieldSets, Form!IsSeq
<1>2. Form!QuietInv /\ [Form!Next]_Form!vars => Form!QuietInv'
  BY FormHypotheses, FormQuietStep
<1>3. Form!QuietInv => QuietEditsKept
  BY DEF Form!QuietInv, QuietEditsKept, Form!Untouched, Untouched
<1> QED BY <1>1, <1>2, <1>3, PTL DEF Form!Spec

-----------------------------------------------------------------------------
(* What the form looks up, and in which order it asks: AutofillSettles       *)
(* follows from SettleInv, by which the last request for a field says what   *)
(* the field shows.                                                          *)

LEMMA EnrichedLeast ==
    ASSUME Form!FieldSets, NEW x \in Fields
    PROVE  /\ Form!Enriched[x] \subseteq Fields
           /\ Form!FilledBy(x) \subseteq Form!Enriched[x]
           /\ \A m \in Mappings : m.to \in Form!Enriched[x] /\ m.auto
                                    => Form!FilledBy(m.to) \subseteq Form!Enriched[x]
           /\ \A S \in SUBSET Fields :
                 /\ Form!FilledBy(x) \subseteq S
                 /\ \A m \in Mappings : m.to \in S /\ m.auto => Form!FilledBy(m.to) \subseteq S
                 => Form!Enriched[x] \subseteq S
<1> DEFINE closed == {S \in SUBSET Fields :
                         /\ Form!FilledBy(x) \subseteq S
                         /\ \A m \in Mappings : m.to \in S /\ m.auto => Form!FilledBy(m.to) \subseteq S}
           E == {f \in Fields : \A S \in closed : f \in S}
<1>1. Form!Enriched[x] = E
  BY DEF Form!Enriched
<1>2. \A y \in Fields : Form!FilledBy(y) \subseteq Fields
  BY DEF Form!FieldSets, Form!FilledBy
<1>3. E \subseteq Fields /\ Form!FilledBy(x) \subseteq E
  BY <1>2
<1>4. \A m \in Mappings : m.to \in E /\ m.auto => Form!FilledBy(m.to) \subseteq E
  <2>1. \A m \in Mappings, S \in closed : m.to \in S /\ m.auto => Form!FilledBy(m.to) \subseteq S
    OBVIOUS
  <2> HIDE DEF closed
  <2> QED BY <1>2, <2>1
<1>5. \A S \in closed : E \subseteq S
  OBVIOUS
<1>6. \A S \in SUBSET Fields :
         /\ Form!FilledBy(x) \subseteq S
         /\ \A m \in Mappings : m.to \in S /\ m.auto => Form!FilledBy(m.to) \subseteq S
         => E \subseteq S
  BY <1>5
<1> HIDE DEF E
<1> QED BY <1>1, <1>3, <1>4, <1>6

\* What is filled is filled from the field asked for or from one filled before,
\* by the one source it has.
LEMMA EnrichedFrom ==
    ASSUME Form!FieldSets, Form!OneSource, NEW x \in Fields, NEW f \in Form!Enriched[x]
    PROVE  /\ Form!Source(f) \in Mappings /\ Form!Source(f).to = f
           /\ \A m \in Mappings : m.to = f => m = Form!Source(f)
           /\ Form!Source(f).on = x \/ Form!Source(f).on \in Form!Enriched[x]
<1> DEFINE E == Form!Enriched[x]
<1>1. /\ E \subseteq Fields /\ Form!FilledBy(x) \subseteq E
      /\ \A m \in Mappings : m.to \in E /\ m.auto => Form!FilledBy(m.to) \subseteq E
  BY EnrichedLeast
<1>2. \A S \in SUBSET Fields :
         /\ Form!FilledBy(x) \subseteq S
         /\ \A m \in Mappings : m.to \in S /\ m.auto => Form!FilledBy(m.to) \subseteq S
         => E \subseteq S
  BY EnrichedLeast
<1> HIDE DEF E
<1>3. f \in E
  BY DEF E
<1>4. \E m \in Mappings : m.to = f /\ (m.on = x \/ m.on \in E)
  <2> SUFFICES ASSUME \A m \in Mappings : m.to = f => m.on # x /\ m.on \notin E PROVE FALSE
    OBVIOUS
  <2> DEFINE S == E \ {f}
  <2>1. Form!FilledBy(x) \subseteq S
    BY <1>1 DEF Form!FilledBy
  <2>2. \A m \in Mappings : m.to \in S /\ m.auto => Form!FilledBy(m.to) \subseteq S
    BY <1>1 DEF Form!FilledBy
  <2>3. S \in SUBSET Fields
    BY <1>1
  <2>4. E \subseteq S
    <3> HIDE DEF S
    <3> QED BY <1>2, <2>1, <2>2, <2>3
  <2> QED BY <1>3, <2>4
<1>5. PICK m \in Mappings : m.to = f /\ (m.on = x \/ m.on \in E)
  BY <1>4
<1>6. \A n \in Mappings : n.to = f => n = m
  BY <1>5 DEF Form!OneSource
<1>7. Form!Source(f) = m
  <2>1. Form!Source(f) = CHOOSE n \in Mappings : n.to = f
    BY DEF Form!Source
  <2> QED BY <1>5, <1>6, <2>1
<1> QED BY <1>5, <1>6, <1>7 DEF E

\* The lookups of a request, by the definition of its recursive function.
Lookups(x, arg, g) ==
    g = [f \in Form!Enriched[x] |->
           IF ~Form!Source(f).auto THEN Null
           ELSE Lookup[IF Form!Source(f).on = x THEN arg ELSE g[Form!Source(f).on]]]

LEMMA LookedUpIs ==
    ASSUME NEW x \in Fields, NEW arg \in Values \cup {Null}, NEW g, Lookups(x, arg, g)
    PROVE  Lookups(x, arg, Form!LookedUp[x][arg])
<1> DEFINE h == CHOOSE k : Lookups(x, arg, k)
<1>1. Lookups(x, arg, h)
  OBVIOUS
<1>2. Form!LookedUp[x][arg] = [f \in Form!Enriched[x] |-> h[f]]
  BY DEF Form!LookedUp, Lookups
<1>3. h = [f \in Form!Enriched[x] |-> h[f]]
  <2> HIDE DEF h
  <2> QED BY <1>1 DEF Lookups
<1> HIDE DEF h
<1> QED BY <1>1, <1>2, <1>3

\* There are such lookups.  Their graph is the least relation that holds what is
\* filled from x and is closed under the steps of the cascade; it relates every
\* field that is filled to one value.
LEMMA LookupsExist ==
    ASSUME Form!FieldSets, Form!OneSource, NEW x \in Fields, NEW arg \in Values \cup {Null}
    PROVE  \E g : Lookups(x, arg, g) /\ \A f \in Form!Enriched[x] : g[f] \in Values \cup {Null}
<1> DEFINE E == Form!Enriched[x]
           V == Values \cup {Null}
           Gives(f, v) == IF ~Form!Source(f).auto THEN Null ELSE Lookup[v]
           Closed(R) == /\ \A f \in E : Form!Source(f).on = x => <<f, Gives(f, arg)>> \in R
                        /\ \A f \in E, v \in V :
                              Form!Source(f).on # x /\ <<Form!Source(f).on, v>> \in R
                                  => <<f, Gives(f, v)>> \in R
           G == {p \in E \X V : \A R \in SUBSET (E \X V) : Closed(R) => p \in R}
<1>1. /\ E \subseteq Fields /\ Form!FilledBy(x) \subseteq E
      /\ \A m \in Mappings : m.to \in E /\ m.auto => Form!FilledBy(m.to) \subseteq E
  BY EnrichedLeast
<1>2. \A S \in SUBSET Fields :
         /\ Form!FilledBy(x) \subseteq S
         /\ \A m \in Mappings : m.to \in S /\ m.auto => Form!FilledBy(m.to) \subseteq S
         => E \subseteq S
  BY EnrichedLeast
<1>3. \A f \in E : /\ Form!Source(f) \in Mappings /\ Form!Source(f).to = f
                   /\ \A m \in Mappings : m.to = f => m = Form!Source(f)
                   /\ Form!Source(f).on = x \/ Form!Source(f).on \in E
  BY EnrichedFrom
<1>4. x \notin E
  BY EnrichedReached DEF Form!OneSource
<1>5. \A f \in E, v \in V : Gives(f, v) \in V
  BY DEF Form!FieldSets
<1> HIDE DEF E, V, Gives
<1>6. G \in SUBSET (E \X V)
  OBVIOUS
<1>7. \A R \in SUBSET (E \X V) : Closed(R) => G \subseteq R
  OBVIOUS
<1>8. \A f \in E : Form!Source(f).on = x => <<f, Gives(f, arg)>> \in G
  BY <1>5 DEF V
<1>9. \A f \in E, v \in V :
         Form!Source(f).on # x /\ <<Form!Source(f).on, v>> \in G => <<f, Gives(f, v)>> \in G
  BY <1>5
<1> HIDE DEF G
<1> DEFINE One(f, v) == <<f, v>> \in G /\ \A w \in V : <<f, w>> \in G => w = v
           S == {f \in E : \E v \in V : One(f, v)}
<1>10. \A f \in E : Form!Source(f).on = x => One(f, Gives(f, arg))
  <2> TAKE f \in E
  <2> HAVE Form!Source(f).on = x
  <2> DEFINE R == {p \in G : p[1] = f => p[2] = Gives(f, arg)}
  <2>1. R \in SUBSET (E \X V)
    BY <1>6
  <2>2. Closed(R)
    BY <1>8, <1>9
  <2>3. G \subseteq R
    <3> HIDE DEF R, Closed
    <3> QED BY <1>7, <2>1, <2>2
  <2> QED BY <1>8, <2>3
<1>11. \A f \in E, v \in V :
          Form!Source(f).on # x /\ One(Form!Source(f).on, v) => One(f, Gives(f, v))
  <2> TAKE f \in E, v \in V
  <2> HAVE Form!Source(f).on # x /\ One(Form!Source(f).on, v)
  <2> DEFINE R == {p \in G : p[1] = f => p[2] = Gives(f, v)}
  <2>1. R \in SUBSET (E \X V)
    BY <1>6
  <2>2. Closed(R)
    BY <1>8, <1>9
  <2>3. G \subseteq R
    <3> HIDE DEF R, Closed
    <3> QED BY <1>7, <2>1, <2>2
  <2> QED BY <1>9, <2>3
<1>12. E \subseteq S
  <2>1. Form!FilledBy(x) \subseteq S
    BY <1>1, <1>3, <1>5, <1>10 DEF Form!FilledBy, V
  <2>2. \A m \in Mappings : m.to \in S /\ m.auto => Form!FilledBy(m.to) \subseteq S
    <3> TAKE m \in Mappings
    <3> HAVE m.to \in S /\ m.auto
    <3>1. m.to \in E /\ m.to # x
      BY <1>4
    <3>2. PICK v \in V : One(m.to, v)
      OBVIOUS
    <3>3. ASSUME NEW f \in Form!FilledBy(m.to) PROVE f \in S
      <4>1. f \in E
        BY <1>1, <3>1, <3>3
      <4>2. Form!Source(f).on = m.to
        BY <1>3, <3>3, <4>1 DEF Form!FilledBy
      <4> HIDE DEF One
      <4> QED BY <1>5, <1>11, <3>1, <3>2, <4>1, <4>2
    <3> HIDE DEF S
    <3> QED BY <3>3
  <2>3. S \in SUBSET Fields
    BY <1>1
  <2> HIDE DEF S
  <2> QED BY <1>2, <2>1, <2>2, <2>3
<1> DEFINE g == [f \in E |-> CHOOSE v \in V : One(f, v)]
<1>13. \A f \in E : g[f] \in V /\ One(f, g[f])
  <2> HIDE DEF One
  <2> QED BY <1>12
<1>14. \A f \in E, v \in V : One(f, v) => g[f] = v
  BY <1>13
<1>15. \A f \in E : g[f] = Gives(f, IF Form!Source(f).on = x THEN arg ELSE g[Form!Source(f).on])
  <2> TAKE f \in E
  <2>1. CASE Form!Source(f).on = x
    BY <1>5, <1>10, <1>14, <2>1 DEF V
  <2>2. CASE Form!Source(f).on # x
    <3>1. Form!Source(f).on \in E
      BY <1>3, <2>2
    <3>2. g[Form!Source(f).on] \in V /\ One(Form!Source(f).on, g[Form!Source(f).on])
      BY <1>13, <3>1
    <3> HIDE DEF g, One
    <3> QED BY <1>5, <1>11, <1>14, <2>2, <3>2
  <2> QED BY <2>1, <2>2
<1>16. g = [f \in E |-> g[f]]
  <2> HIDE DEF One
  <2> QED OBVIOUS
<1> HIDE DEF g
<1>17. Lookups(x, arg, g)
  BY <1>15, <1>16 DEF Lookups, E, Gives
<1> QED BY <1>13, <1>17 DEF E, V

\* Whatever the form is told to fill is a value, and what comes from the field
\* asked for is the lookup of its value.
LEMMA LookedUpOf ==
    ASSUME Form!FieldSets, Form!OneSource, NEW x \in Fields, NEW arg \in Values \cup {Null},
           NEW f \in Form!Enriched[x]
    PROVE  /\ Form!LookedUp[x][arg][f] \in Values \cup {Null}
           /\ Form!Source(f).auto /\ Form!Source(f).on = x
                => Form!LookedUp[x][arg][f] = Lookup[arg]
<1> DEFINE g == Form!LookedUp[x][arg]
           E == Form!Enriched[x]
           V == Values \cup {Null}
<1>1. Lookups(x, arg, g)
  BY LookupsExist, LookedUpIs
<1>2. \A y \in E : g[y] = IF ~Form!Source(y).auto THEN Null
                          ELSE Lookup[IF Form!Source(y).on = x THEN arg ELSE g[Form!Source(y).on]]
  <2> HIDE DEF g
  <2> QED BY <1>1 DEF Lookups
<1>3. \A v \in V : Lookup[v] \in V
  BY DEF Form!FieldSets
<1>4. /\ E \subseteq Fields /\ Form!FilledBy(x) \subseteq E
      /\ \A m \in Mappings : m.to \in E /\ m.auto => Form!FilledBy(m.to) \subseteq E
  BY EnrichedLeast
<1>5. \A S \in SUBSET Fields :
         /\ Form!FilledBy(x) \subseteq S
         /\ \A m \in Mappings : m.to \in S /\ m.auto => Form!FilledBy(m.to) \subseteq S
         => E \subseteq S
  BY EnrichedLeast
<1>6. \A y \in E : \A m \in Mappings : m.to = y => m = Form!Source(y)
  BY EnrichedFrom
<1> HIDE DEF g, E
<1> DEFINE S == {y \in E : g[y] \in V}
<1>7. Form!FilledBy(x) \subseteq S
  BY <1>2, <1>3, <1>4, <1>6 DEF Form!FilledBy
<1>8. \A m \in Mappings : m.to \in S /\ m.auto => Form!FilledBy(m.to) \subseteq S
  BY <1>2, <1>3, <1>4, <1>6 DEF Form!FilledBy
<1>9. E \subseteq S
  <2>1. S \in SUBSET Fields
    BY <1>4
  <2> HIDE DEF S
  <2> QED BY <1>5, <1>7, <1>8, <2>1
<1> QED BY <1>2, <1>9 DEF g, E

\* The order of requests.
LEMMA SeqJoinAt ==
    ASSUME NEW s, NEW u, Form!IsSeq(s), Form!IsSeq(u)
    PROVE  /\ \A i \in DOMAIN s : i \in DOMAIN (s \o u) /\ (s \o u)[i] = s[i]
           /\ \A j \in DOMAIN u : \E i \in DOMAIN (s \o u) :
                 (s \o u)[i] = u[j] /\ \A k \in DOMAIN s : k < i
           /\ \A i \in DOMAIN (s \o u) : \/ i \in DOMAIN s
                                         \/ \E j \in DOMAIN u : (s \o u)[i] = u[j]
           /\ DOMAIN (s \o u) \subseteq Nat
<1> DEFINE S == {s[i] : i \in DOMAIN s} \cup {u[i] : i \in DOMAIN u}
           t == s \o u
<1>1. s \in Seq(S) /\ u \in Seq(S)
  BY DEF Form!IsSeq
<1>2. /\ DOMAIN t = 1..Len(s) + Len(u)
      /\ Len(s) \in Nat /\ DOMAIN s = 1..Len(s) /\ Len(u) \in Nat /\ DOMAIN u = 1..Len(u)
      /\ \A i \in 1..Len(s) : t[i] = s[i]
      /\ \A i \in Len(s) + 1 .. Len(s) + Len(u) : t[i] = u[i - Len(s)]
  <2> HIDE DEF S
  <2> QED BY <1>1
<1> HIDE DEF t
<1>3. \A i \in DOMAIN s : i \in DOMAIN t /\ t[i] = s[i]
  BY <1>2
<1>4. ASSUME NEW j \in DOMAIN u
      PROVE  \E i \in DOMAIN t : t[i] = u[j] /\ \A k \in DOMAIN s : k < i
  <2> DEFINE i == Len(s) + j
  <2>1. i \in DOMAIN t /\ i - Len(s) = j /\ \A k \in DOMAIN s : k < i
    BY <1>2
  <2>2. t[i] = u[i - Len(s)]
    BY <1>2
  <2> HIDE DEF i
  <2> QED BY <2>1, <2>2
<1>5. ASSUME NEW i \in DOMAIN t, i \notin DOMAIN s PROVE \E j \in DOMAIN u : t[i] = u[j]
  <2>1. i - Len(s) \in DOMAIN u /\ t[i] = u[i - Len(s)]
    BY <1>2, <1>5
  <2> QED BY <2>1
<1>6. DOMAIN t \subseteq Nat
  BY <1>2
<1> QED BY <1>3, <1>4, <1>5, <1>6 DEF t

LEMMA SeqWithoutAt ==
    ASSUME NEW s, Form!IsSeq(s), NEW k \in DOMAIN s
    PROVE  /\ k \in Nat /\ DOMAIN s \subseteq Nat /\ DOMAIN Form!RemoveAt(s, k) \subseteq Nat
           /\ \A i \in DOMAIN Form!RemoveAt(s, k) :
                 IF i < k THEN i \in DOMAIN s /\ Form!RemoveAt(s, k)[i] = s[i]
                          ELSE i + 1 \in DOMAIN s /\ Form!RemoveAt(s, k)[i] = s[i + 1]
           /\ \A j \in DOMAIN s :
                 /\ j < k => j \in DOMAIN Form!RemoveAt(s, k) /\ Form!RemoveAt(s, k)[j] = s[j]
                 /\ j > k => j - 1 \in DOMAIN Form!RemoveAt(s, k)
                               /\ Form!RemoveAt(s, k)[j - 1] = s[j]
<1> DEFINE S == {s[i] : i \in DOMAIN s}
           n == Len(s)
           a == SubSeq(s, 1, k - 1)
           b == SubSeq(s, k + 1, n)
           t == a \o b
<1>1. Form!RemoveAt(s, k) = t
  BY DEF Form!RemoveAt
<1>2. n \in Nat /\ DOMAIN s = 1..n /\ k \in 1..n
  <2>1. s \in Seq(S)
    BY DEF Form!IsSeq
  <2> HIDE DEF S
  <2> QED BY <2>1, LenProperties
<1>3. \A i \in 1..n : s[i] \in S
  BY <1>2
<1> HIDE DEF S, n
<1>4. a \in Seq(S) /\ Len(a) = k - 1 /\ \A i \in 1..(k - 1) : a[i] = s[i]
  <2>1. /\ \A i \in 1..(k - 1) : s[i] \in S
        /\ 1 \in Int /\ k - 1 \in Int /\ k - 1 >= 0
    BY <1>2, <1>3
  <2>2. /\ a \in Seq(S) /\ Len(a) = (IF 1 <= k - 1 THEN k - 1 - 1 + 1 ELSE 0)
        /\ \A i \in 1..(k - 1 - 1 + 1) : a[i] = s[1 + i - 1]
    BY <2>1, SubSeqProperties
  <2> HIDE DEF a
  <2> QED BY <2>1, <2>2
<1>5. b \in Seq(S) /\ Len(b) = n - k /\ \A i \in 1..(n - k) : b[i] = s[k + i]
  <2> DEFINE m == k + 1
  <2>1. /\ \A i \in m..n : s[i] \in S
        /\ m \in Int /\ n \in Int /\ m <= n + 1
    BY <1>2, <1>3
  <2>2. b = SubSeq(s, m, n) /\ n - m + 1 = n - k
    BY <1>2
  <2>3. \A i \in Int : m + i - 1 = k + i
    BY <1>2
  <2> HIDE DEF b, m
  <2>4. /\ b \in Seq(S) /\ Len(b) = (IF m <= n THEN n - m + 1 ELSE 0)
        /\ \A i \in 1..(n - m + 1) : b[i] = s[m + i - 1]
    BY <2>1, <2>2, SubSeqProperties
  <2>5. Len(b) = n - m + 1
    BY <2>1, <2>4
  <2>6. \A i \in 1..(n - k) : i \in Int /\ b[i] = s[m + i - 1]
    BY <2>2, <2>4
  <2>7. \A i \in 1..(n - k) : b[i] = s[k + i]
    BY <2>3, <2>6
  <2>8. Len(b) = n - k
    BY <2>2, <2>5
  <2> QED BY <2>4, <2>7, <2>8
<1> HIDE DEF a, b
<1>6. /\ DOMAIN t = 1..Len(a) + Len(b)
      /\ \A i \in 1..Len(a) : t[i] = a[i]
      /\ \A i \in Len(a) + 1 .. Len(a) + Len(b) : t[i] = b[i - Len(a)]
  BY <1>4, <1>5
<1> HIDE DEF t
<1>7. DOMAIN t = 1..(n - 1)
  BY <1>2, <1>4, <1>5, <1>6
<1>8. \A i \in 1..(k - 1) : t[i] = s[i]
  BY <1>2, <1>4, <1>6
<1>9. ASSUME NEW i \in k..(n - 1) PROVE t[i] = s[i + 1]
  <2>1. /\ i \in Len(a) + 1 .. Len(a) + Len(b) /\ i - Len(a) \in 1..(n - k)
        /\ k + (i - Len(a)) = i + 1
    BY <1>2, <1>4, <1>5
  <2> QED BY <1>5, <1>6, <2>1
<1>10. k \in Nat /\ DOMAIN s \subseteq Nat /\ DOMAIN t \subseteq Nat
  BY <1>2, <1>7
<1>11. ASSUME NEW i \in DOMAIN t
       PROVE  IF i < k THEN i \in DOMAIN s /\ t[i] = s[i] ELSE i + 1 \in DOMAIN s /\ t[i] = s[i + 1]
  <2>1. CASE i < k
    <3>1. i \in 1..(k - 1) /\ i \in 1..n
      BY <1>2, <1>7, <2>1
    <3> QED BY <1>2, <1>8, <2>1, <3>1
  <2>2. CASE ~(i < k)
    <3>1. i \in k..(n - 1) /\ i + 1 \in 1..n
      BY <1>2, <1>7, <2>2
    <3> QED BY <1>2, <1>9, <2>2, <3>1
  <2> QED BY <2>1, <2>2
<1>12. ASSUME NEW j \in DOMAIN s, j < k PROVE j \in DOMAIN t /\ t[j] = s[j]
  <2>1. j \in 1..(k - 1) /\ j \in 1..(n - 1)
    BY <1>2, <1>12
  <2> QED BY <1>7, <1>8, <2>1
<1>13. ASSUME NEW j \in DOMAIN s, j > k PROVE j - 1 \in DOMAIN t /\ t[j - 1] = s[j]
  <2>1. j - 1 \in k..(n - 1) /\ j - 1 \in 1..(n - 1) /\ j - 1 + 1 = j
    BY <1>2, <1>13
  <2> QED BY <1>7, <1>9, <2>1
<1> QED BY <1>1, <1>10, <1>11, <1>12, <1>13

LEMMA SetInSeq ==
    ASSUME NEW S, IsFiniteSet(S), NEW e \in S
    PROVE  \E i \in DOMAIN Form!SetToSeq(S) : Form!SetToSeq(S)[i] = e
<1> DEFINE D == 1..Cardinality(S)
           t == Form!SetToSeq(S)
<1>1. Cardinality(S) \in Nat /\ ExistsBijection(D, S)
  BY FS_CardinalityType
<1>2. \E g \in [D -> S] : Form!IsInjective(g)
  BY <1>1 DEF ExistsBijection, Bijection, Injection, IsInjective, Form!IsInjective
<1>3. t = CHOOSE g \in [D -> S] : Form!IsInjective(g)
  BY SameCardinality DEF Form!SetToSeq
<1>4. t \in [D -> S] /\ Form!IsInjective(t)
  <2> HIDE DEF t, D
  <2> QED BY <1>2, <1>3
<1>5. t \in Injection(D, S)
  <2> HIDE DEF t, D
  <2> QED BY <1>4 DEF Injection, IsInjective, Form!IsInjective
<1>6. Cardinality(D) = Cardinality(S)
  BY <1>1, FS_Interval
<1>7. t \in Surjection(D, S)
  <2> HIDE DEF t, D
  <2> QED BY <1>5, <1>6, FS_Injection
<1> HIDE DEF t, D
<1>8. \E i \in DOMAIN t : t[i] = e
  BY <1>4, <1>7 DEF Surjection
<1> QED BY <1>8 DEF t

LEMMA CallsAskAll ==
    ASSUME Form!FieldSets, NEW F \in SUBSET Fields, NEW vals
    PROVE  /\ \A i \in DOMAIN Form!NewCalls(F, vals) :
                 Form!NewCalls(F, vals)[i].arg = vals[Form!NewCalls(F, vals)[i].on]
           /\ \A f \in F : Form!Listens(f) /\ f \in Instant =>
                 \E i \in DOMAIN Form!NewCalls(F, vals) : Form!NewCalls(F, vals)[i].on = f
<1> DEFINE S == {f \in F : Form!Listens(f) /\ f \in Instant}
           s == Form!SetToSeq(S)
           t == [i \in DOMAIN s |-> [on |-> s[i], arg |-> vals[s[i]], mount |-> formKey]]
<1>1. IsFiniteSet(S)
  <2>1. IsFiniteSet(Fields) /\ S \in SUBSET Fields
    BY SameFinite DEF Form!FieldSets
  <2> HIDE DEF S
  <2> QED BY <2>1, FS_Subset
<1>2. \A f \in F : Form!Listens(f) /\ f \in Instant => f \in S
  OBVIOUS
<1>3. Form!NewCalls(F, vals) = t
  BY DEF Form!NewCalls
<1> HIDE DEF S
<1>4. \A f \in S : \E i \in DOMAIN s : s[i] = f
  BY <1>1, SetInSeq
<1> HIDE DEF s
<1>5. \A i \in DOMAIN t : t[i].arg = vals[t[i].on]
  OBVIOUS
<1>6. \A f \in S : \E i \in DOMAIN t : t[i].on = f
  BY <1>4
<1> HIDE DEF t
<1> QED BY <1>2, <1>3, <1>5, <1>6

\* Whatever asks anew, of the fields F that took other values, keeps the requests
\* saying what is shown, and leaves no watched field of F unasked.
AskedFor(s, F, w) == s \o Form!NewCalls(F, w)
AskedLater(T, F) == T \cup {f \in F : Form!Listens(f) /\ f \notin Instant}

LEMMA AskedAnew ==
    ASSUME Form!FieldSets, NEW s, Form!IsSeq(s), NEW T, NEW v, NEW w, NEW F \in SUBSET Fields,
           Form!AsksWhatIsShown(s, T, v),
           \A i \in DOMAIN s : s[i].on \in Fields,
           \A f \in Fields \ F : w[f] = v[f]
    PROVE  /\ Form!AsksWhatIsShown(AskedFor(s, F, w), AskedLater(T, F), w)
           /\ \A f \in F : Form!Listens(f) =>
                 \/ f \in AskedLater(T, F)
                 \/ \E i \in DOMAIN AskedFor(s, F, w) :
                       AskedFor(s, F, w)[i].on = f /\ AskedFor(s, F, w)[i].mount = formKey
<1> DEFINE new == Form!NewCalls(F, w)
           all == AskedFor(s, F, w)
           later == AskedLater(T, F)
<1>1. /\ Form!IsSeq(new)
      /\ \A j \in DOMAIN new : new[j].on \in F /\ new[j].mount = formKey
  BY CallsAsked
<1>2. /\ \A j \in DOMAIN new : new[j].arg = w[new[j].on]
      /\ \A f \in F : Form!Listens(f) /\ f \in Instant => \E j \in DOMAIN new : new[j].on = f
  BY CallsAskAll
<1> HIDE DEF new
<1>3. /\ \A i \in DOMAIN s : i \in DOMAIN all /\ all[i] = s[i]
      /\ \A j \in DOMAIN new : \E i \in DOMAIN all : all[i] = new[j] /\ \A k \in DOMAIN s : k < i
      /\ \A i \in DOMAIN all : i \in DOMAIN s \/ \E j \in DOMAIN new : all[i] = new[j]
      /\ DOMAIN all \subseteq Nat
  <2>1. all = s \o new
    BY DEF AskedFor, new
  <2> HIDE DEF all
  <2> QED BY <1>1, <2>1, SeqJoinAt
<1> HIDE DEF all
<1>4. \A f \in F : Form!Listens(f) => f \in later \/ \E j \in DOMAIN new : new[j].on = f
  BY <1>2 DEF AskedLater
<1>5. \A f \in F : Form!Listens(f) =>
         \/ f \in later
         \/ \E i \in DOMAIN all : /\ all[i].on = f /\ all[i].mount = formKey
                                  /\ \A k \in DOMAIN s : k < i
  BY <1>1, <1>3, <1>4
<1>6. T \subseteq later
  BY DEF AskedLater
<1> HIDE DEF later
<1>7. ASSUME NEW i \in DOMAIN all, all[i].mount = formKey, Form!Listens(all[i].on),
             all[i].on \notin later, all[i].arg # w[all[i].on]
      PROVE  \E j \in DOMAIN all : j > i /\ all[j].on = all[i].on /\ all[j].mount = formKey
  <2>1. i \in DOMAIN s /\ all[i] = s[i] /\ s[i].on \in Fields
    BY <1>2, <1>3, <1>7
  <2>2. CASE s[i].on \in F
    <3>1. PICK j \in DOMAIN all : /\ all[j].on = s[i].on /\ all[j].mount = formKey
                                  /\ \A k \in DOMAIN s : k < j
      BY <1>5, <1>7, <2>1, <2>2
    <3>2. i < j
      BY <2>1, <3>1
    <3>3. i \in Nat /\ j \in Nat
      BY <1>3, <2>1
    <3> QED BY <2>1, <3>1, <3>2, <3>3
  <2>3. CASE s[i].on \notin F
    <3>1. w[s[i].on] = v[s[i].on]
      BY <2>1, <2>3
    <3>2. s[i].on \notin T
      BY <1>6, <1>7, <2>1
    <3>3. PICK j \in DOMAIN s : j > i /\ s[j].on = s[i].on /\ s[j].mount = formKey
      BY <1>7, <2>1, <3>1, <3>2 DEF Form!AsksWhatIsShown, Form!Live
    <3> QED BY <1>3, <2>1, <3>3
  <2> QED BY <2>2, <2>3
<1>8. Form!AsksWhatIsShown(all, later, w)
  BY <1>7 DEF Form!AsksWhatIsShown, Form!Live
<1>9. \A f \in F : Form!Listens(f) =>
         f \in later \/ \E i \in DOMAIN all : all[i].on = f /\ all[i].mount = formKey
  BY <1>5
<1> QED BY <1>8, <1>9 DEF all, later

\* An answer to the oldest request of its field takes none away that another one
\* counted on.
LEMMA AskedStill ==
    ASSUME NEW s, Form!IsSeq(s), NEW k \in DOMAIN s, NEW T, NEW v,
           Form!AsksWhatIsShown(s, T, v),
           \A j \in 1..(k - 1) : s[j].on # s[k].on
    PROVE  Form!AsksWhatIsShown(Form!RemoveAt(s, k), T, v)
<1> DEFINE t == Form!RemoveAt(s, k)
           Was(i) == IF i < k THEN i ELSE i + 1
<1>1. k \in Nat /\ DOMAIN s \subseteq Nat /\ DOMAIN t \subseteq Nat
  BY SeqWithoutAt
<1>2. \A i \in DOMAIN t : IF i < k THEN i \in DOMAIN s /\ t[i] = s[i]
                                   ELSE i + 1 \in DOMAIN s /\ t[i] = s[i + 1]
  BY SeqWithoutAt
<1>3. \A j \in DOMAIN s : /\ j < k => j \in DOMAIN t /\ t[j] = s[j]
                          /\ j > k => j - 1 \in DOMAIN t /\ t[j - 1] = s[j]
  BY SeqWithoutAt
<1>4. DOMAIN s = 1..Len(s) /\ Len(s) \in Nat
  BY SeqSelf DEF Form!IsSeq
<1> HIDE DEF t
<1>5. ASSUME NEW i \in DOMAIN t, t[i].mount = formKey, Form!Listens(t[i].on),
             t[i].on \notin T, t[i].arg # v[t[i].on]
      PROVE  \E j \in DOMAIN t : j > i /\ t[j].on = t[i].on /\ t[j].mount = formKey
  <2>1. PICK h \in DOMAIN s : t[i] = s[h] /\ h # k /\ h = (IF i < k THEN i ELSE i + 1)
    BY <1>1, <1>2
  <2>2. PICK j \in DOMAIN s : j > h /\ s[j].on = s[h].on /\ s[j].mount = formKey
    BY <1>5, <2>1 DEF Form!AsksWhatIsShown, Form!Live
  <2>3. j # k
    BY <1>1, <1>4, <2>1, <2>2
  <2>4. i \in Nat /\ h \in Nat /\ j \in Nat /\ k \in Nat
    BY <1>1
  <2>5. CASE j < k
    <3>1. j > i
      BY <2>1, <2>2, <2>4, <2>5
    <3> QED BY <1>3, <2>1, <2>2, <2>5, <3>1
  <2>6. CASE j > k
    <3>1. j - 1 > i
      BY <2>1, <2>2, <2>4, <2>6
    <3> QED BY <1>3, <2>1, <2>2, <2>6, <3>1
  <2> QED BY <2>3, <2>4, <2>5, <2>6
<1>6. Form!AsksWhatIsShown(t, T, v)
  BY <1>5 DEF Form!AsksWhatIsShown, Form!Live
<1> QED BY <1>6 DEF t

LEMMA SeqAppendAt ==
    ASSUME NEW s, Form!IsSeq(s), NEW c
    PROVE  /\ DOMAIN s \subseteq Nat /\ DOMAIN Append(s, c) \subseteq Nat
           /\ \A i \in DOMAIN s : i \in DOMAIN Append(s, c) /\ Append(s, c)[i] = s[i]
           /\ \E i \in DOMAIN Append(s, c) : Append(s, c)[i] = c /\ \A k \in DOMAIN s : k < i
           /\ \A i \in DOMAIN Append(s, c) : i \in DOMAIN s \/ Append(s, c)[i] = c
<1> DEFINE S == {s[i] : i \in DOMAIN s} \cup {c}
           t == Append(s, c)
<1>1. s \in Seq(S) /\ c \in S
  BY DEF Form!IsSeq
<1>2. /\ DOMAIN t = 1..Len(s) + 1 /\ Len(s) \in Nat /\ DOMAIN s = 1..Len(s)
      /\ t[Len(s) + 1] = c /\ \A i \in 1..Len(s) : t[i] = s[i]
  <2> HIDE DEF S
  <2> QED BY <1>1
<1> HIDE DEF t
<1>3. \A i \in DOMAIN t : i \in DOMAIN s \/ t[i] = c
  <2>1. \A i \in DOMAIN t : i \in DOMAIN s \/ i = Len(s) + 1
    BY <1>2
  <2> QED BY <1>2, <2>1
<1>4. \E i \in DOMAIN t : t[i] = c /\ \A k \in DOMAIN s : k < i
  <2>1. Len(s) + 1 \in DOMAIN t /\ \A k \in DOMAIN s : k < Len(s) + 1
    BY <1>2
  <2> QED BY <1>2, <2>1
<1>5. DOMAIN s \subseteq Nat /\ DOMAIN t \subseteq Nat
  BY <1>2
<1>6. \A i \in DOMAIN s : i \in DOMAIN t /\ t[i] = s[i]
  BY <1>2
<1> QED BY <1>3, <1>4, <1>5, <1>6 DEF t

LEMMA OthersStay ==
    ASSUME NEW s, Form!IsSeq(s), NEW k \in DOMAIN s, NEW j \in DOMAIN s, j # k
    PROVE  \E i \in DOMAIN Form!RemoveAt(s, k) : Form!RemoveAt(s, k)[i] = s[j]
<1>1. j < k \/ j > k
  BY SeqWithoutAt
<1> QED BY <1>1, SeqWithoutAt

\* SettleInv is inductive, with QuietInv beside it.
LEMMA FormSettleStep ==
    ASSUME Form!FieldSets, Form!OneSource, Form!QuietInv, Form!SettleInv, [Form!Next]_Form!vars
    PROVE  Form!SettleInv'
<1> DEFINE V == Values \cup {Null}
           Again(x) == x \in timers \/ \E i \in DOMAIN calls : calls[i].on = x /\ calls[i].mount = formKey
           AgainNow(x) == \/ x \in timers'
                          \/ \E i \in DOMAIN calls' : calls'[i].on = x /\ calls'[i].mount = formKey'
           Shows(m) == value[m.to] = Lookup[value[m.on]]
           ShowsNow(m) == value'[m.to] = Lookup[value'[m.on]]
<1>1. /\ formKey \in Nat /\ Form!IsSeq(calls) /\ timers \subseteq Fields
      /\ \A i \in DOMAIN calls : calls[i].on \in Fields /\ calls[i].mount \in 0..formKey
  BY DEF Form!QuietInv
<1>2. /\ value \in [Fields -> V] /\ presets \subseteq [Fields -> V]
      /\ \A i \in DOMAIN calls : calls[i].arg \in V
      /\ InOrder => Form!AsksWhatIsShown(calls, timers, value)
      /\ InOrder => \A m \in Mappings : m.auto /\ Form!Listens(m.on) /\ m.to \in due
                                          => Again(m.on) \/ Shows(m)
  BY DEF Form!SettleInv, Form!AsksAgain, Form!Live
<1>3. \A m \in Mappings : m.on \in Fields /\ m.to \in Fields
  BY DEF Form!FieldSets
<1>4. \A m, n \in Mappings : m.to = n.to => m = n
  BY DEF Form!OneSource
<1>5. ASSUME /\ formKey' = formKey
             /\ value' \in [Fields -> V] /\ presets' \subseteq [Fields -> V]
             /\ \A i \in DOMAIN calls' : calls'[i].arg \in V
             /\ InOrder => Form!AsksWhatIsShown(calls', timers', value')
             /\ InOrder => \A m \in Mappings : m.auto /\ Form!Listens(m.on) /\ m.to \in due'
                                                 => AgainNow(m.on) \/ ShowsNow(m)
      PROVE  Form!SettleInv'
  BY <1>5 DEF Form!SettleInv, Form!AsksAgain, Form!AsksWhatIsShown, Form!Live, Form!Listens
<1>6. CASE /\ UNCHANGED <<formKey, value, timers, calls, due>>
           /\ presets' \subseteq presets \cup {value}
  BY <1>2, <1>5, <1>6
<1>7. ASSUME NEW f \in Fields, NEW v \in Values, Form!Edit(f, v) PROVE Form!SettleInv'
  <2> DEFINE new == Form!NewCalls({f}, value')
  <2>1. /\ value' = [value EXCEPT ![f] = v] /\ formKey' = formKey /\ calls' = calls \o new
        /\ timers' = timers \cup {g \in {f} : Form!Listens(g) /\ g \notin Instant}
        /\ presets' = presets
        /\ due' = (due \ {f}) \cup {m.to : m \in {n \in Mappings : n.on = f /\ n.auto}}
    BY <1>7 DEF Form!Edit, Form!Notify
  <2>2. value' \in [Fields -> V] /\ \A g \in Fields \ {f} : value'[g] = value[g]
    BY <1>2, <2>1
  <2>3. /\ Form!IsSeq(new)
        /\ \A i \in DOMAIN new : new[i].on \in {f} /\ new[i].arg = value'[new[i].on]
    <3>1. {f} \in SUBSET Fields
      OBVIOUS
    <3> QED BY <3>1, CallsAsked, CallsAskAll
  <2>4. /\ \A i \in DOMAIN calls : i \in DOMAIN calls' /\ calls'[i] = calls[i]
        /\ \A i \in DOMAIN calls' : i \in DOMAIN calls \/ \E j \in DOMAIN new : calls'[i] = new[j]
    <3> HIDE DEF new
    <3> QED BY <1>1, <2>1, <2>3, SeqJoinAt
  <2>5. \A i \in DOMAIN calls' : calls'[i].arg \in V
    <3> HIDE DEF new
    <3> QED BY <1>2, <2>2, <2>3, <2>4
  <2>6. ASSUME InOrder
        PROVE  /\ Form!AsksWhatIsShown(calls', timers', value')
               /\ Form!Listens(f) => AgainNow(f)
    <3>1. {f} \in SUBSET Fields /\ \A i \in DOMAIN calls : calls[i].on \in Fields
      BY <1>1
    <3>2. Form!AsksWhatIsShown(calls, timers, value)
      BY <1>2, <2>6
    <3>3. Form!IsSeq(calls)
      BY <1>1
    <3>4. calls' = AskedFor(calls, {f}, value') /\ timers' = AskedLater(timers, {f})
      BY <2>1 DEF AskedFor, AskedLater
    <3>5. \A g \in Fields \ {f} : value'[g] = value[g]
      BY <2>2
    <3>6. /\ Form!AsksWhatIsShown(calls', timers', value')
          /\ \A g \in {f} : Form!Listens(g) =>
                g \in timers' \/ \E i \in DOMAIN calls' : calls'[i].on = g /\ calls'[i].mount = formKey
      BY <3>1, <3>2, <3>3, <3>4, <3>5, AskedAnew
    <3>7. formKey' = formKey
      BY <2>1
    <3> QED BY <3>6, <3>7
  <2>7. ASSUME InOrder, NEW m \in Mappings, m.auto, Form!Listens(m.on), m.to \in due'
        PROVE  AgainNow(m.on) \/ ShowsNow(m)
    <3>1. CASE m.on = f
      BY <2>6, <2>7, <3>1
    <3>2. CASE m.on # f
      <4>1. m.to \in due /\ m.to # f
        BY <1>4, <2>1, <2>7, <3>2
      <4>2. value'[m.to] = value[m.to] /\ value'[m.on] = value[m.on]
        BY <1>3, <2>2, <3>2, <4>1
      <4>3. Again(m.on) => AgainNow(m.on)
        BY <2>1, <2>4
      <4> QED BY <1>2, <2>7, <4>1, <4>2, <4>3
    <3> QED BY <3>1, <3>2
  <2> HIDE DEF new
  <2> QED BY <1>2, <1>5, <2>1, <2>2, <2>5, <2>6, <2>7
<1>8. ASSUME NEW f \in Fields, Form!TimerFires(f) PROVE Form!SettleInv'
  <2> DEFINE c == [on |-> f, arg |-> value[f], mount |-> formKey]
  <2>1. /\ f \in timers /\ timers' = timers \ {f} /\ calls' = Append(calls, c)
        /\ UNCHANGED <<formKey, value, presets, due>>
    BY <1>8 DEF Form!TimerFires, Form!ghosts
  <2>2. c.on = f /\ c.mount = formKey /\ c.arg = value[f]
    OBVIOUS
  <2> HIDE DEF c
  <2>3. /\ DOMAIN calls \subseteq Nat /\ DOMAIN calls' \subseteq Nat
        /\ \A i \in DOMAIN calls : i \in DOMAIN calls' /\ calls'[i] = calls[i]
        /\ \E i \in DOMAIN calls' : calls'[i] = c /\ \A k \in DOMAIN calls : k < i
        /\ \A i \in DOMAIN calls' : i \in DOMAIN calls \/ calls'[i] = c
    BY <1>1, <2>1, SeqAppendAt
  <2>4. \A i \in DOMAIN calls' : calls'[i].arg \in V
    BY <1>2, <2>2, <2>3
  <2>5. ASSUME InOrder PROVE Form!AsksWhatIsShown(calls', timers', value')
    <3>1. ASSUME NEW i \in DOMAIN calls', calls'[i].mount = formKey, Form!Listens(calls'[i].on),
                 calls'[i].on \notin timers', calls'[i].arg # value[calls'[i].on]
          PROVE  \E j \in DOMAIN calls' :
                    j > i /\ calls'[j].on = calls'[i].on /\ calls'[j].mount = formKey
      <4>1. i \in DOMAIN calls /\ calls'[i] = calls[i]
        BY <2>2, <2>3, <3>1
      <4>2. CASE calls[i].on = f
        <5>1. PICK j \in DOMAIN calls' : calls'[j] = c /\ i < j
          BY <2>3, <4>1
        <5> QED BY <2>2, <2>3, <4>1, <4>2, <5>1
      <4>3. CASE calls[i].on # f
        <5>1. calls[i].on \notin timers
          BY <2>1, <3>1, <4>1, <4>3
        <5>2. \E j \in DOMAIN calls : j > i /\ calls[j].on = calls[i].on /\ calls[j].mount = formKey
          BY <1>2, <2>5, <3>1, <4>1, <5>1 DEF Form!AsksWhatIsShown, Form!Live
        <5> QED BY <2>3, <4>1, <5>2
      <4> QED BY <4>2, <4>3
    <3> QED BY <2>1, <3>1 DEF Form!AsksWhatIsShown, Form!Live
  <2>6. \A x : Again(x) => AgainNow(x)
    BY <2>1, <2>2, <2>3
  <2> QED BY <1>2, <1>5, <2>1, <2>4, <2>5, <2>6
<1>9. ASSUME NEW i \in DOMAIN calls, Form!MayArrive(i), InOrder
      PROVE  Form!AsksWhatIsShown(Form!RemoveAt(calls, i), timers, value)
  <2>1. \A j \in 1..(i - 1) : calls[j].on # calls[i].on
    BY <1>9 DEF Form!MayArrive
  <2> QED BY <1>1, <1>2, <1>9, <2>1, AskedStill
<1>10. ASSUME NEW i \in DOMAIN calls
       PROVE  /\ Form!IsSeq(Form!RemoveAt(calls, i))
              /\ \A j \in DOMAIN Form!RemoveAt(calls, i) :
                    \E k \in DOMAIN calls : Form!RemoveAt(calls, i)[j] = calls[k]
              /\ \A j \in DOMAIN calls : j # i =>
                    \E k \in DOMAIN Form!RemoveAt(calls, i) : Form!RemoveAt(calls, i)[k] = calls[j]
  BY <1>1, SeqWithout, OthersStay
<1>11. ASSUME NEW i \in DOMAIN calls, Form!MayArrive(i), calls' = Form!RemoveAt(calls, i),
              UNCHANGED <<formKey, value, timers, presets>>,
              \/ due' = due \ Form!Reach[calls[i].on]
              \/ due' = due /\ calls[i].mount # formKey
       PROVE  Form!SettleInv'
  <2>1. \A j \in DOMAIN calls' : calls'[j].arg \in V
    BY <1>2, <1>10, <1>11
  <2>2. InOrder => Form!AsksWhatIsShown(calls', timers', value')
    BY <1>9, <1>11
  <2>3. ASSUME InOrder, NEW m \in Mappings, m.auto, Form!Listens(m.on), m.to \in due'
        PROVE  AgainNow(m.on) \/ ShowsNow(m)
    <3>1. m.on # calls[i].on \/ calls[i].mount # formKey
      <4>1. ASSUME m.on = calls[i].on PROVE m.to \in Form!Reach[calls[i].on]
        BY <1>1, <4>1, ReachClosed DEF Form!FilledBy
      <4> QED BY <1>11, <2>3, <4>1
    <3>2. Again(m.on) => AgainNow(m.on)
      BY <1>10, <1>11, <3>1
    <3> QED BY <1>2, <1>11, <2>3, <3>2
  <2> QED BY <1>2, <1>5, <1>11, <2>1, <2>2, <2>3
<1>12. ASSUME NEW i \in DOMAIN calls, Form!NotFilled(i) \/ Form!LateAnswer(i) PROVE Form!SettleInv'
  <2>1. /\ Form!MayArrive(i) /\ calls' = Form!RemoveAt(calls, i)
        /\ UNCHANGED <<formKey, value, timers, presets>>
        /\ \/ due' = due \ Form!Reach[calls[i].on]
           \/ due' = due /\ calls[i].mount # formKey
    BY <1>12 DEF Form!NotFilled, Form!LateAnswer, Form!formVars, Form!ghosts, Form!Live
  <2> QED BY <1>11, <2>1
<1>13. ASSUME NEW i \in DOMAIN calls, Form!Filled(i) PROVE Form!SettleInv'
  <2> DEFINE x == calls[i].on
             arg == calls[i].arg
             E == Form!Enriched[x]
             rest == Form!RemoveAt(calls, i)
             new == Form!NewCalls(E, value')
  <2>1. DOMAIN Form!Answer(x, arg) = E
    BY DEF Form!Answer
  <2>2. \A f \in E : Form!Answer(x, arg)[f].prefill = Form!LookedUp[x][arg][f]
    BY DEF Form!Answer
  <2>3. /\ Form!MayArrive(i) /\ calls[i].mount = formKey /\ formKey' = formKey /\ presets' = presets
        /\ value' = [f \in Fields |-> IF f \in E THEN Form!LookedUp[x][arg][f] ELSE value[f]]
        /\ calls' = rest \o new
        /\ timers' = timers \cup {f \in E : Form!Listens(f) /\ f \notin Instant}
        /\ due' = due \cup {m.to : m \in {n \in Mappings : n.on \in E /\ n.auto}}
    BY <1>13, <2>1, <2>2 DEF Form!Filled, Form!Notify, Form!Live
  <2>4. x \in Fields /\ arg \in V
    BY <1>1, <1>2
  <2>5. E \in SUBSET Fields /\ Form!FilledBy(x) \subseteq E
    BY <2>4, EnrichedLeast
  <2>6. x \notin E
    BY <2>4, EnrichedReached DEF Form!OneSource
  <2>7. \A f \in E : /\ Form!LookedUp[x][arg][f] \in V
                     /\ \A m \in Mappings : m.to = f => m = Form!Source(f) /\ (m.on = x \/ m.on \in E)
                     /\ Form!Source(f).auto /\ Form!Source(f).on = x
                           => Form!LookedUp[x][arg][f] = Lookup[arg]
    BY <2>4, LookedUpOf, EnrichedFrom
  <2> HIDE DEF E
  <2>8. /\ Form!IsSeq(new)
        /\ \A j \in DOMAIN new : new[j].on \in E /\ new[j].arg = value'[new[j].on]
    BY <2>5, CallsAsked, CallsAskAll
  <2>9. /\ Form!IsSeq(rest)
        /\ \A j \in DOMAIN rest : \E k \in DOMAIN calls : rest[j] = calls[k]
        /\ \A j \in DOMAIN calls : j # i => \E k \in DOMAIN rest : rest[k] = calls[j]
    BY <1>10
  <2>10. /\ value' \in [Fields -> V]
         /\ \A f \in Fields \ E : value'[f] = value[f]
         /\ \A f \in E : value'[f] = Form!LookedUp[x][arg][f]
    BY <1>2, <2>3, <2>5, <2>7
  <2>11. ASSUME InOrder
         PROVE  /\ Form!AsksWhatIsShown(calls', timers', value')
                /\ \A f \in E : Form!Listens(f) => AgainNow(f)
    <3>1. Form!AsksWhatIsShown(rest, timers, value)
      BY <1>9, <2>3, <2>11
    <3>2. \A j \in DOMAIN rest : rest[j].on \in Fields
      BY <1>1, <2>9
    <3>3. calls' = AskedFor(rest, E, value') /\ timers' = AskedLater(timers, E)
      BY <2>3 DEF AskedFor, AskedLater
    <3>4. \A f \in Fields \ E : value'[f] = value[f]
      BY <2>10
    <3>5. Form!IsSeq(rest) /\ E \in SUBSET Fields
      BY <2>5, <2>9
    <3> HIDE DEF rest
    <3>6. /\ Form!AsksWhatIsShown(calls', timers', value')
          /\ \A f \in E : Form!Listens(f) =>
                f \in timers' \/ \E j \in DOMAIN calls' : calls'[j].on = f /\ calls'[j].mount = formKey
      BY <3>1, <3>2, <3>3, <3>4, <3>5, AskedAnew
    <3>7. formKey' = formKey
      BY <2>3
    <3> QED BY <3>6, <3>7
  <2> HIDE DEF rest, new
  <2>12. /\ \A j \in DOMAIN rest : j \in DOMAIN calls' /\ calls'[j] = rest[j]
         /\ \A j \in DOMAIN calls' : j \in DOMAIN rest \/ \E k \in DOMAIN new : calls'[j] = new[k]
    BY <2>3, <2>8, <2>9, SeqJoinAt
  <2>13. \A j \in DOMAIN calls' : calls'[j].arg \in V
    BY <1>2, <2>5, <2>8, <2>9, <2>10, <2>12
  <2>14. ASSUME NEW j \in DOMAIN calls, j # i PROVE \E k \in DOMAIN calls' : calls'[k] = calls[j]
    BY <2>9, <2>12, <2>14
  <2>15. formKey' = formKey /\ \A f \in timers : f \in timers'
    BY <2>3
  <2>16. ASSUME InOrder, NEW m \in Mappings, m.auto, Form!Listens(m.on), m.to \in due', m.on \notin E
         PROVE  AgainNow(m.on) \/ ShowsNow(m)
    <3>1. m.to \in due
      BY <1>4, <2>3, <2>16
    <3>2. value'[m.on] = value[m.on]
      BY <1>3, <2>10, <2>16
    <3>3. CASE m.on # x
      <4>1. m.to \notin E
        BY <2>7, <2>16, <3>3
      <4>2. value'[m.to] = value[m.to]
        BY <1>3, <2>10, <4>1
      <4>3. Again(m.on) => AgainNow(m.on)
        BY <2>14, <2>15, <3>3
      <4> QED BY <1>2, <2>16, <3>1, <3>2, <4>2, <4>3
    <3>4. CASE m.on = x
      <4>1. m.to \in E
        BY <2>5, <3>4 DEF Form!FilledBy
      <4>2. value'[m.to] = Lookup[arg]
        BY <2>7, <2>10, <2>16, <3>4, <4>1
      <4>3. CASE arg = value[x]
        BY <3>2, <3>4, <4>2, <4>3
      <4>4. CASE x \in timers
        BY <2>15, <3>4, <4>4
      <4>5. CASE arg # value[x] /\ x \notin timers
        <5>1. \E j \in DOMAIN calls : j > i /\ calls[j].on = x /\ calls[j].mount = formKey
          BY <1>2, <2>3, <2>16, <3>4, <4>5 DEF Form!AsksWhatIsShown, Form!Live
        <5>2. i \in Nat
          BY <1>1, SeqWithoutAt
        <5>3. PICK j \in DOMAIN calls : j # i /\ calls[j].on = x /\ calls[j].mount = formKey
          BY <5>1, <5>2
        <5>4. PICK k \in DOMAIN calls' : calls'[k] = calls[j]
          BY <2>14, <5>3
        <5> QED BY <2>15, <3>4, <5>3, <5>4
      <4> QED BY <4>3, <4>4, <4>5
    <3> QED BY <3>3, <3>4
  <2>17. presets' \subseteq [Fields -> V]
    BY <1>2, <2>3
  <2>18. InOrder => \A m \in Mappings : m.auto /\ Form!Listens(m.on) /\ m.to \in due'
                                          => AgainNow(m.on) \/ ShowsNow(m)
    BY <2>11, <2>16
  <2> QED BY <1>5, <2>10, <2>11, <2>13, <2>15, <2>17, <2>18
<1>14. ASSUME NEW p \in presets, Form!LoadPreset(p) PROVE Form!SettleInv'
  <2>1. /\ formKey' = formKey + 1 /\ calls' = calls /\ due' = {} /\ presets' = presets
        /\ value' = Form!BuildDefaults(p)
    BY <1>14 DEF Form!LoadPreset, Form!FreshForm
  <2>2. value' \in [Fields -> V]
    BY <1>2, <2>1 DEF Form!BuildDefaults, Form!FieldSets
  <2>3. \A i \in DOMAIN calls' : calls'[i].mount # formKey'
    BY <1>1, <2>1
  <2>4. \A i \in DOMAIN calls' : calls'[i].arg \in V
    BY <1>2, <2>1
  <2> QED BY <1>2, <2>1, <2>2, <2>3, <2>4
          DEF Form!SettleInv, Form!AsksWhatIsShown, Form!Live
<1>15. ASSUME ~(/\ UNCHANGED <<formKey, value, timers, calls, due>>
                /\ presets' \subseteq presets \cup {value})
       PROVE  \/ \E f \in Fields, v \in Values : Form!Edit(f, v)
              \/ \E f \in Fields : Form!TimerFires(f)
              \/ \E i \in DOMAIN calls : Form!Filled(i) \/ Form!NotFilled(i) \/ Form!LateAnswer(i)
              \/ \E p \in presets : Form!LoadPreset(p)
  BY <1>15 DEF Form!Next, Form!vars, Form!formVars, Form!ghosts, Form!Answers, Form!FoldSection,
     Form!ToggleFeature, Form!Submit, Form!RenderAnswered, Form!RenderFailed, Form!SavePreset,
     Form!DeletePreset
<1> QED BY <1>6, <1>7, <1>8, <1>12, <1>13, <1>14, <1>15

\* Once every timer and request is done, a field that was filled shows what its
\* source answers for the value its trigger shows, whatever was typed, failed and
\* answered meanwhile, along a cascade of any length.
THEOREM FillsSettle == Form!Spec => []AutofillSettles
<1>1. Form!Init => Form!QuietInv /\ Form!SettleInv
  BY FormHypotheses DEF Form!Init, Form!QuietInv, Form!SettleInv, Form!FieldSets, Form!IsSeq,
     Form!AsksWhatIsShown
<1>2. Form!QuietInv /\ Form!SettleInv /\ [Form!Next]_Form!vars => (Form!QuietInv /\ Form!SettleInv)'
  BY FormHypotheses, FormQuietStep, FormSettleStep
<1>3. Form!SettleInv => AutofillSettles
  BY DEF Form!SettleInv, Form!AsksAgain, Form!Listens, Form!Live, AutofillSettles, Quiet, Live
<1> QED BY <1>1, <1>2, <1>3, PTL DEF Form!Spec

LEMMA NewCallsTyped ==
    ASSUME Form!FieldSets, NEW F \in SUBSET Fields, NEW vals \in [Fields -> Values \cup {Null}],
           formKey \in 0..MaxLoads
    PROVE  \A i \in DOMAIN Form!NewCalls(F, vals) : Form!NewCalls(F, vals)[i] \in Form!Call
<1> DEFINE S == {f \in F : Form!Listens(f) /\ f \in Instant}
           s == Form!SetToSeq(S)
           t == [i \in DOMAIN s |-> [on |-> s[i], arg |-> vals[s[i]], mount |-> formKey]]
<1>1. IsFiniteSet(S)
  <2>1. IsFiniteSet(Fields) /\ S \in SUBSET Fields
    BY SameFinite DEF Form!FieldSets
  <2> HIDE DEF S
  <2> QED BY <2>1, FS_Subset
<1>2. \A f \in S : f \in Fields
  OBVIOUS
<1>3. Form!NewCalls(F, vals) = t
  BY DEF Form!NewCalls
<1> HIDE DEF S
<1>4. \A i \in DOMAIN s : s[i] \in Fields
  BY <1>1, <1>2, SetAsSeq
<1> HIDE DEF s
<1>5. \A i \in DOMAIN t : t[i] \in Form!Call
  BY <1>4 DEF Form!Call
<1> HIDE DEF t
<1> QED BY <1>3, <1>5

\* The parts of the type that no other invariant has.
FormShapes ==
    /\ formKey \in 0..MaxLoads
    /\ readonly \in [Fields -> BOOLEAN]
    /\ folded \subseteq Fields /\ loading \subseteq Fields
    /\ \A i \in DOMAIN calls : calls[i] \in Form!Call
    /\ enabled \subseteq Features
    /\ \A r \in renders : r \in Form!Render
    /\ sent \in 0..MaxRenders /\ result \in 0..MaxRenders
    /\ refused \in BOOLEAN
    /\ edits \in 0..MaxEdits
    /\ \A f \in Fields : kept[f] \in Values \cup {Null, Untouched}
    /\ due \subseteq Fields

LEMMA FormShapesStep ==
    ASSUME Form!FieldSets, Form!OneSource, Form!QuietInv, Form!SettleInv, Form!SettleInv',
           FormShapes, [Form!Next]_Form!vars
    PROVE  FormShapes'
<1>1. /\ Required \subseteq Fields /\ Instant \subseteq Fields
      /\ \A m \in Mappings : m.on \in Fields /\ m.to \in Fields /\ m.ro \in BOOLEAN
      /\ DefaultOn \subseteq Features
      /\ MaxEdits \in Nat /\ MaxLoads \in Nat /\ MaxRenders \in Nat
  BY DEF Form!FieldSets
<1>2. /\ value \in [Fields -> Values \cup {Null}] /\ value' \in [Fields -> Values \cup {Null}]
      /\ presets \subseteq [Fields -> Values \cup {Null}]
  BY DEF Form!SettleInv
<1>3. /\ timers \subseteq Fields /\ Form!IsSeq(calls)
      /\ \A i \in DOMAIN calls : calls[i].on \in Fields
  BY DEF Form!QuietInv
<1>4. ASSUME NEW i \in DOMAIN calls
      PROVE  /\ DOMAIN Form!Answer(calls[i].on, calls[i].arg) \in SUBSET Fields
             /\ \A f \in DOMAIN Form!Answer(calls[i].on, calls[i].arg) :
                   Form!Answer(calls[i].on, calls[i].arg)[f].ro \in BOOLEAN
  <2> DEFINE x == calls[i].on
  <2>1. x \in Fields
    BY <1>3
  <2>2. DOMAIN Form!Answer(x, calls[i].arg) = Form!Enriched[x]
    BY DEF Form!Answer
  <2>3. \A f \in Form!Enriched[x] : Form!Answer(x, calls[i].arg)[f].ro = Form!Source(f).ro
    BY DEF Form!Answer
  <2>4. \A f \in Form!Enriched[x] : Form!Source(f) \in Mappings
    BY <2>1, EnrichedFrom
  <2>5. Form!Enriched[x] \in SUBSET Fields
    BY <2>1, EnrichedLeast
  <2> HIDE DEF x
  <2>6. \A f \in Form!Enriched[x] : Form!Answer(x, calls[i].arg)[f].ro \in BOOLEAN
    BY <1>1, <2>3, <2>4
  <2>7. /\ DOMAIN Form!Answer(x, calls[i].arg) \in SUBSET Fields
        /\ \A f \in DOMAIN Form!Answer(x, calls[i].arg) : Form!Answer(x, calls[i].arg)[f].ro \in BOOLEAN
    BY <2>2, <2>5, <2>6
  <2> QED BY <2>7 DEF x
<1>5. formKey' \in 0..MaxLoads
  <2>1. CASE formKey' = formKey
    BY <2>1 DEF FormShapes
  <2>2. CASE formKey' = formKey + 1 /\ formKey < MaxLoads
    BY <1>1, <2>2 DEF FormShapes
  <2>3. formKey' = formKey \/ (formKey' = formKey + 1 /\ formKey < MaxLoads)
    BY DEF Form!Next, Form!vars, Form!Edit, Form!TimerFires, Form!Answers, Form!Filled,
       Form!NotFilled, Form!LateAnswer, Form!FoldSection, Form!ToggleFeature, Form!Submit,
       Form!RenderAnswered, Form!RenderFailed, Form!SavePreset, Form!DeletePreset, Form!LoadPreset
  <2> QED BY <2>1, <2>2, <2>3
<1>6. readonly' \in [Fields -> BOOLEAN]
  <2>1. ASSUME NEW i \in DOMAIN calls, Form!Filled(i) PROVE readonly' \in [Fields -> BOOLEAN]
    <3> DEFINE answer == Form!Answer(calls[i].on, calls[i].arg)
    <3>1. readonly' = [f \in Fields |-> IF f \in DOMAIN answer THEN answer[f].ro ELSE readonly[f]]
      BY <2>1 DEF Form!Filled
    <3>2. \A f \in DOMAIN answer : answer[f].ro \in BOOLEAN
      BY <1>4
    <3> HIDE DEF answer
    <3> QED BY <3>1, <3>2 DEF FormShapes
  <2>2. ASSUME NEW p \in presets, Form!LoadPreset(p) PROVE readonly' \in [Fields -> BOOLEAN]
    <3>1. readonly' = [f \in Fields |-> f \in LoadLocked]
      BY <2>2 DEF Form!LoadPreset, Form!FreshForm
    <3> QED BY <3>1
  <2>3. \/ readonly' = readonly
        \/ \E i \in DOMAIN calls : Form!Filled(i)
        \/ \E p \in presets : Form!LoadPreset(p)
    BY DEF Form!Next, Form!vars, Form!formVars, Form!Edit, Form!TimerFires, Form!Answers,
       Form!NotFilled, Form!LateAnswer, Form!FoldSection, Form!ToggleFeature, Form!Submit,
       Form!RenderAnswered, Form!RenderFailed, Form!SavePreset, Form!DeletePreset
  <2> QED BY <2>1, <2>2, <2>3 DEF FormShapes
<1>7. folded' \subseteq Fields
  <2>1. folded' \subseteq folded \cup Required
    BY DEF Form!Next, Form!vars, Form!formVars, Form!Edit, Form!TimerFires, Form!Answers, Form!Filled,
       Form!NotFilled, Form!LateAnswer, Form!FoldSection, Form!ToggleFeature, Form!Submit,
       Form!RenderAnswered, Form!RenderFailed, Form!SavePreset, Form!DeletePreset, Form!LoadPreset,
       Form!FreshForm
  <2> QED BY <1>1, <2>1 DEF FormShapes
<1>8. loading' \subseteq Fields
  <2>1. loading' \subseteq loading \cup Instant \cup timers
    BY DEF Form!Next, Form!vars, Form!formVars, Form!Edit, Form!TimerFires, Form!Answers, Form!Filled,
       Form!NotFilled, Form!LateAnswer, Form!FoldSection, Form!ToggleFeature, Form!Submit,
       Form!RenderAnswered, Form!RenderFailed, Form!SavePreset, Form!DeletePreset, Form!LoadPreset,
       Form!FreshForm
  <2> QED BY <1>1, <1>3, <2>1 DEF FormShapes
<1>9. \A i \in DOMAIN calls' : calls'[i] \in Form!Call
  <2>1. ASSUME NEW f \in Fields, NEW v \in Values, Form!Edit(f, v)
        PROVE  \A i \in DOMAIN calls' : calls'[i] \in Form!Call
    <3> DEFINE new == Form!NewCalls({f}, value')
    <3>1. calls' = calls \o new
      BY <2>1 DEF Form!Edit, Form!Notify
    <3>2. Form!IsSeq(new) /\ \A i \in DOMAIN new : new[i] \in Form!Call
      <4>1. {f} \in SUBSET Fields /\ formKey \in 0..MaxLoads
        BY DEF FormShapes
      <4> QED BY <1>2, <4>1, CallsAsked, NewCallsTyped
    <3> HIDE DEF new
    <3>3. \A i \in DOMAIN calls' : \/ \E j \in DOMAIN calls : calls'[i] = calls[j]
                                   \/ \E j \in DOMAIN new : calls'[i] = new[j]
      BY <1>3, <3>1, <3>2, SeqJoined
    <3> QED BY <3>2, <3>3 DEF FormShapes
  <2>2. ASSUME NEW f \in Fields, Form!TimerFires(f)
        PROVE  \A i \in DOMAIN calls' : calls'[i] \in Form!Call
    <3> DEFINE c == [on |-> f, arg |-> value[f], mount |-> formKey]
    <3>1. calls' = Append(calls, c)
      BY <2>2 DEF Form!TimerFires
    <3>2. c \in Form!Call
      BY <1>2 DEF Form!Call, FormShapes
    <3> HIDE DEF c
    <3>3. \A i \in DOMAIN calls' : calls'[i] = c \/ \E j \in DOMAIN calls : calls'[i] = calls[j]
      BY <1>3, <3>1, SeqAppend
    <3> QED BY <3>2, <3>3 DEF FormShapes
  <2>3. ASSUME NEW i \in DOMAIN calls, Form!NotFilled(i) \/ Form!LateAnswer(i)
        PROVE  \A j \in DOMAIN calls' : calls'[j] \in Form!Call
    <3>1. calls' = Form!RemoveAt(calls, i)
      BY <2>3 DEF Form!NotFilled, Form!LateAnswer
    <3>2. \A j \in DOMAIN calls' : \E k \in DOMAIN calls : calls'[j] = calls[k]
      BY <1>3, <3>1, SeqWithout
    <3> QED BY <3>2 DEF FormShapes
  <2>4. ASSUME NEW i \in DOMAIN calls, Form!Filled(i)
        PROVE  \A j \in DOMAIN calls' : calls'[j] \in Form!Call
    <3> DEFINE written == DOMAIN Form!Answer(calls[i].on, calls[i].arg)
               rest == Form!RemoveAt(calls, i)
               new == Form!NewCalls(written, value')
    <3>1. calls' = rest \o new
      BY <2>4 DEF Form!Filled, Form!Notify
    <3>2. Form!IsSeq(new) /\ \A j \in DOMAIN new : new[j] \in Form!Call
      <4>1. written \in SUBSET Fields /\ formKey \in 0..MaxLoads
        BY <1>4 DEF FormShapes
      <4> HIDE DEF written
      <4> QED BY <1>2, <4>1, CallsAsked, NewCallsTyped
    <3>3. Form!IsSeq(rest) /\ \A j \in DOMAIN rest : \E k \in DOMAIN calls : rest[j] = calls[k]
      BY <1>3, SeqWithout
    <3> HIDE DEF new, rest
    <3>4. \A j \in DOMAIN calls' : \/ \E k \in DOMAIN rest : calls'[j] = rest[k]
                                   \/ \E k \in DOMAIN new : calls'[j] = new[k]
      BY <3>1, <3>2, <3>3, SeqJoined
    <3> QED BY <3>2, <3>3, <3>4 DEF FormShapes
  <2>5. \/ calls' = calls
        \/ \E f \in Fields, v \in Values : Form!Edit(f, v)
        \/ \E f \in Fields : Form!TimerFires(f)
        \/ \E i \in DOMAIN calls : Form!Filled(i) \/ Form!NotFilled(i) \/ Form!LateAnswer(i)
    BY DEF Form!Next, Form!vars, Form!Answers, Form!FoldSection, Form!ToggleFeature, Form!Submit,
       Form!RenderAnswered, Form!RenderFailed, Form!SavePreset, Form!DeletePreset, Form!LoadPreset
  <2> QED BY <2>1, <2>2, <2>3, <2>4, <2>5 DEF FormShapes
<1>10. enabled' \subseteq Features
  <2>1. enabled' \subseteq enabled \cup Features \cup DefaultOn
    BY DEF Form!Next, Form!vars, Form!formVars, Form!Edit, Form!TimerFires, Form!Answers, Form!Filled,
       Form!NotFilled, Form!LateAnswer, Form!FoldSection, Form!ToggleFeature, Form!Submit,
       Form!RenderAnswered, Form!RenderFailed, Form!SavePreset, Form!DeletePreset, Form!LoadPreset,
       Form!FreshForm
  <2> QED BY <1>1, <2>1 DEF FormShapes
<1>11. /\ \A r \in renders' : r \in Form!Render
       /\ sent' \in 0..MaxRenders /\ result' \in 0..MaxRenders /\ refused' \in BOOLEAN
  <2>1. /\ \A r \in renders : r \in Form!Render
        /\ sent \in 0..MaxRenders /\ result \in 0..MaxRenders /\ refused \in BOOLEAN
        /\ formKey \in 0..MaxLoads
    BY DEF FormShapes
  <2>2. ASSUME Form!Submit PROVE <1>11!:
    <3> DEFINE new == [mount |-> formKey, id |-> sent + 1,
                       features |-> {Form!AsNumber(f) : f \in enabled}]
    <3>1. /\ renders' = renders \cup {new} /\ sent' = sent + 1 /\ sent < MaxRenders
          /\ result' = result /\ refused' = refused
      BY <2>2 DEF Form!Submit
    <3>2. {Form!AsNumber(f) : f \in enabled} \subseteq {Null}
      BY DEF Form!AsNumber
    <3>3. new \in Form!Render
      BY <1>1, <2>1, <3>1, <3>2 DEF Form!Render
    <3> HIDE DEF new
    <3> QED BY <1>1, <2>1, <3>1, <3>3
  <2>3. ASSUME NEW r \in renders, Form!RenderAnswered(r) PROVE <1>11!:
    <3>1. /\ renders' = renders \ {r} /\ sent' = sent
          /\ \/ result' = r.id /\ refused' = FALSE
             \/ result' = result /\ refused' = refused
      BY <2>3 DEF Form!RenderAnswered
    <3>2. r.id \in 0..MaxRenders
      BY <1>1, <2>1 DEF Form!Render
    <3> QED BY <2>1, <3>1, <3>2
  <2>4. ASSUME NEW r \in renders, Form!RenderFailed(r) PROVE <1>11!:
    <3>1. /\ renders' = renders \ {r} /\ sent' = sent /\ result' = result
          /\ refused' \in BOOLEAN
      BY <2>1, <2>4 DEF Form!RenderFailed
    <3> QED BY <2>1, <3>1
  <2>5. ASSUME NEW p \in presets, Form!LoadPreset(p) PROVE <1>11!:
    <3>1. renders' = renders /\ sent' = sent /\ result' = 0 /\ refused' = FALSE
      BY <2>5 DEF Form!LoadPreset, Form!FreshForm, Form!NoResult
    <3>2. 0 \in 0..MaxRenders
      BY <1>1
    <3> QED BY <2>1, <3>1, <3>2
  <2>6. \/ UNCHANGED <<renders, sent, result, refused>>
        \/ Form!Submit
        \/ \E r \in renders : Form!RenderAnswered(r) \/ Form!RenderFailed(r)
        \/ \E p \in presets : Form!LoadPreset(p)
    BY DEF Form!Next, Form!vars, Form!Answers, Form!Edit, Form!TimerFires, Form!Filled,
       Form!NotFilled, Form!LateAnswer, Form!FoldSection, Form!ToggleFeature, Form!SavePreset,
       Form!DeletePreset
  <2> QED BY <2>1, <2>2, <2>3, <2>4, <2>5, <2>6
<1>12. edits' \in 0..MaxEdits
  <2>1. edits' = edits \/ (edits' = edits + 1 /\ edits < MaxEdits)
    BY DEF Form!Next, Form!vars, Form!ghosts, Form!Edit, Form!TimerFires, Form!Answers, Form!Filled,
       Form!NotFilled, Form!LateAnswer, Form!FoldSection, Form!ToggleFeature, Form!Submit,
       Form!RenderAnswered, Form!RenderFailed, Form!SavePreset, Form!DeletePreset, Form!LoadPreset
  <2>2. edits \in 0..MaxEdits /\ MaxEdits \in Nat
    BY <1>1 DEF FormShapes
  <2> QED BY <2>1, <2>2
<1>13. \A f \in Fields : kept'[f] \in Values \cup {Null, Untouched}
  <2>1. ASSUME NEW f \in Fields, NEW v \in Values, Form!Edit(f, v) PROVE <1>13!:
    <3>1. kept' = [g \in Fields |->
                     IF g = f THEN IF f \in Form!Threatened THEN Form!Untouched ELSE v
                     ELSE IF g \in Form!Reach[f] THEN Form!Untouched ELSE kept[g]]
      BY <2>1 DEF Form!Edit
    <3> QED BY <3>1 DEF FormShapes, Form!Untouched, Untouched
  <2>2. ASSUME NEW p \in presets, Form!LoadPreset(p) PROVE <1>13!:
    <3>1. kept' = value'
      BY <2>2 DEF Form!LoadPreset, Form!FreshForm
    <3> QED BY <1>2, <3>1
  <2>3. \/ kept' = kept
        \/ \E f \in Fields, v \in Values : Form!Edit(f, v)
        \/ \E p \in presets : Form!LoadPreset(p)
    BY DEF Form!Next, Form!vars, Form!ghosts, Form!TimerFires, Form!Answers, Form!Filled,
       Form!NotFilled, Form!LateAnswer, Form!FoldSection, Form!ToggleFeature, Form!Submit,
       Form!RenderAnswered, Form!RenderFailed, Form!SavePreset, Form!DeletePreset
  <2> QED BY <2>1, <2>2, <2>3 DEF FormShapes
<1>14. due' \subseteq Fields
  <2> DEFINE T == {m.to : m \in Mappings}
  <2>1. ASSUME NEW f \in Fields, NEW v \in Values, Form!Edit(f, v) PROVE due' \subseteq due \cup T
    BY <2>1 DEF Form!Edit
  <2>2. ASSUME NEW i \in DOMAIN calls, Form!Filled(i) PROVE due' \subseteq due \cup T
    <3> DEFINE written == DOMAIN Form!Answer(calls[i].on, calls[i].arg)
    <3>1. due' = due \cup {m.to : m \in {n \in Mappings : n.on \in written /\ n.auto}}
      BY <2>2 DEF Form!Filled
    <3> HIDE DEF written
    <3> QED BY <3>1
  <2>3. \/ due' \subseteq due
        \/ \E f \in Fields, v \in Values : Form!Edit(f, v)
        \/ \E i \in DOMAIN calls : Form!Filled(i)
    BY DEF Form!Next, Form!vars, Form!ghosts, Form!TimerFires, Form!Answers,
       Form!NotFilled, Form!LateAnswer, Form!FoldSection, Form!ToggleFeature, Form!Submit,
       Form!RenderAnswered, Form!RenderFailed, Form!SavePreset, Form!DeletePreset, Form!LoadPreset
  <2>4. T \subseteq Fields
    BY <1>1
  <2> HIDE DEF T
  <2> QED BY <2>1, <2>2, <2>3, <2>4 DEF FormShapes
<1> QED BY <1>5, <1>6, <1>7, <1>8, <1>9, <1>10, <1>11, <1>12, <1>13, <1>14 DEF FormShapes, Form!Call,
           Form!Render

\* The variables of the form stay within their types.
THEOREM FormTyped == Form!Spec => []Form!TypeOK
<1>1. Form!Init => Form!QuietInv /\ Form!SettleInv /\ FormShapes
  <2> SUFFICES ASSUME Form!Init PROVE Form!QuietInv /\ Form!SettleInv /\ FormShapes
    OBVIOUS
  <2>1. Form!QuietInv /\ Form!SettleInv
    BY FormHypotheses DEF Form!Init, Form!QuietInv, Form!SettleInv, Form!FieldSets, Form!IsSeq,
       Form!AsksWhatIsShown
  <2>2. /\ readonly \in [Fields -> BOOLEAN] /\ refused \in BOOLEAN
        /\ \A f \in Fields : kept[f] \in Values \cup {Null, Untouched}
    <3>1. readonly = [f \in Fields |-> f \in LoadLocked]
      BY DEF Form!Init
    <3>2. readonly \in [Fields -> BOOLEAN]
      BY <3>1
    <3>3. refused = FALSE
      BY DEF Form!Init
    <3>4. \A f \in Fields : kept[f] = Untouched
      BY DEF Form!Init, Form!Untouched, Untouched
    <3> QED BY <3>2, <3>3, <3>4
  <2>3. /\ formKey \in 0..MaxLoads /\ sent \in 0..MaxRenders /\ result \in 0..MaxRenders
        /\ edits \in 0..MaxEdits
    BY FormHypotheses DEF Form!Init, Form!FieldSets, Form!NoResult
  <2>4. /\ folded \subseteq Fields /\ loading \subseteq Fields /\ enabled \subseteq Features
        /\ due \subseteq Fields /\ \A r \in renders : r \in Form!Render
    BY FormHypotheses DEF Form!Init, Form!FieldSets
  <2>5. \A i \in DOMAIN calls : calls[i] \in Form!Call
    BY DEF Form!Init
  <2> QED BY <2>1, <2>2, <2>3, <2>4, <2>5 DEF FormShapes
<1>2. /\ Form!QuietInv /\ Form!SettleInv /\ FormShapes /\ [Form!Next]_Form!vars
      => (Form!QuietInv /\ Form!SettleInv /\ FormShapes)'
  <2> SUFFICES ASSUME Form!QuietInv, Form!SettleInv, FormShapes, [Form!Next]_Form!vars
               PROVE  Form!QuietInv' /\ Form!SettleInv' /\ FormShapes'
    OBVIOUS
  <2>1. Form!QuietInv'
    BY FormHypotheses, FormQuietStep
  <2>2. Form!SettleInv'
    BY FormHypotheses, FormSettleStep
  <2>3. FormShapes'
    BY <2>2, FormHypotheses, FormShapesStep
  <2> QED BY <2>1, <2>2, <2>3
<1>3. Form!QuietInv /\ Form!SettleInv /\ FormShapes => Form!TypeOK
  BY DEF Form!QuietInv, Form!SettleInv, FormShapes, Form!TypeOK, Form!Untouched, Untouched
<1> QED BY <1>1, <1>2, <1>3, PTL DEF Form!Spec
-----------------------------------------------------------------------------
(* The parameter pages.                                                     *)
(*                                                                          *)
(* OfferedIsUnregistered follows from ScanInv: what a scan read is still    *)
(* unregistered, but for what an import created since. SaveApplies follows  *)
(* from SaveInv: an option a save has not added or dropped is still on its  *)
(* list to do, across failed attempts. ListShowsRows follows from ListInv:  *)
(* a listing read or cached is fresh unless it is marked stale. OrderAsShown*)
(* follows from OrderInv, which holds in the middle of a drag: each row has *)
(* its place on the server or a request that gives it that place. From this *)
(* to the order of the list takes the lemmas on sorting: a listing whose    *)
(* ranks are the positions of a sequence is sorted into that sequence.      *)

Studio == INSTANCE ParameterStudio

LEMMA StudioCardinality ==
    ASSUME NEW S
    PROVE  /\ Studio!Cardinality(S) = Cardinality(S)
           /\ Studio!IsFiniteSet(S) <=> IsFiniteSet(S)
  BY SMT DEF Studio!Cardinality, Cardinality, Studio!IsFiniteSet, IsFiniteSet

\* The instance reads the rows as StudioState does.
LEMMA StudioReads ==
    /\ Studio!Gone = Gone /\ Studio!View = View
    /\ \A l : Studio!Sorted(l) = Sorted(l)
<1>1. Studio!Gone = Gone
  BY StudioCardinality DEF Studio!Gone, Gone
<1>2. Studio!View = View
  BY <1>1 DEF Studio!View, View
<1>3. ASSUME NEW l PROVE Studio!Sorted(l) = Sorted(l)
  <2>1. Studio!Held(l) = Held(l)
    BY <1>1 DEF Studio!Held, Held
  <2>2. \A p : Studio!Place(p) = Place(p)
    BY DEF Studio!Place, Place
  <2>3. \A p : Studio!Ahead(l, p) = Ahead(l, p)
    BY <2>1, <2>2 DEF Studio!Ahead, Ahead
  <2>4. \A i : (CHOOSE p \in Studio!Held(l) : Studio!Cardinality(Studio!Ahead(l, p)) = i - 1)
               = (CHOOSE p \in Held(l) : Cardinality(Ahead(l, p)) = i - 1)
    BY <2>1, <2>3, StudioCardinality
  <2>5. Studio!Cardinality(Studio!Held(l)) = Cardinality(Held(l))
    BY <2>1, StudioCardinality
  <2> QED BY <2>4, <2>5 DEF Studio!Sorted, Sorted
<1> QED BY <1>1, <1>2, <1>3

LEMMA StudioHypotheses == Studio!StudioConstants
  BY StudioAssumption, StudioCardinality DEF StudioConstants, Studio!StudioConstants

LEMMA StudioScanStep ==
    ASSUME Studio!ScanInv, [Studio!Next]_Studio!vars
    PROVE  Studio!ScanInv'
<1>1. /\ rows \in [Params -> {"absent", "active", "deleted"}] /\ scan \in Studio!ScanType
      /\ scan.state = "read" => \A p \in scan.read \ scan.old : rows[p] # "active"
      /\ scan.known /\ scan.state = "none" => \A p \in scan.unregistered \ scan.old : rows[p] # "active"
  BY DEF Studio!ScanInv, Studio!None
<1>2. CASE UNCHANGED <<rows, scan>>
  BY <1>1, <1>2 DEF Studio!ScanInv, Studio!None
<1>3. ASSUME NEW p \in deleting, Studio!DeleteLands(p) PROVE Studio!ScanInv'
  <2>1. rows' = [rows EXCEPT ![p] = "deleted"] /\ scan' = scan
    BY <1>3 DEF Studio!DeleteLands, Studio!validation
  <2>2. /\ rows' \in [Params -> {"absent", "active", "deleted"}]
        /\ \A q \in Params : rows[q] # "active" => rows'[q] # "active"
    BY <1>1, <2>1
  <2>3. scan.read \subseteq Params /\ scan.unregistered \subseteq Params
    BY <1>1 DEF Studio!ScanType
  <2> QED BY <1>1, <2>1, <2>2, <2>3 DEF Studio!ScanInv, Studio!None
<1>4. ASSUME Studio!ImportNext PROVE Studio!ScanInv'
  <2> DEFINE new == {p \in Params : rows'[p] # rows[p]}
  <2>1. /\ rows' = rows \/ rows' = [rows EXCEPT ![Head(import)] = "active"]
        /\ scan' = [scan EXCEPT !.old = scan.old \cup new]
    BY <1>4 DEF Studio!ImportNext, Studio!Create, Studio!Refused
  <2>2. /\ rows' \in [Params -> {"absent", "active", "deleted"}]
        /\ \A q \in Params \ new : rows'[q] = rows[q]
    BY <1>1, <2>1
  <2>3. new \in SUBSET Params
    OBVIOUS
  <2> HIDE DEF new
  <2>4. /\ scan' \in Studio!ScanType
        /\ scan'.state = scan.state /\ scan'.known = scan.known /\ scan'.read = scan.read
        /\ scan'.unregistered = scan.unregistered /\ scan'.old = scan.old \cup new
        /\ scan.read \subseteq Params /\ scan.unregistered \subseteq Params
    BY <1>1, <2>1, <2>3 DEF Studio!ScanType
  <2> QED BY <1>1, <2>2, <2>4 DEF Studio!ScanInv, Studio!None
<1>5. ASSUME Studio!OpenValidation PROVE Studio!ScanInv'
  <2>1. rows' = rows /\ scan' = [scan EXCEPT !.state = "asked", !.read = {}]
    BY <1>5 DEF Studio!OpenValidation
  <2>2. scan' \in Studio!ScanType /\ scan'.state = "asked"
    BY <1>1, <2>1 DEF Studio!ScanType
  <2> QED BY <1>1, <2>1, <2>2 DEF Studio!ScanInv, Studio!None
<1>6. ASSUME Studio!ScanRead PROVE Studio!ScanInv'
  <2> DEFINE new == {p \in Params : rows[p] # "active"}
  <2>1. rows' = rows /\ scan' = [scan EXCEPT !.state = "read", !.read = new, !.old = {}]
    BY <1>6 DEF Studio!ScanRead
  <2>2. new \in SUBSET Params /\ \A p \in new : rows[p] # "active"
    OBVIOUS
  <2> HIDE DEF new
  <2>3. scan' \in Studio!ScanType /\ scan'.state = "read" /\ scan'.read = new
    BY <1>1, <2>1, <2>2 DEF Studio!ScanType
  <2> QED BY <1>1, <2>1, <2>2, <2>3 DEF Studio!ScanInv, Studio!None
<1>7. ASSUME Studio!ScanLand PROVE Studio!ScanInv'
  <2>1. /\ rows' = rows /\ scan.state = "read"
        /\ scan' = [scan EXCEPT !.known = TRUE, !.state = "none", !.unregistered = scan.read,
                                !.read = {}]
    BY <1>7 DEF Studio!ScanLand, Studio!None
  <2>2. /\ scan' \in Studio!ScanType /\ scan'.state = "none"
        /\ scan'.unregistered = scan.read /\ scan'.old = scan.old
    BY <1>1, <2>1 DEF Studio!ScanType, Studio!None
  <2> QED BY <1>1, <2>1, <2>2 DEF Studio!ScanInv, Studio!None
<1>8. ASSUME NEW p \in creating, Studio!Registered(p) PROVE Studio!ScanInv'
  <2>1. /\ rows' = [rows EXCEPT ![p] = "active"]
        /\ scan' = [scan EXCEPT !.state = "asked", !.read = {}]
    BY <1>8 DEF Studio!Registered, Studio!Create, Studio!Repeated
  <2>2. scan' \in Studio!ScanType /\ scan'.state = "asked"
    BY <1>1, <2>1 DEF Studio!ScanType
  <2>3. rows' \in [Params -> {"absent", "active", "deleted"}]
    BY <1>1, <2>1
  <2> QED BY <2>2, <2>3 DEF Studio!ScanInv, Studio!None
<1>9. ASSUME ~UNCHANGED <<rows, scan>>
      PROVE  \/ \E p \in deleting : Studio!DeleteLands(p)
             \/ Studio!ImportNext \/ Studio!OpenValidation \/ Studio!ScanRead \/ Studio!ScanLand
             \/ \E p \in creating : Studio!Registered(p)
  BY <1>9 DEF Studio!Next, Studio!vars, Studio!validation, Studio!Visit, Studio!Ask, Studio!Read,
     Studio!Land, Studio!Rerender, Studio!Drag, Studio!UpdateLands, Studio!UpdateFails,
     Studio!Assign, Studio!Unassign, Studio!Delete, Studio!DeleteFails, Studio!StartImport,
     Studio!OpenDialog, Studio!CloseDialog, Studio!StartSave, Studio!SaveRow, Studio!AddsDone,
     Studio!SaveDone, Studio!SaveFails, Studio!AddOption, Studio!SaveAdd, Studio!RemoveOption,
     Studio!SaveDrop, Studio!Register, Studio!RegisterFails
<1> QED BY <1>2, <1>3, <1>4, <1>5, <1>6, <1>7, <1>8, <1>9

\* A variable the validation dialog offers to register is not registered, unless
\* an import created it since the server read the variables.
THEOREM OffersAreOpen == Studio!Spec => []OfferedIsUnregistered
<1>1. Studio!Init => Studio!ScanInv
  BY DEF Studio!Init, Studio!ScanInv, Studio!ScanType, Studio!None
<1>2. Studio!ScanInv /\ [Studio!Next]_Studio!vars => Studio!ScanInv'
  BY StudioScanStep
<1>3. Studio!ScanInv => OfferedIsUnregistered
  BY DEF Studio!ScanInv, OfferedIsUnregistered, Offered, Studio!None
<1> QED BY <1>1, <1>2, <1>3, PTL DEF Studio!Spec


LEMMA StudioSaveStep ==
    ASSUME Studio!StudioConstants, Studio!SaveInv, [Studio!Next]_Studio!vars
    PROVE  Studio!SaveInv'
<1>1. /\ made \in 1..MaxCopies /\ save \in Studio!SaveType /\ edit \in Studio!EditType
      /\ opts \subseteq Studio!OptionIds /\ seen.opts \subseteq Studio!OptionIds
      /\ \A o \in opts : o[2] <= made
      /\ \A o \in seen.opts : o[2] <= made
      /\ \A o \in edit.original : o[2] <= made
      /\ \A o \in edit.removed : o[2] <= made
      /\ \A o \in save.removed : o[2] <= made
      /\ save.drops \subseteq save.removed /\ save.removed \cap opts \subseteq save.drops
      /\ \A v \in save.added \ save.adds : \E n \in 1..made : <<v, n>> \in opts \ save.removed
      /\ save.step = "drop" => save.adds = {}
  BY DEF Studio!SaveInv
<1>2. MaxCopies \in Nat /\ \A o \in Studio!OptionIds : o \in Options \X (1..MaxCopies)
  BY DEF Studio!StudioConstants, Studio!OptionIds
<1>3. /\ save.step \in {"none", "row", "add", "drop"} /\ save.adds \subseteq Options
      /\ save.drops \subseteq Studio!OptionIds /\ save.added \subseteq Options
      /\ save.removed \subseteq Studio!OptionIds
      /\ edit.original \subseteq Studio!OptionIds /\ edit.removed \subseteq Studio!OptionIds
      /\ edit.added \subseteq Options
  BY <1>1 DEF Studio!SaveType, Studio!EditType, Studio!None
<1>4. ASSUME UNCHANGED <<made, opts>>, seen'.opts \subseteq opts \cup seen.opts, edit' = edit, save' = save
      PROVE  Studio!SaveInv'
  BY <1>1, <1>4 DEF Studio!SaveInv
<1>5. ASSUME UNCHANGED <<made, opts, seen, save>>, edit' \in Studio!EditType,
             edit'.original \subseteq seen.opts \cup edit.original,
             edit'.removed \subseteq edit.original \cup edit.removed
      PROVE  Studio!SaveInv'
  BY <1>1, <1>5 DEF Studio!SaveInv
<1>6. ASSUME UNCHANGED <<made, opts, seen, edit>>, save' \in Studio!SaveType,
             save'.added = save.added, save'.adds = save.adds,
             save'.drops = save.drops, save'.removed = save.removed,
             save'.step = "drop" => save.adds = {}
      PROVE  Studio!SaveInv'
  BY <1>1, <1>6 DEF Studio!SaveInv
<1>7. ASSUME seen'.opts = seen.opts, UNCHANGED <<made, opts>>, save' = Studio!NoSave,
             edit' = edit \/ edit' = Studio!NoEdit
      PROVE  Studio!SaveInv'
  <2>1. /\ save' \in Studio!SaveType /\ save'.drops = {} /\ save'.removed = {}
        /\ save'.added = {} /\ save'.step = "none"
    BY <1>7 DEF Studio!NoSave, Studio!SaveType, Studio!None
  <2>2. /\ edit' \in Studio!EditType /\ edit'.original \subseteq edit.original
        /\ edit'.removed \subseteq edit.removed
    BY <1>1, <1>7 DEF Studio!NoEdit, Studio!EditType
  <2> QED BY <1>1, <1>7, <2>1, <2>2 DEF Studio!SaveInv
<1>8. CASE UNCHANGED <<made, opts, seen, edit, save>>
  BY <1>1, <1>4, <1>8
<1>9. ASSUME Studio!Land PROVE Studio!SaveInv'
  BY <1>4, <1>9 DEF Studio!Land, Studio!options
<1>10. ASSUME edit' = Studio!NoEdit, UNCHANGED <<made, opts, seen, save>> PROVE Studio!SaveInv'
  <2>1. edit' \in Studio!EditType /\ edit'.original = {} /\ edit'.removed = {}
    BY <1>10 DEF Studio!NoEdit, Studio!EditType
  <2> QED BY <1>5, <1>10, <2>1
<1>11. ASSUME Studio!OpenDialog PROVE Studio!SaveInv'
  <2>1. /\ edit' = [original |-> seen.opts, removed |-> {}, added |-> {}]
        /\ UNCHANGED <<made, opts, seen, save>>
    BY <1>11 DEF Studio!OpenDialog, Studio!listing
  <2>2. edit' \in Studio!EditType /\ edit'.original = seen.opts /\ edit'.removed = {}
    BY <1>1, <2>1 DEF Studio!EditType
  <2> QED BY <1>5, <2>1, <2>2
<1>12. ASSUME NEW v \in Options, Studio!AddOption(v) PROVE Studio!SaveInv'
  <2>1. /\ edit' = [edit EXCEPT !.added = edit.added \cup {v}]
        /\ UNCHANGED <<made, opts, seen, save>>
    BY <1>12 DEF Studio!AddOption, Studio!listing
  <2>2. edit' \in Studio!EditType /\ edit'.original = edit.original /\ edit'.removed = edit.removed
    BY <1>1, <2>1 DEF Studio!EditType
  <2> QED BY <1>5, <2>1, <2>2
<1>13. ASSUME NEW o, Studio!RemoveOption(o) PROVE Studio!SaveInv'
  <2>1. /\ edit' = [edit EXCEPT !.removed = edit.removed \cup {o}] /\ o \in edit.original
        /\ UNCHANGED <<made, opts, seen, save>>
    BY <1>13 DEF Studio!RemoveOption, Studio!listing
  <2>2. /\ edit' \in Studio!EditType /\ edit'.original = edit.original
        /\ edit'.removed = edit.removed \cup {o}
    BY <1>1, <2>1 DEF Studio!EditType
  <2> QED BY <1>5, <2>1, <2>2
<1>14. ASSUME Studio!StartSave PROVE Studio!SaveInv'
  <2>1. /\ save' = [step |-> "row", adds |-> edit.added, drops |-> edit.removed,
                    added |-> edit.added, removed |-> edit.removed]
        /\ UNCHANGED <<made, opts, seen, edit>>
    BY <1>14 DEF Studio!StartSave, Studio!listing
  <2>2. /\ save' \in Studio!SaveType /\ save'.step = "row" /\ save'.adds = edit.added
        /\ save'.drops = edit.removed /\ save'.added = edit.added /\ save'.removed = edit.removed
    BY <1>3, <2>1 DEF Studio!SaveType
  <2> QED BY <1>1, <2>1, <2>2 DEF Studio!SaveInv
<1>15. ASSUME Studio!SaveRow \/ Studio!AddsDone PROVE Studio!SaveInv'
  <2>1. PICK s \in {"add", "drop"} : /\ save' = [save EXCEPT !.step = s]
                                     /\ s = "drop" => save.adds = {}
                                     /\ UNCHANGED <<made, opts, seen, edit>>
    BY <1>15 DEF Studio!SaveRow, Studio!AddsDone, Studio!listing
  <2>2. /\ save' \in Studio!SaveType /\ save'.step = s /\ save'.adds = save.adds
        /\ save'.drops = save.drops /\ save'.added = save.added /\ save'.removed = save.removed
    BY <1>1, <2>1 DEF Studio!SaveType
  <2> QED BY <1>6, <2>1, <2>2
<1>16. ASSUME NEW v \in Options, Studio!SaveAdd(v) PROVE Studio!SaveInv'
  <2> DEFINE new == <<v, made + 1>>
  <2>1. /\ save.step = "add" /\ v \in save.adds /\ made < MaxCopies /\ made' = made + 1
        /\ opts' = opts \cup {new} /\ save' = [save EXCEPT !.adds = save.adds \ {v}]
        /\ UNCHANGED <<seen, edit>>
    BY <1>16 DEF Studio!SaveAdd, Studio!listing
  <2>2. /\ save' \in Studio!SaveType /\ save'.step = "add" /\ save'.adds = save.adds \ {v}
        /\ save'.drops = save.drops /\ save'.added = save.added /\ save'.removed = save.removed
    BY <1>1, <2>1 DEF Studio!SaveType
  <2>3. made' \in 1..MaxCopies /\ made \in 1..made' /\ made <= made' /\ made' \in 1..made'
    BY <1>1, <1>2, <2>1
  <2>4. new \in Studio!OptionIds /\ new[2] = made' /\ ~(new[2] <= made)
    BY <1>1, <1>2, <2>1, <2>3 DEF Studio!OptionIds
  <2>5. new \notin save.removed
    BY <1>1, <2>4
  <2>6. \A o \in Studio!OptionIds : o[2] <= made => o[2] <= made'
    BY <1>1, <1>2, <2>1
  <2>7. ASSUME NEW w \in save'.added \ save'.adds
        PROVE  \E n \in 1..made' : <<w, n>> \in opts' \ save'.removed
    <3>1. CASE w = v
      BY <2>1, <2>2, <2>3, <2>5, <3>1
    <3>2. CASE w # v
      <4>1. PICK n \in 1..made : <<w, n>> \in opts \ save.removed
        BY <1>1, <2>2, <2>7, <3>2
      <4>2. n \in 1..made'
        BY <1>1, <2>1, <4>1
      <4> QED BY <2>1, <2>2, <4>1, <4>2
    <3> QED BY <3>1, <3>2
  <2> HIDE DEF new
  <2>8. \A o \in opts' \cup seen'.opts \cup edit'.original \cup edit'.removed \cup save'.removed : o[2] <= made'
    <3>1. made' <= made'
      BY <2>3
    <3> QED BY <1>1, <1>3, <2>1, <2>2, <2>4, <2>6, <3>1
  <2>9. save'.removed \cap opts' \subseteq save'.drops /\ opts' \cup seen'.opts \subseteq Studio!OptionIds
    BY <1>1, <2>1, <2>2, <2>4, <2>5
  <2> QED BY <1>1, <2>1, <2>2, <2>3, <2>7, <2>8, <2>9 DEF Studio!SaveInv
<1>17. ASSUME NEW o, Studio!SaveDrop(o) PROVE Studio!SaveInv'
  <2>1. /\ o \in save.drops /\ opts' = opts \ {o} /\ save' = [save EXCEPT !.drops = save.drops \ {o}]
        /\ UNCHANGED <<made, seen, edit>>
    BY <1>17 DEF Studio!SaveDrop, Studio!listing
  <2>2. /\ save' \in Studio!SaveType /\ save'.step = save.step /\ save'.adds = save.adds
        /\ save'.drops = save.drops \ {o} /\ save'.added = save.added /\ save'.removed = save.removed
    BY <1>1, <2>1 DEF Studio!SaveType
  <2>3. \A w \in save'.added \ save'.adds : \E n \in 1..made' : <<w, n>> \in opts' \ save'.removed
    BY <1>1, <2>1, <2>2
  <2>4. \A x \in opts' \cup seen'.opts \cup edit'.original \cup edit'.removed \cup save'.removed : x[2] <= made'
    BY <1>1, <2>1, <2>2
  <2> QED BY <1>1, <2>1, <2>2, <2>3, <2>4 DEF Studio!SaveInv
<1>18. ASSUME Studio!SaveDone \/ Studio!SaveFails PROVE Studio!SaveInv'
  <2>1. seen'.opts = seen.opts
    BY <1>18 DEF Studio!SaveDone, Studio!SaveFails, Studio!Invalidate, Studio!listing
  <2>2. /\ UNCHANGED <<made, opts>> /\ save' = Studio!NoSave
        /\ edit' = edit \/ edit' = Studio!NoEdit
    BY <1>18 DEF Studio!SaveDone, Studio!SaveFails
  <2> QED BY <1>7, <2>1, <2>2
<1>19. ASSUME ~UNCHANGED <<made, opts, seen, edit, save>>
       PROVE  \/ Studio!Land \/ Studio!OpenDialog \/ Studio!StartSave \/ Studio!SaveRow
              \/ Studio!AddsDone \/ Studio!SaveDone \/ Studio!SaveFails
              \/ edit' = Studio!NoEdit /\ UNCHANGED <<made, opts, seen, save>>
              \/ \E v \in Options : Studio!AddOption(v) \/ Studio!SaveAdd(v)
              \/ \E o \in Studio!OptionIds : Studio!RemoveOption(o) \/ Studio!SaveDrop(o)
  BY <1>19 DEF Studio!Next, Studio!vars, Studio!options, Studio!listing, Studio!Visit, Studio!Ask, Studio!Read,
     Studio!Rerender, Studio!Drag, Studio!UpdateLands, Studio!UpdateFails, Studio!Invalidate,
     Studio!Assign, Studio!Unassign, Studio!Delete, Studio!DeleteLands, Studio!DeleteFails,
     Studio!StartImport, Studio!ImportNext, Studio!CloseDialog, Studio!OpenValidation,
     Studio!ScanRead, Studio!ScanLand, Studio!Register, Studio!Registered, Studio!RegisterFails
<1> QED BY <1>8, <1>9, <1>10, <1>11, <1>12, <1>13, <1>14, <1>15, <1>16, <1>17, <1>18, <1>19

\* A dialog that reports success has done what it showed, whatever failed in
\* earlier attempts.
THEOREM SavesApply == Studio!Spec => SaveApplies
<1> USE StudioHypotheses
<1>1. Studio!Init => Studio!SaveInv
  BY DEF Studio!Init, Studio!SaveInv, Studio!SaveType, Studio!EditType, Studio!NoEdit, Studio!NoSave,
     Studio!None, Studio!OptionIds, Studio!StudioConstants
<1>2. Studio!SaveInv /\ [Studio!Next]_Studio!vars => Studio!SaveInv'
  BY StudioSaveStep
<1>3. Studio!SaveInv /\ [Studio!Next]_Studio!vars =>
         [save.step # "none" /\ save'.step = "none" /\ dialog' # dialog
            => /\ \A v \in save.added : \E n \in 1..MaxCopies : <<v, n>> \in opts
               /\ save.removed \cap opts = {}]_<<save, dialog>>
  <2> SUFFICES ASSUME Studio!SaveInv, [Studio!Next]_Studio!vars,
                      save.step # "none", save'.step = "none", dialog' # dialog
               PROVE  /\ \A v \in save.added : \E n \in 1..MaxCopies : <<v, n>> \in opts
                      /\ save.removed \cap opts = {}
    OBVIOUS
  <2>1. save' # save /\ dialog' # dialog
    OBVIOUS
  <2>2. Studio!SaveDone
    BY <2>1 DEF Studio!Next, Studio!vars, Studio!options, Studio!validation, Studio!Visit, Studio!Ask,
       Studio!Read, Studio!Land, Studio!Rerender, Studio!Drag, Studio!UpdateLands,
       Studio!UpdateFails, Studio!Assign, Studio!Unassign, Studio!Delete, Studio!DeleteLands,
       Studio!DeleteFails, Studio!StartImport, Studio!ImportNext, Studio!OpenDialog,
       Studio!CloseDialog, Studio!StartSave, Studio!SaveRow, Studio!SaveAdd, Studio!AddsDone,
       Studio!SaveDrop, Studio!SaveFails, Studio!AddOption, Studio!RemoveOption,
       Studio!OpenValidation, Studio!ScanRead, Studio!ScanLand, Studio!Register,
       Studio!Registered, Studio!RegisterFails
  <2>3. save.step = "drop" /\ save.drops = {}
    BY <2>2 DEF Studio!SaveDone, Studio!DropsDone
  <2>4. /\ save.adds = {} /\ made \in 1..MaxCopies
        /\ \A v \in save.added : \E n \in 1..made : <<v, n>> \in opts
        /\ save.removed \cap opts = {}
    BY <2>3 DEF Studio!SaveInv
  <2>5. \A n \in 1..made : n \in 1..MaxCopies
    BY <2>4 DEF Studio!StudioConstants
  <2> QED BY <2>4, <2>5
<1> QED BY <1>1, <1>2, <1>3, PTL DEF Studio!Spec, SaveApplies

LEMMA ParamsCounted ==
    ASSUME Studio!StudioConstants
    PROVE  /\ IsFiniteSet(Params) /\ Cardinality(Params) \in Nat \ {0}
           /\ Studio!Gone = Cardinality(Params) /\ Studio!Ranks = 0..(Cardinality(Params) - 1)
           /\ Studio!Gone \notin Studio!Ranks /\ 0 \in Studio!Ranks
<1>1. IsFiniteSet(Params) /\ Params # {}
  BY StudioCardinality DEF Studio!StudioConstants
<1>2. Cardinality(Params) \in Nat /\ Cardinality(Params) # 0
  BY <1>1, FS_CardinalityType, FS_EmptySet
<1>3. Studio!Gone = Cardinality(Params) /\ Studio!Ranks = 0..(Cardinality(Params) - 1)
  BY StudioCardinality DEF Studio!Gone, Studio!Ranks
<1> HIDE DEF Studio!Gone, Studio!Ranks
<1> QED BY <1>1, <1>2, <1>3

LEMMA PlacesDiffer ==
    ASSUME Studio!StudioConstants, NEW p \in Params
    PROVE  /\ Studio!Place(p) \in Nat
           /\ \A q \in Params : Studio!Place(p) = Studio!Place(q) => p = q
<1>1. \A q \in Params : \E i \in DOMAIN NameOrder : NameOrder[i] = q
  BY DEF Studio!StudioConstants, Studio!ToSet
<1>2. \A q \in Params : Studio!Place(q) \in DOMAIN NameOrder /\ NameOrder[Studio!Place(q)] = q
  BY <1>1 DEF Studio!Place
<1>3. DOMAIN NameOrder \subseteq Nat
  BY DEF Studio!StudioConstants
<1> QED BY <1>2, <1>3

LEMMA HeldCounted ==
    ASSUME Studio!StudioConstants, NEW l \in Studio!Listing
    PROVE  /\ IsFiniteSet(Studio!Held(l)) /\ Studio!Held(l) \subseteq Params
           /\ Cardinality(Studio!Held(l)) \in 0..Cardinality(Params)
           /\ \A p \in Studio!Held(l) : l[p] \in 0..(Cardinality(Params) - 1)
<1>1. Studio!Held(l) \subseteq Params
  BY DEF Studio!Held
<1>2. /\ IsFiniteSet(Studio!Held(l)) /\ Cardinality(Studio!Held(l)) <= Cardinality(Params)
      /\ Cardinality(Studio!Held(l)) \in Nat
  BY <1>1, ParamsCounted, FS_Subset, FS_CardinalityType
<1>3. \A p \in Studio!Held(l) : l[p] \in Studio!Ranks
  BY DEF Studio!Held, Studio!Listing
<1> QED BY <1>1, <1>2, <1>3, ParamsCounted

\* Ahead is the order of a listing: no row is ahead of itself, of two rows one is
\* ahead of the other, and so are the rows ahead of it.
LEMMA AheadOrders ==
    ASSUME Studio!StudioConstants, NEW l \in Studio!Listing, NEW p \in Studio!Held(l)
    PROVE  /\ Studio!Ahead(l, p) \subseteq Studio!Held(l) /\ p \notin Studio!Ahead(l, p)
           /\ \A q \in Studio!Held(l) : p = q \/ q \in Studio!Ahead(l, p) \/ p \in Studio!Ahead(l, q)
           /\ \A q \in Studio!Ahead(l, p) : Studio!Ahead(l, q) \subseteq Studio!Ahead(l, p)
<1> DEFINE S == Studio!Held(l)
<1>1. /\ \A q \in S : l[q] \in Nat /\ Studio!Place(q) \in Nat
      /\ \A q, r \in S : Studio!Place(q) = Studio!Place(r) => q = r
  BY HeldCounted, PlacesDiffer, ParamsCounted
<1>2. \A q, r : q \in Studio!Ahead(l, r) <=>
                  q \in S /\ (l[q] < l[r] \/ (l[q] = l[r] /\ Studio!Place(q) < Studio!Place(r)))
  BY DEF Studio!Ahead
<1> HIDE DEF S
<1>3. p \in S
  BY DEF S
<1>4. Studio!Ahead(l, p) \subseteq S /\ p \notin Studio!Ahead(l, p)
  BY <1>1, <1>2, <1>3
<1>5. \A q \in S : p = q \/ q \in Studio!Ahead(l, p) \/ p \in Studio!Ahead(l, q)
  BY <1>1, <1>2, <1>3
<1>6. \A q \in Studio!Ahead(l, p) : Studio!Ahead(l, q) \subseteq Studio!Ahead(l, p)
  <2> SUFFICES ASSUME NEW q \in Studio!Ahead(l, p), NEW r \in Studio!Ahead(l, q)
               PROVE  r \in Studio!Ahead(l, p)
    OBVIOUS
  <2> QED BY <1>1, <1>2, <1>3
<1> QED BY <1>4, <1>5, <1>6 DEF S

\* The rows ahead of each row number it, from 0 on and without a gap.
LEMMA AheadNumbers ==
    ASSUME Studio!StudioConstants, NEW l \in Studio!Listing
    PROVE  LET S == Studio!Held(l) IN
           /\ \A p \in S : Cardinality(Studio!Ahead(l, p)) + 1 \in 1..Cardinality(S)
           /\ \A p, q \in S : Cardinality(Studio!Ahead(l, p)) = Cardinality(Studio!Ahead(l, q)) => p = q
           /\ \A i \in 1..Cardinality(S) : \E p \in S : Cardinality(Studio!Ahead(l, p)) = i - 1
<1> DEFINE S == Studio!Held(l)
           n == Cardinality(S)
           A(p) == Studio!Ahead(l, p)
           f == [p \in S |-> Cardinality(A(p))]
<1>1. IsFiniteSet(S) /\ n \in Nat
  BY HeldCounted, ParamsCounted
<1>2. \A p \in S : /\ A(p) \subseteq S /\ p \notin A(p)
                   /\ \A q \in S : p = q \/ q \in A(p) \/ p \in A(q)
                   /\ \A q \in A(p) : A(q) \subseteq A(p)
  BY AheadOrders
<1> HIDE DEF S, A
<1>3. ASSUME NEW p \in S PROVE IsFiniteSet(A(p)) /\ Cardinality(A(p)) \in 0..(n - 1)
  <2>1. A(p) \in SUBSET S /\ A(p) # S
    BY <1>2
  <2>2. /\ IsFiniteSet(A(p)) /\ Cardinality(A(p)) <= n
        /\ n = Cardinality(A(p)) => S = A(p)
    BY <1>1, <2>1, FS_Subset
  <2>3. Cardinality(A(p)) \in Nat
    BY <2>2, FS_CardinalityType
  <2> HIDE DEF n
  <2> QED BY <1>1, <2>1, <2>2, <2>3
<1>4. ASSUME NEW p \in S, NEW q \in A(p) PROVE Cardinality(A(q)) < Cardinality(A(p))
  <2>1. q \in S /\ A(q) \in SUBSET A(p) /\ A(q) # A(p)
    BY <1>2
  <2>2. /\ Cardinality(A(q)) <= Cardinality(A(p))
        /\ Cardinality(A(p)) = Cardinality(A(q)) => A(p) = A(q)
    BY <1>3, <2>1, FS_Subset
  <2>3. Cardinality(A(p)) \in Int /\ Cardinality(A(q)) \in Int
    BY <1>1, <1>3, <2>1
  <2> QED BY <2>1, <2>2, <2>3
<1>5. \A p, q \in S : Cardinality(A(p)) = Cardinality(A(q)) => p = q
  <2> SUFFICES ASSUME NEW p \in S, NEW q \in S, p # q PROVE Cardinality(A(p)) # Cardinality(A(q))
    OBVIOUS
  <2>1. Cardinality(A(p)) \in Int /\ Cardinality(A(q)) \in Int
    BY <1>1, <1>3
  <2>2. q \in A(p) \/ p \in A(q)
    BY <1>2
  <2> QED BY <1>4, <2>1, <2>2
<1>6. f \in Injection(S, 0..(n - 1))
  <2>1. f \in [S -> 0..(n - 1)]
    BY <1>3
  <2>2. \A p, q \in S : f[p] = f[q] => p = q
    BY <1>5
  <2> QED BY <2>1, <2>2 DEF Injection, IsInjective
<1>7. IsFiniteSet(0..(n - 1)) /\ Cardinality(0..(n - 1)) = n
  <2> HIDE DEF n
  <2>1. 0 \in Int /\ n - 1 \in Int
    BY <1>1
  <2>2. IsFiniteSet(0..(n - 1)) /\ Cardinality(0..(n - 1)) = IF 0 > n - 1 THEN 0 ELSE (n - 1) - 0 + 1
    BY <2>1, FS_Interval
  <2> QED BY <1>1, <2>2
<1>8. f \in Surjection(S, 0..(n - 1))
  BY <1>6, <1>7, FS_Injection
<1>9. ASSUME NEW i \in 1..n PROVE \E p \in S : Cardinality(A(p)) = i - 1
  <2>1. i - 1 \in 0..(n - 1)
    BY <1>1
  <2> QED BY <1>8, <2>1 DEF Surjection
<1>10. \A p \in S : Cardinality(A(p)) + 1 \in 1..n
  BY <1>1, <1>3
<1> QED BY <1>5, <1>9, <1>10 DEF S, A

LEMMA SortedEnumerates ==
    ASSUME Studio!StudioConstants, NEW l \in Studio!Listing
    PROVE  Studio!Enumerates(Studio!Sorted(l), Studio!Held(l))
<1> DEFINE S == Studio!Held(l)
           n == Cardinality(S)
           N(p) == Cardinality(Studio!Ahead(l, p))
           t == Studio!Sorted(l)
<1>1. /\ \A p \in S : N(p) + 1 \in 1..n
      /\ \A p, q \in S : N(p) = N(q) => p = q
      /\ \A i \in 1..n : \E p \in S : N(p) = i - 1
  BY AheadNumbers
<1>2. t = [i \in 1..n |-> CHOOSE p \in S : N(p) = i - 1]
  BY StudioCardinality DEF Studio!Sorted
<1>3. n \in Nat /\ \A p \in S : N(p) \in Int
  BY HeldCounted, FS_CardinalityType, FS_Subset, AheadOrders
<1> HIDE DEF S, N, t, n
<1>4. \A i \in 1..n : t[i] \in S /\ N(t[i]) = i - 1
  BY <1>1, <1>2
<1>5. t \in [1..n -> S]
  BY <1>2, <1>4
<1>6. ASSUME NEW p \in S PROVE \E i \in 1..n : t[i] = p
  <2>1. N(p) + 1 \in 1..n /\ (N(p) + 1) - 1 = N(p)
    BY <1>1, <1>3
  <2>2. t[N(p) + 1] = p
    BY <1>1, <1>4, <2>1
  <2> QED BY <2>1, <2>2
<1>7. DOMAIN t = 1..n
  BY <1>5
<1> QED BY <1>5, <1>6, <1>7, StudioCardinality DEF Studio!Enumerates, n, S, t

\* No listing but one has its rows in ascending order.
LEMMA SortedByRank ==
    ASSUME Studio!StudioConstants, NEW l \in Studio!Listing, NEW s,
           Studio!Enumerates(s, Studio!Held(l)), \A i \in DOMAIN s : l[s[i]] = i - 1
    PROVE  Studio!Sorted(l) = s
<1> DEFINE S == Studio!Held(l)
           n == Cardinality(S)
           A(p) == Studio!Ahead(l, p)
           t == Studio!Sorted(l)
           N(p) == Cardinality(A(p))
<1>1. s \in [1..n -> S] /\ \A p \in S : \E i \in 1..n : s[i] = p
  BY StudioCardinality DEF Studio!Enumerates
<1>2. n \in Nat
  BY HeldCounted
<1>3. \A i \in 1..n : l[s[i]] = i - 1
  BY <1>1
<1>4. \A p, q \in S : l[p] = l[q] => p = q
  <2> SUFFICES ASSUME NEW p \in S, NEW q \in S, l[p] = l[q] PROVE p = q
    OBVIOUS
  <2> HIDE DEF S, n
  <2>1. PICK i \in 1..n, j \in 1..n : s[i] = p /\ s[j] = q
    BY <1>1
  <2>2. i = j
    BY <1>2, <1>3, <2>1
  <2> QED BY <2>1, <2>2
<1>5. \A p, q \in S : q \in A(p) <=> l[q] < l[p]
  <2> SUFFICES ASSUME NEW p \in S, NEW q \in S PROVE q \in A(p) <=> l[q] < l[p]
    OBVIOUS
  <2>1. q \in A(p) <=> l[q] < l[p] \/ (l[q] = l[p] /\ Studio!Place(q) < Studio!Place(p))
    BY DEF Studio!Ahead
  <2>2. Studio!Place(p) \in Nat /\ (l[q] = l[p] => q = p)
    BY <1>4, HeldCounted, PlacesDiffer
  <2> QED BY <2>1, <2>2
<1>6. \A p \in S : A(p) \subseteq S
  BY AheadOrders
<1> HIDE DEF A, S, n
<1>7. ASSUME NEW i \in 1..n PROVE N(s[i]) = i - 1
  <2> DEFINE g == [j \in 1..(i - 1) |-> s[j]]
             H == 1..(i - 1)
  <2>1. \A j \in H : j \in 1..n /\ j - 1 < i - 1
    BY <1>2
  <2>2. g \in [H -> A(s[i])]
    <3>1. \A j \in H : s[j] \in A(s[i])
      BY <1>1, <1>3, <1>5, <2>1
    <3> QED BY <3>1
  <2>3. \A j, k \in H : g[j] = g[k] => j = k
    BY <1>2, <1>3, <2>1
  <2>4. \A q \in A(s[i]) : \E j \in H : g[j] = q
    <3> TAKE q \in A(s[i])
    <3>1. s[i] \in S
      BY <1>1
    <3>2. q \in S /\ l[q] < i - 1
      BY <1>3, <1>5, <1>6, <3>1
    <3>3. PICK j \in 1..n : s[j] = q
      BY <1>1, <3>2
    <3>4. j \in H
      BY <1>2, <1>3, <3>2, <3>3
    <3> QED BY <3>3, <3>4
  <2>5. ExistsBijection(H, A(s[i]))
    BY <2>2, <2>3, <2>4 DEF ExistsBijection, Bijection, Injection, Surjection, IsInjective
  <2>6. IsFiniteSet(H) /\ Cardinality(H) = i - 1
    <3>1. 1 \in Int /\ i - 1 \in Int /\ (1 > i - 1 => i - 1 = 0)
      BY <1>2
    <3>2. IsFiniteSet(H) /\ Cardinality(H) = IF 1 > i - 1 THEN 0 ELSE (i - 1) - 1 + 1
      BY <3>1, FS_Interval
    <3> HIDE DEF H
    <3> QED BY <3>1, <3>2
  <2> HIDE DEF H
  <2> QED BY <2>5, <2>6, FS_Bijection
<1>8. \A p, q \in S : N(p) = N(q) => p = q
  BY AheadNumbers DEF A, S
<1>9. t = [i \in 1..n |-> CHOOSE p \in S : N(p) = i - 1]
  BY StudioCardinality DEF Studio!Sorted, A, S, n
<1> HIDE DEF t, N
<1>10. \A i \in 1..n : s[i] \in S /\ N(s[i]) = i - 1
  BY <1>1, <1>7
<1>11. \A i \in 1..n : (CHOOSE p \in S : N(p) = i - 1) = s[i]
  BY <1>8, <1>10
<1>12. t \in [1..n -> S] /\ \A i \in 1..n : t[i] = s[i]
  BY <1>9, <1>10, <1>11
<1>13. t = s
  <2>1. t = [i \in 1..n |-> t[i]] /\ s = [i \in 1..n |-> s[i]]
    BY <1>1, <1>12
  <2>2. [i \in 1..n |-> t[i]] = [i \in 1..n |-> s[i]]
    BY <1>12
  <2> QED BY <2>1, <2>2
<1> QED BY <1>13 DEF t


(* The sequence operators of Drag *)

LEMMA CutBefore ==
    ASSUME NEW S, NEW s \in Seq(S), NEW m \in 1..(Len(s) + 1)
    PROVE  /\ SubSeq(s, 1, m - 1) \in Seq(S) /\ Len(SubSeq(s, 1, m - 1)) = m - 1
           /\ \A k \in 1..(m - 1) : SubSeq(s, 1, m - 1)[k] = s[k]
<1> DEFINE a == SubSeq(s, 1, m - 1)
<1>1. Len(s) \in Nat /\ \A k \in 1..Len(s) : s[k] \in S
  BY LenProperties
<1>2. /\ \A k \in 1..(m - 1) : s[k] \in S
      /\ 1 \in Int /\ m - 1 \in Int /\ 1 <= (m - 1) + 1
  BY <1>1
<1>3. /\ a \in Seq(S) /\ Len(a) = (IF 1 <= m - 1 THEN m - 1 - 1 + 1 ELSE 0)
      /\ \A k \in 1..(m - 1 - 1 + 1) : a[k] = s[1 + k - 1]
  BY <1>2, SubSeqProperties
<1> HIDE DEF a
<1>4. Len(a) = m - 1 /\ \A k \in 1..(m - 1) : a[k] = s[k]
  BY <1>2, <1>3
<1> QED BY <1>3, <1>4 DEF a

LEMMA CutFrom ==
    ASSUME NEW S, NEW s \in Seq(S), NEW m \in 1..(Len(s) + 1)
    PROVE  /\ SubSeq(s, m, Len(s)) \in Seq(S) /\ Len(SubSeq(s, m, Len(s))) = Len(s) - m + 1
           /\ \A k \in 1..(Len(s) - m + 1) : SubSeq(s, m, Len(s))[k] = s[m + k - 1]
<1> DEFINE n == Len(s)
           b == SubSeq(s, m, n)
<1>1. Len(s) \in Nat /\ \A k \in 1..Len(s) : s[k] \in S
  BY LenProperties
<1>2. /\ \A k \in m..n : s[k] \in S
      /\ m \in Int /\ n \in Int /\ m <= n + 1
  BY <1>1
<1> HIDE DEF n
<1>3. /\ b \in Seq(S) /\ Len(b) = (IF m <= n THEN n - m + 1 ELSE 0)
      /\ \A k \in 1..(n - m + 1) : b[k] = s[m + k - 1]
  BY <1>2, SubSeqProperties
<1>4. Len(b) = n - m + 1
  BY <1>2, <1>3
<1> QED BY <1>3, <1>4 DEF b, n

LEMMA Removed ==
    ASSUME NEW S, NEW s \in Seq(S), NEW i \in 1..Len(s)
    PROVE  /\ Studio!RemoveAt(s, i) \in Seq(S)
           /\ Len(Studio!RemoveAt(s, i)) = Len(s) - 1
           /\ \A k \in 1..(Len(s) - 1) : Studio!RemoveAt(s, i)[k] = IF k < i THEN s[k] ELSE s[k + 1]
<1> DEFINE n == Len(s)
           a == SubSeq(s, 1, i - 1)
           b == SubSeq(s, i + 1, n)
           t == a \o b
<1>1. n \in Nat /\ i \in 1..n
  BY LenProperties
<1>2. i \in 1..(n + 1) /\ i + 1 \in 1..(n + 1)
  BY <1>1
<1>3. a \in Seq(S) /\ Len(a) = i - 1 /\ \A k \in 1..(i - 1) : a[k] = s[k]
  BY <1>2, CutBefore
<1>4. /\ b \in Seq(S) /\ Len(b) = n - (i + 1) + 1
      /\ \A k \in 1..(n - (i + 1) + 1) : b[k] = s[(i + 1) + k - 1]
  BY <1>2, CutFrom
<1>5. Studio!RemoveAt(s, i) = t
  BY DEF Studio!RemoveAt
<1> HIDE DEF a, b, n
<1>6. t \in Seq(S) /\ Len(t) = n - 1
  <2>1. t \in Seq(S) /\ Len(t) = Len(a) + Len(b)
    BY <1>3, <1>4, ConcatProperties
  <2> HIDE DEF t
  <2> QED BY <1>1, <1>3, <1>4, <2>1
<1>7. ASSUME NEW k \in 1..(n - 1) PROVE t[k] = IF k < i THEN s[k] ELSE s[k + 1]
  <2>1. CASE k < i
    BY <1>1, <1>3, <1>4, <2>1
  <2>2. CASE ~(k < i)
    <3>1. k - (i - 1) \in 1..(n - (i + 1) + 1) /\ (i + 1) + (k - (i - 1)) - 1 = k + 1
      BY <1>1, <2>2
    <3>2. t[k] = b[k - (i - 1)]
      BY <1>1, <1>3, <1>4, <2>2
    <3>3. b[k - (i - 1)] = s[(i + 1) + (k - (i - 1)) - 1]
      BY <1>4, <3>1
    <3> QED BY <2>2, <3>1, <3>2, <3>3
  <2> QED BY <2>1, <2>2
<1> HIDE DEF t
<1> QED BY <1>5, <1>6, <1>7 DEF n

LEMMA Inserted ==
    ASSUME NEW S, NEW s \in Seq(S), NEW j \in 1..(Len(s) + 1), NEW e \in S
    PROVE  /\ Studio!InsertAt(s, j, e) \in Seq(S)
           /\ Len(Studio!InsertAt(s, j, e)) = Len(s) + 1
           /\ \A k \in 1..(Len(s) + 1) :
                 Studio!InsertAt(s, j, e)[k] = IF k < j THEN s[k] ELSE IF k = j THEN e ELSE s[k - 1]
<1> DEFINE n == Len(s)
           a == SubSeq(s, 1, j - 1)
           b == SubSeq(s, j, n)
           t == a \o <<e>> \o b
<1>1. n \in Nat /\ j \in 1..(n + 1)
  BY LenProperties
<1>2. a \in Seq(S) /\ Len(a) = j - 1 /\ \A k \in 1..(j - 1) : a[k] = s[k]
  BY CutBefore
<1>3. b \in Seq(S) /\ Len(b) = n - j + 1 /\ \A k \in 1..(n - j + 1) : b[k] = s[j + k - 1]
  BY CutFrom
<1>4. Studio!InsertAt(s, j, e) = t
  BY DEF Studio!InsertAt
<1> HIDE DEF a, b, n
<1> DEFINE c == a \o <<e>>
<1>5. /\ c \in Seq(S) /\ Len(c) = j /\ c[j] = e
      /\ \A k \in 1..(j - 1) : c[k] = s[k]
  BY <1>1, <1>2
<1>6. t = c \o b
  OBVIOUS
<1> HIDE DEF c, t
<1>7. t \in Seq(S) /\ Len(t) = n + 1
  <2>1. t \in Seq(S) /\ Len(t) = Len(c) + Len(b)
    BY <1>3, <1>5, <1>6, ConcatProperties
  <2> QED BY <1>1, <1>3, <1>5, <2>1
<1>8. ASSUME NEW k \in 1..(n + 1) PROVE t[k] = IF k < j THEN s[k] ELSE IF k = j THEN e ELSE s[k - 1]
  <2>1. CASE k <= j
    <3>1. t[k] = c[k]
      BY <1>1, <1>3, <1>5, <1>6, <2>1
    <3> QED BY <1>1, <1>5, <2>1, <3>1
  <2>2. CASE ~(k <= j)
    <3>1. k - j \in 1..(n - j + 1) /\ j + (k - j) - 1 = k - 1
      BY <1>1, <2>2
    <3>2. t[k] = b[k - j]
      BY <1>1, <1>3, <1>5, <1>6, <2>2
    <3>3. b[k - j] = s[j + (k - j) - 1]
      BY <1>3, <3>1
    <3> QED BY <1>1, <2>2, <3>1, <3>2, <3>3
  <2> QED BY <1>1, <2>1, <2>2
<1> QED BY <1>4, <1>7, <1>8 DEF n

LEMMA InsertedAt ==
    ASSUME NEW S, NEW s \in Seq(S), NEW j \in 1..(Len(s) + 1), NEW e \in S, NEW k \in 1..(Len(s) + 1)
    PROVE  Studio!InsertAt(s, j, e)[k] = IF k < j THEN s[k] ELSE IF k = j THEN e ELSE s[k - 1]
  BY Inserted

\* A drag changes the order of the rows and nothing else.
LEMMA Dragged ==
    ASSUME NEW S, Cardinality(S) \in Nat, NEW s, Studio!Enumerates(s, S),
           NEW i \in DOMAIN s, NEW j \in DOMAIN s
    PROVE  Studio!Enumerates(Studio!InsertAt(Studio!RemoveAt(s, i), j, s[i]), S)
<1> DEFINE n == Cardinality(S)
           t == Studio!RemoveAt(s, i)
           u == Studio!InsertAt(t, j, s[i])
<1>1. n \in Nat /\ s \in [1..n -> S] /\ \A p \in S : \E k \in 1..n : s[k] = p
  BY StudioCardinality DEF Studio!Enumerates
<1> HIDE DEF n
<1>2. s \in Seq(S) /\ Len(s) = n /\ i \in 1..n /\ j \in 1..n /\ s[i] \in S
  BY <1>1
<1>3. /\ t \in Seq(S) /\ Len(t) = n - 1
      /\ \A k \in 1..(n - 1) : t[k] = IF k < i THEN s[k] ELSE s[k + 1]
  BY <1>2, Removed
<1> HIDE DEF t
<1>4. j \in 1..(Len(t) + 1) /\ Len(t) + 1 = n
  BY <1>1, <1>2, <1>3
<1>5. /\ u \in Seq(S) /\ Len(u) = n
      /\ \A k \in 1..n : u[k] = IF k < j THEN t[k] ELSE IF k = j THEN s[i] ELSE t[k - 1]
  <2>1. t \in Seq(S) /\ j \in 1..(Len(t) + 1) /\ s[i] \in S
    BY <1>2, <1>3, <1>4
  <2> DEFINE e == s[i]
  <2> HIDE DEF e
  <2>2. u = Studio!InsertAt(t, j, e) /\ e \in S
    BY <2>1 DEF e
  <2> HIDE DEF u
  <2>3. u \in Seq(S) /\ Len(u) = Len(t) + 1
    BY <2>1, <2>2, Inserted
  <2>4. \A k \in 1..(Len(t) + 1) : u[k] = IF k < j THEN t[k] ELSE IF k = j THEN e ELSE t[k - 1]
    BY <2>1, <2>2, InsertedAt
  <2> QED BY <1>4, <2>3, <2>4 DEF e
<1> HIDE DEF u
<1>6. u \in [1..n -> S]
  BY <1>1, <1>5
<1>7. ASSUME NEW p \in S PROVE \E k \in 1..n : u[k] = p
  <2>1. PICK m \in 1..n : s[m] = p
    BY <1>1
  <2>2. CASE m = i
    <3>1. u[j] = p
      BY <1>1, <1>2, <1>5, <2>1, <2>2
    <3> QED BY <1>2, <3>1
  <2>3. CASE m # i
    <3> DEFINE k == IF m < i THEN m ELSE m - 1
               h == IF k < j THEN k ELSE k + 1
    <3>1. k \in 1..(n - 1) /\ t[k] = p
      <4>1. CASE m < i
        BY <1>1, <1>2, <1>3, <2>1, <4>1
      <4>2. CASE ~(m < i)
        <5>1. k = m - 1 /\ k \in 1..(n - 1) /\ ~(k < i) /\ k + 1 = m
          BY <1>1, <1>2, <2>3, <4>2
        <5> HIDE DEF k
        <5> QED BY <1>3, <2>1, <5>1
      <4> QED BY <4>1, <4>2
    <3> HIDE DEF k
    <3>2. h \in 1..n /\ (k < j => h = k) /\ (~(k < j) => ~(h < j) /\ h # j /\ h - 1 = k)
      BY <1>1, <1>2, <3>1
    <3> HIDE DEF h
    <3>3. u[h] = p
      BY <1>5, <3>1, <3>2
    <3> QED BY <3>2, <3>3
  <2> QED BY <2>2, <2>3
<1>8. DOMAIN u = 1..n
  BY <1>6
<1> QED BY <1>6, <1>7, <1>8, StudioCardinality DEF Studio!Enumerates, n, u, t

LEMMA EnumeratesOnce ==
    ASSUME NEW S, IsFiniteSet(S), NEW s, Studio!Enumerates(s, S)
    PROVE  \A i, j \in DOMAIN s : s[i] \in S /\ (s[i] = s[j] => i = j)
<1> DEFINE n == Cardinality(S)
<1>1. s \in [1..n -> S] /\ \A p \in S : \E i \in 1..n : s[i] = p
  BY StudioCardinality DEF Studio!Enumerates
<1>2. n \in Nat
  BY FS_CardinalityType
<1>3. IsFiniteSet(1..n) /\ Cardinality(1..n) = n
  <2>1. 1 \in Int /\ n \in Int /\ (1 > n => n = 0)
    BY <1>2
  <2>2. IsFiniteSet(1..n) /\ Cardinality(1..n) = IF 1 > n THEN 0 ELSE n - 1 + 1
    BY <2>1, FS_Interval
  <2> HIDE DEF n
  <2> QED BY <1>2, <2>1, <2>2
<1>4. s \in Surjection(1..n, S)
  BY <1>1 DEF Surjection
<1>5. s \in Injection(1..n, S)
  BY <1>3, <1>4, FS_SurjSameCardinalityImpliesInj
<1> QED BY <1>1, <1>5 DEF Injection, IsInjective


(* The order *)

LEMMA ViewListed ==
    ASSUME Studio!StudioConstants, rank \in [Params -> Studio!Ranks]
    PROVE  /\ Studio!View \in Studio!Listing
           /\ \A p \in Params : /\ rows[p] = "active" => Studio!View[p] = rank[p]
                                /\ Studio!View[p] # Studio!Gone <=> rows[p] = "active"
           /\ \A p : p \in Studio!Held(Studio!View) <=> p \in Params /\ rows[p] = "active"
<1>1. \A p \in Params : rank[p] \in Studio!Ranks /\ rank[p] # Studio!Gone
  BY ParamsCounted
<1>2. \A p \in Params : Studio!View[p] = IF rows[p] = "active" THEN rank[p] ELSE Studio!Gone
  BY DEF Studio!View
<1>3. Studio!View \in Studio!Listing
  BY <1>1 DEF Studio!View, Studio!Listing
<1> QED BY <1>1, <1>2, <1>3 DEF Studio!Held

LEMMA Invalidated ==
    ASSUME Studio!Invalidate, query.read \in Studio!Listing
    PROVE  seen' = seen /\ query'.read \in Studio!Listing
<1>1. Studio!Asked.read \in Studio!Listing
  BY DEF Studio!Asked, Studio!Listing
<1> QED BY <1>1 DEF Studio!Invalidate

LEMMA StudioOrderStep ==
    ASSUME Studio!StudioConstants, Studio!OrderInv, [Studio!Next]_Studio!vars
    PROVE  Studio!OrderInv'
<1> DEFINE H == Studio!Held(known)
           Listings == seen'.rows \in Studio!Listing /\ query'.read \in Studio!Listing
<1>1. /\ rank \in [Params -> Studio!Ranks] /\ known \in Studio!Listing
      /\ seen.rows \in Studio!Listing /\ query.read \in Studio!Listing
      /\ Studio!Enumerates(shown, H)
      /\ \A u \in updates : u.param \in Params /\ u.to \in Studio!Ranks
      /\ sure => /\ \A p \in Params : p \in H <=> rows[p] = "active"
                 /\ \A i \in DOMAIN shown : \/ rank[shown[i]] = i - 1
                                            \/ \E u \in updates : u.param = shown[i]
                 /\ \A u \in updates : \E i \in DOMAIN shown : u.param = shown[i] /\ u.to = i - 1
  BY DEF Studio!OrderInv, Studio!Position
<1>2. ASSUME Listings, rank' \in [Params -> Studio!Ranks], known' \in Studio!Listing,
             Studio!Enumerates(shown', Studio!Held(known')), updates' \subseteq updates, ~sure'
      PROVE  Studio!OrderInv'
  BY <1>1, <1>2 DEF Studio!OrderInv, Studio!Held, Studio!Enumerates, Studio!Listing
<1>3. ASSUME Listings, UNCHANGED <<rank, rows, known, shown, updates, sure>> PROVE Studio!OrderInv'
  BY <1>1, <1>3 DEF Studio!OrderInv, Studio!Position, Studio!Held, Studio!Enumerates, Studio!Listing
<1>4. ASSUME NEW l \in Studio!Listing, Studio!Present(l), Listings, rank' = rank, updates' = updates
      PROVE  Studio!OrderInv'
  <2>1. known' = l /\ shown' = Studio!Sorted(l) /\ ~sure'
    BY <1>4 DEF Studio!Present
  <2>2. Studio!Enumerates(Studio!Sorted(l), Studio!Held(l))
    BY SortedEnumerates
  <2> QED BY <1>1, <1>2, <1>4, <2>1, <2>2
<1>5. ASSUME Listings, UNCHANGED <<known, shown, updates>>, ~sure', rank' \in [Params -> Studio!Ranks]
      PROVE  Studio!OrderInv'
  BY <1>1, <1>2, <1>5
<1>6. CASE UNCHANGED <<rank, rows, known, shown, updates, sure, seen, query>>
  BY <1>1, <1>3, <1>6
<1>7. Studio!View \in Studio!Listing
  BY <1>1, ViewListed
<1>8. [p \in Params |-> Studio!Gone] \in Studio!Listing /\ Studio!Asked.read \in Studio!Listing
  BY DEF Studio!Listing, Studio!Asked
<1>9. ASSUME NEW k, Studio!Visit(k) PROVE Studio!OrderInv'
  <2> DEFINE l == IF k = "tab" THEN Studio!View
                  ELSE IF seen.known THEN seen.rows ELSE [p \in Params |-> Studio!Gone]
  <2>1. /\ Studio!Present(l) /\ rank' = rank /\ updates' = updates /\ seen' = seen
        /\ query' = Studio!Asked \/ query' = query
    BY <1>9 DEF Studio!Visit
  <2>2. l \in Studio!Listing
    BY <1>1, <1>7, <1>8
  <2> HIDE DEF l
  <2> QED BY <1>1, <1>4, <1>8, <2>1, <2>2
<1>10. ASSUME Studio!Ask \/ Studio!Read PROVE Studio!OrderInv'
  <2>1. /\ query'.read \in Studio!Listing /\ seen' = seen
        /\ UNCHANGED <<rank, rows, known, shown, updates, sure>>
    BY <1>7, <1>8, <1>10 DEF Studio!Ask, Studio!Read, Studio!order
  <2> QED BY <1>1, <1>3, <2>1
<1>11. ASSUME Studio!Land PROVE Studio!OrderInv'
  <2>1. /\ query' = Studio!NoFetch /\ seen'.rows = query.read
        /\ UNCHANGED <<rank, rows, updates>>
        /\ Studio!Present(query.read) \/ UNCHANGED <<known, shown, sure>>
    BY <1>11 DEF Studio!Land
  <2>2. query'.read = Studio!Asked.read
    BY <2>1 DEF Studio!NoFetch, Studio!Asked
  <2> QED BY <1>1, <1>3, <1>4, <1>8, <2>1, <2>2
<1>12. ASSUME Studio!Rerender PROVE Studio!OrderInv'
  <2>1. /\ Studio!Present(seen.rows) /\ rank' = rank /\ updates' = updates
        /\ UNCHANGED <<seen, query>>
    BY <1>12 DEF Studio!Rerender, Studio!listing
  <2> QED BY <1>1, <1>4, <2>1
<1>13. ASSUME NEW i \in DOMAIN shown, NEW j \in DOMAIN shown, Studio!Drag(i, j) PROVE Studio!OrderInv'
  <2> DEFINE new == {[param |-> shown'[n], to |-> n - 1, run |-> gestures', page |-> screen] :
                        n \in Studio!Outdated(shown')}
             n == Cardinality(H)
  <2>1. /\ shown' = Studio!InsertAt(Studio!RemoveAt(shown, i), j, shown[i])
        /\ updates' = updates \cup new /\ sure' = (updates = {} /\ known = Studio!View)
        /\ UNCHANGED <<rows, rank, known, seen, query>>
    BY <1>13 DEF Studio!Drag, Studio!listing, Studio!Position
  <2>2. n \in Nat /\ n <= Cardinality(Params) /\ H \subseteq Params
    BY <1>1, HeldCounted, ParamsCounted
  <2>3. Studio!Enumerates(shown', H)
    <3> HIDE DEF H
    <3> QED BY <1>1, <2>1, <2>2, Dragged
  <2>4. shown' \in [1..n -> H] /\ DOMAIN shown' = 1..n
    BY <2>3, StudioCardinality DEF Studio!Enumerates
  <2>5. \A m \in DOMAIN shown' : m \in Studio!Outdated(shown') <=> known[shown'[m]] # m - 1
    BY DEF Studio!Outdated, Studio!Position
  <2>6. Studio!Outdated(shown') \subseteq DOMAIN shown'
    BY DEF Studio!Outdated
  <2> HIDE DEF H, n
  <2>7. \A u \in new : \E m \in DOMAIN shown' : /\ u.param = shown'[m] /\ u.to = m - 1
                                                /\ m \in Studio!Outdated(shown')
    BY <2>6
  <2>8. \A m \in Studio!Outdated(shown') : \E u \in new : u.param = shown'[m]
    <3> TAKE m \in Studio!Outdated(shown')
    <3> DEFINE w == [param |-> shown'[m], to |-> m - 1, run |-> gestures', page |-> screen]
    <3>1. w \in new /\ w.param = shown'[m]
      OBVIOUS
    <3> QED BY <3>1
  <2> HIDE DEF new
  <2>9. \A m \in DOMAIN shown' : shown'[m] \in Params /\ m - 1 \in Studio!Ranks
    <3>1. \A m \in 1..n : m - 1 \in 0..(Cardinality(Params) - 1)
      BY <2>2, ParamsCounted
    <3> QED BY <2>2, <2>4, <3>1, ParamsCounted
  <2>10. \A u \in updates' : u.param \in Params /\ u.to \in Studio!Ranks
    BY <1>1, <2>1, <2>7, <2>9
  <2>11. ASSUME sure'
         PROVE  /\ \A p \in Params : p \in H <=> rows'[p] = "active"
                /\ \A m \in DOMAIN shown' : \/ rank'[shown'[m]] = m - 1
                                            \/ \E u \in updates' : u.param = shown'[m]
                /\ \A u \in updates' : \E m \in DOMAIN shown' : u.param = shown'[m] /\ u.to = m - 1
    <3>1. updates = {} /\ known = Studio!View
      BY <2>1, <2>11
    <3>2. \A p \in Params : /\ p \in H <=> rows[p] = "active"
                            /\ p \in H => known[p] = rank[p]
      BY <1>1, <3>1, ViewListed DEF H
    <3>3. \A m \in DOMAIN shown' : \/ rank'[shown'[m]] = m - 1
                                   \/ \E u \in updates' : u.param = shown'[m]
      <4> TAKE m \in DOMAIN shown'
      <4>1. shown'[m] \in H /\ shown'[m] \in Params
        BY <2>4, <2>9
      <4>2. known[shown'[m]] = rank[shown'[m]]
        BY <3>2, <4>1
      <4>3. CASE m \in Studio!Outdated(shown')
        BY <2>1, <2>8, <4>3
      <4>4. CASE m \notin Studio!Outdated(shown')
        BY <2>1, <2>5, <4>2, <4>4
      <4> QED BY <4>3, <4>4
    <3> QED BY <2>1, <2>7, <3>1, <3>2, <3>3
  <2>12. Studio!Enumerates(shown', Studio!Held(known'))
    BY <2>1, <2>3 DEF H
  <2>13. \A p \in Params : p \in H <=> p \in Studio!Held(known')
    BY <2>1 DEF H
  <2> QED BY <1>1, <2>1, <2>10, <2>11, <2>12, <2>13
          DEF Studio!OrderInv, Studio!Position, Studio!Held, Studio!Enumerates, Studio!Listing
<1>14. ASSUME NEW u \in updates, Studio!UpdateLands(u) PROVE Studio!OrderInv'
  <2>1. /\ rank' = [rank EXCEPT ![u.param] = u.to] /\ updates' = updates \ {u}
        /\ UNCHANGED <<rows, known, shown, sure>>
    BY <1>14 DEF Studio!UpdateLands
  <2>2. Listings
    <3>1. Studio!Invalidate \/ UNCHANGED <<seen, query>>
      BY <1>14 DEF Studio!UpdateLands, Studio!listing
    <3> QED BY <1>1, <3>1, Invalidated
  <2>3. rank' \in [Params -> Studio!Ranks] /\ \A p \in Params : rank'[p] = IF p = u.param THEN u.to ELSE rank[p]
    BY <1>1, <2>1
  <2>4. ASSUME sure
        PROVE  /\ \A m \in DOMAIN shown : \/ rank'[shown[m]] = m - 1
                                          \/ \E w \in updates' : w.param = shown[m]
               /\ \A w \in updates' : \E m \in DOMAIN shown : w.param = shown[m] /\ w.to = m - 1
    <3>1. PICK k \in DOMAIN shown : u.param = shown[k] /\ u.to = k - 1
      BY <1>1, <2>4
    <3>2. \A m \in DOMAIN shown : shown[m] \in Params /\ (shown[m] = shown[k] => m = k)
      <4>1. IsFiniteSet(H) /\ H \subseteq Params
        BY <1>1, HeldCounted
      <4> HIDE DEF H
      <4> QED BY <1>1, <3>1, <4>1, EnumeratesOnce
    <3>3. \A m \in DOMAIN shown : \/ rank'[shown[m]] = m - 1
                                  \/ \E w \in updates' : w.param = shown[m]
      <4> TAKE m \in DOMAIN shown
      <4>1. CASE m = k
        BY <2>3, <3>1, <3>2, <4>1
      <4>2. CASE m # k
        <5>1. shown[m] # u.param
          BY <3>1, <3>2, <4>2
        <5>2. rank'[shown[m]] = rank[shown[m]]
          BY <2>3, <3>2, <5>1
        <5>3. CASE rank[shown[m]] = m - 1
          BY <5>2, <5>3
        <5>4. CASE \E w \in updates : w.param = shown[m]
          <6>1. PICK w \in updates : w.param = shown[m]
            BY <5>4
          <6>2. w \in updates'
            BY <2>1, <5>1, <6>1
          <6> QED BY <6>1, <6>2
        <5>5. rank[shown[m]] = m - 1 \/ \E w \in updates : w.param = shown[m]
          BY <1>1, <2>4
        <5> QED BY <5>3, <5>4, <5>5
      <4> QED BY <4>1, <4>2
    <3> QED BY <1>1, <2>1, <2>4, <3>3
  <2>5. \A w \in updates' : w.param \in Params /\ w.to \in Studio!Ranks
    BY <1>1, <2>1
  <2>6. /\ Studio!Enumerates(shown', Studio!Held(known')) /\ known' \in Studio!Listing
        /\ \A p \in Params : p \in H <=> p \in Studio!Held(known')
    BY <1>1, <2>1
  <2> HIDE DEF H
  <2>7. sure' => /\ \A p \in Params : p \in Studio!Held(known') <=> rows'[p] = "active"
                 /\ \A m \in DOMAIN shown' : \/ rank'[shown'[m]] = m - 1
                                             \/ \E w \in updates' : w.param = shown'[m]
                 /\ \A w \in updates' : \E m \in DOMAIN shown' : w.param = shown'[m] /\ w.to = m - 1
    BY <1>1, <2>1, <2>4, <2>6
  <2> QED BY <2>2, <2>3, <2>5, <2>6, <2>7
          DEF Studio!OrderInv, Studio!Position, Studio!Held, Studio!Enumerates, Studio!Listing
<1>15. ASSUME NEW u \in updates, Studio!UpdateFails(u) PROVE Studio!OrderInv'
  <2>1. /\ updates' = updates \ {u} /\ ~sure' /\ UNCHANGED <<rank, known, shown, seen, query>>
    BY <1>15 DEF Studio!UpdateFails, Studio!listing
  <2> QED BY <1>1, <1>2, <2>1
<1>16. ASSUME NEW p \in Params, Studio!Assign(p) \/ Studio!Unassign(p) PROVE Studio!OrderInv'
  <2>1. PICK r \in Studio!Ranks \cup {Studio!Gone} :
           /\ Studio!Present([known EXCEPT ![p] = r]) /\ rank' = rank /\ updates' = updates
           /\ UNCHANGED <<seen, query>>
    BY <1>1, <1>16 DEF Studio!Assign, Studio!Unassign, Studio!listing
  <2>2. [known EXCEPT ![p] = r] \in Studio!Listing
    BY <1>1 DEF Studio!Listing
  <2> QED BY <1>1, <1>4, <2>1, <2>2
<1>17. ASSUME NEW p \in deleting, Studio!DeleteLands(p) PROVE Studio!OrderInv'
  <2>1. UNCHANGED <<rank, known, shown, updates>> /\ ~sure' /\ Studio!Invalidate
    BY <1>17 DEF Studio!DeleteLands
  <2> QED BY <1>1, <1>5, <2>1, Invalidated
<1>18. ASSUME NEW p, Studio!Create(p), UNCHANGED <<known, shown, updates>>, Listings
       PROVE  Studio!OrderInv'
  <2>1. rank' = [rank EXCEPT ![p] = 0] /\ ~sure'
    BY <1>18 DEF Studio!Create
  <2>2. rank' \in [Params -> Studio!Ranks]
    BY <1>1, <2>1, ParamsCounted
  <2> QED BY <1>5, <1>18, <2>1, <2>2
<1>19. ASSUME Studio!ImportNext PROVE Studio!OrderInv'
  <2>1. /\ Studio!Create(Head(import)) \/ UNCHANGED <<rows, rank, sure>>
        /\ Studio!Invalidate \/ UNCHANGED <<seen, query>>
        /\ UNCHANGED <<known, shown, updates>>
    BY <1>19 DEF Studio!ImportNext, Studio!Refused, Studio!listing
  <2>2. Listings
    BY <1>1, <2>1, Invalidated
  <2> QED BY <1>3, <1>18, <2>1, <2>2
<1>20. ASSUME NEW p \in creating, Studio!Registered(p) PROVE Studio!OrderInv'
  <2>1. Studio!Create(p) /\ Studio!Invalidate /\ UNCHANGED <<known, shown, updates>>
    BY <1>20 DEF Studio!Registered
  <2> QED BY <1>1, <1>18, <2>1, Invalidated
<1>21. ASSUME Studio!SaveDone PROVE Studio!OrderInv'
  <2>1. Studio!Invalidate /\ UNCHANGED <<rank, rows, known, shown, updates, sure>>
    BY <1>21 DEF Studio!SaveDone, Studio!order
  <2> QED BY <1>1, <1>3, <2>1, Invalidated
<1>22. ASSUME ~UNCHANGED <<rank, rows, known, shown, updates, sure, seen, query>>
       PROVE  \/ \E k \in {"list", "tab"} : Studio!Visit(k)
              \/ Studio!Ask \/ Studio!Read \/ Studio!Land \/ Studio!Rerender
              \/ \E i, j \in DOMAIN shown : Studio!Drag(i, j)
              \/ \E u \in updates : Studio!UpdateLands(u) \/ Studio!UpdateFails(u)
              \/ \E p \in Params : Studio!Assign(p) \/ Studio!Unassign(p)
              \/ \E p \in deleting : Studio!DeleteLands(p)
              \/ Studio!ImportNext \/ Studio!SaveDone
              \/ \E p \in creating : Studio!Registered(p)
  BY <1>22 DEF Studio!Next, Studio!vars, Studio!order, Studio!listing, Studio!Delete,
     Studio!DeleteFails, Studio!StartImport, Studio!OpenDialog, Studio!CloseDialog,
     Studio!StartSave, Studio!SaveRow, Studio!AddsDone, Studio!SaveFails, Studio!AddOption,
     Studio!SaveAdd, Studio!RemoveOption, Studio!SaveDrop, Studio!OpenValidation,
     Studio!ScanRead, Studio!ScanLand, Studio!Register, Studio!RegisterFails
<1> QED BY <1>6, <1>9, <1>10, <1>11, <1>12, <1>13, <1>14, <1>15, <1>16, <1>17, <1>19, <1>20, <1>21, <1>22

LEMMA StudioOrdered == Studio!Spec => []Studio!OrderInv
<1> USE StudioHypotheses
<1>1. Studio!Init => Studio!OrderInv
  <2> SUFFICES ASSUME Studio!Init PROVE Studio!OrderInv
    OBVIOUS
  <2>1. /\ rank = [p \in Params |-> 0] /\ known = [p \in Params |-> Studio!Gone] /\ ~sure
        /\ updates = {} /\ shown = << >> /\ query = Studio!Asked
        /\ seen.rows = [p \in Params |-> Studio!Gone]
    BY DEF Studio!Init
  <2>2. known \in Studio!Listing /\ Studio!Held(known) = {} /\ query.read = known
    BY <2>1 DEF Studio!Listing, Studio!Held, Studio!Asked
  <2>3. rank \in [Params -> Studio!Ranks]
    BY <2>1, ParamsCounted
  <2>4. Studio!Enumerates(shown, {})
    <3>1. Studio!Cardinality({}) = 0
      BY StudioCardinality, FS_EmptySet
    <3> QED BY <2>1, <3>1 DEF Studio!Enumerates
  <2> QED BY <2>1, <2>2, <2>3, <2>4 DEF Studio!OrderInv
<1>2. Studio!OrderInv /\ [Studio!Next]_Studio!vars => Studio!OrderInv'
  BY StudioOrderStep
<1> QED BY <1>1, <1>2, PTL DEF Studio!Spec

\* After one drag over true copies, the order the server lists is the one on
\* screen as soon as its requests are answered.
THEOREM DragsAgree == Studio!Spec => []OrderAsShown
<1> USE StudioHypotheses
<1>1. Studio!OrderInv => OrderAsShown
  <2> SUFFICES ASSUME Studio!OrderInv, sure, updates = {} PROVE Studio!Sorted(Studio!View) = shown
    BY StudioReads DEF OrderAsShown
  <2>1. /\ rank \in [Params -> Studio!Ranks] /\ known \in Studio!Listing
        /\ Studio!Enumerates(shown, Studio!Held(known))
        /\ \A p \in Params : p \in Studio!Held(known) <=> rows[p] = "active"
        /\ \A i \in DOMAIN shown : rank[shown[i]] = i - 1
    BY DEF Studio!OrderInv, Studio!Position
  <2>2. Studio!Held(known) = Studio!Held(Studio!View)
    BY <2>1, HeldCounted, ViewListed
  <2>3. \A i \in DOMAIN shown : shown[i] \in Studio!Held(known)
    BY <2>1 DEF Studio!Enumerates
  <2>4. \A i \in DOMAIN shown : Studio!View[shown[i]] = i - 1
    BY <2>1, <2>2, <2>3, HeldCounted, ViewListed
  <2> QED BY <2>1, <2>2, <2>4, SortedByRank, ViewListed
<1> QED BY <1>1, StudioOrdered, PTL


(* The list *)

LEMMA StudioListStep ==
    ASSUME Studio!StudioConstants, Studio!OrderInv, Studio!ListInv, [Studio!Next]_Studio!vars
    PROVE  Studio!ListInv'
<1>1. /\ rows \in [Params -> {"absent", "active", "deleted"}]
      /\ import = << >> /\ ~missed => /\ query.state = "read" => Studio!Fresh(query.read)
                                      /\ seen.known /\ query.state = "none" /\ ~stale =>
                                            Studio!Fresh(seen.rows)
  BY DEF Studio!ListInv, Studio!None
<1>2. ASSUME rows' \in [Params -> {"absent", "active", "deleted"}], query'.state = "asked"
      PROVE  Studio!ListInv'
  BY <1>2 DEF Studio!ListInv, Studio!None
<1>3. ASSUME rows' = rows, import' = << >> => import = << >>,
             UNCHANGED <<missed, stale, seen, query>>
      PROVE  Studio!ListInv'
  BY <1>1, <1>3 DEF Studio!ListInv, Studio!Fresh, Studio!None
<1>4. ASSUME rows' \in [Params -> {"absent", "active", "deleted"}], Studio!Invalidate
      PROVE  Studio!ListInv'
  <2>1. CASE query' = Studio!Asked
    BY <1>2, <1>4, <2>1 DEF Studio!Asked
  <2>2. CASE stale' = TRUE /\ missed' = (missed \/ query.state # "none") /\ query' = query
    BY <1>4, <2>2 DEF Studio!ListInv, Studio!None
  <2> QED BY <1>4, <2>1, <2>2 DEF Studio!Invalidate, Studio!None
<1>5. CASE UNCHANGED <<rows, import, missed, stale, seen, query>>
  BY <1>3, <1>5
<1>6. ASSUME NEW k, Studio!Visit(k) PROVE Studio!ListInv'
  <2>1. /\ UNCHANGED <<rows, import, missed, stale, seen>>
        /\ query' = Studio!Asked \/ query' = query
    BY <1>6 DEF Studio!Visit
  <2>2. CASE query' = Studio!Asked
    BY <1>1, <1>2, <2>1, <2>2 DEF Studio!Asked
  <2>3. CASE query' = query
    BY <1>3, <2>1, <2>3
  <2> QED BY <2>1, <2>2, <2>3
<1>7. ASSUME Studio!Ask PROVE Studio!ListInv'
  <2>1. rows' = rows /\ query'.state = "asked"
    BY <1>7 DEF Studio!Ask, Studio!Asked
  <2> QED BY <1>1, <1>2, <2>1
<1>8. ASSUME Studio!Read PROVE Studio!ListInv'
  <2>1. /\ rows' = rows /\ query'.state = "read" /\ query'.read = Studio!View
    BY <1>8 DEF Studio!Read
  <2>2. rank \in [Params -> Studio!Ranks]
    BY DEF Studio!OrderInv
  <2>3. Studio!Fresh(Studio!View)
    <3>1. \A p \in Params : Studio!View[p] # Studio!Gone <=> rows[p] = "active"
      BY <2>2, ViewListed
    <3> QED BY <3>1 DEF Studio!Fresh
  <2> QED BY <1>1, <2>1, <2>3 DEF Studio!ListInv, Studio!Fresh, Studio!None
<1>9. ASSUME Studio!Land PROVE Studio!ListInv'
  <2>1. /\ query.state = "read" /\ query' = Studio!NoFetch
        /\ seen'.rows = query.read /\ UNCHANGED <<rows, import, missed>>
    BY <1>9 DEF Studio!Land
  <2>2. query'.state = "none"
    BY <2>1 DEF Studio!NoFetch, Studio!Asked, Studio!None
  <2> QED BY <1>1, <2>1, <2>2 DEF Studio!ListInv, Studio!Fresh, Studio!None
<1>10. ASSUME NEW u, Studio!UpdateLands(u) PROVE Studio!ListInv'
  <2>1. /\ UNCHANGED <<rows, import>>
        /\ Studio!Invalidate \/ UNCHANGED <<missed, stale, seen, query>>
    BY <1>10 DEF Studio!UpdateLands, Studio!listing
  <2> QED BY <1>1, <1>3, <1>4, <2>1
<1>11. ASSUME NEW p, Studio!DeleteLands(p) PROVE Studio!ListInv'
  <2>1. rows' = [rows EXCEPT ![p] = "deleted"] /\ Studio!Invalidate
    BY <1>11 DEF Studio!DeleteLands
  <2> QED BY <1>1, <1>4, <2>1
<1>12. ASSUME Studio!StartImport PROVE Studio!ListInv'
  BY <1>3, <1>12 DEF Studio!StartImport, Studio!listing
<1>13. ASSUME Studio!ImportNext PROVE Studio!ListInv'
  <2>1. /\ rows' = rows \/ rows' = [rows EXCEPT ![Head(import)] = "active"]
        /\ import' = << >> => Studio!Invalidate
    BY <1>13 DEF Studio!ImportNext, Studio!Create, Studio!Refused
  <2>2. rows' \in [Params -> {"absent", "active", "deleted"}]
    BY <1>1, <2>1
  <2>3. CASE import' = << >>
    BY <1>4, <2>1, <2>2, <2>3
  <2>4. CASE import' # << >>
    BY <2>2, <2>4 DEF Studio!ListInv
  <2> QED BY <2>3, <2>4
<1>14. ASSUME NEW p, Studio!Registered(p) PROVE Studio!ListInv'
  <2>1. rows' = [rows EXCEPT ![p] = "active"] /\ Studio!Invalidate
    BY <1>14 DEF Studio!Registered, Studio!Create
  <2> QED BY <1>1, <1>4, <2>1
<1>15. ASSUME Studio!SaveDone PROVE Studio!ListInv'
  <2>1. rows' = rows /\ Studio!Invalidate
    BY <1>15 DEF Studio!SaveDone
  <2> QED BY <1>1, <1>4, <2>1
<1>16. ASSUME ~UNCHANGED <<rows, import, missed, stale, seen, query>>
       PROVE  \/ \E k \in {"list", "tab"} : Studio!Visit(k)
              \/ Studio!Ask \/ Studio!Read \/ Studio!Land
              \/ \E u \in updates : Studio!UpdateLands(u)
              \/ \E p \in deleting : Studio!DeleteLands(p)
              \/ Studio!StartImport \/ Studio!ImportNext \/ Studio!SaveDone
              \/ \E p \in creating : Studio!Registered(p)
  BY <1>16 DEF Studio!Next, Studio!vars, Studio!order, Studio!listing, Studio!Rerender,
     Studio!Drag, Studio!UpdateFails, Studio!Assign, Studio!Unassign, Studio!Delete,
     Studio!DeleteFails, Studio!OpenDialog, Studio!CloseDialog,
     Studio!StartSave, Studio!SaveRow, Studio!AddsDone, Studio!SaveFails, Studio!AddOption,
     Studio!SaveAdd, Studio!RemoveOption, Studio!SaveDrop, Studio!OpenValidation,
     Studio!ScanRead, Studio!ScanLand, Studio!Register, Studio!RegisterFails
<1> QED BY <1>5, <1>6, <1>7, <1>8, <1>9, <1>10, <1>11, <1>12, <1>13, <1>14, <1>15, <1>16

\* Once no request is on its way the list holds the rows there are, whichever
\* page, dialog or file changed them.
THEOREM ListIsFresh == Studio!Spec => []ListShowsRows
<1> USE StudioHypotheses
<1>1. Studio!Init => Studio!ListInv
  BY DEF Studio!Init, Studio!ListInv, Studio!Asked, Studio!None
<1>2. Studio!OrderInv /\ Studio!ListInv /\ [Studio!Next]_Studio!vars => Studio!ListInv'
  BY StudioListStep
<1>3. Studio!ListInv => ListShowsRows
  BY StudioReads DEF Studio!ListInv, ListShowsRows, Studio!Fresh, Studio!None
<1>4. Studio!Spec => []Studio!OrderInv
  BY StudioOrdered
<1> QED BY <1>1, <1>2, <1>3, <1>4, PTL DEF Studio!Spec

\* The parts of the type that no other invariant has.
StudioShapes ==
    /\ screen \in {"list", "tab"} /\ dialog \in {"none", "parameter", "validate"}
    /\ seen.known \in BOOLEAN /\ query.state \in {"none", "asked", "read"}
    /\ stale \in BOOLEAN /\ missed \in BOOLEAN /\ sure \in BOOLEAN
    /\ \A u \in updates : u \in Studio!Update
    /\ gestures \in 0..MaxGestures /\ broken \subseteq 1..MaxGestures
    /\ deleting \subseteq Params /\ import \in Seq(Params)
    /\ save.adds \subseteq save.added
    /\ offer \in [just : SUBSET Params, busy : SUBSET Params] /\ creating \subseteq Params

LEMMA StudioShapesStep ==
    ASSUME Studio!StudioConstants, Studio!OrderInv, Studio!OrderInv', Studio!SaveInv, StudioShapes,
           [Studio!Next]_Studio!vars
    PROVE  StudioShapes'
<1>1. MaxGestures \in Nat /\ ImportFile \in Seq(Params)
  BY DEF Studio!StudioConstants
<1>2. screen' \in {"list", "tab"}
  <2>1. screen' = screen \/ \E k \in {"list", "tab"} : screen' = k
    BY DEF Studio!Next, Studio!vars, Studio!Visit, Studio!Ask, Studio!Read, Studio!Land,
       Studio!Rerender, Studio!Drag, Studio!UpdateLands, Studio!UpdateFails, Studio!Assign,
       Studio!Unassign, Studio!Delete, Studio!DeleteLands, Studio!DeleteFails, Studio!StartImport,
       Studio!ImportNext, Studio!OpenDialog, Studio!CloseDialog, Studio!StartSave, Studio!SaveRow,
       Studio!AddsDone, Studio!SaveDone, Studio!SaveFails, Studio!AddOption, Studio!SaveAdd,
       Studio!RemoveOption, Studio!SaveDrop, Studio!OpenValidation, Studio!ScanRead, Studio!ScanLand,
       Studio!Register, Studio!Registered, Studio!RegisterFails
  <2> QED BY <2>1 DEF StudioShapes
<1>3. dialog' \in {"none", "parameter", "validate"}
  <2>1. dialog' \in {dialog, "none", "parameter", "validate"}
    BY DEF Studio!Next, Studio!vars, Studio!Visit, Studio!Ask, Studio!Read, Studio!Land,
       Studio!Rerender, Studio!Drag, Studio!UpdateLands, Studio!UpdateFails, Studio!Assign,
       Studio!Unassign, Studio!Delete, Studio!DeleteLands, Studio!DeleteFails, Studio!StartImport,
       Studio!ImportNext, Studio!OpenDialog, Studio!CloseDialog, Studio!StartSave, Studio!SaveRow,
       Studio!AddsDone, Studio!SaveDone, Studio!SaveFails, Studio!AddOption, Studio!SaveAdd,
       Studio!RemoveOption, Studio!SaveDrop, Studio!OpenValidation, Studio!ScanRead, Studio!ScanLand,
       Studio!Register, Studio!Registered, Studio!RegisterFails, Studio!None
  <2> QED BY <2>1 DEF StudioShapes
<1>4. seen'.known \in BOOLEAN
  <2>1. seen' = seen \/ Studio!Land
    BY DEF Studio!Next, Studio!vars, Studio!listing, Studio!Visit, Studio!Ask, Studio!Read,
       Studio!Rerender, Studio!Drag, Studio!UpdateLands, Studio!UpdateFails, Studio!Assign,
       Studio!Unassign, Studio!Delete, Studio!DeleteLands, Studio!DeleteFails, Studio!StartImport,
       Studio!ImportNext, Studio!OpenDialog, Studio!CloseDialog, Studio!StartSave, Studio!SaveRow,
       Studio!AddsDone, Studio!SaveDone, Studio!SaveFails, Studio!AddOption, Studio!SaveAdd,
       Studio!RemoveOption, Studio!SaveDrop, Studio!OpenValidation, Studio!ScanRead, Studio!ScanLand,
       Studio!Register, Studio!Registered, Studio!RegisterFails, Studio!Invalidate
  <2>2. CASE Studio!Land
    <3>1. seen'.known = TRUE
      BY <2>2 DEF Studio!Land
    <3> QED BY <3>1
  <2> QED BY <2>1, <2>2 DEF StudioShapes
<1>5. query'.state \in {"none", "asked", "read"}
  <2>1. \/ query' = query \/ query' = Studio!Asked \/ query' = Studio!NoFetch
        \/ query' = [state |-> "read", read |-> Studio!View]
    BY DEF Studio!Next, Studio!vars, Studio!listing, Studio!Visit, Studio!Ask, Studio!Read,
       Studio!Land, Studio!Rerender, Studio!Drag, Studio!UpdateLands, Studio!UpdateFails,
       Studio!Assign, Studio!Unassign, Studio!Delete, Studio!DeleteLands, Studio!DeleteFails,
       Studio!StartImport, Studio!ImportNext, Studio!OpenDialog, Studio!CloseDialog, Studio!StartSave,
       Studio!SaveRow, Studio!AddsDone, Studio!SaveDone, Studio!SaveFails, Studio!AddOption,
       Studio!SaveAdd, Studio!RemoveOption, Studio!SaveDrop, Studio!OpenValidation, Studio!ScanRead,
       Studio!ScanLand, Studio!Register, Studio!Registered, Studio!RegisterFails, Studio!Invalidate
  <2>2. Studio!Asked.state = "asked" /\ Studio!NoFetch.state = "none"
    BY DEF Studio!Asked, Studio!NoFetch, Studio!None
  <2> QED BY <2>1, <2>2 DEF StudioShapes
<1>6. stale' \in BOOLEAN /\ missed' \in BOOLEAN
  <2>1. stale' \in {stale, TRUE, FALSE}
    BY DEF Studio!Next, Studio!vars, Studio!listing, Studio!Visit, Studio!Ask, Studio!Read,
       Studio!Land, Studio!Rerender, Studio!Drag, Studio!UpdateLands, Studio!UpdateFails,
       Studio!Assign, Studio!Unassign, Studio!Delete, Studio!DeleteLands, Studio!DeleteFails,
       Studio!StartImport, Studio!ImportNext, Studio!OpenDialog, Studio!CloseDialog, Studio!StartSave,
       Studio!SaveRow, Studio!AddsDone, Studio!SaveDone, Studio!SaveFails, Studio!AddOption,
       Studio!SaveAdd, Studio!RemoveOption, Studio!SaveDrop, Studio!OpenValidation, Studio!ScanRead,
       Studio!ScanLand, Studio!Register, Studio!Registered, Studio!RegisterFails, Studio!Invalidate
  <2>2. missed' = missed \/ missed' = (missed \/ query.state # "none")
    BY DEF Studio!Next, Studio!vars, Studio!listing, Studio!Visit, Studio!Ask, Studio!Read,
       Studio!Land, Studio!Rerender, Studio!Drag, Studio!UpdateLands, Studio!UpdateFails,
       Studio!Assign, Studio!Unassign, Studio!Delete, Studio!DeleteLands, Studio!DeleteFails,
       Studio!StartImport, Studio!ImportNext, Studio!OpenDialog, Studio!CloseDialog, Studio!StartSave,
       Studio!SaveRow, Studio!AddsDone, Studio!SaveDone, Studio!SaveFails, Studio!AddOption,
       Studio!SaveAdd, Studio!RemoveOption, Studio!SaveDrop, Studio!OpenValidation, Studio!ScanRead,
       Studio!ScanLand, Studio!Register, Studio!Registered, Studio!RegisterFails, Studio!Invalidate,
       Studio!None
  <2> QED BY <2>1, <2>2 DEF StudioShapes
<1>7. sure' \in BOOLEAN
  <2>1. sure' = sure \/ sure' = FALSE \/ sure' = (updates = {} /\ known = Studio!View)
    BY DEF Studio!Next, Studio!vars, Studio!order, Studio!Visit, Studio!Ask, Studio!Read,
       Studio!Land, Studio!Rerender, Studio!Drag, Studio!UpdateLands, Studio!UpdateFails,
       Studio!Assign, Studio!Unassign, Studio!Delete, Studio!DeleteLands, Studio!DeleteFails,
       Studio!StartImport, Studio!ImportNext, Studio!OpenDialog, Studio!CloseDialog, Studio!StartSave,
       Studio!SaveRow, Studio!AddsDone, Studio!SaveDone, Studio!SaveFails, Studio!AddOption,
       Studio!SaveAdd, Studio!RemoveOption, Studio!SaveDrop, Studio!OpenValidation, Studio!ScanRead,
       Studio!ScanLand, Studio!Register, Studio!Registered, Studio!RegisterFails, Studio!Present,
       Studio!Create, Studio!Refused
  <2>2. (updates = {} /\ known = Studio!View) \in BOOLEAN
    OBVIOUS
  <2> QED BY <2>1, <2>2 DEF StudioShapes
<1>8. /\ gestures' \in 0..MaxGestures
      /\ gestures' # gestures => gestures' \in 1..MaxGestures
  <2>1. gestures' = gestures \/ (gestures < MaxGestures /\ gestures' = gestures + 1)
    BY DEF Studio!Next, Studio!vars, Studio!Visit, Studio!Ask, Studio!Read, Studio!Land,
       Studio!Rerender, Studio!Drag, Studio!UpdateLands, Studio!UpdateFails, Studio!Assign,
       Studio!Unassign, Studio!Delete, Studio!DeleteLands, Studio!DeleteFails, Studio!StartImport,
       Studio!ImportNext, Studio!OpenDialog, Studio!CloseDialog, Studio!StartSave, Studio!SaveRow,
       Studio!AddsDone, Studio!SaveDone, Studio!SaveFails, Studio!AddOption, Studio!SaveAdd,
       Studio!RemoveOption, Studio!SaveDrop, Studio!OpenValidation, Studio!ScanRead, Studio!ScanLand,
       Studio!Register, Studio!Registered, Studio!RegisterFails, Studio!Gesture
  <2>2. gestures \in 0..MaxGestures
    BY DEF StudioShapes
  <2> QED BY <1>1, <2>1, <2>2
<1>9. \A u \in updates' : u \in Studio!Update
  <2>1. ASSUME NEW i \in DOMAIN shown, NEW j \in DOMAIN shown, Studio!Drag(i, j), NEW u \in updates'
        PROVE  u \in Studio!Update
    <3>1. CASE u \in updates
      BY <3>1 DEF StudioShapes
    <3>2. CASE u \notin updates
      <4>1. PICK n \in Studio!Outdated(shown') :
               u = [param |-> shown'[n], to |-> Studio!Position(n), run |-> gestures', page |-> screen]
        BY <2>1, <3>2 DEF Studio!Drag
      <4>2. u.param \in Params /\ u.to \in Studio!Ranks
        BY <2>1 DEF Studio!OrderInv, Studio!Ranks
      <4>3. gestures' \in 1..MaxGestures
        <5>1. gestures' = gestures + 1 /\ gestures \in 0..MaxGestures
          BY <2>1 DEF Studio!Drag, Studio!Gesture, StudioShapes
        <5> QED BY <1>1, <1>8, <5>1
      <4> QED BY <4>1, <4>2, <4>3 DEF Studio!Update, StudioShapes
    <3> QED BY <3>1, <3>2
  <2>2. updates' \subseteq updates \/ \E i, j \in DOMAIN shown : Studio!Drag(i, j)
    BY DEF Studio!Next, Studio!vars, Studio!order, Studio!Visit, Studio!Ask, Studio!Read,
       Studio!Land, Studio!Rerender, Studio!UpdateLands, Studio!UpdateFails, Studio!Assign,
       Studio!Unassign, Studio!Delete, Studio!DeleteLands, Studio!DeleteFails, Studio!StartImport,
       Studio!ImportNext, Studio!OpenDialog, Studio!CloseDialog, Studio!StartSave, Studio!SaveRow,
       Studio!AddsDone, Studio!SaveDone, Studio!SaveFails, Studio!AddOption, Studio!SaveAdd,
       Studio!RemoveOption, Studio!SaveDrop, Studio!OpenValidation, Studio!ScanRead, Studio!ScanLand,
       Studio!Register, Studio!Registered, Studio!RegisterFails
  <2> QED BY <2>1, <2>2 DEF StudioShapes
<1>10. broken' \subseteq 1..MaxGestures
  <2>1. broken' = broken \/ \E u \in updates : broken' = broken \cup {u.run}
    BY DEF Studio!Next, Studio!vars, Studio!order, Studio!Visit, Studio!Ask, Studio!Read,
       Studio!Land, Studio!Rerender, Studio!Drag, Studio!UpdateLands, Studio!UpdateFails,
       Studio!Assign, Studio!Unassign, Studio!Delete, Studio!DeleteLands, Studio!DeleteFails,
       Studio!StartImport, Studio!ImportNext, Studio!OpenDialog, Studio!CloseDialog, Studio!StartSave,
       Studio!SaveRow, Studio!AddsDone, Studio!SaveDone, Studio!SaveFails, Studio!AddOption,
       Studio!SaveAdd, Studio!RemoveOption, Studio!SaveDrop, Studio!OpenValidation, Studio!ScanRead,
       Studio!ScanLand, Studio!Register, Studio!Registered, Studio!RegisterFails
  <2>2. \A u \in updates : u.run \in 1..MaxGestures
    BY DEF StudioShapes, Studio!Update
  <2> QED BY <2>1, <2>2 DEF StudioShapes
<1>11. deleting' \subseteq Params
  <2>1. deleting' \subseteq deleting \cup Params
    BY DEF Studio!Next, Studio!vars, Studio!Visit, Studio!Ask, Studio!Read, Studio!Land,
       Studio!Rerender, Studio!Drag, Studio!UpdateLands, Studio!UpdateFails, Studio!Assign,
       Studio!Unassign, Studio!Delete, Studio!DeleteLands, Studio!DeleteFails, Studio!StartImport,
       Studio!ImportNext, Studio!OpenDialog, Studio!CloseDialog, Studio!StartSave, Studio!SaveRow,
       Studio!AddsDone, Studio!SaveDone, Studio!SaveFails, Studio!AddOption, Studio!SaveAdd,
       Studio!RemoveOption, Studio!SaveDrop, Studio!OpenValidation, Studio!ScanRead, Studio!ScanLand,
       Studio!Register, Studio!Registered, Studio!RegisterFails
  <2> QED BY <2>1 DEF StudioShapes
<1>12. import' \in Seq(Params)
  <2>1. \/ import' = import \/ import' = ImportFile
        \/ import # << >> /\ import' = Tail(import)
    BY DEF Studio!Next, Studio!vars, Studio!Visit, Studio!Ask, Studio!Read, Studio!Land,
       Studio!Rerender, Studio!Drag, Studio!UpdateLands, Studio!UpdateFails, Studio!Assign,
       Studio!Unassign, Studio!Delete, Studio!DeleteLands, Studio!DeleteFails, Studio!StartImport,
       Studio!ImportNext, Studio!OpenDialog, Studio!CloseDialog, Studio!StartSave, Studio!SaveRow,
       Studio!AddsDone, Studio!SaveDone, Studio!SaveFails, Studio!AddOption, Studio!SaveAdd,
       Studio!RemoveOption, Studio!SaveDrop, Studio!OpenValidation, Studio!ScanRead, Studio!ScanLand,
       Studio!Register, Studio!Registered, Studio!RegisterFails
  <2>2. import \in Seq(Params)
    BY DEF StudioShapes
  <2>3. import # << >> => Tail(import) \in Seq(Params)
    BY <2>2
  <2> QED BY <1>1, <2>1, <2>2, <2>3
<1>13. save'.adds \subseteq save'.added
  <2>1. /\ save \in Studio!SaveType /\ save.adds \subseteq save.added
    BY DEF Studio!SaveInv, StudioShapes
  <2>2. \/ save' = save \/ save' = Studio!NoSave
        \/ \E v : save' = [save EXCEPT !.step = v]
        \/ \E v : save' = [save EXCEPT !.adds = save.adds \ {v}]
        \/ \E v : save' = [save EXCEPT !.drops = save.drops \ {v}]
        \/ save' = [step |-> "row", adds |-> edit.added, drops |-> edit.removed,
                    added |-> edit.added, removed |-> edit.removed]
    BY DEF Studio!Next, Studio!vars, Studio!options, Studio!Visit, Studio!Ask, Studio!Read,
       Studio!Land, Studio!Rerender, Studio!Drag, Studio!UpdateLands, Studio!UpdateFails,
       Studio!Assign, Studio!Unassign, Studio!Delete, Studio!DeleteLands, Studio!DeleteFails,
       Studio!StartImport, Studio!ImportNext, Studio!OpenDialog, Studio!CloseDialog, Studio!StartSave,
       Studio!SaveRow, Studio!AddsDone, Studio!SaveDone, Studio!SaveFails, Studio!AddOption,
       Studio!SaveAdd, Studio!RemoveOption, Studio!SaveDrop, Studio!OpenValidation, Studio!ScanRead,
       Studio!ScanLand, Studio!Register, Studio!Registered, Studio!RegisterFails
  <2> QED BY <2>1, <2>2 DEF Studio!SaveType, Studio!NoSave
<1>14. offer' \in [just : SUBSET Params, busy : SUBSET Params] /\ creating' \subseteq Params
  <2>1. offer \in [just : SUBSET Params, busy : SUBSET Params] /\ creating \subseteq Params
    BY DEF StudioShapes
  <2>2. ASSUME NEW p \in Params, Studio!Register(p) PROVE <1>14!:
    <3>1. offer' = [offer EXCEPT !.busy = offer.busy \cup {p}] /\ creating' = creating \cup {p}
      BY <2>2 DEF Studio!Register
    <3> QED BY <2>1, <3>1
  <2>3. ASSUME NEW p \in creating, Studio!Registered(p) PROVE <1>14!:
    <3>1. /\ offer' = [just |-> IF p \in offer.busy THEN offer.just \cup {p} ELSE offer.just,
                       busy |-> offer.busy \ {p}]
          /\ creating' = creating \ {p}
      BY <2>3 DEF Studio!Registered
    <3> QED BY <2>1, <3>1
  <2>4. ASSUME NEW p \in creating, Studio!RegisterFails(p) PROVE <1>14!:
    <3>1. offer' = [offer EXCEPT !.busy = offer.busy \ {p}] /\ creating' = creating \ {p}
      BY <2>4 DEF Studio!RegisterFails
    <3> QED BY <2>1, <3>1
  <2>5. CASE offer' = [just |-> {}, busy |-> {}] /\ creating' = creating
    BY <2>1, <2>5
  <2>6. \/ offer' \in {offer, [just |-> {}, busy |-> {}]} /\ creating' = creating
        \/ \E p \in Params : Studio!Register(p)
        \/ \E p \in creating : Studio!Registered(p) \/ Studio!RegisterFails(p)
    BY DEF Studio!Next, Studio!vars, Studio!validation, Studio!Visit, Studio!Ask, Studio!Read,
       Studio!Land, Studio!Rerender, Studio!Drag, Studio!UpdateLands, Studio!UpdateFails,
       Studio!Assign, Studio!Unassign, Studio!Delete, Studio!DeleteLands, Studio!DeleteFails,
       Studio!StartImport, Studio!ImportNext, Studio!OpenDialog, Studio!CloseDialog, Studio!StartSave,
       Studio!SaveRow, Studio!AddsDone, Studio!SaveDone, Studio!SaveFails, Studio!AddOption,
       Studio!SaveAdd, Studio!RemoveOption, Studio!SaveDrop, Studio!OpenValidation, Studio!ScanRead,
       Studio!ScanLand
  <2> QED BY <2>1, <2>2, <2>3, <2>4, <2>5, <2>6
<1> QED BY <1>2, <1>3, <1>4, <1>5, <1>6, <1>7, <1>8, <1>9, <1>10, <1>11, <1>12, <1>13, <1>14
        DEF StudioShapes, Studio!Update, Studio!Ranks

\* The variables of the pages stay within their types.
THEOREM StudioTyped == Studio!Spec => []Studio!TypeOK
<1> USE StudioHypotheses
<1>1. Studio!Init => Studio!SaveInv /\ Studio!ScanInv /\ Studio!ListInv /\ StudioShapes
  <2> SUFFICES ASSUME Studio!Init
               PROVE  Studio!SaveInv /\ Studio!ScanInv /\ Studio!ListInv /\ StudioShapes
    OBVIOUS
  <2>1. Studio!SaveInv
    BY DEF Studio!Init, Studio!SaveInv, Studio!SaveType, Studio!EditType, Studio!NoEdit,
       Studio!NoSave, Studio!None, Studio!OptionIds, Studio!StudioConstants
  <2>2. Studio!ScanInv
    BY DEF Studio!Init, Studio!ScanInv, Studio!ScanType, Studio!None
  <2>3. Studio!ListInv
    BY DEF Studio!Init, Studio!ListInv, Studio!Asked, Studio!None
  <2>4. /\ screen = "list" /\ dialog = "none" /\ seen.known = FALSE /\ query.state = "asked"
        /\ stale = FALSE /\ missed = FALSE /\ sure = FALSE /\ updates = {} /\ gestures = 0
        /\ broken = {} /\ deleting = {} /\ import = << >> /\ save.adds = {} /\ creating = {}
        /\ offer = [just |-> {}, busy |-> {}]
    BY DEF Studio!Init, Studio!Asked, Studio!NoSave, Studio!None
  <2>5. 0 \in 0..MaxGestures /\ << >> \in Seq(Params)
    BY DEF Studio!StudioConstants
  <2> QED BY <2>1, <2>2, <2>3, <2>4, <2>5 DEF StudioShapes
<1>2. /\ Studio!OrderInv /\ Studio!OrderInv'
      /\ Studio!SaveInv /\ Studio!ScanInv /\ Studio!ListInv /\ StudioShapes /\ [Studio!Next]_Studio!vars
      => (Studio!SaveInv /\ Studio!ScanInv /\ Studio!ListInv /\ StudioShapes)'
  BY StudioSaveStep, StudioScanStep, StudioListStep, StudioShapesStep
<1>3. Studio!OrderInv /\ Studio!SaveInv /\ Studio!ScanInv /\ Studio!ListInv /\ StudioShapes => Studio!TypeOK
  <2> SUFFICES ASSUME Studio!OrderInv, Studio!SaveInv, Studio!ScanInv, Studio!ListInv, StudioShapes
               PROVE  Studio!TypeOK
    OBVIOUS
  <2>1. shown \in Seq(Params)
    <3> DEFINE H == Studio!Held(known)
    <3>1. shown \in [1..Studio!Cardinality(H) -> H] /\ H \subseteq Params
      BY DEF Studio!OrderInv, Studio!Enumerates, Studio!Held
    <3>2. IsFiniteSet(Params)
      BY StudioCardinality DEF Studio!StudioConstants
    <3>3. Studio!Cardinality(H) \in Nat
      <4> HIDE DEF H
      <4> QED BY <3>1, <3>2, FS_Subset, FS_CardinalityType, StudioCardinality
    <3> HIDE DEF H
    <3> QED BY <3>1, <3>3
  <2>2. /\ rank \in [Params -> Studio!Ranks] /\ known \in Studio!Listing
        /\ seen.rows \in Studio!Listing /\ query.read \in Studio!Listing
    BY DEF Studio!OrderInv
  <2>3. /\ opts \subseteq Studio!OptionIds /\ seen.opts \subseteq Studio!OptionIds
        /\ made \in 0..MaxCopies /\ edit \in Studio!EditType /\ save \in Studio!SaveType
        /\ save.drops \subseteq save.removed
    BY DEF Studio!SaveInv, Studio!StudioConstants
  <2>4. rows \in [Params -> {"absent", "active", "deleted"}] /\ scan \in Studio!ScanType
    BY DEF Studio!ScanInv
  <2>5. /\ scan.state \in {"none", "asked", "read"}
        /\ scan.unregistered \cup scan.read \cup scan.old \subseteq Params
    BY <2>4 DEF Studio!ScanType, Studio!None
  <2>6. save.step \in {"none", "row", "add", "drop"}
    BY <2>3 DEF Studio!SaveType, Studio!None
  <2>7. offer.just \cup offer.busy \cup creating \subseteq Params
    BY DEF StudioShapes
  <2> QED BY <2>1, <2>2, <2>3, <2>4, <2>5, <2>6, <2>7
          DEF StudioShapes, Studio!TypeOK, Studio!None, Studio!EditType
<1>4. Studio!Spec => []Studio!OrderInv
  BY StudioOrdered
<1> QED BY <1>1, <1>2, <1>3, <1>4, PTL DEF Studio!Spec
=============================================================================
