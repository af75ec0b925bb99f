-------------------------- MODULE AdminConsoleProofs --------------------------
(***************************************************************************)
(* Every page of the console implements Listing, keeps its shape and keeps *)
(* what the user typed and the key on screen, for any rows, any number of  *)
(* requests and any number of changes by others.                           *)
(***************************************************************************)
EXTENDS AdminConsole, TLAPS

Fetches(f) ==
    f \in [state : {None, "asked", "read"}, rows : {f.rows}, rev : Nat, all : BOOLEAN]

\* What the steps of Listing need: revisions are ordered, a list that was read
\* has what the page shows and what it was told of, and a list that lacks
\* something it was told of is marked.
ListInv ==
    /\ rev \in Nat
    /\ own \in Nat /\ own <= rev
    /\ seen.rev \in Nat /\ seen.rev <= rev
    /\ Fetches(fetch) /\ fetch.rev <= rev
    /\ fetch.state = "read" => fetch.rev >= seen.rev /\ fetch.rev >= own
    /\ ~stale => seen.rev >= own

\* A fetch just asked for, whichever page asks.
LEMMA AskedShape ==
    ASSUME NEW b \in BOOLEAN
    PROVE  LET f == [NoFetch EXCEPT !.state = "asked", !.all = b]
           IN  Fetches(f) /\ f.state = "asked" /\ f.rev = 0
<1> DEFINE f == [NoFetch EXCEPT !.state = "asked", !.all = b]
<1>1. NoFetch \in [state : {None}, rows : {NoRows}, rev : {0}, all : BOOLEAN]
  BY DEF NoFetch
<1>2. f \in [state : {"asked"}, rows : {NoRows}, rev : {0}, all : BOOLEAN]
  BY <1>1
<1> HIDE DEF f
<1>3. Fetches(f) /\ f.state = "asked" /\ f.rev = 0
  BY <1>2 DEF Fetches
<1> QED BY <1>3 DEF f

LEMMA FetchShapes ==
    /\ Fetches(NoFetch) /\ NoFetch.state = None /\ NoFetch.rev = 0
    /\ Fetches(Asked) /\ Asked.state = "asked" /\ Asked.rev = 0
<1>1. Fetches(NoFetch) /\ NoFetch.state = None /\ NoFetch.rev = 0
  BY DEF Fetches, NoFetch
<1>2. Fetches(Asked) /\ Asked.state = "asked" /\ Asked.rev = 0
  BY AskedShape DEF Asked
<1> QED BY <1>1, <1>2

LEMMA InitList == Init => ListInv /\ Lists!Init
<1> SUFFICES ASSUME Init PROVE ListInv /\ Lists!Init
  OBVIOUS
<1>1. rev = 0 /\ own = 0 /\ stale = FALSE /\ fetch = NoFetch
  BY DEF Init
<1>a. seen = [known |-> FALSE, rows |-> NoRows, rev |-> 0, all |-> FALSE]
  BY DEF Init
<1>b. seen.rev = 0
  BY <1>a
<1>2. ListInv
  BY <1>1, <1>b, FetchShapes DEF ListInv, None
<1>3. (stale \/ fetch.state # None) = FALSE
  BY <1>1, FetchShapes
<1> QED BY <1>1, <1>b, <1>2, <1>3 DEF Lists!Init

\* What every step of the console does to the list: a step of Listing that
\* keeps ListInv.
Kept == ListInv' /\ [Lists!Next]_(Lists!vars)

LEMMA Quiet == ListInv /\ UNCHANGED listing => Kept
  BY DEF Kept, ListInv, Fetches, listing, Lists!vars

LEMMA InvalidateKeeps ==
    ASSUME ListInv, Invalidate, own' \in {own, rev},
           own' = own \/ fetch.state = None \/ (Active /\ seen.known)
    PROVE  Kept
<1>1. UNCHANGED <<rev, seen>> /\ stale' = TRUE
  BY DEF Invalidate
<1>2. fetch' = fetch \/ fetch' = Asked
  BY DEF Invalidate
<1>3. own' = rev /\ own' # own => fetch'.state # "read"
  BY <1>2, FetchShapes DEF Invalidate, None
<1>4. ListInv'
  BY <1>1, <1>2, <1>3, FetchShapes DEF ListInv
<1>5. Lists!Acknowledge \/ Lists!Start
  BY <1>1 DEF Lists!Acknowledge, Lists!Start
<1> QED BY <1>4, <1>5 DEF Kept, Lists!Next

\* An answer: the list is invalidated, or left alone when nothing is owed.
Report(c) ==
    /\ own' = IF Owed(c) THEN rev ELSE own
    /\ Invalidate \/ (Unlisted /\ ~Owed(c))

LEMMA ReportKeeps ==
    ASSUME ListInv, NEW c, Report(c)
    PROVE  Kept
<1>1. CASE Invalidate
  <2>1. own' \in {own, rev}
    BY DEF Report
  <2>2. own' = own \/ fetch.state = None \/ (Active /\ seen.known)
    BY DEF Report, Owed
  <2> QED BY <1>1, <2>1, <2>2, InvalidateKeeps
<1>2. CASE Unlisted /\ ~Owed(c)
  BY <1>2, Quiet DEF Report, Unlisted, listing
<1> QED BY <1>1, <1>2 DEF Report

\* Which answers invalidate.
LEMMA PlainAnswers ==
    ASSUME NEW c
    PROVE  /\ \A f : FormAnswered(c, f) => Report(c)
           /\ EditorAnswered(c) => Report(c)
           /\ \A k : ListAnswered(c, k) => Report(c)
           /\ AskAnswered(c) => Report(c)
           /\ \A k : PadAnswered(c, k) => Report(c)
  BY DEF FormAnswered, EditorAnswered, ListAnswered, AskAnswered, PadAnswered, Answered, Report

LEMMA SucceedsReports ==
    ASSUME NEW c, Succeeds(c)
    PROVE  Report(c)
<1>1. CASE FilterCreated(c) \/ FilterUpdated(c)
  BY <1>1, PlainAnswers DEF FilterCreated, FilterUpdated
<1>2. CASE FilterDeleted(c)
  BY <1>2 DEF FilterDeleted, Answered, Report, Owed
<1>3. CASE ObjectAnswers(c) \/ MacroAnswers(c)
  BY <1>3, PlainAnswers DEF ObjectAnswers, MacroAnswers
<1>4. CASE TemplateCreated(c) \/ TemplateImported(c)
  BY <1>4 DEF TemplateCreated, TemplateImported, Answered, Report
<1>5. CASE FlagToggled(c) \/ TemplateDeleted(c) \/ ProjectCreated(c)
  BY <1>5, PlainAnswers DEF FlagToggled, TemplateDeleted, ProjectCreated
<1>6. CASE PadSaved(c) \/ PadDeleted(c)
  BY <1>6, PlainAnswers DEF PadSaved, PadDeleted
<1>7. CASE KeyCreated(c)
  <2>1. Received(c) => Invalidate
    BY <1>7 DEF KeyCreated
  <2>2. ~Received(c) => Unlisted /\ ~Owed(c)
    BY <1>7 DEF KeyCreated, Answered, Received, Owed
  <2> QED BY <1>7, <2>1, <2>2 DEF KeyCreated, Answered, Report
<1>8. CASE KeyRevoked(c) \/ UserCreated(c) \/ UsersChanged(c)
  BY <1>8, PlainAnswers DEF KeyRevoked, UserCreated, UsersChanged
<1>9. CASE MemberAdded(c) \/ MembersChanged(c)
  BY <1>9 DEF MemberAdded, MembersChanged, ForThisProject, Answered, Report, Owed
<1>10. CASE WebhookAnswers(c) \/ SecretCreated(c)
  BY <1>10, PlainAnswers DEF WebhookAnswers, SecretCreated
<1> QED BY <1>1, <1>2, <1>3, <1>4, <1>5, <1>6, <1>7, <1>8, <1>9, <1>10 DEF Succeeds

\* A gesture changes what is on screen and sends requests; the list waits.
LEMMA SharedGestures ==
    /\ \A f : Forms(f) => Quietly
    /\ \A k, r : SubmitForm(k, r) => Quietly
    /\ \A k, r, t : SendFromList(k, r, t) => Quietly
    /\ \A r : AskAbout(r) => Quietly
    /\ \A r : ToggleEditor(r) => Quietly
    /\ SaveEditor => Quietly
  BY DEF Forms, SubmitForm, SendFromList, AskAbout, ToggleEditor, SaveEditor, Quietly

LEMMA TabGestures ==
    /\ ToggleTabForm => Quietly
    /\ SubmitTabForm => Quietly
    /\ \A r : DeleteFromTab(r) => Quietly
  BY SharedGestures DEF ToggleTabForm, SubmitTabForm, DeleteFromTab

LEMMA GestureQuiet == Gesture => Quietly
<1>1. ToggleFilterForm \/ SubmitFilter \/ EditFilters \/ (\E r \in Rows : DeleteFilter(r)) => Quietly
  BY SharedGestures, TabGestures DEF ToggleFilterForm, SubmitFilter, EditFilters, DeleteFilter
<1>2. ToggleObjectForm \/ SubmitObject \/ EditObjects \/ ToggleMacroForm \/ SubmitMacro \/ EditMacros
        => Quietly
  BY SharedGestures, TabGestures DEF ToggleObjectForm, SubmitObject, EditObjects, ToggleMacroForm, SubmitMacro, EditMacros
<1>3. Search \/ ToggleTemplateForm \/ ToggleImport \/ PickFile \/ SubmitTemplate \/ ImportTemplate
        => Quietly
  BY SharedGestures DEF Search, ToggleTemplateForm, ToggleImport, PickFile, SubmitTemplate, ImportTemplate, Quietly
<1>4. (\E r \in Rows : ToggleFlag(r) \/ AskDeleteTemplate(r)) \/ CancelDeleteTemplate \/ DeleteTemplate
        => Quietly
  BY SharedGestures DEF ToggleFlag, AskDeleteTemplate, CancelDeleteTemplate, DeleteTemplate
<1>5. CreateProject \/ EditProject \/ DeleteProject => Quietly
  BY SharedGestures DEF CreateProject, EditProject, DeleteProject
<1>6. NewPad \/ RevertPad \/ SubmitPad \/ AskDeletePad \/ DeletePad \/ (\E r \in Rows : SelectPad(r))
        => Quietly
  BY SharedGestures DEF NewPad, RevertPad, SubmitPad, AskDeletePad, DeletePad, SelectPad, Quietly
<1>7. OpenKeyDialog \/ CloseKeyDialog \/ SubmitKey \/ CloseReveal \/ CancelRevoke \/ RevokeKey
        \/ (\E r \in Rows : AskRevoke(r)) => Quietly
  BY SharedGestures DEF OpenKeyDialog, CloseKeyDialog, SubmitKey, CloseReveal, CancelRevoke, RevokeKey, AskRevoke, Quietly
<1>8. ToggleUserForm \/ SubmitUser \/ (\E r \in Rows : DuplicateUser(r) \/ ChangeUsers(r))
        \/ (\E r \in Rows : AddMember(r) \/ ChangeMembers(r)) => Quietly
  BY SharedGestures DEF ToggleUserForm, SubmitUser, DuplicateUser, ChangeUsers, AddMember, ChangeMembers
<1>9. ToggleWebhookForm \/ SubmitWebhook \/ EditWebhooks => Quietly
  BY SharedGestures, TabGestures DEF ToggleWebhookForm, SubmitWebhook, EditWebhooks, Quietly
<1>10. ToggleSecretForm \/ SubmitSecret \/ (\E r \in Rows : DeleteSecret(r)) => Quietly
  BY SharedGestures, TabGestures DEF ToggleSecretForm, SubmitSecret, DeleteSecret
<1>11. (\E t \in Texts : TypeForm(t) \/ TypeEditor(t) \/ TypePad(t)) => Quietly
  BY DEF TypeForm, TypeEditor, TypePad, Quietly
<1> QED BY <1>1, <1>2, <1>3, <1>4, <1>5, <1>6, <1>7, <1>8, <1>9, <1>10, <1>11 DEF Gesture

\* The console's own queries, and changes on the server.
LEMMA QueryKeeps ==
    ASSUME ListInv, Ask \/ Read \/ Land \/ FetchFails
    PROVE  Kept
<1>1. CASE Ask
  <2>1. UNCHANGED <<rev, seen, stale, own>> /\ fetch' = Asked
    BY <1>1 DEF Ask
  <2>2. ListInv'
    BY <2>1, FetchShapes DEF ListInv
  <2>3. Lists!Start
    BY <2>1, FetchShapes DEF Lists!Start, None
  <2> QED BY <2>2, <2>3 DEF Kept, Lists!Next
<1>2. CASE Read
  <2>1. /\ UNCHANGED <<rev, seen, stale, own>> /\ fetch.state = "asked"
        /\ fetch' = [fetch EXCEPT !.state = "read", !.rows = rows, !.rev = rev]
    BY <1>2 DEF Read
  <2>2. fetch' \in [state : {"read"}, rows : {rows}, rev : {rev}, all : BOOLEAN]
    BY <2>1 DEF ListInv, Fetches
  <2>3. Fetches(fetch)' /\ fetch'.state = "read" /\ fetch'.rev = rev
    BY <2>2 DEF ListInv, Fetches
  <2>4. ListInv'
    BY <2>1, <2>3 DEF ListInv
  <2>5. UNCHANGED Lists!vars
    BY <2>1, <2>3 DEF Lists!vars, None
  <2> QED BY <2>4, <2>5 DEF Kept
<1>3. CASE Land
  <2>1. /\ UNCHANGED <<rev, own>> /\ fetch.state = "read" /\ fetch' = NoFetch /\ stale' = FALSE
        /\ seen' = [known |-> TRUE, rows |-> fetch.rows, rev |-> fetch.rev, all |-> fetch.all]
    BY <1>3 DEF Land
  <2>2. seen'.rev = fetch.rev
    BY <2>1
  <2>3. fetch.rev \in Nat /\ fetch.rev <= rev /\ fetch.rev >= seen.rev /\ fetch.rev >= own
    BY <2>1 DEF ListInv, Fetches
  <2>4. ListInv'
    BY <2>1, <2>2, <2>3, FetchShapes DEF ListInv, None
  <2>5. (stale \/ fetch.state # None) /\ (stale' \/ fetch'.state # None) = FALSE
    BY <2>1, FetchShapes DEF None
  <2>6. seen'.rev \in seen.rev..rev
    BY <2>2, <2>3 DEF ListInv
  <2>7. Lists!Refresh
    BY <2>1, <2>2, <2>3, <2>5, <2>6 DEF Lists!Refresh
  <2> QED BY <2>4, <2>7 DEF Kept, Lists!Next
<1>4. CASE FetchFails
  <2>1. UNCHANGED <<rev, seen, stale, own>> /\ fetch.state = "asked" /\ fetch' = NoFetch
    BY <1>4 DEF FetchFails
  <2>2. ListInv'
    BY <2>1, FetchShapes DEF ListInv, None
  <2>3. (stale \/ fetch.state # None) = TRUE /\ (stale' \/ fetch'.state # None) = (stale \/ FALSE)
    BY <2>1, FetchShapes DEF None
  <2>4. CASE stale
    <3>1. UNCHANGED Lists!vars
      BY <2>1, <2>3, <2>4 DEF Lists!vars
    <3> QED BY <2>2, <3>1 DEF Kept
  <2>5. CASE ~stale
    <3>1. Lists!GiveUp
      BY <2>1, <2>3, <2>5 DEF Lists!GiveUp, ListInv
    <3> QED BY <2>2, <3>1 DEF Kept, Lists!Next
  <2> QED BY <2>4, <2>5
<1> QED BY <1>1, <1>2, <1>3, <1>4

LEMMA ChangeKeeps ==
    ASSUME ListInv, rev' = rev + 1, UNCHANGED <<seen, fetch, stale, own>>
    PROVE  Kept
<1>1. ListInv'
  BY DEF ListInv, Fetches
<1>2. Lists!Change
  BY DEF Lists!Change
<1> QED BY <1>1, <1>2 DEF Kept, Lists!Next

LEMMA ObservedKeeps ==
    ASSUME ListInv, NEW v, Observed(v), UNCHANGED <<rev, seen, stale, own>>
    PROVE  Kept
<1> DEFINE asked == [NoFetch EXCEPT !.state = "asked", !.all = (v = "projects")]
<1>1. fetch' = fetch \/ fetch' = asked
  BY DEF Observed
<1>2. CASE fetch' = fetch
  BY <1>2, Quiet DEF listing
<1>3. CASE fetch' = asked
  <2>1. Fetches(asked) /\ asked.state = "asked" /\ asked.rev = 0
    BY AskedShape
  <2> HIDE DEF asked
  <2>2. ListInv'
    BY <1>3, <2>1 DEF ListInv
  <2>3. Lists!Start
    BY <1>3, <2>1 DEF Lists!Start, None
  <2> QED BY <2>2, <2>3 DEF Kept, Lists!Next
<1> QED BY <1>1, <1>2, <1>3

LEMMA NextKeeps ==
    ASSUME ListInv, [Next]_vars
    PROVE  Kept
<1>1. CASE Ask \/ Read \/ Land \/ FetchFails
  BY <1>1, QueryKeeps
<1>2. CASE SelectProject
  <2>1. PICK v : Observed(v) /\ UNCHANGED <<rev, seen, stale, own>>
    BY <1>2 DEF SelectProject
  <2> QED BY <2>1, ObservedKeeps
<1>3. ASSUME NEW v \in {"page", "away", "projects", "other"}, Navigate(v)
      PROVE  Kept
  BY <1>3, ObservedKeeps DEF Navigate
<1>4. CASE Gesture
  BY <1>4, GestureQuiet, Quiet DEF Quietly
<1>5. ASSUME NEW c \in calls, Succeeds(c)
      PROVE  Kept
  BY <1>5, SucceedsReports, ReportKeeps
<1>6. ASSUME NEW c \in calls, CallFails(c) \/ ProjectApplied(c)
      PROVE  Kept
  BY <1>6, Quiet DEF CallFails, ProjectApplied
<1>7. ASSUME NEW c \in calls, NEW r \in Rows, Applied(c, r)
      PROVE  Kept
  BY <1>7, ChangeKeeps DEF Applied, Change
<1>8. ASSUME NEW r \in Rows, NEW t \in {0, 2}, Elsewhere(r, t)
      PROVE  Kept
  BY <1>8, ChangeKeeps DEF Elsewhere, Change
<1>9. CASE UNCHANGED vars
  BY <1>9, Quiet DEF vars
<1> QED BY <1>1, <1>2, <1>3, <1>4, <1>5, <1>6, <1>7, <1>8, <1>9 DEF Next

\* Whatever is fetched, cancelled, joined or lost, the list of every page keeps
\* the contract of Listing: it never goes back, and rests only with every
\* change it was told of and owes.
THEOREM ListsRefine == Spec => ListingKept
<1>1. Init => ListInv /\ Lists!Init
  BY InitList
<1>2. ListInv /\ [Next]_vars => ListInv' /\ [Lists!Next]_(Lists!vars)
  BY NextKeeps DEF Kept
<1> QED BY <1>1, <1>2, PTL DEF Spec, ListingKept, Lists!Spec

-----------------------------------------------------------------------------
(* What is on screen, and the requests it sent *)

ScreenTypes ==
    /\ search \in BOOLEAN
    /\ form \in NewRow /\ editor \in Editor /\ mine \in [form : 0..2, edit : 0..2]
    /\ ask \in Rows \cup {None} /\ reveal \in Rows \cup {None}

CallTypes == calls \subseteq Call /\ gestures \in 0..MaxGestures[area]

Awaited(c, k) == c.kind = k /\ c.at = "form"

\* An answer that closes a form or an editor answers what was sent from it, and
\* text the user counts on was typed with no such answer to come; on Quickpads
\* any answer counts.
EditInv ==
    /\ mine.edit # 0 => editor.row # None /\ editor.text = mine.edit
    /\ mine.form # 0 => form.kind = "create" /\ form.text = mine.form
    /\ area # "pads" => \A c \in calls : /\ Awaited(c, "create") => mine.form = 0
                                         /\ Awaited(c, "update") => mine.edit = 0
    /\ area = "pads" => \A c \in calls : c.at # "gone" => mine.form = 0 /\ mine.edit = 0
    /\ editor.row # None => area \in Tabs \cup {"webhooks", "pads"}

\* A key is awaited only by the dialog that asked for it, which asks once and
\* is not open beside a key on screen.
KeyInv ==
    /\ reveal # None => area = "keys" /\ form.kind = None
    /\ area = "keys" => \A c, d \in calls : /\ Awaited(c, "create") => form.kind = "create"
                                            /\ Awaited(c, "create") /\ Awaited(d, "create") => c = d

ScreenInv == area \in Areas /\ ScreenTypes /\ CallTypes /\ EditInv /\ KeyInv

LEMMA InitScreen == Init => ScreenInv
<1> SUFFICES ASSUME Init PROVE ScreenInv
  OBVIOUS
<1>1. NoForm \in NewRow /\ NoEditor \in Editor /\ Nothing \in [form : 0..2, edit : 0..2]
  BY DEF NoForm, NoEditor, Nothing, NewRow, Editor
<1>2. form.kind = None /\ editor.row = None /\ mine.form = 0 /\ mine.edit = 0
  BY DEF Init, NoForm, NoEditor, Nothing
<1>3. area \in Areas /\ search \in BOOLEAN /\ calls = {} /\ reveal = None /\ ask = None /\ gestures = 0
  BY DEF Init
<1>4. gestures \in 0..MaxGestures[area]
  BY <1>3, BoundsAssumption
<1>5. ScreenTypes
  BY <1>1, <1>3 DEF Init, ScreenTypes
<1>6. EditInv /\ KeyInv
  BY <1>2, <1>3 DEF EditInv, KeyInv
<1> QED BY <1>3, <1>4, <1>5, <1>6 DEF ScreenInv, CallTypes

\* The gestures many pages share.
LEMMA FormsKeep ==
    ASSUME ScreenInv, NEW f \in NewRow, Forms(f),
           area = "keys" => f.kind = "create" /\ reveal = None
    PROVE  ScreenInv'
<1>1. /\ UNCHANGED <<area, search, editor, ask, reveal, calls, gestures>> /\ form' = f
      /\ mine' = [mine EXCEPT !.form = 0]
  BY DEF Forms, Quietly
<1>2. mine' \in [form : 0..2, edit : 0..2] /\ mine'.form = 0 /\ mine'.edit = mine.edit
  BY <1>1 DEF ScreenInv, ScreenTypes
<1>3. ScreenTypes' /\ CallTypes'
  BY <1>1, <1>2 DEF ScreenInv, ScreenTypes, CallTypes
<1>4. EditInv'
  BY <1>1, <1>2 DEF ScreenInv, EditInv, Awaited
<1>5. KeyInv'
  BY <1>1 DEF ScreenInv, KeyInv, Awaited
<1> QED BY <1>1, <1>3, <1>4, <1>5 DEF ScreenInv

LEMMA AskKeeps ==
    ASSUME ScreenInv, NEW r \in Rows \cup {None}, AskAbout(r)
    PROVE  ScreenInv'
<1>1. UNCHANGED <<area, search, form, editor, mine, reveal, calls, gestures>> /\ ask' = r
  BY DEF AskAbout, Quietly
<1> QED BY <1>1 DEF ScreenInv, ScreenTypes, CallTypes, EditInv, KeyInv, Awaited

\* A request sent, whatever becomes of the text.
LEMMA Sent ==
    ASSUME ScreenInv, NEW k \in Kinds, NEW r \in Rows \cup {None}, NEW t \in 0..2, Send(k, r, t), area' = area
    PROVE  /\ CallTypes'
           /\ \E n \in Call : calls' = calls \cup {n} /\ n.kind = k /\ n.at = "form"
<1> DEFINE n == [kind |-> k, row |-> r, text |-> t, done |-> FALSE, at |-> "form"]
<1>1. n \in Call /\ n.kind = k /\ n.at = "form"
  BY DEF Call
<1>2. calls' = calls \cup {n}
  BY DEF Send
<1>3. gestures' \in 0..MaxGestures[area]
  BY BoundsAssumption DEF Send, ScreenInv, CallTypes
<1> HIDE DEF n
<1> QED BY <1>1, <1>2, <1>3 DEF ScreenInv, CallTypes

LEMMA SubmitKeeps ==
    ASSUME ScreenInv, NEW k \in {"create", "upload"}, NEW r \in Rows \cup {None}, SubmitForm(k, r),
           area # "pads", area = "keys" => form.kind = "create"
    PROVE  ScreenInv'
<1>1. /\ UNCHANGED <<area, search, form, editor, ask, reveal>> /\ ~Pending(k)
      /\ Send(k, r, form.text) /\ mine' = [mine EXCEPT !.form = 0]
  BY DEF SubmitForm, Quietly
<1>2. mine' \in [form : 0..2, edit : 0..2] /\ mine'.form = 0 /\ mine'.edit = mine.edit
  BY <1>1 DEF ScreenInv, ScreenTypes
<1>3. form.text \in 0..2
  BY DEF ScreenInv, ScreenTypes, NewRow
<1>4. k \in Kinds
  BY DEF Kinds
<1>5. CallTypes' /\ \E n \in Call : calls' = calls \cup {n} /\ n.kind = k /\ n.at = "form"
  BY <1>1, <1>3, <1>4, Sent
<1>6. ScreenTypes'
  BY <1>1, <1>2 DEF ScreenInv, ScreenTypes
<1>7. EditInv'
  BY <1>1, <1>2, <1>5 DEF ScreenInv, EditInv, Awaited
<1>8. KeyInv'
  BY <1>1, <1>5 DEF ScreenInv, KeyInv, Awaited, Pending
<1> QED BY <1>1, <1>5, <1>6, <1>7, <1>8 DEF ScreenInv

LEMMA SendKeeps ==
    ASSUME ScreenInv, NEW k \in Kinds \ {"create"}, NEW r \in Rows \cup {None}, NEW t \in 0..2,
           SendFromList(k, r, t), area # "pads", k = "update" => editor.row = None
    PROVE  ScreenInv'
<1>1. UNCHANGED <<area, search, form, editor, ask, reveal, mine>> /\ Send(k, r, t)
  BY DEF SendFromList, screen, Quietly
<1>2. CallTypes' /\ \E n \in Call : calls' = calls \cup {n} /\ n.kind = k /\ n.at = "form"
  BY <1>1, Sent
<1>3. EditInv'
  BY <1>1, <1>2 DEF ScreenInv, EditInv, Awaited
<1>4. KeyInv'
  BY <1>1, <1>2 DEF ScreenInv, KeyInv, Awaited
<1> QED BY <1>1, <1>2, <1>3, <1>4 DEF ScreenInv, ScreenTypes

LEMMA EditorKeeps ==
    ASSUME ScreenInv, seen \in Seen, area \in Tabs \cup {"webhooks"},
           SaveEditor \/ \E r \in Rows : ToggleEditor(r)
    PROVE  ScreenInv'
<1>1. CASE SaveEditor
  <2>1. /\ UNCHANGED <<area, search, form, editor, ask, reveal>>
        /\ Send("update", editor.row, editor.text) /\ mine' = [mine EXCEPT !.edit = 0]
    BY <1>1 DEF SaveEditor, Quietly
  <2>2. mine' \in [form : 0..2, edit : 0..2] /\ mine'.edit = 0 /\ mine'.form = mine.form
    BY <2>1 DEF ScreenInv, ScreenTypes
  <2>3. editor.row \in Rows \cup {None} /\ editor.text \in 0..2 /\ "update" \in Kinds
    BY DEF ScreenInv, ScreenTypes, Editor, Kinds
  <2>4. CallTypes' /\ \E n \in Call : calls' = calls \cup {n} /\ n.kind = "update" /\ n.at = "form"
    BY <2>1, <2>3, Sent
  <2>5. ScreenTypes'
    BY <2>1, <2>2 DEF ScreenInv, ScreenTypes
  <2>6. EditInv'
    BY <2>1, <2>2, <2>4 DEF ScreenInv, EditInv, Awaited, Tabs
  <2>7. KeyInv'
    BY <2>1, <2>4 DEF ScreenInv, KeyInv, Awaited
  <2> QED BY <2>1, <2>4, <2>5, <2>6, <2>7 DEF ScreenInv
<1>2. ASSUME NEW r \in Rows, ToggleEditor(r) PROVE ScreenInv'
  <2>1. /\ UNCHANGED <<area, search, form, ask, reveal, calls, gestures>>
        /\ mine' = [mine EXCEPT !.edit = 0]
        /\ editor' \in {NoEditor, [NoEditor EXCEPT !.row = r, !.text = seen.rows[r]]}
    BY <1>2 DEF ToggleEditor, Quietly
  <2>2. mine' \in [form : 0..2, edit : 0..2] /\ mine'.edit = 0 /\ mine'.form = mine.form
    BY <2>1 DEF ScreenInv, ScreenTypes
  <2>3. seen.rows[r] \in 0..2
    BY DEF Seen, Contents
  <2>4. NoEditor \in Editor
    BY DEF NoEditor, Editor
  <2>a. [NoEditor EXCEPT !.row = r, !.text = seen.rows[r]] \in Editor
    BY <2>3, <2>4 DEF Editor
  <2>5. ScreenTypes' /\ CallTypes'
    BY <2>1, <2>2, <2>4, <2>a DEF ScreenInv, ScreenTypes, CallTypes
  <2>6. EditInv'
    BY <2>1, <2>2 DEF ScreenInv, EditInv, Awaited
  <2>7. KeyInv'
    BY <2>1 DEF ScreenInv, KeyInv, Awaited
  <2> QED BY <2>1, <2>5, <2>6, <2>7 DEF ScreenInv
<1> QED BY <1>1, <1>2

\* Requests that were answered, or whose component went away.
Aged(cs) ==
    \A d \in cs : /\ d \in Call
                  /\ \E c \in calls : c.at = "gone" => d.at = "gone"
                  /\ d.at = "form" => d \in calls

LEMMA AgedSets ==
    ASSUME ScreenInv, NEW cs \in SUBSET calls
    PROVE  Aged(cs) /\ Aged(Behind(cs)) /\ Aged(Unmounted(cs, "gone"))
<1>1. \A c \in calls : c \in Call
  BY DEF ScreenInv, CallTypes
<1>2. Aged(cs)
  BY <1>1 DEF Aged
<1>3. ASSUME NEW c \in calls, NEW a \in {"form", "page", "gone"}
      PROVE  [c EXCEPT !.at = a] \in Call /\ [c EXCEPT !.at = a].at = a
  BY <1>1 DEF Call
<1>4. Aged(Unmounted(cs, "gone"))
  <2>1. Unmounted(cs, "gone") = {[c EXCEPT !.at = "gone"] : c \in cs}
    BY DEF Unmounted
  <2>2. ASSUME NEW d \in Unmounted(cs, "gone") PROVE d \in Call /\ d.at = "gone" /\ calls # {}
    <3>1. PICK c \in cs : d = [c EXCEPT !.at = "gone"]
      BY <2>1
    <3> QED BY <1>3, <3>1
  <2> QED BY <2>2 DEF Aged
<1>5. Aged(Behind(cs))
  <2>1. ASSUME NEW d \in Behind(cs)
        PROVE  d \in Call /\ d.at # "form" /\ \E c \in calls : c.at = "gone" => d.at = "gone"
    <3>1. PICK c \in cs : d = [c EXCEPT !.at = IF c.at = "form" THEN "page" ELSE c.at]
      BY DEF Behind
    <3>2. c \in calls /\ c.at \in {"form", "page", "gone"}
      BY <1>1 DEF Call
    <3> DEFINE a == IF c.at = "form" THEN "page" ELSE c.at
    <3>3. a \in {"form", "page", "gone"} /\ a # "form" /\ (c.at = "gone" => a = "gone")
      BY <3>2
    <3>4. d = [c EXCEPT !.at = a]
      BY <3>1
    <3> HIDE DEF a
    <3>5. d \in Call /\ d.at = a
      BY <1>3, <3>2, <3>3, <3>4
    <3> QED BY <3>2, <3>3, <3>5
  <2> QED BY <2>1 DEF Aged
<1> QED BY <1>2, <1>4, <1>5

\* A change of form, editor and marks that gives up what it takes away.
Harmless ==
    /\ form' \in NewRow /\ editor' \in Editor /\ mine' \in [form : 0..2, edit : 0..2]
    /\ ask' \in Rows \cup {None} /\ search' \in BOOLEAN
    /\ mine'.edit # 0 => mine'.edit = mine.edit /\ editor' = editor
    /\ mine'.form # 0 => mine'.form = mine.form /\ form' = form
    /\ editor'.row # None => editor' = editor \/ area \in Tabs \cup {"webhooks", "pads"}

\* Outside the keys' page no key is on screen.
LEMMA HarmlessKeeps ==
    ASSUME ScreenInv, Harmless, Aged(calls'), UNCHANGED <<area, gestures>>,
           reveal' \in {reveal, None}, area = "keys" => form' = form
    PROVE  ScreenInv'
<1>1. CallTypes'
  BY DEF ScreenInv, CallTypes, Aged
<1>2. reveal' \in Rows \cup {None}
  BY DEF ScreenInv, ScreenTypes
<1>3. ScreenTypes'
  BY <1>2 DEF Harmless, ScreenTypes
<1>4. EditInv'
  BY DEF ScreenInv, EditInv, Harmless, Aged, Awaited
<1>5. KeyInv'
  BY DEF ScreenInv, KeyInv, Aged, Awaited
<1> QED BY <1>1, <1>3, <1>4, <1>5 DEF ScreenInv

LEMMA Records ==
    ASSUME ScreenInv
    PROVE  /\ NoForm \in NewRow /\ NoForm.kind = None
           /\ PageForm \in NewRow /\ PageForm.text = 0
           /\ NoEditor \in Editor /\ NoEditor.row = None
           /\ Nothing \in [form : 0..2, edit : 0..2] /\ Nothing.form = 0 /\ Nothing.edit = 0
           /\ [NoForm EXCEPT !.kind = "create"] \in NewRow
           /\ [NoForm EXCEPT !.kind = IF form.kind = None THEN "create" ELSE None] \in NewRow
           /\ \A t \in 0..2 : [form EXCEPT !.text = t] \in NewRow /\ [form EXCEPT !.text = t].kind = form.kind
                                /\ [form EXCEPT !.text = t].text = t
           /\ \A t \in 0..2 : [editor EXCEPT !.text = t] \in Editor /\ [editor EXCEPT !.text = t].row = editor.row
                                /\ [editor EXCEPT !.text = t].text = t
           /\ \A t \in 0..2 : LET m == [mine EXCEPT !.form = t]
                              IN  m \in [form : 0..2, edit : 0..2] /\ m.form = t /\ m.edit = mine.edit
           /\ \A t \in 0..2 : LET m == [mine EXCEPT !.edit = t]
                              IN  m \in [form : 0..2, edit : 0..2] /\ m.edit = t /\ m.form = mine.form
<1>1. NoForm \in NewRow /\ NoForm.kind = None
  BY DEF NoForm, NewRow
<1>2. NoForm.text = 0
  BY DEF NoForm
<1>3. PageForm \in NewRow /\ PageForm.text = 0
  BY <1>1, <1>2 DEF PageForm, NewRow
<1>4. NoEditor \in Editor /\ NoEditor.row = None
  BY DEF NoEditor, Editor
<1>5. Nothing \in [form : 0..2, edit : 0..2] /\ Nothing.form = 0 /\ Nothing.edit = 0
  BY DEF Nothing
<1>6. /\ [NoForm EXCEPT !.kind = "create"] \in NewRow
      /\ [NoForm EXCEPT !.kind = IF form.kind = None THEN "create" ELSE None] \in NewRow
  BY <1>1 DEF NewRow
<1>7. \A t \in 0..2 : [form EXCEPT !.text = t] \in NewRow /\ [form EXCEPT !.text = t].kind = form.kind
                       /\ [form EXCEPT !.text = t].text = t
  BY DEF ScreenInv, ScreenTypes, NewRow
<1>8. \A t \in 0..2 : [editor EXCEPT !.text = t] \in Editor /\ [editor EXCEPT !.text = t].row = editor.row
                       /\ [editor EXCEPT !.text = t].text = t
  BY DEF ScreenInv, ScreenTypes, Editor
<1>9. \A t \in 0..2 : LET m == [mine EXCEPT !.form = t]
                      IN  m \in [form : 0..2, edit : 0..2] /\ m.form = t /\ m.edit = mine.edit
  BY DEF ScreenInv, ScreenTypes
<1>10. \A t \in 0..2 : LET m == [mine EXCEPT !.edit = t]
                       IN  m \in [form : 0..2, edit : 0..2] /\ m.edit = t /\ m.form = mine.form
  BY DEF ScreenInv, ScreenTypes
<1> QED BY <1>1, <1>3, <1>4, <1>5, <1>6, <1>7, <1>8, <1>9, <1>10

LEMMA SameCalls == ScreenInv => Aged(calls)
  BY AgedSets

\* Typing, in the forms, the inline editors and the panel.
LEMMA TypingKeeps ==
    ASSUME ScreenInv, NEW t \in Texts, TypeForm(t) \/ TypeEditor(t) \/ TypePad(t)
    PROVE  ScreenInv'
<1>1. t \in 0..2 /\ t # 0 /\ 0 \in 0..2
  BY DEF Texts
<1>2. ASSUME UNCHANGED <<area, search, editor, ask, reveal, calls, gestures>>,
             form.kind = "create", form' = [form EXCEPT !.text = t],
             \/ mine' = [mine EXCEPT !.form = 0]
             \/ mine' = [mine EXCEPT !.form = t] /\ ~(area = "pads" /\ Told) /\ ~(area # "pads" /\ Pending("create"))
      PROVE  ScreenInv'
  <2>1. form' \in NewRow /\ form'.kind = "create" /\ form'.text = t
    BY <1>1, <1>2, Records
  <2>2. mine' \in [form : 0..2, edit : 0..2] /\ mine'.edit = mine.edit /\ mine'.form \in {0, t}
    BY <1>1, <1>2, Records
  <2>3. mine'.form # 0 => ~(area = "pads" /\ Told) /\ ~(area # "pads" /\ Pending("create"))
    BY <1>1, <1>2, Records
  <2>4. ScreenTypes' /\ CallTypes'
    BY <1>2, <2>1, <2>2 DEF ScreenInv, ScreenTypes, CallTypes
  <2>5. EditInv'
    <3>1. mine'.edit # 0 => editor'.row # None /\ editor'.text = mine'.edit
      BY <1>2, <2>2 DEF ScreenInv, EditInv
    <3>2. mine'.form # 0 => form'.kind = "create" /\ form'.text = mine'.form
      BY <2>1, <2>2
    <3>3. area # "pads" => \A c \in calls : /\ Awaited(c, "create") => mine'.form = 0
                                            /\ Awaited(c, "update") => mine'.edit = 0
      BY <2>2, <2>3 DEF ScreenInv, EditInv, Pending, Awaited
    <3>4. area = "pads" => \A c \in calls : c.at # "gone" => mine'.form = 0 /\ mine'.edit = 0
      BY <2>2, <2>3 DEF ScreenInv, EditInv, Told
    <3> QED BY <1>2, <3>1, <3>2, <3>3, <3>4 DEF ScreenInv, EditInv, Awaited
  <2>6. KeyInv'
    BY <1>2, <2>1 DEF ScreenInv, KeyInv, Awaited, None
  <2> QED BY <1>2, <2>4, <2>5, <2>6 DEF ScreenInv
<1>3. ASSUME UNCHANGED <<area, search, form, ask, reveal, calls, gestures>>,
             editor.row # None, editor' = [editor EXCEPT !.text = t],
             \/ mine' = [mine EXCEPT !.edit = 0]
             \/ mine' = [mine EXCEPT !.edit = t] /\ ~(area = "pads" /\ Told) /\ ~(area # "pads" /\ Pending("update"))
      PROVE  ScreenInv'
  <2>1. editor' \in Editor /\ editor'.row = editor.row /\ editor'.text = t
    BY <1>1, <1>3, Records
  <2>2. mine' \in [form : 0..2, edit : 0..2] /\ mine'.form = mine.form /\ mine'.edit \in {0, t}
    BY <1>1, <1>3, Records
  <2>3. mine'.edit # 0 => ~(area = "pads" /\ Told) /\ ~(area # "pads" /\ Pending("update"))
    BY <1>1, <1>3, Records
  <2>4. ScreenTypes' /\ CallTypes'
    BY <1>3, <2>1, <2>2 DEF ScreenInv, ScreenTypes, CallTypes
  <2>5. EditInv'
    <3>1. mine'.edit # 0 => editor'.row # None /\ editor'.text = mine'.edit
      BY <1>3, <2>1, <2>2
    <3>2. mine'.form # 0 => form'.kind = "create" /\ form'.text = mine'.form
      BY <1>3, <2>2 DEF ScreenInv, EditInv
    <3>3. area # "pads" => \A c \in calls : /\ Awaited(c, "create") => mine'.form = 0
                                            /\ Awaited(c, "update") => mine'.edit = 0
      BY <2>2, <2>3 DEF ScreenInv, EditInv, Pending, Awaited
    <3>4. area = "pads" => \A c \in calls : c.at # "gone" => mine'.form = 0 /\ mine'.edit = 0
      BY <2>2, <2>3 DEF ScreenInv, EditInv, Told
    <3> QED BY <1>3, <2>1, <3>1, <3>2, <3>3, <3>4 DEF ScreenInv, EditInv, Awaited
  <2>6. KeyInv'
    BY <1>3 DEF ScreenInv, KeyInv, Awaited
  <2> QED BY <1>3, <2>4, <2>5, <2>6 DEF ScreenInv
<1>4. CASE TypeForm(t)
  BY <1>2, <1>4 DEF TypeForm, Quietly
<1>5. CASE TypeEditor(t)
  BY <1>3, <1>5 DEF TypeEditor, Quietly
<1>6. CASE TypePad(t)
  BY <1>2, <1>3, <1>6 DEF TypePad, Quietly
<1> QED BY <1>4, <1>5, <1>6

LEMMA PanelKeeps ==
    ASSUME ScreenInv, seen \in Seen,
           NewPad \/ RevertPad \/ AskDeletePad \/ \E r \in Rows : SelectPad(r)
    PROVE  ScreenInv'
<1>1. CASE NewPad
  <2>1. /\ UNCHANGED <<area, search, reveal, gestures>> /\ area = "pads"
        /\ form' = [NoForm EXCEPT !.kind = "create"] /\ editor' = NoEditor /\ ask' = None
        /\ mine' = Nothing /\ calls' = Behind(calls)
    BY <1>1 DEF NewPad, Quietly
  <2>2. Harmless /\ Aged(calls')
    BY <2>1, Records, AgedSets DEF Harmless, ScreenInv, ScreenTypes
  <2> QED BY <2>1, <2>2, HarmlessKeeps
<1>2. CASE RevertPad
  <2>1. /\ UNCHANGED <<area, search, form, ask, reveal, calls, gestures>> /\ area = "pads"
        /\ editor' = [editor EXCEPT !.text = editor.base] /\ mine' = [mine EXCEPT !.edit = 0]
    BY <1>2 DEF RevertPad, Quietly
  <2>2. editor.base \in 0..2
    BY DEF ScreenInv, ScreenTypes, Editor
  <2>3. Harmless /\ Aged(calls')
    BY <2>1, <2>2, Records, SameCalls DEF Harmless, ScreenInv, ScreenTypes
  <2> QED BY <2>1, <2>3, HarmlessKeeps
<1>3. CASE AskDeletePad
  <2>1. editor.row \in Rows \cup {None}
    BY DEF ScreenInv, ScreenTypes, Editor
  <2> QED BY <1>3, <2>1, AskKeeps DEF AskDeletePad
<1>4. ASSUME NEW r \in Rows, SelectPad(r) PROVE ScreenInv'
  <2>1. /\ UNCHANGED <<area, search, reveal, gestures>> /\ area = "pads"
        /\ form' = NoForm /\ editor' = [row |-> r, text |-> seen.rows[r], base |-> seen.rows[r]]
        /\ ask' = None /\ mine' = Nothing /\ calls' = Behind(calls)
    BY <1>4 DEF SelectPad, Panel, Quietly
  <2>2. seen.rows[r] \in 0..2
    BY DEF Seen, Contents
  <2>3. editor' \in Editor
    BY <2>1, <2>2 DEF Editor
  <2>4. Harmless /\ Aged(calls')
    BY <2>1, <2>3, Records, AgedSets DEF Harmless, ScreenInv, ScreenTypes
  <2> QED BY <2>1, <2>4, HarmlessKeeps
<1> QED BY <1>1, <1>2, <1>3, <1>4

LEMMA PadSendKeeps ==
    ASSUME ScreenInv, SubmitPad \/ DeletePad
    PROVE  ScreenInv'
<1>1. /\ UNCHANGED <<area, search, form, editor, ask, reveal>> /\ area = "pads" /\ mine' = Nothing
  BY DEF SubmitPad, DeletePad, Quietly
<1>2. \E k \in Kinds, r \in Rows \cup {None}, t \in 0..2 : Send(k, r, t)
  <2>1. form.text \in 0..2 /\ editor.text \in 0..2 /\ editor.row \in Rows \cup {None} /\ ask \in Rows \cup {None}
    BY DEF ScreenInv, ScreenTypes, NewRow, Editor
  <2>2. {"create", "update", "delete"} \subseteq Kinds /\ 0 \in 0..2
    BY DEF Kinds
  <2>3. CASE SubmitPad
    BY <2>1, <2>2, <2>3 DEF SubmitPad
  <2>4. CASE DeletePad
    BY <2>1, <2>2, <2>4 DEF DeletePad
  <2> QED BY <2>3, <2>4
<1>3. CallTypes'
  BY <1>1, <1>2, Sent
<1>4. ScreenTypes'
  BY <1>1, Records DEF ScreenInv, ScreenTypes
<1>5. EditInv' /\ KeyInv'
  BY <1>1, Records DEF ScreenInv, EditInv, KeyInv
<1> QED BY <1>1, <1>3, <1>4, <1>5 DEF ScreenInv

LEMMA KeyGestureKeeps ==
    ASSUME ScreenInv,
           \/ OpenKeyDialog \/ CloseKeyDialog \/ SubmitKey \/ CloseReveal \/ CancelRevoke \/ RevokeKey
           \/ \E r \in Rows : AskRevoke(r)
    PROVE  ScreenInv'
<1>1. CASE OpenKeyDialog
  <2>1. Forms([NoForm EXCEPT !.kind = "create"]) /\ reveal = None
    BY <1>1 DEF OpenKeyDialog, NoDialog
  <2>2. [NoForm EXCEPT !.kind = "create"] \in NewRow /\ [NoForm EXCEPT !.kind = "create"].kind = "create"
    BY Records DEF NewRow
  <2> QED BY <2>1, <2>2, FormsKeep
<1>2. CASE CloseKeyDialog
  <2> DEFINE put(c) == IF Awaited(c, "create") THEN [c EXCEPT !.at = "page"] ELSE c
  <2>1. /\ UNCHANGED <<area, search, editor, ask, reveal, gestures>> /\ area = "keys"
        /\ form' = NoForm /\ mine' = [mine EXCEPT !.form = 0]
        /\ calls' = {put(c) : c \in calls}
    BY <1>2 DEF CloseKeyDialog, Quietly, Awaited
  <2>2. ASSUME NEW c \in calls PROVE put(c) \in Call /\ ~Awaited(put(c), "create") /\ put(c).kind = c.kind
    <3>1. c \in Call
      BY DEF ScreenInv, CallTypes
    <3>2. [c EXCEPT !.at = "page"] \in Call /\ [c EXCEPT !.at = "page"].at = "page"
          /\ [c EXCEPT !.at = "page"].kind = c.kind
      BY <3>1 DEF Call
    <3> QED BY <3>1, <3>2 DEF Awaited
  <2>3. ASSUME NEW c \in calls, put(c).at = "form" PROVE c.at = "form"
    <3>1. c \in Call
      BY DEF ScreenInv, CallTypes
    <3>2. [c EXCEPT !.at = "page"].at = "page"
      BY <3>1 DEF Call
    <3> QED BY <2>3, <3>2
  <2> HIDE DEF put
  <2>4. ScreenTypes' /\ CallTypes'
    BY <2>1, <2>2, Records DEF ScreenInv, ScreenTypes, CallTypes
  <2>5. EditInv'
    <3>1. mine'.form = 0 /\ mine'.edit = mine.edit
      BY <2>1, Records
    <3>2. mine'.edit # 0 => FALSE
      BY <2>1, <3>1 DEF ScreenInv, EditInv, Tabs
    <3> QED BY <2>1, <3>1, <3>2 DEF ScreenInv, EditInv
  <2>6. KeyInv'
    BY <2>1, <2>2, Records DEF ScreenInv, KeyInv, Awaited
  <2> QED BY <2>1, <2>4, <2>5, <2>6 DEF ScreenInv
<1>3. CASE SubmitKey
  BY <1>3, SubmitKeeps DEF SubmitKey
<1>4. CASE CloseReveal
  <2>1. UNCHANGED <<area, search, form, editor, ask, mine, calls, gestures>> /\ reveal' = None
    BY <1>4 DEF CloseReveal, Quietly
  <2> QED BY <2>1 DEF ScreenInv, ScreenTypes, CallTypes, EditInv, KeyInv, Awaited
<1>5. CASE CancelRevoke \/ \E r \in Rows : AskRevoke(r)
  BY <1>5, AskKeeps DEF CancelRevoke, AskRevoke
<1>6. CASE RevokeKey
  <2>1. ask \in Rows \cup {None} /\ "delete" \in Kinds \ {"create"} /\ 0 \in 0..2
    BY DEF ScreenInv, ScreenTypes, Kinds
  <2> QED BY <1>6, <2>1, SendKeeps DEF RevokeKey
<1> QED BY <1>1, <1>2, <1>3, <1>4, <1>5, <1>6

\* The three tabs, webhooks and secrets.
LEMMA TabsKeep ==
    ASSUME ScreenInv, seen \in Seen,
           area \in Tabs \cup {"webhooks", "secrets"},
           \/ ToggleTabForm \/ SubmitTabForm \/ \E r \in Rows : DeleteFromTab(r)
           \/ area # "secrets" /\ (SaveEditor \/ \E r \in Rows : ToggleEditor(r))
           \/ \E k \in {"delete", "unknown"}, r \in Rows : SendFromList(k, r, 0)
    PROVE  ScreenInv'
<1>1. area # "pads" /\ area # "keys"
  BY DEF Tabs
<1>2. CASE ToggleTabForm
  <2> DEFINE f == [form EXCEPT !.kind = IF form.kind = None THEN "create" ELSE None]
  <2>1. f \in NewRow
    BY DEF ScreenInv, ScreenTypes, NewRow
  <2>2. Forms(f)
    BY <1>2 DEF ToggleTabForm
  <2> HIDE DEF f
  <2> QED BY <1>1, <2>1, <2>2, FormsKeep
<1>3. CASE SubmitTabForm
  BY <1>1, <1>3, SubmitKeeps DEF SubmitTabForm
<1>4. CASE area # "secrets" /\ (SaveEditor \/ \E r \in Rows : ToggleEditor(r))
  BY <1>4, EditorKeeps
<1>5. ASSUME NEW k \in {"delete", "unknown"}, NEW r \in Rows, SendFromList(k, r, 0) PROVE ScreenInv'
  <2>1. k \in Kinds \ {"create"} /\ 0 \in 0..2 /\ k # "update"
    BY DEF Kinds
  <2> QED BY <1>1, <1>5, <2>1, SendKeeps
<1> QED BY <1>2, <1>3, <1>4, <1>5 DEF DeleteFromTab

LEMMA CatalogKeeps ==
    ASSUME ScreenInv, seen \in Seen,
           \/ Search \/ ToggleTemplateForm \/ ToggleImport \/ PickFile \/ SubmitTemplate \/ ImportTemplate
           \/ \E r \in Rows : ToggleFlag(r) \/ AskDeleteTemplate(r)
           \/ CancelDeleteTemplate \/ DeleteTemplate
    PROVE  ScreenInv'
<1>1. area = "catalog" /\ editor.row = None
  BY DEF ScreenInv, EditInv, Tabs, Search, ToggleTemplateForm, ToggleImport, PickFile, SubmitTemplate,
         ImportTemplate, ToggleFlag, AskDeleteTemplate, CancelDeleteTemplate, DeleteTemplate
<1>2. CASE Search
  <2>1. UNCHANGED <<area, form, editor, ask, reveal, mine, calls, gestures>> /\ search' = ~search
    BY <1>2 DEF Search, Quietly
  <2>2. search' \in BOOLEAN
    BY <2>1
  <2> QED BY <2>1, <2>2 DEF ScreenInv, ScreenTypes, CallTypes, EditInv, KeyInv, Awaited
<1>3. ASSUME NEW k \in {None, "create", "import"}, NEW t \in 0..2, Forms([kind |-> k, text |-> t])
      PROVE  ScreenInv'
  <2>1. [kind |-> k, text |-> t] \in NewRow
    BY DEF NewRow
  <2> QED BY <1>1, <1>3, <2>1, FormsKeep
<1>4. form.text \in 0..2
  BY DEF ScreenInv, ScreenTypes, NewRow
<1>5. CASE ToggleTemplateForm
  BY <1>3, <1>4, <1>5 DEF ToggleTemplateForm
<1>6. CASE ToggleImport
  BY <1>3, <1>4, <1>6 DEF ToggleImport
<1>7. CASE PickFile
  <2>1. [form EXCEPT !.text = 1] \in NewRow
    BY Records
  <2> QED BY <1>1, <1>7, <2>1, FormsKeep DEF PickFile
<1>8. CASE SubmitTemplate \/ ImportTemplate
  BY <1>1, <1>8, SubmitKeeps DEF SubmitTemplate, ImportTemplate
<1>9. ASSUME NEW r \in Rows, ToggleFlag(r) \/ AskDeleteTemplate(r) PROVE ScreenInv'
  <2>1. CASE ToggleFlag(r)
    <3>1. Flipped(seen.rows[r]) \in 0..2
      <4>1. seen.rows[r] \in 0..2 /\ Listed(r)
        BY <2>1 DEF ToggleFlag, Offered, FlatShows, Seen, Contents
      <4> QED BY <4>1 DEF Flipped, Listed
    <3>2. "update" \in Kinds \ {"create"}
      BY DEF Kinds
    <3> QED BY <1>1, <2>1, <3>1, <3>2, SendKeeps DEF ToggleFlag
  <2>2. CASE AskDeleteTemplate(r)
    BY <2>2, AskKeeps DEF AskDeleteTemplate
  <2> QED BY <1>9, <2>1, <2>2
<1>10. CASE CancelDeleteTemplate
  BY <1>10, AskKeeps DEF CancelDeleteTemplate
<1>11. CASE DeleteTemplate
  <2>1. ask \in Rows \cup {None} /\ "delete" \in Kinds \ {"create"} /\ 0 \in 0..2 /\ "delete" # "update"
    BY DEF ScreenInv, ScreenTypes, Kinds
  <2> QED BY <1>1, <1>11, <2>1, SendKeeps DEF DeleteTemplate
<1> QED BY <1>2, <1>5, <1>6, <1>7, <1>8, <1>9, <1>10, <1>11

LEMMA PeopleKeep ==
    ASSUME ScreenInv, seen \in Seen,
           \/ CreateProject \/ EditProject \/ DeleteProject
           \/ ToggleUserForm \/ SubmitUser
           \/ \E r \in Rows : DuplicateUser(r) \/ ChangeUsers(r) \/ AddMember(r) \/ ChangeMembers(r),
           view = "projects" => area = "catalog"
    PROVE  ScreenInv'
<1>1. {"project", "unknown", "delete", "update"} \subseteq Kinds \ {"create"} /\ {0, 1} \subseteq 0..2
  BY DEF Kinds
<1>2. CASE CreateProject \/ EditProject \/ DeleteProject
  <2>1. \E k \in {"project", "unknown"}, t \in {0, 1} : SendFromList(k, None, t)
    BY <1>2 DEF CreateProject, EditProject, DeleteProject
  <2>2. area = "catalog"
    BY <1>2 DEF CreateProject, EditProject, DeleteProject
  <2> QED BY <1>1, <2>1, <2>2, SendKeeps
<1>3. CASE ToggleUserForm
  <2>1. [form EXCEPT !.kind = "create"] \in NewRow
    BY DEF ScreenInv, ScreenTypes, NewRow
  <2> QED BY <1>3, <2>1, Records, FormsKeep DEF ToggleUserForm
<1>4. CASE SubmitUser
  BY <1>4, SubmitKeeps DEF SubmitUser
<1>5. ASSUME NEW r \in Rows, DuplicateUser(r) PROVE ScreenInv'
  <2>1. [kind |-> "create", text |-> seen.rows[r]] \in NewRow
    BY DEF Seen, Contents, NewRow
  <2> QED BY <1>5, <2>1, FormsKeep DEF DuplicateUser
<1>6. ASSUME NEW r \in Rows, AddMember(r) PROVE ScreenInv'
  BY <1>6, SubmitKeeps DEF AddMember
<1>7. ASSUME NEW r \in Rows, ChangeUsers(r) \/ ChangeMembers(r) PROVE ScreenInv'
  <2>1. /\ area \in {"users", "members"} /\ Listed(r)
        /\ SendFromList("update", r, Flipped(seen.rows[r])) \/ SendFromList("delete", r, 0)
    BY <1>7 DEF ChangeUsers, ChangeMembers, Offered, FlatShows
  <2>2. editor.row = None
    BY <2>1 DEF ScreenInv, EditInv, Tabs
  <2>3. Flipped(seen.rows[r]) \in 0..2
    <3>1. seen.rows[r] \in 0..2 /\ seen.rows[r] # 0
      BY <2>1 DEF Listed, Seen, Contents
    <3> QED BY <3>1 DEF Flipped
  <2> QED BY <1>1, <2>1, <2>2, <2>3, SendKeeps
<1> QED BY <1>2, <1>3, <1>4, <1>5, <1>6, <1>7

LEMMA WebhookKeeps ==
    ASSUME ScreenInv, seen \in Seen, ToggleWebhookForm \/ SubmitWebhook
    PROVE  ScreenInv'
<1>1. CASE ToggleWebhookForm
  <2>1. /\ UNCHANGED <<area, search, ask, reveal, calls, gestures>> /\ area = "webhooks"
        /\ form' = [NoForm EXCEPT !.kind = IF form.kind = None THEN "create" ELSE None]
        /\ editor' = NoEditor /\ mine' = Nothing
    BY <1>1 DEF ToggleWebhookForm, Quietly
  <2>2. Harmless /\ Aged(calls')
    BY <2>1, Records, SameCalls DEF Harmless, ScreenInv, ScreenTypes
  <2> QED BY <2>1, <2>2, HarmlessKeeps
<1>2. CASE SubmitWebhook
  <2>1. /\ UNCHANGED <<area, search, form, editor, ask, reveal, mine>> /\ area = "webhooks"
        /\ Send("unknown", None, form.text)
    BY <1>2 DEF SubmitWebhook, screen, Quietly
  <2>2. form.text \in 0..2 /\ "unknown" \in Kinds
    BY DEF ScreenInv, ScreenTypes, NewRow, Kinds
  <2>3. CallTypes' /\ \E n \in Call : calls' = calls \cup {n} /\ n.kind = "unknown" /\ n.at = "form"
    BY <2>1, <2>2, Sent
  <2>4. EditInv' /\ KeyInv'
    BY <2>1, <2>3 DEF ScreenInv, EditInv, KeyInv, Awaited
  <2> QED BY <2>1, <2>3, <2>4 DEF ScreenInv, ScreenTypes
<1> QED BY <1>1, <1>2

LEMMA GestureKeeps ==
    ASSUME ScreenInv, seen \in Seen, view = "projects" => area = "catalog", Gesture
    PROVE  ScreenInv'
<1>1. CASE \/ ToggleFilterForm \/ SubmitFilter \/ EditFilters \/ \E r \in Rows : DeleteFilter(r)
           \/ ToggleObjectForm \/ SubmitObject \/ EditObjects
           \/ ToggleMacroForm \/ SubmitMacro \/ EditMacros
  <2>1. area \in Tabs
    BY <1>1 DEF Tabs, ToggleFilterForm, SubmitFilter, EditFilters, DeleteFilter, ToggleObjectForm, SubmitObject,
                EditObjects, ToggleMacroForm, SubmitMacro, EditMacros
  <2>2. \/ ToggleTabForm \/ SubmitTabForm \/ SaveEditor \/ \E r \in Rows : ToggleEditor(r) \/ DeleteFromTab(r)
        \/ \E r \in Rows : SendFromList("delete", r, 0)
    BY <1>1 DEF ToggleFilterForm, SubmitFilter, EditFilters, DeleteFilter, ToggleObjectForm, SubmitObject,
                EditObjects, ToggleMacroForm, SubmitMacro, EditMacros
  <2> QED BY <2>1, <2>2, TabsKeep DEF Tabs
<1>2. CASE \/ Search \/ ToggleTemplateForm \/ ToggleImport \/ PickFile \/ SubmitTemplate \/ ImportTemplate
           \/ \E r \in Rows : ToggleFlag(r) \/ AskDeleteTemplate(r)
           \/ CancelDeleteTemplate \/ DeleteTemplate
  BY <1>2, CatalogKeeps
<1>3. CASE CreateProject \/ EditProject \/ DeleteProject
  BY <1>3, PeopleKeep
<1>4. CASE NewPad \/ RevertPad \/ AskDeletePad \/ \E r \in Rows : SelectPad(r)
  BY <1>4, PanelKeeps
<1>5. CASE SubmitPad \/ DeletePad
  BY <1>5, PadSendKeeps
<1>6. CASE \/ OpenKeyDialog \/ CloseKeyDialog \/ SubmitKey \/ CloseReveal
           \/ CancelRevoke \/ RevokeKey \/ \E r \in Rows : AskRevoke(r)
  BY <1>6, KeyGestureKeeps
<1>7. CASE \/ ToggleUserForm \/ SubmitUser \/ \E r \in Rows : DuplicateUser(r) \/ ChangeUsers(r)
           \/ \E r \in Rows : AddMember(r) \/ ChangeMembers(r)
  BY <1>7, PeopleKeep
<1>8. CASE ToggleWebhookForm \/ SubmitWebhook
  BY <1>8, WebhookKeeps
<1>9. CASE EditWebhooks
  BY <1>9, TabsKeep DEF EditWebhooks
<1>10. CASE ToggleSecretForm \/ SubmitSecret \/ \E r \in Rows : DeleteSecret(r)
  BY <1>10, TabsKeep DEF ToggleSecretForm, SubmitSecret, DeleteSecret
<1>11. CASE \E t \in Texts : TypeForm(t) \/ TypeEditor(t) \/ TypePad(t)
  BY <1>11, TypingKeeps
<1> QED BY <1>1, <1>2, <1>3, <1>4, <1>5, <1>6, <1>7, <1>8, <1>9, <1>10, <1>11 DEF Gesture

\* Answers: the lists' own, those that close a form or an editor, Quickpads',
\* and the key's.
LEMMA AnswerKeeps ==
    ASSUME ScreenInv, NEW c \in calls, Succeeds(c)
    PROVE  ScreenInv'
<1>1. UNCHANGED <<area, gestures>> /\ c \in Call /\ c.row \in Rows \cup {None} /\ c.text \in 0..2
  BY DEF Succeeds, FilterCreated, FilterUpdated, FilterDeleted, ObjectAnswers, MacroAnswers, TemplateCreated,
         TemplateImported, FlagToggled, TemplateDeleted, ProjectCreated, PadSaved, PadDeleted, KeyCreated, KeyRevoked,
         UserCreated, UsersChanged, MemberAdded, MembersChanged, WebhookAnswers, SecretCreated, FormAnswered,
         EditorAnswered, ListAnswered, AskAnswered, PadAnswered, Answered, ScreenInv, CallTypes, Call
<1>2. Aged(calls \ {c}) /\ Aged(Behind(calls \ {c})) /\ Aged(Unmounted(calls \ {c}, "gone"))
  BY AgedSets
<1>3. ASSUME UNCHANGED <<search, form, editor, mine, reveal>>, ask' \in {ask, None}, calls' = calls \ {c}
      PROVE  ScreenInv'
  <2>1. Harmless
    BY <1>3 DEF Harmless, ScreenInv, ScreenTypes, EditInv
  <2> QED BY <1>1, <1>2, <1>3, <2>1, HarmlessKeeps
<1>4. \A k : ListAnswered(c, k) => ScreenInv'
  BY <1>3 DEF ListAnswered, Finish, Stay
<1>5. AskAnswered(c) => ScreenInv'
  BY <1>3 DEF AskAnswered, Finish, Stay
<1>6. ASSUME NEW f \in NewRow, area \notin {"pads", "keys"}, c.kind = "create",
             UNCHANGED <<search, editor, ask, reveal, mine>>, calls' = calls \ {c},
             form' = IF c.at = "form" THEN f ELSE form
      PROVE  ScreenInv'
  <2>1. c.at = "form" => mine.form = 0
    BY <1>6 DEF ScreenInv, EditInv, Awaited
  <2>2. Harmless
    BY <1>6, <2>1 DEF Harmless, ScreenInv, ScreenTypes, EditInv
  <2> QED BY <1>1, <1>2, <1>6, <2>2, HarmlessKeeps
<1>7. area \notin {"pads", "keys"} /\ FormAnswered(c, NoForm) => ScreenInv'
  BY <1>6, Records DEF FormAnswered, Answered, Finish, Stay
<1>8. area \in Tabs \cup {"webhooks"} /\ EditorAnswered(c) => ScreenInv'
  <2> SUFFICES ASSUME area \in Tabs \cup {"webhooks"}, EditorAnswered(c) PROVE ScreenInv'
    OBVIOUS
  <2>1. /\ UNCHANGED <<search, form, ask, reveal, mine>> /\ calls' = calls \ {c} /\ c.kind = "update"
        /\ editor' = IF c.at = "form" THEN NoEditor ELSE editor
    BY DEF EditorAnswered, Answered, Finish, Stay
  <2>2. c.at = "form" => mine.edit = 0
    BY <2>1 DEF ScreenInv, EditInv, Awaited, Tabs
  <2>3. Harmless
    BY <2>1, <2>2, Records DEF Harmless, ScreenInv, ScreenTypes, EditInv
  <2> QED BY <1>1, <1>2, <2>1, <2>3, HarmlessKeeps
<1>9. CASE FilterDeleted(c)
  BY <1>3, <1>9 DEF FilterDeleted, Finish, Stay
<1>10. CASE TemplateCreated(c)
  <2>1. /\ area = "catalog" /\ search' = FALSE /\ form' = PageForm /\ editor' = NoEditor /\ ask' = None
        /\ reveal' = None /\ mine' = Nothing /\ calls' = Unmounted(calls \ {c}, "gone")
    BY <1>10 DEF TemplateCreated, Blank
  <2>2. Harmless
    BY <2>1, Records DEF Harmless
  <2> QED BY <1>1, <1>2, <2>1, <2>2, HarmlessKeeps
<1>11. CASE TemplateImported(c)
  <2>1. /\ UNCHANGED <<search, editor, ask, reveal, mine>> /\ calls' = calls \ {c} /\ area = "catalog"
        /\ form' = form \/ (form.kind = "import" /\ form' = [form EXCEPT !.text = 0])
    BY <1>11 DEF TemplateImported, Finish, Stay
  <2>2. form.kind = "import" => mine.form = 0
    BY DEF ScreenInv, EditInv
  <2>3. Harmless
    BY <2>1, <2>2, Records DEF Harmless, ScreenInv, ScreenTypes, EditInv
  <2> QED BY <1>1, <1>2, <2>1, <2>3, HarmlessKeeps
<1>12. CASE PadSaved(c) \/ PadDeleted(c)
  <2>1. /\ area = "pads" /\ UNCHANGED <<search, reveal, mine>> /\ calls' = Behind(calls \ {c})
        /\ \/ c.at = "gone" /\ UNCHANGED <<form, editor, ask>>
           \/ /\ c.at # "gone" /\ form' = NoForm /\ ask' = None
              /\ editor' \in {NoEditor, [row |-> c.row, text |-> c.text, base |-> c.text]}
    BY <1>12 DEF PadSaved, PadDeleted, PadAnswered, Panel, Stay
  <2>2. c.at # "gone" => mine.form = 0 /\ mine.edit = 0
    BY <2>1 DEF ScreenInv, EditInv
  <2>3. [row |-> c.row, text |-> c.text, base |-> c.text] \in Editor
    BY <1>1 DEF Editor
  <2>4. Harmless
    BY <2>1, <2>2, <2>3, Records DEF Harmless, ScreenInv, ScreenTypes, EditInv
  <2> QED BY <1>1, <1>2, <2>1, <2>4, HarmlessKeeps
<1>13. CASE KeyCreated(c)
  <2>1. /\ area = "keys" /\ c.kind = "create" /\ UNCHANGED <<search, editor, ask, mine>> /\ calls' = calls \ {c}
    BY <1>13 DEF KeyCreated, Answered, Finish, Stay
  <2>2. CASE c.at # "form"
    BY <1>3, <1>13, <2>1, <2>2 DEF KeyCreated, Received
  <2>3. CASE c.at = "form"
    <3>1. form' = NoForm /\ reveal' = c.row
      BY <1>13, <2>3 DEF KeyCreated, Received
    <3>2. mine.form = 0 /\ mine.edit = 0
      BY <2>1, <2>3 DEF ScreenInv, EditInv, Awaited, Tabs
    <3>3. ScreenTypes' /\ CallTypes'
      BY <1>1, <2>1, <3>1, Records DEF ScreenInv, ScreenTypes, CallTypes
    <3>4. EditInv'
      BY <1>1, <2>1, <3>1, <3>2 DEF ScreenInv, EditInv
    <3>5. \A d \in calls \ {c} : ~Awaited(d, "create")
      BY <2>1, <2>3 DEF ScreenInv, KeyInv, Awaited
    <3>6. KeyInv'
      BY <1>1, <2>1, <3>1, <3>5, Records DEF KeyInv, Awaited
    <3> QED BY <1>1, <3>3, <3>4, <3>6 DEF ScreenInv
  <2> QED BY <2>2, <2>3
<1>14. CASE MemberAdded(c)
  BY <1>6, <1>14, Records DEF MemberAdded, Answered, Finish, Stay
<1>15. CASE MembersChanged(c)
  BY <1>3, <1>15 DEF MembersChanged, Finish, Stay
<1>16. CASE FilterCreated(c) \/ FilterUpdated(c) \/ ObjectAnswers(c) \/ MacroAnswers(c)
  BY <1>4, <1>7, <1>8, <1>16 DEF FilterCreated, FilterUpdated, ObjectAnswers, MacroAnswers, Tabs
<1>17. CASE FlagToggled(c) \/ TemplateDeleted(c) \/ ProjectCreated(c) \/ KeyRevoked(c)
  BY <1>4, <1>5, <1>17 DEF FlagToggled, TemplateDeleted, ProjectCreated, KeyRevoked
<1>18. CASE UserCreated(c) \/ UsersChanged(c)
  BY <1>4, <1>7, <1>18 DEF UserCreated, UsersChanged
<1>19. CASE WebhookAnswers(c) \/ SecretCreated(c)
  BY <1>4, <1>7, <1>8, <1>19 DEF WebhookAnswers, SecretCreated
<1> QED BY <1>9, <1>10, <1>11, <1>12, <1>13, <1>14, <1>15, <1>16, <1>17, <1>18, <1>19 DEF Succeeds

\* The list's queries leave the screen alone, and requests are served.
LEMMA StillScreen == ScreenInv /\ UNCHANGED <<area, screen, calls, gestures>> => ScreenInv'
  BY DEF ScreenInv, ScreenTypes, CallTypes, EditInv, KeyInv, Awaited, screen

LEMMA ServedKeeps ==
    ASSUME ScreenInv, NEW c \in calls, NEW d \in Call, d.kind = c.kind, d.at = c.at,
           calls' = (calls \ {c}) \cup {d}, UNCHANGED <<area, screen, gestures>>
    PROVE  ScreenInv'
<1>1. UNCHANGED <<search, form, editor, ask, reveal, mine>>
  BY DEF screen
<1>2. EditInv'
  BY <1>1 DEF ScreenInv, EditInv, Awaited
<1>3. KeyInv'
  BY <1>1 DEF ScreenInv, KeyInv, Awaited
<1> QED BY <1>1, <1>2, <1>3 DEF ScreenInv, ScreenTypes, CallTypes

LEMMA NavigateKeeps ==
    ASSUME ScreenInv, NEW v, Navigate(v)
    PROVE  ScreenInv'
<1>1. /\ search' = FALSE /\ form' = PageForm /\ editor' = NoEditor /\ ask' = None
      /\ reveal' = None /\ mine' = Nothing /\ calls' = Unmounted(calls, "gone")
      /\ UNCHANGED <<area, gestures>>
  BY DEF Navigate, Blank
<1>2. Aged(calls')
  BY <1>1, AgedSets
<1>3. \A c \in calls' : c.at = "gone"
  <2>1. ASSUME NEW c \in calls PROVE [c EXCEPT !.at = "gone"].at = "gone"
    BY DEF ScreenInv, CallTypes, Call
  <2> QED BY <1>1, <2>1 DEF Unmounted
<1>4. ScreenTypes' /\ CallTypes'
  BY <1>1, <1>2, Records DEF ScreenInv, ScreenTypes, CallTypes, Aged
<1>5. EditInv'
  BY <1>1, <1>3, Records DEF EditInv
<1>6. KeyInv'
  BY <1>1, <1>3 DEF KeyInv, Awaited
<1> QED BY <1>1, <1>4, <1>5, <1>6 DEF ScreenInv

LEMMA ScreenKeeps ==
    ASSUME ScreenInv, seen \in Seen, view = "projects" => area = "catalog", [Next]_vars
    PROVE  ScreenInv'
<1>1. CASE Ask \/ Read \/ Land \/ FetchFails \/ SelectProject
  BY <1>1, StillScreen DEF Ask, Read, Land, FetchFails, SelectProject
<1>2. ASSUME NEW v \in {"page", "away", "projects", "other"}, Navigate(v) PROVE ScreenInv'
  BY <1>2, NavigateKeeps
<1>3. CASE Gesture
  BY <1>3, GestureKeeps
<1>4. ASSUME NEW c \in calls, Succeeds(c) PROVE ScreenInv'
  BY <1>4, AnswerKeeps
<1>5. ASSUME NEW c \in calls, CallFails(c) PROVE ScreenInv'
  <2>1. calls' = calls \ {c} /\ UNCHANGED <<area, search, form, editor, ask, reveal, mine, gestures>>
    BY <1>5 DEF CallFails, screen
  <2> QED BY <2>1 DEF ScreenInv, ScreenTypes, CallTypes, EditInv, KeyInv, Awaited
<1>6. ASSUME NEW c \in calls, ProjectApplied(c) PROVE ScreenInv'
  <2>1. [c EXCEPT !.done = TRUE] \in Call /\ [c EXCEPT !.done = TRUE].kind = c.kind
        /\ [c EXCEPT !.done = TRUE].at = c.at
    BY DEF ScreenInv, CallTypes, Call
  <2> QED BY <1>6, <2>1, ServedKeeps DEF ProjectApplied
<1>7. ASSUME NEW c \in calls, NEW r \in Rows, Applied(c, r) PROVE ScreenInv'
  <2> DEFINE d == [c EXCEPT !.row = r, !.done = TRUE]
  <2>1. d \in Call /\ d.kind = c.kind /\ d.at = c.at
    BY DEF ScreenInv, CallTypes, Call
  <2>2. calls' = (calls \ {c}) \cup {d} /\ UNCHANGED <<area, screen, gestures>>
    BY <1>7 DEF Applied
  <2> HIDE DEF d
  <2> QED BY <2>1, <2>2, ServedKeeps
<1>8. ASSUME NEW r \in Rows, NEW t \in {0, 2}, Elsewhere(r, t) PROVE ScreenInv'
  BY <1>8, StillScreen DEF Elsewhere
<1>9. CASE UNCHANGED vars
  BY <1>9, StillScreen DEF vars
<1> QED BY <1>1, <1>2, <1>3, <1>4, <1>5, <1>6, <1>7, <1>8, <1>9 DEF Next

-----------------------------------------------------------------------------
(* Shapes *)

\* What is mounted, the server's rows, and the lists of them.
PlaceTypes ==
    /\ view \in {"page", "away"} \cup (IF area = "catalog" THEN {"projects"} ELSE {})
                                 \cup (IF area = "members" THEN {"other"} ELSE {})
    /\ changes \in 0..MaxChanges[area]

ListTypes ==
    /\ rows \in Contents /\ rev \in Nat /\ own \in 0..rev
    /\ seen \in Seen /\ seen.rev <= rev
    /\ fetch \in Fetched /\ fetch.rev <= rev
    /\ stale \in BOOLEAN

LEMMA Parts == TypeOK <=> area \in Areas /\ ScreenTypes /\ CallTypes /\ PlaceTypes /\ ListTypes
  BY DEF TypeOK, ScreenTypes, CallTypes, PlaceTypes, ListTypes

LEMMA PlaceKeeps ==
    ASSUME area \in Areas, PlaceTypes, [Next]_vars
    PROVE  area' = area /\ PlaceTypes'
<1>1. CASE UNCHANGED <<area, view, changes>>
  BY <1>1 DEF PlaceTypes
<1>2. CASE \/ Ask \/ Read \/ Land \/ FetchFails \/ UNCHANGED vars
           \/ \E c \in calls : CallFails(c) \/ ProjectApplied(c) \/ \E r \in Rows : Applied(c, r)
  BY <1>1, <1>2 DEF Ask, Read, Land, FetchFails, CallFails, ProjectApplied, Applied, vars
<1>3. CASE Gesture
  BY <1>1, <1>3, GestureQuiet DEF Quietly
<1>4. CASE SelectProject
  BY <1>4 DEF SelectProject, PlaceTypes
<1>5. ASSUME NEW v \in {"page", "away", "projects", "other"}, Navigate(v) PROVE area' = area /\ PlaceTypes'
  BY <1>5 DEF Navigate, PlaceTypes
<1>6. ASSUME NEW c \in calls, Succeeds(c) PROVE area' = area /\ PlaceTypes'
  <2>1. UNCHANGED <<area, changes>> /\ view' \in {view, "away"}
    BY <1>6 DEF Succeeds, FilterCreated, FilterUpdated, FilterDeleted, ObjectAnswers, MacroAnswers, TemplateCreated,
         TemplateImported, FlagToggled, TemplateDeleted, ProjectCreated, PadSaved, PadDeleted, KeyCreated, KeyRevoked,
         UserCreated, UsersChanged, MemberAdded, MembersChanged, WebhookAnswers, SecretCreated, FormAnswered,
         EditorAnswered, ListAnswered, AskAnswered, PadAnswered, Answered, Stay
  <2> QED BY <2>1 DEF PlaceTypes
<1>7. ASSUME NEW r \in Rows, NEW t \in {0, 2}, Elsewhere(r, t) PROVE area' = area /\ PlaceTypes'
  <2>1. UNCHANGED <<area, view>> /\ changes < MaxChanges[area] /\ changes' = changes + 1
    BY <1>7 DEF Elsewhere
  <2>2. MaxChanges[area] \in Nat
    BY BoundsAssumption
  <2> QED BY <2>1, <2>2 DEF PlaceTypes
<1> QED BY <1>2, <1>3, <1>4, <1>5, <1>6, <1>7 DEF Next

LEMMA NoFetchShape ==
    /\ NoRows \in Contents
    /\ NoFetch \in Fetched /\ NoFetch.rev = 0
    /\ \A b \in BOOLEAN : LET f == [NoFetch EXCEPT !.state = "asked", !.all = b]
                          IN  f \in Fetched /\ f.rev = 0
<1>1. NoRows \in Contents
  BY DEF NoRows, Contents
<1>2. NoFetch \in [state : {None}, rows : Contents, rev : {0}, all : BOOLEAN]
  BY <1>1 DEF NoFetch
<1>3. ASSUME NEW b \in BOOLEAN
      PROVE  [NoFetch EXCEPT !.state = "asked", !.all = b] \in [state : {"asked"}, rows : Contents, rev : {0}, all : BOOLEAN]
  BY <1>2
<1>4. \A s \in {None, "asked"} : [state : {s}, rows : Contents, rev : {0}, all : BOOLEAN] \subseteq Fetched
  BY DEF Fetched
<1>5. \A s \in {None, "asked"} : \A f \in [state : {s}, rows : Contents, rev : {0}, all : BOOLEAN] : f.rev = 0
  OBVIOUS
<1> QED BY <1>1, <1>2, <1>3, <1>4, <1>5

LEMMA AskedFetch == Asked \in Fetched /\ Asked.rev = 0
  BY NoFetchShape DEF Asked

LEMMA ListKeeps ==
    ASSUME area \in Areas, CallTypes, ListTypes, [Next]_vars
    PROVE  ListTypes'
<1>1. CASE UNCHANGED <<rows, listing>>
  BY <1>1 DEF ListTypes, listing
<1>2. CASE Gesture \/ UNCHANGED vars \/ \E c \in calls : CallFails(c) \/ ProjectApplied(c)
  BY <1>1, <1>2, GestureQuiet DEF CallFails, ProjectApplied, vars, Quietly
<1>3. ASSUME UNCHANGED <<rows, rev, own, seen, stale>>, fetch' \in Fetched, fetch'.rev <= rev PROVE ListTypes'
  BY <1>3 DEF ListTypes
<1>a. fetch.rev \in Nat /\ seen.rev \in Nat /\ rev \in Nat /\ 0 <= rev
  BY DEF ListTypes, Fetched, Seen
<1>b. ASSUME UNCHANGED <<rows, rev, own, seen, stale>>, fetch' \in {fetch, NoFetch, Asked} PROVE ListTypes'
  <2>1. fetch' \in Fetched /\ (fetch'.rev = fetch.rev \/ fetch'.rev = 0)
    BY <1>b, AskedFetch, NoFetchShape DEF ListTypes
  <2>2. fetch'.rev <= rev
    BY <1>a, <2>1 DEF ListTypes
  <2> QED BY <1>3, <1>b, <2>1, <2>2
<1>4. CASE Ask \/ FetchFails
  BY <1>b, <1>4 DEF Ask, FetchFails
<1>5. CASE Read
  <2>1. fetch' = [fetch EXCEPT !.state = "read", !.rows = rows, !.rev = rev]
    BY <1>5 DEF Read
  <2>2. fetch' \in Fetched /\ fetch'.rev = rev
    BY <2>1 DEF ListTypes, Fetched
  <2> QED BY <1>3, <1>5, <2>2 DEF Read, ListTypes
<1>6. CASE Land
  <2>1. /\ UNCHANGED <<rows, rev, own>> /\ fetch' = NoFetch /\ stale' = FALSE
        /\ seen' = [known |-> TRUE, rows |-> fetch.rows, rev |-> fetch.rev, all |-> fetch.all]
    BY <1>6 DEF Land
  <2>2. seen' \in Seen /\ seen'.rev = fetch.rev
    BY <2>1 DEF ListTypes, Fetched, Seen
  <2>3. seen'.rev <= rev' /\ fetch'.rev <= rev'
    BY <1>a, <2>1, <2>2, NoFetchShape DEF ListTypes
  <2>4. stale' \in BOOLEAN
    BY <2>1
  <2> QED BY <2>1, <2>2, <2>3, <2>4, NoFetchShape DEF ListTypes
<1>7. ASSUME NEW v, Observed(v), UNCHANGED <<rows, rev, own, seen, stale>> PROVE ListTypes'
  <2>1. fetch' = fetch \/ fetch' = [NoFetch EXCEPT !.state = "asked", !.all = (v = "projects")]
    BY <1>7 DEF Observed
  <2>2. (v = "projects") \in BOOLEAN
    OBVIOUS
  <2>3. fetch' \in Fetched /\ (fetch'.rev = fetch.rev \/ fetch'.rev = 0)
    BY <2>1, <2>2, NoFetchShape DEF ListTypes
  <2>4. fetch'.rev <= rev
    BY <1>a, <2>3 DEF ListTypes
  <2> QED BY <1>3, <1>7, <2>3, <2>4
<1>8. CASE SelectProject
  <2>1. PICK v : Observed(v) /\ UNCHANGED <<rows, rev, own, seen, stale>>
    BY <1>8 DEF SelectProject
  <2> QED BY <1>7, <2>1
<1>9. ASSUME NEW v, Navigate(v) PROVE ListTypes'
  BY <1>7, <1>9 DEF Navigate
<1>10. ASSUME NEW c \in calls, Succeeds(c) PROVE ListTypes'
  <2>1. rows' = rows
    BY <1>10 DEF Succeeds, FilterCreated, FilterUpdated, FilterDeleted, ObjectAnswers, MacroAnswers, TemplateCreated,
         TemplateImported, FlagToggled, TemplateDeleted, ProjectCreated, PadSaved, PadDeleted, KeyCreated, KeyRevoked,
         UserCreated, UsersChanged, MemberAdded, MembersChanged, WebhookAnswers, SecretCreated, FormAnswered,
         EditorAnswered, ListAnswered, AskAnswered, PadAnswered, Answered
  <2>2. Report(c)
    BY <1>10, SucceedsReports
  <2>3. own' \in {own, rev} /\ rev' = rev /\ seen' = seen
    BY <2>2 DEF Report, Invalidate, Unlisted
  <2>4. (fetch' = fetch \/ fetch' = Asked) /\ (stale' = stale \/ stale' = TRUE)
    BY <2>2 DEF Report, Invalidate, Unlisted
  <2>5. stale' \in BOOLEAN
    BY <2>4 DEF ListTypes
  <2>6. fetch' \in Fetched /\ fetch'.rev <= rev
    BY <1>a, <2>4, AskedFetch DEF ListTypes
  <2>7. own' \in 0..rev
    BY <1>a, <2>3 DEF ListTypes
  <2> QED BY <2>1, <2>3, <2>5, <2>6, <2>7 DEF ListTypes
<1>11. ASSUME NEW r \in Rows, NEW t \in 0..2, Change(r, t), UNCHANGED <<own, seen, fetch, stale>> PROVE ListTypes'
  <2>1. rows' \in Contents /\ rev' = rev + 1
    BY <1>11 DEF Change, ListTypes, Contents
  <2>2. stale' \in BOOLEAN
    BY <1>11 DEF ListTypes
  <2>3. rev' \in Nat /\ own' \in 0..rev' /\ seen'.rev <= rev' /\ fetch'.rev <= rev'
    BY <1>a, <1>11, <2>1 DEF ListTypes
  <2> QED BY <1>11, <2>1, <2>2, <2>3 DEF ListTypes
<1>12. ASSUME NEW c \in calls, NEW r \in Rows, Applied(c, r) PROVE ListTypes'
  <2>1. c.text \in 0..2
    BY DEF CallTypes, Call
  <2>2. PICK t \in 0..2 : Change(r, t)
    BY <1>12, <2>1 DEF Applied
  <2> QED BY <1>11, <1>12, <2>2 DEF Applied
<1>13. ASSUME NEW r \in Rows, NEW t \in {0, 2}, Elsewhere(r, t) PROVE ListTypes'
  BY <1>11, <1>13 DEF Elsewhere
<1> QED BY <1>2, <1>4, <1>5, <1>6, <1>8, <1>9, <1>10, <1>12, <1>13 DEF Next

ConsoleInv == ScreenInv /\ PlaceTypes /\ ListTypes

LEMMA InitConsole == Init => ConsoleInv
<1> SUFFICES ASSUME Init PROVE ConsoleInv
  OBVIOUS
<1>1. area \in Areas /\ view = "away" /\ changes = 0
  BY DEF Init
<1>2. PlaceTypes
  BY <1>1, BoundsAssumption DEF PlaceTypes
<1>3. seen \in Seen /\ seen.rev = 0
  BY NoFetchShape DEF Init, Seen
<1>4. rows \in Contents
  BY RowsAssumption DEF Init, Contents
<1>5. ListTypes
  <2>1. stale \in BOOLEAN
    BY DEF Init
  <2>2. rev = 0 /\ own = 0 /\ fetch = NoFetch
    BY DEF Init
  <2>4. fetch.rev = 0
    BY <2>2, NoFetchShape
  <2>3. rev \in Nat /\ own \in 0..rev /\ seen.rev <= rev /\ fetch.rev <= rev
    BY <1>3, <2>2, <2>4
  <2> QED BY <1>3, <1>4, <2>1, <2>2, <2>3, NoFetchShape DEF ListTypes
<1> QED BY <1>2, <1>5, InitScreen DEF ConsoleInv

LEMMA ConsoleKeeps == ConsoleInv /\ [Next]_vars => ConsoleInv'
<1> SUFFICES ASSUME ConsoleInv, [Next]_vars PROVE ConsoleInv'
  OBVIOUS
<1>1. area \in Areas /\ CallTypes /\ ListTypes /\ PlaceTypes /\ ScreenInv
  BY DEF ConsoleInv, ScreenInv
<1>2. seen \in Seen
  BY <1>1 DEF ListTypes
<1>3. view = "projects" => area = "catalog"
  BY <1>1 DEF PlaceTypes
<1> QED BY <1>1, <1>2, <1>3, ScreenKeeps, PlaceKeeps, ListKeeps DEF ConsoleInv

\* Every variable of a page keeps its shape, for any rows and bounds.
THEOREM TypeCorrect == Spec => []TypeOK
<1>1. ConsoleInv => TypeOK
  BY Parts DEF ConsoleInv, ScreenInv
<1> QED BY <1>1, InitConsole, ConsoleKeeps, PTL DEF Spec

\* Text typed into a form, an inline editor or the panel is there until the
\* user sends it or gives it up, whatever is answered or refreshed meanwhile.
THEOREM TextsKept == Spec => []EditsKept
<1>1. ConsoleInv => EditsKept
  BY DEF ConsoleInv, ScreenInv, EditInv, EditsKept
<1> QED BY <1>1, InitConsole, ConsoleKeeps, PTL DEF Spec

\* No answer puts another key in place of the one on screen.
THEOREM KeyStays == Spec => KeyStaysRevealed
<1>1. ASSUME ConsoleInv, [Next]_vars
      PROVE  reveal # None /\ reveal' # reveal => reveal' = None
  <2>1. reveal = None \/ (area = "keys" /\ form.kind = None)
    BY <1>1 DEF ConsoleInv, ScreenInv, KeyInv
  <2>2. CASE reveal = None
    BY <2>2
  <2>3. CASE area = "keys" /\ form.kind = None
    <3>1. \A c \in calls : ~Awaited(c, "create")
      BY <1>1, <2>3 DEF ConsoleInv, ScreenInv, KeyInv, None
    <3>2. reveal' \in {reveal, None}
      <4>1. CASE Gesture
        BY <4>1 DEF Gesture, ToggleFilterForm, SubmitFilter, EditFilters, DeleteFilter, ToggleObjectForm, SubmitObject,
             EditObjects, ToggleMacroForm, SubmitMacro, EditMacros, Search, ToggleTemplateForm, ToggleImport, PickFile,
             SubmitTemplate, ImportTemplate, ToggleFlag, AskDeleteTemplate, CancelDeleteTemplate, DeleteTemplate,
             CreateProject, EditProject, DeleteProject, NewPad, RevertPad, SubmitPad, AskDeletePad, DeletePad, SelectPad,
             OpenKeyDialog, CloseKeyDialog, SubmitKey, CloseReveal, CancelRevoke, RevokeKey, AskRevoke, ToggleUserForm,
             SubmitUser, DuplicateUser, ChangeUsers, AddMember, ChangeMembers, ToggleWebhookForm, SubmitWebhook,
             EditWebhooks, ToggleSecretForm, SubmitSecret, DeleteSecret, TypeForm, TypeEditor, TypePad, Forms, SubmitForm,
             SendFromList, AskAbout, ToggleEditor, SaveEditor, ToggleTabForm, SubmitTabForm, DeleteFromTab, screen
      <4>2. ASSUME NEW c \in calls, Succeeds(c) PROVE reveal' \in {reveal, None}
        <5>1. ~Received(c) \/ c.kind # "create"
          BY <3>1 DEF Received, Awaited
        <5> QED BY <4>2, <5>1 DEF Succeeds, FilterCreated, FilterUpdated, FilterDeleted, ObjectAnswers, MacroAnswers,
             TemplateCreated, TemplateImported, FlagToggled, TemplateDeleted, ProjectCreated, PadSaved, PadDeleted,
             KeyCreated, KeyRevoked, UserCreated, UsersChanged, MemberAdded, MembersChanged, WebhookAnswers,
             SecretCreated, FormAnswered, EditorAnswered, ListAnswered, AskAnswered, PadAnswered, Answered, Blank
      <4>3. ASSUME NEW v, Navigate(v) PROVE reveal' \in {reveal, None}
        BY <4>3 DEF Navigate, Blank
      <4>4. CASE \/ Ask \/ Read \/ Land \/ FetchFails \/ SelectProject \/ UNCHANGED vars
                 \/ \E c \in calls : CallFails(c) \/ ProjectApplied(c) \/ \E r \in Rows : Applied(c, r)
                 \/ \E r \in Rows, t \in {0, 2} : Elsewhere(r, t)
        BY <4>4 DEF Ask, Read, Land, FetchFails, SelectProject, CallFails, ProjectApplied, Applied, Elsewhere, vars, screen
      <4> QED BY <1>1, <4>1, <4>2, <4>3, <4>4 DEF Next
    <3> QED BY <3>2
  <2> QED BY <2>1, <2>2, <2>3
<1>2. ConsoleInv /\ [Next]_vars => (reveal # None /\ reveal' # reveal => reveal' = None)
  BY <1>1
<1> QED BY <1>2, InitConsole, ConsoleKeeps, PTL DEF Spec, KeyStaysRevealed

=============================================================================
