------------------------- MODULE RenderPipelineProofs -------------------------
(***************************************************************************)
(* The history is truthful, durable before anybody is told, and permanent, *)
(* for any number of requests, webhooks, commits and crashes.              *)
(***************************************************************************)
EXTENDS RenderPipeline, TLAPS

Reqs == [pc : Labels, persist : BOOLEAN, sha : 0..MaxSha, body : 0..MaxSha, todo : SUBSET Hooks]
Sessions == [history : SUBSET HistoryRow, deliveries : SUBSET Dispatches]
Answers == {"none", "200", "404", "422", "500", "502", "lost"}

HasRows(r) == \E row \in history : row.id = r
Called(r) == \E d \in calls : d.req = r
Waiting(r) == \E d \in tasks : d.req = r

BeforeCommit == {"idle", "resolving", "reading", "environment", "rendering", "flushed"}

\* What is true of a request wherever it is: nothing of it is stored, sent or
\* answered before its commit; once it is past the commit exactly a persisting
\* request has a row; only what was answered 200 has background tasks.
Consistent(r) ==
    /\ req[r].pc \in BeforeCommit => outcome[r] = "none" /\ ~HasRows(r) /\ ~Called(r)
    /\ req[r].pc \in {"environment", "rendering"} => req[r].sha = req[r].body
    /\ req[r].pc = "flushed" => req[r].persist /\ session[r].history # {}
    /\ req[r].pc # "flushed" => session[r].history = {}
    /\ req[r].pc \in {"dispatch", "blocking", "responded"} => (req[r].persist <=> HasRows(r))
    /\ req[r].pc \in {"dispatch", "blocking"} => outcome[r] = "none"
    /\ req[r].pc = "responded" => outcome[r] = "200"
    /\ req[r].pc = "over" =>
         /\ outcome[r] # "none"
         /\ outcome[r] \in {"200", "502"} => (req[r].persist <=> HasRows(r))
         /\ outcome[r] \in {"404", "422"} \/ ~req[r].persist => ~HasRows(r)
    /\ Waiting(r) => outcome[r] = "200"
    /\ Called(r) /\ req[r].persist => HasRows(r)

\* What rows say of themselves, committed and not.
RowsTruthful ==
    /\ \A row \in history : row.sha = row.body
    /\ \A r \in Requests : \A row \in session[r].history : row.id = r /\ row.sha = row.body

PipelineInv == TypeOK /\ RowsTruthful /\ \A r \in Requests : Consistent(r)

\* A step of one request: what it does to the others is nothing.
LEMMA OneRequest ==
    ASSUME PipelineInv, NEW r \in Requests,
           NEW c \in Reqs, req' = [req EXCEPT ![r] = c],
           NEW s \in Sessions, session' = [session EXCEPT ![r] = s],
           NEW o \in Answers, outcome' = [outcome EXCEPT ![r] = o],
           \A row \in s.history : row.id = r /\ row.sha = row.body,
           history \subseteq history', history' \subseteq HistoryRow,
           \A row \in history' \ history : row.id = r /\ row.sha = row.body,
           calls \subseteq calls', tasks \subseteq tasks',
           calls' \subseteq Dispatches, tasks' \subseteq Dispatches,
           \A d \in calls' \ calls : d.req = r, \A d \in tasks' \ tasks : d.req = r,
           deliveries' \subseteq Dispatches,
           UNCHANGED <<template, file, crashes>>,
           Consistent(r)'
    PROVE  PipelineInv'
<1>1. req \in [Requests -> Reqs] /\ session \in [Requests -> Sessions] /\ outcome \in [Requests -> Answers]
  BY DEF PipelineInv, TypeOK, Reqs, Sessions, Answers
<1>2. req' \in [Requests -> Reqs] /\ session' \in [Requests -> Sessions] /\ outcome' \in [Requests -> Answers]
  BY <1>1
<1>3. TypeOK'
  BY <1>2 DEF PipelineInv, TypeOK, Reqs, Sessions, Answers
<1>4. RowsTruthful'
  BY <1>1 DEF PipelineInv, RowsTruthful
<1>5. ASSUME NEW q \in Requests, q # r
      PROVE  Consistent(q)'
  <2>1. req'[q] = req[q] /\ session'[q] = session[q] /\ outcome'[q] = outcome[q]
    BY <1>1, <1>5
  <2>2. (HasRows(q)' <=> HasRows(q)) /\ (Called(q)' <=> Called(q)) /\ (Waiting(q)' <=> Waiting(q))
    BY <1>5 DEF HasRows, Called, Waiting
  <2>3. Consistent(q)
    BY DEF PipelineInv
  <2> QED BY <2>1, <2>2, <2>3 DEF Consistent
<1> QED BY <1>3, <1>4, <1>5 DEF PipelineInv

LEMMA InitPipeline == Init => PipelineInv
<1> SUFFICES ASSUME Init PROVE PipelineInv
  OBVIOUS
<1>1. EmptySession \in Sessions /\ EmptySession.history = {}
  BY DEF EmptySession, Sessions
<1>2. NewRequest \in Reqs /\ NewRequest.pc = "idle"
  BY BoundAssumption DEF NewRequest, Reqs, Labels
<1>3. TypeOK
  BY <1>1, <1>2, BoundAssumption DEF Init, TypeOK, Reqs, Sessions
<1>4. RowsTruthful
  BY <1>1 DEF Init, RowsTruthful
<1>5. ASSUME NEW r \in Requests PROVE Consistent(r)
  BY <1>1, <1>2 DEF Init, Consistent, HasRows, Called, Waiting
<1> QED BY <1>3, <1>4, <1>5 DEF PipelineInv

\* The facts of the invariant about one request.
LEMMA Facts ==
    ASSUME PipelineInv, NEW r \in Requests
    PROVE  /\ req \in [Requests -> Reqs] /\ session \in [Requests -> Sessions]
           /\ outcome \in [Requests -> Answers]
           /\ req[r] \in Reqs /\ session[r] \in Sessions /\ outcome[r] \in Answers
           /\ history \subseteq HistoryRow /\ calls \subseteq Dispatches
           /\ tasks \subseteq Dispatches /\ deliveries \subseteq Dispatches
           /\ EmptySession \in Sessions /\ EmptySession.history = {}
           /\ \A row \in session[r].history : row.id = r /\ row.sha = row.body
           /\ Consistent(r)
  BY DEF PipelineInv, TypeOK, RowsTruthful, Reqs, Sessions, Answers, EmptySession

\* An exception before the commit, and one of a gate.
LEMMA FailKeeps ==
    ASSUME PipelineInv, NEW r \in Requests, NEW code \in {"404", "422", "500", "502"}, Fail(r, code),
           UNCHANGED <<template, file, history, deliveries, tasks, crashes>>,
           \/ req[r].pc \in BeforeCommit /\ code # "502" /\ calls' = calls
           \/ /\ req[r].pc = "blocking" /\ code \notin {"404", "422"}
              /\ calls \subseteq calls' /\ calls' \subseteq Dispatches /\ \A d \in calls' \ calls : d.req = r
    PROVE  PipelineInv'
<1> DEFINE c == Ended(r)
<1>1. c \in Reqs /\ c.pc = "over" /\ c.persist = req[r].persist
  <2>1. NewRequest \in Reqs
    BY BoundAssumption DEF NewRequest, Reqs, Labels
  <2>2. req[r].persist \in BOOLEAN
    BY Facts DEF Reqs
  <2> QED BY <2>1, <2>2 DEF Ended, Reqs, Labels
<1>2. req' = [req EXCEPT ![r] = c] /\ session' = [session EXCEPT ![r] = EmptySession]
      /\ outcome' = [outcome EXCEPT ![r] = code]
  BY DEF Fail
<1> HIDE DEF c
<1>3. req'[r] = c /\ session'[r] = EmptySession /\ outcome'[r] = code
  BY <1>2, Facts
<1>4. (HasRows(r)' <=> HasRows(r)) /\ (Waiting(r)' <=> Waiting(r))
  BY DEF HasRows, Waiting
<1>5. Consistent(r) /\ Consistent(r)'
  <2>1. Consistent(r) /\ EmptySession.history = {}
    BY Facts
  <2>2. CASE req[r].pc \in BeforeCommit /\ code # "502" /\ calls' = calls
    <3>1. ~HasRows(r) /\ ~Called(r) /\ ~Waiting(r) /\ (Called(r)' <=> Called(r))
      BY <2>1, <2>2 DEF Consistent, Called
    <3> QED BY <1>1, <1>3, <1>4, <2>1, <2>2, <3>1 DEF Consistent, BeforeCommit
  <2>3. CASE req[r].pc = "blocking" /\ code \notin {"404", "422"}
    <3>1. (req[r].persist <=> HasRows(r)) /\ ~Waiting(r)
      BY <2>1, <2>3 DEF Consistent
    <3> QED BY <1>1, <1>3, <1>4, <2>1, <2>3, <3>1 DEF Consistent, BeforeCommit
  <2> QED BY <2>1, <2>2, <2>3
<1>6. code \in Answers
  BY DEF Answers
<1>7. calls \subseteq calls' /\ calls' \subseteq Dispatches /\ \A d \in calls' \ calls : d.req = r
  BY Facts
<1> QED BY <1>1, <1>2, <1>5, <1>6, <1>7, OneRequest, Facts

\* A step to another label that stores, sends and answers nothing.
LEMMA MoveKeeps ==
    ASSUME PipelineInv, NEW r \in Requests, NEW c \in Reqs, req' = [req EXCEPT ![r] = c],
           UNCHANGED <<template, file, history, deliveries, session, outcome, tasks, calls, crashes>>,
           c.persist = req[r].persist \/ req[r].pc = "idle",
           \/ req[r].pc \in BeforeCommit \ {"flushed"} /\ c.pc \in BeforeCommit \ {"flushed"}
           \/ req[r].pc \in BeforeCommit \ {"flushed"} /\ c.pc = "dispatch" /\ ~req[r].persist
              /\ req[r].pc # "idle"
           \/ req[r].pc = "dispatch" /\ c.pc = "blocking",
           c.pc \in {"environment", "rendering"} => c.sha = c.body
    PROVE  PipelineInv'
<1>1. req'[r] = c /\ session'[r] = session[r] /\ outcome'[r] = outcome[r]
  BY Facts
<1>2. (HasRows(r)' <=> HasRows(r)) /\ (Waiting(r)' <=> Waiting(r)) /\ (Called(r)' <=> Called(r))
  BY DEF HasRows, Waiting, Called
<1>3. Consistent(r)'
  <2>1. Consistent(r) /\ req[r].persist \in BOOLEAN /\ c.persist \in BOOLEAN
    BY Facts DEF Reqs
  <2>2. CASE req[r].pc \in BeforeCommit \ {"flushed"} /\ c.pc \in BeforeCommit \ {"flushed"}
    BY <1>1, <1>2, <2>1, <2>2 DEF Consistent, BeforeCommit
  <2>3. CASE /\ req[r].pc \in BeforeCommit \ {"flushed"} /\ c.pc = "dispatch"
             /\ ~req[r].persist /\ req[r].pc # "idle"
    BY <1>1, <1>2, <2>1, <2>3 DEF Consistent, BeforeCommit
  <2>4. CASE req[r].pc = "dispatch" /\ c.pc = "blocking"
    BY <1>1, <1>2, <2>1, <2>4 DEF Consistent, BeforeCommit
  <2> QED BY <2>2, <2>3, <2>4
<1>4. session' = [session EXCEPT ![r] = session[r]] /\ outcome' = [outcome EXCEPT ![r] = outcome[r]]
  BY Facts
<1>5. /\ session[r] \in Sessions /\ outcome[r] \in Answers
      /\ \A row \in session[r].history : row.id = r /\ row.sha = row.body
      /\ history' \subseteq HistoryRow /\ calls' \subseteq Dispatches
      /\ tasks' \subseteq Dispatches /\ deliveries' \subseteq Dispatches
  BY Facts
<1> QED BY <1>3, <1>4, <1>5, OneRequest

\* The request's own steps, in the order of the code.
LEMMA StartKeeps ==
    ASSUME PipelineInv, NEW r \in Requests, NEW persist \in BOOLEAN,
           StartRender(r, persist) \/ \E row \in history : StartReRender(r, row, persist)
    PROVE  PipelineInv'
<1> DEFINE c == [req[r] EXCEPT !.pc = "resolving", !.persist = persist]
<1>1. req[r].pc = "idle" /\ req[r] \in Reqs
  BY Facts DEF StartRender, StartReRender
<1>2. c \in Reqs /\ c.pc = "resolving"
  BY <1>1 DEF Reqs, Labels
<1>3. CASE Fail(r, "422") /\ UNCHANGED <<template, file, history, deliveries, tasks, calls, crashes>>
  BY <1>1, <1>3, FailKeeps DEF BeforeCommit
<1>4. CASE /\ req' = [req EXCEPT ![r].pc = "resolving", ![r].persist = persist]
           /\ UNCHANGED <<template, file, history, deliveries, session, outcome, tasks, calls, crashes>>
  <2>1. req' = [req EXCEPT ![r] = c]
    BY <1>4
  <2> HIDE DEF c
  <2> QED BY <1>1, <1>2, <1>4, <2>1, MoveKeeps DEF BeforeCommit
<1> QED BY <1>3, <1>4 DEF StartRender, StartReRender

LEMMA GotoKeeps ==
    ASSUME PipelineInv, NEW r \in Requests, NEW label \in {"reading", "rendering", "dispatch"}, Goto(r, label),
           UNCHANGED <<template, file, history, deliveries, session, outcome, tasks, calls, crashes>>,
           \/ label = "reading" /\ req[r].pc = "resolving"
           \/ label = "rendering" /\ req[r].pc = "environment"
           \/ label = "dispatch" /\ req[r].pc = "rendering" /\ ~req[r].persist
    PROVE  PipelineInv'
<1> DEFINE c == [req[r] EXCEPT !.pc = label]
<1>1. req[r] \in Reqs /\ Consistent(r)
  BY Facts
<1>2. c \in Reqs /\ c.pc = label /\ c.persist = req[r].persist /\ c.sha = req[r].sha /\ c.body = req[r].body
  BY <1>1 DEF Reqs, Labels
<1>3. req' = [req EXCEPT ![r] = c]
  BY DEF Goto
<1>4. req[r].pc = "environment" => req[r].sha = req[r].body
  BY <1>1 DEF Consistent
<1> HIDE DEF c
<1> QED BY <1>2, <1>3, <1>4, MoveKeeps DEF BeforeCommit

LEMMA LoadTemplateKeeps ==
    ASSUME PipelineInv, NEW r \in Requests, LoadTemplate(r)
    PROVE  PipelineInv'
<1>1. CASE Goto(r, "reading") /\ UNCHANGED <<outcome, session>>
  BY <1>1, GotoKeeps DEF LoadTemplate
<1>2. CASE Fail(r, "404")
  BY <1>2, FailKeeps DEF LoadTemplate, BeforeCommit
<1> QED BY <1>1, <1>2 DEF LoadTemplate

LEMMA ReadKeeps ==
    ASSUME PipelineInv, NEW r \in Requests, ReadBodyAndSha(r)
    PROVE  PipelineInv'
<1> DEFINE c == [req[r] EXCEPT !.pc = "environment", !.body = file, !.sha = file]
<1>1. CASE Fail(r, "422") \/ Fail(r, "404")
  BY <1>1, FailKeeps DEF ReadBodyAndSha, BeforeCommit
<1>2. CASE /\ req' = [req EXCEPT ![r].pc = "environment", ![r].body = file, ![r].sha = file]
           /\ UNCHANGED <<outcome, session>>
  <2>1. req[r] \in Reqs /\ file \in 0..MaxSha
    BY Facts DEF PipelineInv, TypeOK
  <2>2. c \in Reqs /\ c.pc = "environment" /\ c.persist = req[r].persist /\ c.sha = c.body
    BY <2>1 DEF Reqs, Labels
  <2>3. req' = [req EXCEPT ![r] = c]
    BY <1>2
  <2>4. /\ req[r].pc = "reading"
        /\ UNCHANGED <<template, file, history, deliveries, tasks, calls, crashes>>
    BY DEF ReadBodyAndSha
  <2> HIDE DEF c
  <2> QED BY <1>2, <2>2, <2>3, <2>4, MoveKeeps DEF BeforeCommit
<1> QED BY <1>1, <1>2 DEF ReadBodyAndSha

LEMMA EnvironmentKeeps ==
    ASSUME PipelineInv, NEW r \in Requests, GetEnvironment(r) \/ RenderFails(r)
    PROVE  PipelineInv'
<1>1. CASE GetEnvironment(r) /\ Goto(r, "rendering") /\ UNCHANGED <<outcome, session>>
  BY <1>1, GotoKeeps DEF GetEnvironment
<1>2. CASE GetEnvironment(r) /\ Fail(r, "500")
  BY <1>2, FailKeeps DEF GetEnvironment, BeforeCommit
<1>3. CASE RenderFails(r)
  <2>1. PICK code \in {"500", "422"} : Fail(r, code)
    BY <1>3 DEF RenderFails
  <2> QED BY <1>3, <2>1, FailKeeps DEF RenderFails, BeforeCommit
<1> QED BY <1>1, <1>2, <1>3 DEF GetEnvironment

LEMMA RenderBodyKeeps ==
    ASSUME PipelineInv, NEW r \in Requests, RenderBody(r)
    PROVE  PipelineInv'
<1>0. /\ req[r] \in Reqs /\ Consistent(r) /\ req[r].pc = "rendering"
      /\ UNCHANGED <<template, file, history, deliveries, tasks, calls, crashes>>
  BY Facts DEF RenderBody
<1>1. CASE req[r].persist /\ template
  <2> DEFINE row == [id |-> r, sha |-> req[r].sha, body |-> req[r].body, linked |-> TRUE, status |-> "success"]
             s == [session[r] EXCEPT !.history = {row}]
             c == [req[r] EXCEPT !.pc = "flushed"]
  <2>1. row \in HistoryRow /\ row.id = r /\ row.sha = row.body
    BY <1>0 DEF HistoryRow, Reqs, Consistent
  <2>2. req' = [req EXCEPT ![r] = c] /\ session' = [session EXCEPT ![r] = s] /\ UNCHANGED outcome
    BY <1>1 DEF RenderBody, Goto
  <2> HIDE DEF row
  <2>3. s \in Sessions /\ s.history = {row}
    BY <2>1, Facts DEF Sessions
  <2>4. c \in Reqs /\ c.pc = "flushed" /\ c.persist = req[r].persist
    BY <1>0 DEF Reqs, Labels
  <2> HIDE DEF s, c
  <2>5. req'[r] = c /\ session'[r] = s /\ outcome'[r] = outcome[r]
    BY <2>2, Facts
  <2>6. (HasRows(r)' <=> HasRows(r)) /\ (Waiting(r)' <=> Waiting(r)) /\ (Called(r)' <=> Called(r))
    BY <1>0 DEF HasRows, Waiting, Called
  <2>7. Consistent(r)'
    BY <1>0, <1>1, <2>3, <2>4, <2>5, <2>6 DEF Consistent, BeforeCommit
  <2>8. outcome' = [outcome EXCEPT ![r] = outcome[r]] /\ outcome[r] \in Answers
    BY <2>2, Facts
  <2>9. \A x \in s.history : x.id = r /\ x.sha = x.body
    BY <2>1, <2>3
  <2>10. /\ history' \subseteq HistoryRow /\ calls' \subseteq Dispatches
         /\ tasks' \subseteq Dispatches /\ deliveries' \subseteq Dispatches
    BY <1>0, Facts
  <2> QED BY <1>0, <2>2, <2>3, <2>4, <2>7, <2>8, <2>9, <2>10, OneRequest
<1>2. CASE Fail(r, "500")
  BY <1>0, <1>2, FailKeeps DEF BeforeCommit
<1>3. CASE ~req[r].persist
  BY <1>0, <1>3, GotoKeeps DEF RenderBody
<1> QED BY <1>1, <1>2, <1>3 DEF RenderBody

LEMMA CommitKeeps ==
    ASSUME PipelineInv, NEW r \in Requests, CommitHistory(r)
    PROVE  PipelineInv'
<1>1. CASE Fail(r, "500") /\ UNCHANGED <<history, deliveries>>
  BY <1>1, FailKeeps DEF CommitHistory, BeforeCommit
<1>2. CASE CommitRows(r) /\ Goto(r, "dispatch") /\ UNCHANGED outcome
  <2> DEFINE c == [req[r] EXCEPT !.pc = "dispatch"]
  <2>1. /\ req[r] \in Reqs /\ Consistent(r) /\ req[r].pc = "flushed" /\ req[r].persist
        /\ session[r].history # {} /\ outcome[r] = "none"
        /\ \A row \in session[r].history : row.id = r /\ row.sha = row.body
        /\ session[r].history \subseteq HistoryRow /\ session[r].deliveries \subseteq Dispatches
        /\ UNCHANGED <<template, file, tasks, calls, crashes>>
    BY <1>2, Facts DEF CommitHistory, Consistent, BeforeCommit, Sessions
  <2>2. c \in Reqs /\ c.pc = "dispatch" /\ c.persist = req[r].persist
    BY <2>1 DEF Reqs, Labels
  <2>3. req' = [req EXCEPT ![r] = c]
    BY <1>2 DEF Goto
  <2> HIDE DEF c
  <2>4. /\ history' = history \cup session[r].history
        /\ deliveries' = deliveries \cup session[r].deliveries
        /\ session' = [session EXCEPT ![r] = EmptySession]
    BY <1>2 DEF CommitRows
  <2>5. req'[r] = c /\ session'[r] = EmptySession /\ outcome'[r] = outcome[r]
    BY <1>2, <2>3, <2>4, Facts
  <2>6. HasRows(r)' /\ (Waiting(r)' <=> Waiting(r)) /\ (Called(r)' <=> Called(r))
    BY <2>1, <2>4 DEF HasRows, Waiting, Called
  <2>7. EmptySession \in Sessions /\ EmptySession.history = {}
    BY Facts
  <2>8. Consistent(r)'
    BY <2>1, <2>2, <2>5, <2>6, <2>7 DEF Consistent, BeforeCommit
  <2>9. outcome' = [outcome EXCEPT ![r] = outcome[r]] /\ outcome[r] \in Answers
    BY <1>2, Facts
  <2>10. /\ history' \subseteq HistoryRow /\ deliveries' \subseteq Dispatches
         /\ history \subseteq history' /\ \A row \in history' \ history : row.id = r /\ row.sha = row.body
         /\ calls' \subseteq Dispatches /\ tasks' \subseteq Dispatches
    BY <2>1, <2>4, Facts
  <2> QED BY <2>1, <2>2, <2>3, <2>4, <2>7, <2>8, <2>9, <2>10, OneRequest
<1> QED BY <1>1, <1>2 DEF CommitHistory

LEMMA LoadWebhooksKeeps ==
    ASSUME PipelineInv, NEW r \in Requests, LoadWebhooks(r)
    PROVE  PipelineInv'
<1> DEFINE c == [req[r] EXCEPT !.pc = "blocking", !.todo = InScope(r) \cap Blocking]
<1>1. req[r] \in Reqs
  BY Facts
<1>2. InScope(r) \cap Blocking \in SUBSET Hooks
  BY HookAssumption
<1>3. c \in Reqs /\ c.pc = "blocking" /\ c.persist = req[r].persist
  BY <1>1, <1>2 DEF Reqs, Labels
<1>4. req' = [req EXCEPT ![r] = c]
  BY DEF LoadWebhooks
<1> HIDE DEF c
<1> QED BY <1>3, <1>4, MoveKeeps DEF LoadWebhooks, BeforeCommit

LEMMA DeliveryTypes ==
    ASSUME PipelineInv, NEW d \in Dispatches, NEW o \in Outcomes
    PROVE  LET s == [session[d.req] EXCEPT !.deliveries = RecordDelivery(d, o)]
           IN  s \in Sessions /\ s.history = session[d.req].history
<1>1. d.req \in Requests
  BY DEF Dispatches
<1>2. session[d.req] \in Sessions
  BY <1>1, Facts
<1>3. RecordDelivery(d, o) \subseteq Dispatches
  BY <1>2 DEF RecordDelivery, Sessions
<1> QED BY <1>2, <1>3 DEF Sessions

LEMMA BlockingKeeps ==
    ASSUME PipelineInv, NEW r \in Requests, NEW h \in Hooks, NEW o \in Outcomes, BlockingDispatch(r, h, o)
    PROVE  PipelineInv'
<1> DEFINE d == [req |-> r, hook |-> h]
           s == [session[r] EXCEPT !.deliveries = RecordDelivery(d, o)]
           c == [req[r] EXCEPT !.todo = @ \ {h}]
<1>1. d \in Dispatches /\ d.req = r
  BY DEF Dispatches
<1>2. s \in Sessions /\ s.history = session[r].history
  BY <1>1, DeliveryTypes
<1>3. /\ req[r] \in Reqs /\ Consistent(r) /\ req[r].pc = "blocking"
      /\ UNCHANGED <<template, file, history, deliveries, tasks, crashes>>
      /\ calls' = calls \/ calls' = calls \cup {d}
  BY Facts DEF BlockingDispatch, Sent
<1>4. /\ calls \subseteq calls' /\ calls' \subseteq Dispatches /\ \A e \in calls' \ calls : e.req = r
      /\ history' \subseteq HistoryRow /\ tasks' \subseteq Dispatches /\ deliveries' \subseteq Dispatches
  BY <1>1, <1>3, Facts
<1>5. CASE \E code \in {"500", "502"} : Fail(r, code)
  BY <1>3, <1>4, <1>5, FailKeeps
<1>6. CASE /\ req' = [req EXCEPT ![r].todo = @ \ {h}]
           /\ session' = [session EXCEPT ![r].deliveries = RecordDelivery(d, o)]
           /\ UNCHANGED outcome
  <2>1. req' = [req EXCEPT ![r] = c] /\ session' = [session EXCEPT ![r] = s]
        /\ outcome' = [outcome EXCEPT ![r] = outcome[r]] /\ outcome[r] \in Answers
    BY <1>6, Facts
  <2>2. c \in Reqs /\ c.pc = "blocking" /\ c.persist = req[r].persist
    BY <1>3 DEF Reqs
  <2> HIDE DEF c, s
  <2>3. req'[r] = c /\ session'[r] = s /\ outcome'[r] = outcome[r]
    BY <2>1, Facts
  <2>4. (HasRows(r)' <=> HasRows(r)) /\ (Waiting(r)' <=> Waiting(r))
    BY <1>3 DEF HasRows, Waiting
  <2>5. Consistent(r)'
    BY <1>2, <1>3, <2>2, <2>3, <2>4 DEF Consistent, BeforeCommit
  <2>6. \A row \in s.history : row.id = r /\ row.sha = row.body
    BY <1>2, Facts
  <2> QED BY <1>2, <1>3, <1>4, <2>1, <2>2, <2>5, <2>6, OneRequest
<1> QED BY <1>5, <1>6 DEF BlockingDispatch

LEMMA RespondKeeps ==
    ASSUME PipelineInv, NEW r \in Requests, Respond(r)
    PROVE  PipelineInv'
<1> DEFINE c == [req[r] EXCEPT !.pc = "responded"]
           spawned == {[req |-> r, hook |-> h] : h \in InScope(r) \ Blocking}
<1>1. /\ req[r] \in Reqs /\ Consistent(r) /\ req[r].pc = "blocking" /\ session[r] \in Sessions
      /\ \A row \in session[r].history : row.id = r /\ row.sha = row.body
      /\ UNCHANGED <<template, file, history, deliveries, session, calls, crashes>>
      /\ tasks' = tasks \cup spawned /\ outcome' = [outcome EXCEPT ![r] = "200"]
      /\ req' = [req EXCEPT ![r] = c]
  BY Facts DEF Respond, Goto
<1>2. c \in Reqs /\ c.pc = "responded" /\ c.persist = req[r].persist
  BY <1>1 DEF Reqs, Labels
<1>3. spawned \subseteq Dispatches /\ \A d \in spawned : d.req = r
  BY HookAssumption DEF InScope, Dispatches
<1> HIDE DEF c, spawned
<1>4. req'[r] = c /\ session'[r] = session[r] /\ outcome'[r] = "200"
  BY <1>1, Facts
<1>5. (HasRows(r)' <=> HasRows(r)) /\ (Called(r)' <=> Called(r))
  BY <1>1 DEF HasRows, Called
<1>6. Consistent(r)'
  BY <1>1, <1>2, <1>4, <1>5 DEF Consistent, BeforeCommit
<1>7. session' = [session EXCEPT ![r] = session[r]] /\ "200" \in Answers
  BY <1>1, Facts DEF Answers
<1>8. /\ history' \subseteq HistoryRow /\ deliveries' \subseteq Dispatches /\ calls' \subseteq Dispatches
      /\ tasks \subseteq tasks' /\ tasks' \subseteq Dispatches /\ \A d \in tasks' \ tasks : d.req = r
  BY <1>1, <1>3, Facts
<1> QED BY <1>1, <1>2, <1>6, <1>7, <1>8, OneRequest

LEMMA CloseKeeps ==
    ASSUME PipelineInv, NEW r \in Requests, CloseSession(r)
    PROVE  PipelineInv'
<1> DEFINE c == [req[r] EXCEPT !.pc = "over"]
<1>1. /\ req[r] \in Reqs /\ Consistent(r) /\ req[r].pc = "responded"
      /\ UNCHANGED <<template, file, history, deliveries, outcome, tasks, calls, crashes>>
      /\ session' = [session EXCEPT ![r] = EmptySession] /\ req' = [req EXCEPT ![r] = c]
      /\ EmptySession \in Sessions /\ EmptySession.history = {}
  BY Facts DEF CloseSession, Goto
<1>2. c \in Reqs /\ c.pc = "over" /\ c.persist = req[r].persist
  BY <1>1 DEF Reqs, Labels
<1> HIDE DEF c
<1>3. req'[r] = c /\ session'[r] = EmptySession /\ outcome'[r] = outcome[r]
  BY <1>1, Facts
<1>4. (HasRows(r)' <=> HasRows(r)) /\ (Called(r)' <=> Called(r)) /\ (Waiting(r)' <=> Waiting(r))
  BY <1>1 DEF HasRows, Called, Waiting
<1>5. Consistent(r)'
  BY <1>1, <1>2, <1>3, <1>4 DEF Consistent, BeforeCommit
<1>6. outcome' = [outcome EXCEPT ![r] = outcome[r]] /\ outcome[r] \in Answers
  BY <1>1, Facts
<1>7. /\ history' \subseteq HistoryRow /\ deliveries' \subseteq Dispatches
      /\ calls' \subseteq Dispatches /\ tasks' \subseteq Dispatches
  BY <1>1, Facts
<1> QED BY <1>1, <1>2, <1>5, <1>6, <1>7, OneRequest

\* The steps that are not a request's own.
LEMMA WarnKeeps ==
    ASSUME PipelineInv, NEW d \in tasks, NEW o \in Outcomes, WarnDispatch(d, o)
    PROVE  PipelineInv'
<1> DEFINE r == d.req
           s == [session[r] EXCEPT !.deliveries = RecordDelivery(d, o)]
<1>1. d \in Dispatches /\ r \in Requests /\ tasks \subseteq Dispatches /\ calls \subseteq Dispatches
  BY DEF PipelineInv, TypeOK, Dispatches
<1>2. s \in Sessions /\ s.history = session[r].history
  BY <1>1, DeliveryTypes
<1>3. /\ tasks' = tasks \ {d} /\ (calls' = calls \/ calls' = calls \cup {d})
      /\ session' = [session EXCEPT ![r] = s]
      /\ UNCHANGED <<template, file, history, deliveries, req, outcome, crashes>>
  BY DEF WarnDispatch, Sent
<1> HIDE DEF s
<1>4. session \in [Requests -> Sessions]
  BY <1>1, Facts
<1>5. /\ session' \in [Requests -> Sessions] /\ session'[r] = s
      /\ \A q \in Requests : session'[q].history = session[q].history
  BY <1>1, <1>2, <1>3, <1>4
<1>6. TypeOK'
  BY <1>1, <1>3, <1>5 DEF PipelineInv, TypeOK, Sessions
<1>7. RowsTruthful'
  BY <1>3, <1>5 DEF PipelineInv, RowsTruthful
<1>8. ASSUME NEW q \in Requests PROVE Consistent(q)'
  <2>1. Consistent(q) /\ Consistent(r) /\ Waiting(r)
    BY <1>1 DEF PipelineInv, Waiting
  <2>2. (HasRows(q)' <=> HasRows(q)) /\ (Waiting(q)' => Waiting(q)) /\ req'[q] = req[q] /\ outcome'[q] = outcome[q]
    BY <1>3 DEF HasRows, Waiting
  <2>3. CASE q # r
    <3>1. Called(q)' <=> Called(q)
      BY <1>3, <2>3 DEF Called
    <3> QED BY <1>5, <2>1, <2>2, <3>1 DEF Consistent
  <2>4. CASE q = r
    <3>1. outcome[q] = "200"
      BY <2>1, <2>4 DEF Consistent
    <3>2. req[q].pc \notin BeforeCommit /\ req[q].pc \notin {"dispatch", "blocking"}
      BY <2>1, <3>1 DEF Consistent
    <3>3. req[q].pc \in {"responded", "over"}
      BY <3>2, Facts DEF Reqs, Labels, BeforeCommit
    <3>4. req[q].persist <=> HasRows(q)
      BY <2>1, <3>1, <3>3 DEF Consistent
    <3> QED BY <1>5, <2>1, <2>2, <3>1, <3>2, <3>3, <3>4 DEF Consistent
  <2> QED BY <2>3, <2>4
<1> QED BY <1>6, <1>7, <1>8 DEF PipelineInv

LEMMA TemplateKeeps ==
    ASSUME PipelineInv, EditTemplateFile \/ DeleteTemplateFile \/ DeleteTemplateRow
    PROVE  PipelineInv'
<1>1. /\ file' \in 0..MaxSha /\ template' \in BOOLEAN
      /\ UNCHANGED <<deliveries, session, req, outcome, tasks, calls, crashes>>
  <2>0. file \in 0..MaxSha /\ template \in BOOLEAN
    BY DEF PipelineInv, TypeOK
  <2>1. CASE EditTemplateFile
    <3>1. file' \in 0..MaxSha
      BY <2>1, BoundAssumption DEF EditTemplateFile
    <3> QED BY <2>0, <2>1, <3>1 DEF EditTemplateFile
  <2>2. CASE DeleteTemplateFile
    <3>1. file' \in 0..MaxSha
      BY <2>2, BoundAssumption DEF DeleteTemplateFile
    <3> QED BY <2>0, <2>2, <3>1 DEF DeleteTemplateFile
  <2>3. CASE DeleteTemplateRow
    BY <2>0, <2>3 DEF DeleteTemplateRow
  <2> QED BY <2>1, <2>2, <2>3
<1>2. \/ history' = history
      \/ history' = {[row EXCEPT !.linked = FALSE] : row \in history}
  BY DEF EditTemplateFile, DeleteTemplateFile, DeleteTemplateRow
<1>3. /\ history' \subseteq HistoryRow /\ \A row \in history' : row.sha = row.body
      /\ \A r \in Requests : HasRows(r)' <=> HasRows(r)
  <2>1. CASE history' = history
    BY <2>1 DEF PipelineInv, TypeOK, RowsTruthful, HasRows
  <2>2. CASE history' = {[row EXCEPT !.linked = FALSE] : row \in history}
    <3>1. ASSUME NEW row \in history
          PROVE  LET new == [row EXCEPT !.linked = FALSE]
                 IN  new \in HistoryRow /\ new.id = row.id /\ new.sha = new.body
      <4>1. row \in HistoryRow /\ row.sha = row.body
        BY DEF PipelineInv, TypeOK, RowsTruthful
      <4> QED BY <4>1 DEF HistoryRow
    <3> QED BY <2>2, <3>1 DEF HasRows
  <2> QED BY <1>2, <2>1, <2>2
<1>4. TypeOK'
  BY <1>1, <1>3 DEF PipelineInv, TypeOK
<1>5. RowsTruthful'
  BY <1>1, <1>3 DEF PipelineInv, RowsTruthful
<1>6. ASSUME NEW r \in Requests PROVE Consistent(r)'
  <2>1. (Called(r)' <=> Called(r)) /\ (Waiting(r)' <=> Waiting(r)) /\ Consistent(r)
    BY <1>1 DEF Called, Waiting, PipelineInv
  <2> QED BY <1>1, <1>3, <2>1 DEF Consistent
<1> QED BY <1>4, <1>5, <1>6 DEF PipelineInv

LEMMA CrashKeeps ==
    ASSUME PipelineInv, Crash
    PROVE  PipelineInv'
<1>1. /\ crashes' \in 0..MaxCrashes /\ tasks' = {}
      /\ UNCHANGED <<template, file, history, deliveries, calls>>
  BY BoundAssumption DEF Crash, PipelineInv, TypeOK
<1>2. ASSUME NEW r \in Requests
      PROVE  /\ session'[r] = EmptySession
             /\ req'[r] = IF InFlight(r) THEN Ended(r) ELSE req[r]
             /\ outcome'[r] = IF InFlight(r) /\ outcome[r] = "none" THEN "lost" ELSE outcome[r]
             /\ Ended(r) \in Reqs /\ Ended(r).pc = "over" /\ Ended(r).persist = req[r].persist
             /\ req[r].persist \in BOOLEAN
  <2>1. NewRequest \in Reqs
    BY BoundAssumption DEF NewRequest, Reqs, Labels
  <2>2. req[r].persist \in BOOLEAN
    BY Facts DEF Reqs
  <2>3. Ended(r) \in Reqs /\ Ended(r).pc = "over" /\ Ended(r).persist = req[r].persist
    BY <2>1, <2>2 DEF Ended, Reqs, Labels
  <2> QED BY <2>2, <2>3 DEF Crash
<1>3. EmptySession \in Sessions /\ EmptySession.history = {}
  BY DEF EmptySession, Sessions
<1>4. /\ session' \in [Requests -> Sessions] /\ req' \in [Requests -> Reqs]
      /\ outcome' \in [Requests -> Answers]
  <2>1. session' \in [Requests -> Sessions]
    BY <1>3 DEF Crash
  <2>2. \A r \in Requests : req'[r] \in Reqs /\ outcome'[r] \in Answers
    BY <1>2, Facts DEF Answers
  <2> QED BY <2>1, <2>2 DEF Crash
<1>5. TypeOK'
  BY <1>1, <1>4 DEF PipelineInv, TypeOK, Reqs, Sessions, Answers
<1>6. RowsTruthful'
  BY <1>1, <1>2, <1>3 DEF PipelineInv, RowsTruthful
<1>7. ASSUME NEW r \in Requests PROVE Consistent(r)'
  <2>1. (HasRows(r)' <=> HasRows(r)) /\ (Called(r)' <=> Called(r)) /\ ~Waiting(r)'
    BY <1>1 DEF HasRows, Called, Waiting
  <2>2. Consistent(r) /\ outcome[r] \in Answers /\ req[r] \in Reqs
    BY Facts
  <2>3. CASE ~InFlight(r)
    <3>1. req'[r] = req[r] /\ outcome'[r] = outcome[r] /\ session'[r].history = {}
      BY <1>2, <1>3, <2>3
    <3> QED BY <2>1, <2>2, <2>3, <3>1 DEF Consistent, InFlight, BeforeCommit
  <2>4. CASE InFlight(r) /\ outcome[r] = "none"
    <3>1. req'[r].pc = "over" /\ req'[r].persist = req[r].persist /\ outcome'[r] = "lost" /\ session'[r].history = {}
      BY <1>2, <1>3, <2>4
    <3>2. ~req[r].persist => ~HasRows(r)
      <4>1. req[r].pc \in BeforeCommit \cup {"dispatch", "blocking", "responded"}
        BY <2>2, <2>4 DEF InFlight, Reqs, Labels, BeforeCommit
      <4> QED BY <2>2, <4>1 DEF Consistent
    <3> QED BY <2>1, <2>2, <3>1, <3>2 DEF Consistent, BeforeCommit
  <2>5. CASE InFlight(r) /\ outcome[r] # "none"
    <3>1. req'[r].pc = "over" /\ req'[r].persist = req[r].persist /\ outcome'[r] = outcome[r] /\ session'[r].history = {}
      BY <1>2, <1>3, <2>5
    <3>2. req[r].pc = "responded"
      BY <2>2, <2>5 DEF Consistent, InFlight, Reqs, Labels, BeforeCommit
    <3>3. (req[r].persist <=> HasRows(r)) /\ outcome[r] = "200"
      BY <2>2, <3>2 DEF Consistent
    <3> QED BY <2>1, <3>1, <3>3 DEF Consistent, BeforeCommit
  <2> QED BY <2>3, <2>4, <2>5
<1> QED BY <1>5, <1>6, <1>7 DEF PipelineInv

LEMMA NextKeeps ==
    ASSUME PipelineInv, [Next]_vars
    PROVE  PipelineInv'
<1>1. ASSUME NEW r \in Requests, NEW persist \in BOOLEAN,
             StartRender(r, persist) \/ \E row \in history : StartReRender(r, row, persist)
      PROVE  PipelineInv'
  BY <1>1, StartKeeps
<1>2. ASSUME NEW r \in Requests, RequestStep(r)
      PROVE  PipelineInv'
  BY <1>2, LoadTemplateKeeps, ReadKeeps, EnvironmentKeeps, RenderBodyKeeps, CommitKeeps,
     LoadWebhooksKeeps, BlockingKeeps, RespondKeeps, CloseKeeps DEF RequestStep
<1>3. ASSUME NEW d \in tasks, TaskStep(d)
      PROVE  PipelineInv'
  BY <1>3, WarnKeeps DEF TaskStep
<1>4. CASE EditTemplateFile \/ DeleteTemplateFile \/ DeleteTemplateRow
  BY <1>4, TemplateKeeps
<1>5. CASE Crash
  BY <1>5, CrashKeeps
<1>6. CASE UNCHANGED vars
  BY <1>6 DEF vars, PipelineInv, TypeOK, RowsTruthful, Consistent, HasRows, Called, Waiting
<1> QED BY <1>1, <1>2, <1>3, <1>4, <1>5, <1>6 DEF Next

LEMMA Invariance == Spec => []PipelineInv
<1>1. Init => PipelineInv
  BY InitPipeline
<1>2. PipelineInv /\ [Next]_vars => PipelineInv'
  BY NextKeeps
<1> QED BY <1>1, <1>2, PTL DEF Spec

\* Every variable keeps its shape.
THEOREM TypeCorrect == Spec => []TypeOK
<1>1. PipelineInv => TypeOK
  BY DEF PipelineInv
<1> QED BY <1>1, Invariance, PTL

\* A webhook target told of a persisting render can find its row: the call is
\* made after the commit (render, step 9).
THEOREM CallsAfterCommit == Spec => []CallsFollowCommit
<1>1. PipelineInv => CallsFollowCommit
  <2> SUFFICES ASSUME PipelineInv, NEW d \in calls, req[d.req].persist
               PROVE  RowsOf(d.req) # {}
    BY DEF CallsFollowCommit
  <2>1. d.req \in Requests
    BY DEF PipelineInv, TypeOK, Dispatches
  <2>2. HasRows(d.req)
    BY <2>1 DEF PipelineInv, Consistent, Called
  <2> QED BY <2>2 DEF HasRows, RowsOf
<1> QED BY <1>1, Invariance, PTL

\* What a client was told of a render agrees with the stored rows, and a row
\* names the commit whose text was rendered.
THEOREM AnswersAgree == Spec => []AnswerMatchesHistory
<1>1. PipelineInv => AnswerMatchesHistory
  <2> SUFFICES ASSUME PipelineInv, NEW r \in Requests
               PROVE  /\ outcome[r] \in {"200", "502"} /\ req[r].persist => RowsOf(r) # {}
                      /\ outcome[r] \in {"404", "422"} \/ ~ req[r].persist => RowsOf(r) = {}
                      /\ \A row \in RowsOf(r) : row.sha = row.body
    BY DEF AnswerMatchesHistory
  <2>1. RowsOf(r) = {} <=> ~HasRows(r)
    BY DEF RowsOf, HasRows
  <2>2. \A row \in RowsOf(r) : row.sha = row.body
    BY DEF RowsOf, PipelineInv, RowsTruthful
  <2>3. Consistent(r) /\ req[r].pc \in BeforeCommit \cup {"dispatch", "blocking", "responded", "over"}
    BY Facts DEF Reqs, Labels, BeforeCommit
  <2>4. outcome[r] \in {"200", "502"} /\ req[r].persist => HasRows(r)
    BY <2>3 DEF Consistent
  <2>5. outcome[r] \in {"404", "422"} \/ ~ req[r].persist => ~HasRows(r)
    BY <2>3 DEF Consistent
  <2> QED BY <2>1, <2>2, <2>4, <2>5
<1> QED BY <1>1, Invariance, PTL

\* A render refused by a gate, or by anything before it, is not announced any
\* more: neither by later gates nor by background tasks.
THEOREM GatesStop == Spec => GateStopsDispatch
<1> DEFINE Step == \A d \in Dispatches :
                      d \in calls' \ calls => outcome[d.req] \notin {"502", "500", "404", "422"}
<1>1. PipelineInv /\ [Next]_vars => [Step]_vars
  <2> SUFFICES ASSUME PipelineInv, Next, NEW d \in Dispatches, d \in calls', d \notin calls
               PROVE  outcome[d.req] \notin {"502", "500", "404", "422"}
    BY DEF Next
  <2>0. d.req \in Requests /\ Consistent(d.req)
    BY DEF PipelineInv, Dispatches
  <2>1. ASSUME NEW r \in Requests, RequestStep(r)
        PROVE  outcome[d.req] = "none"
    <3>1. PICK h \in Hooks, o \in Outcomes : BlockingDispatch(r, h, o)
      BY <2>1 DEF RequestStep, LoadTemplate, ReadBodyAndSha, GetEnvironment, RenderFails, RenderBody,
         CommitHistory, LoadWebhooks, Respond, CloseSession
    <3>2. d = [req |-> r, hook |-> h]
      BY <3>1 DEF BlockingDispatch, Sent
    <3>3. d.req = r /\ req[r].pc = "blocking"
      BY <3>1, <3>2 DEF BlockingDispatch
    <3> QED BY <2>0, <3>3 DEF Consistent
  <2>2. ASSUME NEW e \in tasks, TaskStep(e)
        PROVE  outcome[d.req] = "200"
    <3>1. d = e
      BY <2>2 DEF TaskStep, WarnDispatch, Sent
    <3>2. Waiting(d.req)
      BY <3>1 DEF Waiting
    <3> QED BY <2>0, <3>2 DEF Consistent
  <2>3. ~(\E r \in Requests, persist \in BOOLEAN :
             StartRender(r, persist) \/ \E row \in history : StartReRender(r, row, persist))
    BY DEF StartRender, StartReRender
  <2>4. ~(EditTemplateFile \/ DeleteTemplateFile \/ DeleteTemplateRow \/ Crash)
    BY DEF EditTemplateFile, DeleteTemplateFile, DeleteTemplateRow, Crash
  <2>5. (\E r \in Requests : RequestStep(r)) \/ (\E e \in tasks : TaskStep(e))
    BY <2>3, <2>4 DEF Next
  <2> QED BY <2>1, <2>2, <2>5
<1>2. Spec => [][Step]_vars
  BY <1>1, Invariance, PTL DEF Spec
<1> QED BY <1>2 DEF GateStopsDispatch

\* A stored render survives every other request and the deletion of its
\* template, which only takes the link away.
THEOREM HistoryStays == Spec => HistoryIsPermanent
<1> DEFINE Step == \A row \in history : \E new \in history' :
                      new = row \/ new = [row EXCEPT !.linked = FALSE]
<1>1. [Next]_vars => [Step]_vars
  <2> SUFFICES ASSUME Next PROVE Step
    OBVIOUS
  <2>1. history \subseteq history' => Step
    OBVIOUS
  <2>2. ASSUME NEW r \in Requests, RequestStep(r)
        PROVE  history \subseteq history'
    BY <2>2 DEF RequestStep, LoadTemplate, ReadBodyAndSha, GetEnvironment, RenderFails, RenderBody,
       CommitHistory, CommitRows, LoadWebhooks, BlockingDispatch, Respond, CloseSession
  <2>3. ASSUME NEW r \in Requests, NEW persist \in BOOLEAN,
               StartRender(r, persist) \/ \E row \in history : StartReRender(r, row, persist)
        PROVE  history \subseteq history'
    BY <2>3 DEF StartRender, StartReRender
  <2>4. ASSUME NEW d \in tasks, TaskStep(d)
        PROVE  history \subseteq history'
    BY <2>4 DEF TaskStep, WarnDispatch
  <2>5. CASE EditTemplateFile \/ DeleteTemplateFile \/ Crash
    BY <2>1, <2>5 DEF EditTemplateFile, DeleteTemplateFile, Crash
  <2>6. CASE DeleteTemplateRow
    BY <2>6 DEF DeleteTemplateRow
  <2> QED BY <2>1, <2>2, <2>3, <2>4, <2>5, <2>6 DEF Next
<1>2. Spec => [][Step]_vars
  BY <1>1, PTL DEF Spec
<1> QED BY <1>2 DEF HistoryIsPermanent
=============================================================================
