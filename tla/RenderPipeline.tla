--------------------------- MODULE RenderPipeline ---------------------------
(***************************************************************************)
(* One render request from the route handler to the last webhook           *)
(* (services/template_renderer.py, services/webhook_dispatcher.py), on the *)
(* database session of the request (database.py): rows are added and       *)
(* flushed to the session, become durable at commit, and vanish when the   *)
(* session closes without one.  Template edits and deletions, other        *)
(* renders and a crash of the process interleave at every await.           *)
(*                                                                         *)
(* There is one template; its file is abstracted to the number of the      *)
(* commit that last touched it.  What a datasource, a parameter or the     *)
(* Jinja2 engine can do to a request is the choice between going on and    *)
(* the error the code raises.                                              *)
(***************************************************************************)
EXTENDS Naturals, FiniteSets

CONSTANTS
    Requests,   \* render attempts; each generates at most one render id
    Hooks,      \* the active webhooks in scope of the template
    Blocking,   \* those with on_error = "block"; the rest are "warn"
    Always,     \* those with trigger_on = "always"; the rest are "persist"
    MaxSha,     \* bound on commits to the template file
    MaxCrashes  \* bound on crashes of the process

ASSUME HookAssumption == Blocking \subseteq Hooks /\ Always \subseteq Hooks
ASSUME BoundAssumption == MaxSha \in Nat \ {0} /\ MaxCrashes \in Nat

VARIABLES
    template,    \* TRUE while the template row exists
    file,        \* last commit of the template file, 0 when it is absent
    history,     \* committed render_history rows
    deliveries,  \* committed webhook_deliveries rows
    session,     \* the uncommitted rows of each request's session
    req,         \* where each request is
    outcome,     \* what the client was told
    tasks,       \* background warn dispatches (asyncio.create_task)
    calls,       \* HTTP requests the webhook targets received
    crashes

vars == <<template, file, history, deliveries, session, req, outcome, tasks,
          calls, crashes>>

Dispatches == [req : Requests, hook : Hooks]

\* body is the commit the rendered body came from, sha what the row says;
\* linked is FALSE once template_id was set to NULL by the deletion.
HistoryRow == [id : Requests, sha : 0..MaxSha, body : 0..MaxSha, linked : BOOLEAN,
               status : {"success", "error"}]

EmptySession == [history |-> {}, deliveries |-> {}]
NewRequest == [pc |-> "idle", persist |-> FALSE, sha |-> 0, body |-> 0, todo |-> {}]

Init ==
    /\ template = TRUE
    /\ file = 1
    /\ history = {}
    /\ deliveries = {}
    /\ session = [r \in Requests |-> EmptySession]
    /\ req = [r \in Requests |-> NewRequest]
    /\ outcome = [r \in Requests |-> "none"]
    /\ tasks = {}
    /\ calls = {}
    /\ crashes = 0
-----------------------------------------------------------------------------
(* The request's own steps.                                                *)

Goto(r, label) == req' = [req EXCEPT ![r].pc = label]

\* What is left of a request that ended: whether it was to persist.
Ended(r) == [NewRequest EXCEPT !.pc = "over", !.persist = req[r].persist]

\* Faulty variant: the exception is swallowed on its way to the client.
FailSilently(r, code) ==
    /\ req' = [req EXCEPT ![r] = Ended(r)]
    /\ session' = [session EXCEPT ![r] = EmptySession]
    /\ UNCHANGED outcome

\* The handler raises: get_db rolls back and closes the session.
Fail(r, code) ==
    /\ req' = [req EXCEPT ![r] = Ended(r)]
    /\ outcome' = [outcome EXCEPT ![r] = code]
    /\ session' = [session EXCEPT ![r] = EmptySession]

StartRender(r, persist) ==
    /\ req[r].pc = "idle"
    /\ req' = [req EXCEPT ![r].pc = "resolving", ![r].persist = persist]
    /\ UNCHANGED <<template, file, history, deliveries, session, outcome, tasks,
                   calls, crashes>>

\* re_render of a stored row: refused once its template is gone.
StartReRender(r, row, persist) ==
    /\ req[r].pc = "idle"
    /\ IF row.linked
       THEN /\ req' = [req EXCEPT ![r].pc = "resolving", ![r].persist = persist]
            /\ UNCHANGED <<outcome, session>>
       ELSE Fail(r, "422")
    /\ UNCHANGED <<template, file, history, deliveries, tasks, calls, crashes>>

\* Steps 1 and 2: resolve the form, load the template and its project.
LoadTemplate(r) ==
    /\ req[r].pc = "resolving"
    /\ IF template
       THEN Goto(r, "reading") /\ UNCHANGED <<outcome, session>>
       ELSE Fail(r, "404")
    /\ UNCHANGED <<template, file, history, deliveries, tasks, calls, crashes>>

\* Steps 3 to 5, one synchronous stretch: context, required parameters, then
\* the file and the commit that last touched it (every text of the file came
\* with a commit here; GitRemote has the files that come by clone and pull).
ReadBodyAndSha(r) ==
    /\ req[r].pc = "reading"
    /\ \/ Fail(r, "422")
       \/ file = 0 /\ Fail(r, "404")
       \/ /\ file # 0
          /\ req' = [req EXCEPT ![r].pc = "environment", ![r].body = file, ![r].sha = file]
          /\ UNCHANGED <<outcome, session>>
    /\ UNCHANGED <<template, file, history, deliveries, tasks, calls, crashes>>

\* Faulty variant: the commit is looked up after the await, not with the body.
GetEnvironmentThenSha(r) ==
    /\ req[r].pc = "environment"
    /\ \/ /\ req' = [req EXCEPT ![r].pc = "rendering", ![r].sha = file]
          /\ UNCHANGED <<outcome, session>>
       \/ Fail(r, "500")
    /\ UNCHANGED <<template, file, history, deliveries, tasks, calls, crashes>>

\* Step 6, module EnvCache; any database error is a 500.
GetEnvironment(r) ==
    /\ req[r].pc = "environment"
    /\ \/ Goto(r, "rendering") /\ UNCHANGED <<outcome, session>>
       \/ Fail(r, "500")
    /\ UNCHANGED <<template, file, history, deliveries, tasks, calls, crashes>>

\* Step 7.  The handler of a TemplateError reads render_id, which is assigned
\* only in step 8: with persist=True that read raises UnboundLocalError, so
\* the error row is never added; with persist=False the 422 is raised.
RenderFails(r) ==
    /\ req[r].pc = "rendering"
    /\ Fail(r, IF req[r].persist THEN "500" ELSE "422")
    /\ UNCHANGED <<template, file, history, deliveries, tasks, calls, crashes>>

\* Steps 7 to 9, up to the flush of the history row.  The INSERT checks the
\* foreign key on the template.
RenderBody(r) ==
    /\ req[r].pc = "rendering"
    /\ IF req[r].persist
       THEN IF template
            THEN /\ session' = [session EXCEPT ![r].history = {
                        [id |-> r, sha |-> req[r].sha, body |-> req[r].body,
                         linked |-> TRUE, status |-> "success"]}]
                 /\ Goto(r, "flushed")
                 /\ UNCHANGED outcome
            ELSE Fail(r, "500")
       ELSE Goto(r, "dispatch") /\ UNCHANGED <<outcome, session>>
    /\ UNCHANGED <<template, file, history, deliveries, tasks, calls, crashes>>

\* session.commit(): everything pending becomes durable at once.
CommitRows(r) ==
    /\ history' = history \cup session[r].history
    /\ deliveries' = deliveries \cup session[r].deliveries
    /\ session' = [session EXCEPT ![r] = EmptySession]

\* Faulty variant: the flush is taken for the commit.
CommitHistoryByFlush(r) ==
    /\ req[r].pc = "flushed"
    /\ Goto(r, "dispatch")
    /\ UNCHANGED <<template, file, history, deliveries, session, outcome, tasks,
                   calls, crashes>>

CommitHistory(r) ==
    /\ req[r].pc = "flushed"
    /\ \/ CommitRows(r) /\ Goto(r, "dispatch") /\ UNCHANGED outcome
       \/ Fail(r, "500") /\ UNCHANGED <<history, deliveries>>
    /\ UNCHANGED <<template, file, tasks, calls, crashes>>

InScope(r) == IF req[r].persist THEN Hooks ELSE Always

\* Faulty variant: the warn tasks are spawned before the gates are asked.
LoadWebhooksWarnFirst(r) ==
    /\ req[r].pc = "dispatch"
    /\ req' = [req EXCEPT ![r].pc = "blocking", ![r].todo = InScope(r) \cap Blocking]
    /\ tasks' = tasks \cup {[req |-> r, hook |-> h] : h \in InScope(r) \ Blocking}
    /\ UNCHANGED <<template, file, history, deliveries, session, outcome, calls, crashes>>

\* dispatch_webhooks: load and filter; the blocking ones are awaited first.
LoadWebhooks(r) ==
    /\ req[r].pc = "dispatch"
    /\ req' = [req EXCEPT ![r].pc = "blocking", ![r].todo = InScope(r) \cap Blocking]
    /\ UNCHANGED <<template, file, history, deliveries, session, outcome, tasks,
                   calls, crashes>>

\* How dispatch_one can end: the payload template does not render to JSON, and
\* json.loads raises outside every handler; the payload or the secret cannot be
\* built, or the request never leaves; the target got the request and refuses
\* it or answers too late; the target accepts.
Outcomes == {"notJson", "unsent", "refused", "accepted"}

Sent(d, o) == calls' = IF o \in {"refused", "accepted"} THEN calls \cup {d} ELSE calls

\* Faulty variant: the row names the webhook, not the render.
RecordHookOnly(d, o) ==
    session[d.req].deliveries \cup (IF o = "notJson" THEN {} ELSE {d.hook})

\* _record_delivery: add and flush, no commit.
RecordDelivery(d, o) ==
    session[d.req].deliveries \cup (IF o = "notJson" THEN {} ELSE {d})

BlockingDispatch(r, h, o) ==
    LET d == [req |-> r, hook |-> h] IN
    /\ req[r].pc = "blocking"
    /\ h \in req[r].todo
    /\ Sent(d, o)
    /\ IF o = "accepted"
       THEN /\ req' = [req EXCEPT ![r].todo = @ \ {h}]
            /\ session' = [session EXCEPT ![r].deliveries = RecordDelivery(d, o)]
            /\ UNCHANGED outcome
       ELSE Fail(r, IF o = "notJson" THEN "500" ELSE "502")
    /\ UNCHANGED <<template, file, history, deliveries, tasks, crashes>>

\* No blocking webhook is left: spawn the warn tasks and return the result.
Respond(r) ==
    /\ req[r].pc = "blocking"
    /\ req[r].todo = {}
    /\ tasks' = tasks \cup {[req |-> r, hook |-> h] : h \in InScope(r) \ Blocking}
    /\ outcome' = [outcome EXCEPT ![r] = "200"]
    /\ Goto(r, "responded")
    /\ UNCHANGED <<template, file, history, deliveries, session, calls, crashes>>

\* get_db closes the session: what was not committed is rolled back.
CloseSession(r) ==
    /\ req[r].pc = "responded"
    /\ session' = [session EXCEPT ![r] = EmptySession]
    /\ Goto(r, "over")
    /\ UNCHANGED <<template, file, history, deliveries, outcome, tasks, calls, crashes>>

\* A warn task, before or after its request's session was closed.
WarnDispatch(d, o) ==
    /\ d \in tasks
    /\ tasks' = tasks \ {d}
    /\ Sent(d, o)
    /\ session' = [session EXCEPT ![d.req].deliveries = RecordDelivery(d, o)]
    /\ UNCHANGED <<template, file, history, deliveries, req, outcome, crashes>>
-----------------------------------------------------------------------------
(* The rest of the system.                                                 *)

EditTemplateFile ==
    /\ file \in 1..(MaxSha - 1)
    /\ file' = file + 1
    /\ UNCHANGED <<template, history, deliveries, session, req, outcome, tasks,
                   calls, crashes>>

\* catalog_service.delete_template: the file goes first, then the row; the
\* foreign key sets template_id of committed history rows to NULL and makes the
\* DELETE wait for transactions that inserted a referring row.
DeleteTemplateFile ==
    /\ file # 0
    /\ file' = 0
    /\ UNCHANGED <<template, history, deliveries, session, req, outcome, tasks,
                   calls, crashes>>

DeleteTemplateRow ==
    /\ template /\ file = 0
    /\ \A r \in Requests : session[r].history = {}
    /\ template' = FALSE
    /\ history' = {[row EXCEPT !.linked = FALSE] : row \in history}
    /\ UNCHANGED <<file, deliveries, session, req, outcome, tasks, calls, crashes>>

InFlight(r) == req[r].pc \notin {"idle", "over"}

\* The process dies: sessions, requests and tasks are gone; a client that was
\* waiting learns nothing.
Crash ==
    /\ crashes < MaxCrashes
    /\ crashes' = crashes + 1
    /\ session' = [r \in Requests |-> EmptySession]
    /\ req' = [r \in Requests |->
                 IF InFlight(r) THEN Ended(r) ELSE req[r]]
    /\ outcome' = [r \in Requests |->
                     IF InFlight(r) /\ outcome[r] = "none" THEN "lost" ELSE outcome[r]]
    /\ tasks' = {}
    /\ UNCHANGED <<template, file, history, deliveries, calls>>

RequestStep(r) ==
    \/ LoadTemplate(r)
    \/ ReadBodyAndSha(r)
    \/ GetEnvironment(r)
    \/ RenderFails(r)
    \/ RenderBody(r)
    \/ CommitHistory(r)
    \/ LoadWebhooks(r)
    \/ \E h \in Hooks, o \in Outcomes : BlockingDispatch(r, h, o)
    \/ Respond(r)
    \/ CloseSession(r)

TaskStep(d) == \E o \in Outcomes : WarnDispatch(d, o)

Next ==
    \/ \E r \in Requests, persist \in BOOLEAN :
          \/ StartRender(r, persist)
          \/ \E row \in history : StartReRender(r, row, persist)
    \/ \E r \in Requests : RequestStep(r)
    \/ \E d \in tasks : TaskStep(d)
    \/ EditTemplateFile
    \/ DeleteTemplateFile
    \/ DeleteTemplateRow
    \/ Crash

Spec == Init /\ [][Next]_vars

\* The event loop runs every ready coroutine, and every await of a handler
\* ends: database calls return or raise, HTTP calls have timeout_seconds.
Fairness ==
    /\ \A r \in Requests : WF_vars(RequestStep(r))
    /\ \A d \in Dispatches : WF_vars(TaskStep(d))

FairSpec == Spec /\ Fairness
-----------------------------------------------------------------------------
(* Properties.                                                             *)

Labels == {"idle", "resolving", "reading", "environment", "rendering", "flushed",
           "dispatch", "blocking", "responded", "over"}

\* Every variable keeps its shape.
TypeOK ==
    /\ template \in BOOLEAN /\ file \in 0..MaxSha /\ crashes \in 0..MaxCrashes
    /\ history \subseteq HistoryRow
    /\ deliveries \subseteq Dispatches /\ tasks \subseteq Dispatches
    /\ calls \subseteq Dispatches
    /\ session \in [Requests -> [history : SUBSET HistoryRow,
                                 deliveries : SUBSET Dispatches]]
    /\ req \in [Requests -> [pc : Labels, persist : BOOLEAN, sha : 0..MaxSha,
                             body : 0..MaxSha, todo : SUBSET Hooks]]
    /\ outcome \in [Requests -> {"none", "200", "404", "422", "500", "502", "lost"}]

RowsOf(r) == {row \in history : row.id = r}

\* A webhook target that is told of a persisting render can find it: the call
\* is made only after the history row is durable, so no crash leaves a consumer
\* with a render id that was never stored (commit before dispatch_webhooks).
CallsFollowCommit ==
    \A d \in calls : req[d.req].persist => RowsOf(d.req) # {}

\* What the client was told agrees with what is stored, crashes included: a
\* persisting render answered with 200, or refused by a gate (502), is in the
\* history for good; one refused with 404 or 422, and a preview, left nothing.
\* What is stored is true: the commit a row names is the one whose text was
\* rendered, whatever was committed to the file while the request waited.
AnswerMatchesHistory ==
    \A r \in Requests :
        /\ outcome[r] \in {"200", "502"} /\ req[r].persist => RowsOf(r) # {}
        /\ outcome[r] \in {"404", "422"} \/ ~ req[r].persist => RowsOf(r) = {}
        /\ \A row \in RowsOf(r) : row.sha = row.body

\* A blocking webhook is a gate: once the client was told that the render was
\* refused, nothing more is sent for it, neither by later gates nor by the
\* background tasks of warn webhooks.
GateStopsDispatch ==
    [][\A d \in Dispatches :
          d \in calls' \ calls => outcome[d.req] \notin {"502", "500", "404", "422"}]_vars

\* A stored render survives the deletion of its template and every other
\* request: but for the retention job (not part of this module) a committed row
\* never disappears and never changes its sha, its body or its status.
HistoryIsPermanent ==
    [][\A row \in history : \E new \in history' :
          new = row \/ new = [row EXCEPT !.linked = FALSE]]_vars

\* Every render the server accepted ends with an answer, and every background
\* webhook is dispatched, unless the process crashes.
EveryRenderAnswered ==
    /\ \A r \in Requests : (req[r].pc # "idle") ~> (outcome[r] # "none" /\ ~ InFlight(r))
    /\ \A d \in Dispatches : (d \in tasks) ~> (d \notin tasks)

\* "Records a WebhookDelivery row in DB if db is provided" (dispatch_one): a
\* call that is over, of a request that is over, has its row.
DeliveriesAreRecorded ==
    \A d \in calls : ~ InFlight(d.req) /\ d \notin tasks => d \in deliveries
=============================================================================
