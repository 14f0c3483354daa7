---------------------------- MODULE SolveDelivery ---------------------------
(***************************************************************************)
(* From a submitted job to its stored result: the API's enqueue_stored and   *)
(* dispatch_outbox (src/src/api.rs), the SQS transport (transport.rs), and   *)
(* the HTTP and SQS workers (worker.rs), around the job store of             *)
(* JobLifecycle.                                                             *)
(*                                                                         *)
(* A notification only carries a job id.  The store decides who may solve;   *)
(* a message is deleted only when its job is finished, so that a worker that *)
(* dies leaves the message to be delivered again.                            *)
(*                                                                         *)
(* Time is abstract.  `lapsed' is the set of jobs whose current lease has    *)
(* run out: a lease nobody works under runs out by itself; one that a worker *)
(* still works under (a missed heartbeat) does so as one of the `faults',    *)
(* which also count crashes, failed calls and lost responses.                *)
(***************************************************************************)
EXTENDS Naturals, FiniteSets

CONSTANTS
    Job,
    Process,            \* names of workers and dispatchers
    Fleets,             \* the deployments to consider
    NoJob               \* what a process that has no job works on

(* A deployment: its job store, its workers of --mode http and of --mode     *)
(* sqs, its dispatch_outbox tasks (one per API replica), priority_weight (0  *)
(* without a priority queue), the jobs whose queue_weight is above 1, and    *)
(* the bounds on faults of all kinds and on messages ever sent.              *)
Fleet == [backend : {"sqlx", "dynamodb"}, http : SUBSET Process, sqs : SUBSET Process,
          dispatchers : SUBSET Process, weight : Nat, favoured : SUBSET Job,
          faults : Nat, sends : Nat]

ASSUME SolveDeliveryAssumptions ==
    /\ \A f \in Fleets : /\ f \in Fleet /\ f.http \cap f.sqs = {}
                         /\ f.dispatchers \cap (f.http \cup f.sqs) = {}
    /\ NoJob \notin Job

VARIABLES
    fleet,              \* the deployment
    status, lease, result, outbox, tokens,      \* the job store
    lapsed,             \* jobs whose lease_expires_at has passed
    api,                \* Job -> progress of its enqueue_stored call
    disp,               \* Dispatcher -> progress of its pass over the outbox
    messages,           \* messages in SQS, received or not
    published,          \* number of messages sent
    worker,             \* Worker -> what it is doing
    cursor,             \* SqsWorker -> position in its SqsQueueSchedule
    faults              \* number of faults so far

Store == INSTANCE JobLifecycle

storeVars == <<status, lease, result, outbox, tokens>>
vars == <<fleet, storeVars, lapsed, api, disp, messages, published, worker, cursor, faults>>

Backend == fleet.backend
HttpWorker == fleet.http
SqsWorker == fleet.sqs
Dispatcher == fleet.dispatchers
MaxFaults == fleet.faults
MaxPublished == fleet.sends
Worker == HttpWorker \cup SqsWorker
Terminal == Store!Terminal
NoToken == Store!NoToken
NoMessage == 0

Idle == [pc |-> "idle", job |-> NoJob, token |-> NoToken, msg |-> NoMessage]
Polling == [pc |-> "poll", todo |-> {}, cur |-> NoJob]

Init ==
    /\ fleet \in Fleets
    /\ Store!Init
    /\ lapsed = {}
    /\ api = [j \in Job |-> "none"]
    /\ disp = [d \in Dispatcher |-> Polling]
    /\ messages = {}
    /\ published = 0
    /\ worker = [w \in Worker |-> Idle]
    /\ cursor = [w \in SqsWorker |-> 0]
    /\ faults = 0

-----------------------------------------------------------------------------
(* The store as its callers see it.                                        *)

(* status = 'solving' AND lease_token = ? AND lease_expires_at > now.       *)
Active(w) ==
    LET j == worker[w].job
    IN  status[j] = "solving" /\ lease[j] = worker[w].token /\ j \notin lapsed

Working(w) == worker[w].pc \in {"input", "solve"}

(* Nobody works under the job's current lease any more.                     *)
Abandoned(j) ==
    \A w \in Worker : ~(Working(w) /\ worker[w].job = j /\ worker[w].token = lease[j])

(* The lease of job j runs out.                                             *)
Lapse(j) ==
    /\ status[j] = "solving"
    /\ j \notin lapsed
    /\ lapsed' = lapsed \cup {j}
    /\ \/ Abandoned(j) /\ UNCHANGED faults
       \/ ~Abandoned(j) /\ faults < MaxFaults /\ faults' = faults + 1
    /\ UNCHANGED <<fleet, cursor, storeVars, api, disp, messages, published, worker>>

(* queue_url: the jobs of favoured clients have a queue of their own.        *)
QueueOf(j) == IF fleet.weight > 0 /\ j \in fleet.favoured THEN "priority" ELSE "normal"

(* publish: one more message, visible to every worker.                      *)
Send(j) ==
    /\ published < MaxPublished
    /\ published' = published + 1
    /\ messages' = messages \cup
          {[id |-> published + 1, job |-> j, queue |-> QueueOf(j), visible |-> TRUE]}

-----------------------------------------------------------------------------
(* enqueue_stored.  A repeated call for the same object finds the job and    *)
(* returns without publishing.  Without SQS workers the transport is local   *)
(* and there is nothing to publish.                                          *)
SubmitJob(j) ==
    /\ Store!Submit(j)
    /\ api' = [api EXCEPT ![j] = IF SqsWorker = {} THEN "done" ELSE "publish"]
    /\ UNCHANGED <<fleet, cursor, lapsed, disp, messages, published, worker, faults>>

ApiPublish(j) ==
    /\ api[j] = "publish"
    /\ Send(j)
    /\ api' = [api EXCEPT ![j] = "mark"]
    /\ UNCHANGED <<fleet, cursor, storeVars, lapsed, disp, worker, faults>>

ApiMark(j) ==
    /\ api[j] = "mark"
    /\ Store!Acknowledge(j)
    /\ api' = [api EXCEPT ![j] = "done"]
    /\ UNCHANGED <<fleet, cursor, lapsed, disp, messages, published, worker, faults>>

(* The publish or the acknowledgement fails, or the API process dies: the    *)
(* outbox row stays as it is.                                                *)
ApiFault(j) ==
    /\ api[j] \in {"publish", "mark"}
    /\ faults < MaxFaults
    /\ faults' = faults + 1
    /\ api' = [api EXCEPT ![j] = "done"]
    /\ UNCHANGED <<fleet, cursor, storeVars, lapsed, disp, messages, published, worker>>

-----------------------------------------------------------------------------
(* dispatch_outbox.                                                        *)

(* pending_notifications.  SQLx reclaims the expired leases first and then   *)
(* returns every undelivered row, whatever the job's status; DynamoDB        *)
(* reclaims nothing and returns the queued ones.                             *)
Poll(d) ==
    /\ disp[d].pc = "poll"
    /\ \/ /\ Backend = "sqlx"
          /\ Store!Requeue(lapsed, lapsed)
          /\ lapsed' = {}
          /\ disp' = [disp EXCEPT ![d] =
                [Polling EXCEPT !.pc = "publish", !.todo = outbox']]
       \/ /\ Backend = "dynamodb"
          /\ UNCHANGED <<storeVars, lapsed>>
          /\ disp' = [disp EXCEPT ![d] =
                [Polling EXCEPT !.pc = "publish",
                                !.todo = {j \in outbox : status[j] = "queued"}]]
    /\ UNCHANGED <<fleet, cursor, api, messages, published, worker, faults>>

DispatchPublish(d, j) ==
    /\ disp[d].pc = "publish"
    /\ j \in disp[d].todo
    /\ Send(j)
    /\ disp' = [disp EXCEPT ![d].pc = "mark", ![d].cur = j]
    /\ UNCHANGED <<fleet, cursor, storeVars, lapsed, api, worker, faults>>

DispatchMark(d) ==
    /\ disp[d].pc = "mark"
    /\ Store!Acknowledge(disp[d].cur)
    /\ disp' = [disp EXCEPT ![d] = [pc |-> "publish", cur |-> NoJob,
                                    todo |-> disp[d].todo \ {disp[d].cur}]]
    /\ UNCHANGED <<fleet, cursor, lapsed, api, messages, published, worker, faults>>

(* The pass is over: sleep, then poll again.                                *)
DispatchDone(d) ==
    /\ disp[d].pc = "publish"
    /\ disp[d].todo = {}
    /\ disp' = [disp EXCEPT ![d] = Polling]
    /\ UNCHANGED <<fleet, cursor, storeVars, lapsed, api, messages, published, worker, faults>>

(* A publish or an acknowledgement fails and the pass goes on without that   *)
(* job, or the process dies and the whole pass is lost.                      *)
DispatchFault(d) ==
    /\ disp[d].pc # "poll"
    /\ disp[d].todo # {}
    /\ faults < MaxFaults
    /\ faults' = faults + 1
    /\ \/ disp' = [disp EXCEPT ![d] = Polling]
       \/ \E j \in disp[d].todo :
            /\ disp[d].pc = "mark" => j = disp[d].cur
            /\ disp' = [disp EXCEPT ![d] = [pc |-> "publish", cur |-> NoJob,
                                            todo |-> disp[d].todo \ {j}]]
    /\ UNCHANGED <<fleet, cursor, storeVars, lapsed, api, messages, published, worker>>

-----------------------------------------------------------------------------
(* SQS (external): a received message is hidden, until it is deleted or its  *)
(* visibility timeout passes.                                                *)

SetVisible(m, v) == (messages \ {m}) \cup {[m EXCEPT !.visible = v]}

Redeliver(m) ==
    /\ ~m.visible
    /\ messages' = SetVisible(m, TRUE)
    /\ UNCHANGED <<fleet, cursor, storeVars, lapsed, api, disp, published, worker, faults>>

-----------------------------------------------------------------------------
(* Workers.                                                                *)

(* SqsQueueSchedule::next.  The cursor is advanced here at the end of a      *)
(* round of polls, in the code at its start.                                 *)
Preferred(w) == IF cursor[w] < fleet.weight THEN "priority" ELSE "normal"
Advanced(w) == [cursor EXCEPT ![w] = (@ + 1) % (fleet.weight + 1)]

(* The queue an idle worker polls; the other one follows an empty poll.      *)
Polled(w) ==
    IF worker[w].pc = "idle" THEN Preferred(w)
    ELSE CHOOSE q \in {"priority", "normal"} : q # Preferred(w)

Receive(w, m) ==
    /\ w \in SqsWorker
    /\ worker[w].pc \in {"idle", "fallback"}
    /\ m.visible /\ m.queue = Polled(w)
    /\ messages' = SetVisible(m, FALSE)
    /\ worker' = [worker EXCEPT ![w] = [Idle EXCEPT !.pc = "claim",
                                                    !.job = m.job, !.msg = m.id]]
    /\ cursor' = Advanced(w)
    /\ UNCHANGED <<fleet, storeVars, lapsed, api, disp, published, faults>>

(* receive_weighted_sqs_message gets nothing from one of two queues, or      *)
(* cannot reach it, and turns to the other one.                              *)
PollNothing(w) ==
    /\ w \in SqsWorker /\ fleet.weight > 0
    /\ worker[w].pc \in {"idle", "fallback"}
    /\ \/ (\A m \in messages : m.visible => m.queue # Polled(w)) /\ UNCHANGED faults
       \/ faults < MaxFaults /\ faults' = faults + 1
    /\ \/ /\ worker[w].pc = "idle"
          /\ worker' = [worker EXCEPT ![w].pc = "fallback"]
          /\ UNCHANGED cursor
       \/ /\ worker[w].pc = "fallback"
          /\ worker' = [worker EXCEPT ![w] = Idle]
          /\ cursor' = Advanced(w)
    /\ UNCHANGED <<fleet, storeVars, lapsed, api, disp, messages, published>>

(* Variants for the mutation runs: a claim never gives up on a lease, or     *)
(* does not look at its expiry.                                              *)
ReclaimsNothing(w, j) == {}
ReclaimsUnexpired(w, j) ==
    {k \in Job : status[k] = "solving" /\ (w \in SqsWorker => k = j)}

(* The leases a claim for job j gives up on before it selects a job.  A      *)
(* named claim on DynamoDB only looks at that job and hands an expired lease  *)
(* over without re-arming its notification.                                  *)
Reclaims(w, j) ==
    IF Backend = "dynamodb" /\ w \in SqsWorker THEN lapsed \cap {j} ELSE lapsed

Rearms(w, j) ==
    IF Backend = "dynamodb" /\ w \in SqsWorker THEN {} ELSE lapsed

(* claim of the job in the message, or of any queued job.                    *)
Claim(w, j) ==
    /\ IF w \in SqsWorker THEN worker[w].pc = "claim" /\ worker[w].job = j
                          ELSE worker[w] = Idle
    /\ Store!Grant(Reclaims(w, j), Rearms(w, j), j)
    /\ lapsed' = lapsed \ Reclaims(w, j)
    /\ worker' = [worker EXCEPT ![w].pc = "input", ![w].job = j,
                                ![w].token = tokens + 1]
    /\ UNCHANGED <<fleet, cursor, api, disp, messages, published, faults>>

(* The named job is neither queued nor expired: the claim returns nothing    *)
(* (having requeued other expired leases on SQLx).                           *)
ClaimNothing(w) ==
    LET j == worker[w].job
        gone == Reclaims(w, j)
    IN  /\ worker[w].pc = "claim"
        /\ status[j] # "queued" /\ j \notin gone
        /\ Store!Requeue(gone, gone)
        /\ lapsed' = lapsed \ gone
        /\ worker' = [worker EXCEPT ![w].pc = "check"]
        /\ UNCHANGED <<fleet, cursor, api, disp, messages, published, faults>>

(* Variants for the mutation runs: a message that could not be claimed is    *)
(* always, or never, deleted.                                                *)
AckUnclaimed(w) ==
    /\ worker[w].pc = "check"
    /\ worker' = [worker EXCEPT ![w].pc = "ack"]
    /\ UNCHANGED <<fleet, cursor, storeVars, lapsed, api, disp, messages, published, faults>>

KeepUnclaimed(w) ==
    /\ worker[w].pc = "check"
    /\ worker' = [worker EXCEPT ![w] = Idle]
    /\ UNCHANGED <<fleet, cursor, storeVars, lapsed, api, disp, messages, published, faults>>

(* job_is_terminal: ack the message of a finished job, leave any other to    *)
(* its visibility timeout.                                                   *)
CheckTerminal(w) ==
    /\ worker[w].pc = "check"
    /\ worker' = [worker EXCEPT ![w] =
            IF status[worker[w].job] \in Terminal THEN [@ EXCEPT !.pc = "ack"]
                                                  ELSE Idle]
    /\ UNCHANGED <<fleet, cursor, storeVars, lapsed, api, disp, messages, published, faults>>

FetchInput(w) ==
    /\ worker[w].pc = "input"
    /\ Active(w)
    /\ worker' = [worker EXCEPT ![w].pc = "solve"]
    /\ UNCHANGED <<fleet, cursor, storeVars, lapsed, api, disp, messages, published, faults>>

(* The input is refused, a heartbeat reports the lease inactive, or the      *)
(* completion is not accepted: the worker drops the job and keeps the        *)
(* message undeleted.                                                        *)
LoseLease(w) ==
    /\ Working(w)
    /\ ~Active(w)
    /\ worker' = [worker EXCEPT ![w] = Idle]
    /\ UNCHANGED <<fleet, cursor, storeVars, lapsed, api, disp, messages, published, faults>>

CompleteJob(w, end) ==
    /\ worker[w].pc = "solve"
    /\ Active(w)
    /\ Store!Finish(worker[w].job, end)
    /\ worker' = [worker EXCEPT ![w] = IF w \in SqsWorker
                                         THEN [@ EXCEPT !.pc = "ack"] ELSE Idle]
    /\ UNCHANGED <<fleet, cursor, lapsed, api, disp, messages, published, faults>>

DeleteMessage(w) ==
    /\ worker[w].pc = "ack"
    /\ messages' = {m \in messages : m.id # worker[w].msg}
    /\ worker' = [worker EXCEPT ![w] = Idle]
    /\ UNCHANGED <<fleet, cursor, storeVars, lapsed, api, disp, published, faults>>

(* A call fails or its response is lost, or the worker process dies.  An     *)
(* HTTP worker goes on, an SQS worker exits and is restarted: both are idle  *)
(* again and leave the lease and the message as they are.                    *)
WorkerFault(w) ==
    /\ worker[w] # Idle
    /\ faults < MaxFaults
    /\ faults' = faults + 1
    /\ worker' = [worker EXCEPT ![w] = Idle]
    /\ cursor' = [v \in SqsWorker |-> IF v = w THEN 0 ELSE cursor[v]]
    /\ UNCHANGED <<fleet, storeVars, lapsed, api, disp, messages, published>>

-----------------------------------------------------------------------------
Next ==
    \/ \E j \in Job : \/ SubmitJob(j) \/ ApiPublish(j) \/ ApiMark(j)
                      \/ ApiFault(j) \/ Lapse(j)
    \/ \E d \in Dispatcher : \/ Poll(d) \/ DispatchMark(d) \/ DispatchDone(d)
                             \/ DispatchFault(d)
    \/ \E d \in Dispatcher, j \in Job : DispatchPublish(d, j)
    \/ \E m \in messages : Redeliver(m) \/ \E w \in SqsWorker : Receive(w, m)
    \/ \E w \in Worker, j \in Job : Claim(w, j)
    \/ \E w \in Worker : \/ PollNothing(w) \/ ClaimNothing(w) \/ CheckTerminal(w) \/ FetchInput(w)
                         \/ LoseLease(w) \/ DeleteMessage(w) \/ WorkerFault(w)
    \/ \E w \in Worker, end \in Terminal : CompleteJob(w, end)

Spec == Init /\ [][Next]_vars

(* The steps of a dispatcher's or a worker's loop, receiving aside.          *)
Run(p) ==
    \/ /\ p \in Dispatcher
       /\ \/ Poll(p) \/ DispatchMark(p) \/ DispatchDone(p)
          \/ \E j \in Job : DispatchPublish(p, j)
    \/ /\ p \in Worker
       /\ \/ PollNothing(p) \/ ClaimNothing(p) \/ CheckTerminal(p) \/ FetchInput(p)
          \/ LoseLease(p) \/ DeleteMessage(p)
          \/ \E j \in Job : Claim(p, j)
          \/ \E end \in Terminal : CompleteJob(p, end)

(* Every process that is not stopped by a fault goes on: the API call, the   *)
(* dispatcher's endless loop, each worker's loop.  SQS keeps redelivering    *)
(* hidden messages and serves each visible one to some idle worker; a lease  *)
(* nobody renews runs out.                                                   *)
Fairness ==
    /\ \A j \in Job : /\ WF_vars(ApiPublish(j) \/ ApiMark(j))
                      /\ WF_vars(Lapse(j) /\ Abandoned(j))
    /\ \A p \in Process : WF_vars(Run(p))
    /\ \A i \in UNION {1..f.sends : f \in Fleets} :
         /\ WF_vars(\E m \in messages : m.id = i /\ Redeliver(m))
         /\ SF_vars(\E m \in messages, w \in SqsWorker : m.id = i /\ Receive(w, m))

FairSpec == Spec /\ Fairness

-----------------------------------------------------------------------------
(* Properties.                                                             *)

(* Nothing is stranded: a job that is not finished is still announced, by    *)
(* its outbox row or by a message in the queue, whatever crashes, duplicates *)
(* and late acknowledgements happen in between.                              *)
NoJobStranded ==
    \A j \in Job : status[j] \in {"queued", "solving"} =>
        j \in outbox \/ \E m \in messages : m.job = j

(* The workers that go on with a job whose lease they no longer hold.        *)
Superseded == {w \in Worker : Working(w) /\ ~Active(w)}

(* A solve is lost only to a fault: however often a job's message is sent    *)
(* and delivered, whoever claims it and whichever dispatcher gives up on     *)
(* leases, nobody takes a job from a worker whose lease has not run out, so  *)
(* that the workers solving in vain are at most the leases that lapsed under *)
(* their holders.  (Every other worker is the one its job's row names.)      *)
LostSolvesAreFaults == Cardinality(Superseded) <= faults

(* Every submitted job is eventually solved or failed: crashes, lost leases, *)
(* failed publishes and duplicates only delay it.                            *)
EveryJobFinishes ==
    \A j \in Job : status[j] = "queued" ~> status[j] \in Terminal

(* The messages of finished jobs do not circulate for ever.                  *)
QueueDrains ==
    (\A j \in Job : status[j] \in Terminal) ~> (messages = {})
=============================================================================
