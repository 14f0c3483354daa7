-------------------------- MODULE SolveDeliveryProofs -----------------------
(***************************************************************************)
(* Proofs about the delivery of jobs, for any number of jobs, workers,       *)
(* dispatchers, faults and messages, on both kinds of store.                 *)
(***************************************************************************)
EXTENDS SolveDelivery, RateLimits, FiniteSetTheorems, WellFoundedInduction, TLAPS

-----------------------------------------------------------------------------
(* The invariant.                                                            *)

WorkerPcs == {"idle", "fallback", "claim", "check", "input", "solve", "ack"}
JobPcs == WorkerPcs \ {"idle", "fallback"}

Message == [id : Nat \ {0}, job : Job, queue : {"priority", "normal"}, visible : BOOLEAN]
WorkerState == [pc : WorkerPcs, job : Job \cup {NoJob}, token : Nat, msg : Nat]
DispatcherState == [pc : {"poll", "publish", "mark"}, todo : SUBSET Job,
                    cur : Job \cup {NoJob}]

StoreTypes ==
    /\ status \in [Job -> Store!Status]
    /\ lease \in [Job -> Nat] /\ result \in [Job -> Nat]
    /\ outbox \subseteq Job /\ tokens \in Nat

WorkerTypes ==
    /\ worker \in [Worker -> WorkerState]
    /\ \A w \in Worker : worker[w].pc \in JobPcs => worker[w].job \in Job

DispatcherTypes ==
    /\ disp \in [Dispatcher -> DispatcherState]
    /\ \A d \in Dispatcher : disp[d].pc = "mark" => disp[d].cur \in Job

(* Types of the variables.                                                   *)
TypeOK ==
    /\ fleet \in Fleets /\ StoreTypes /\ WorkerTypes /\ DispatcherTypes
    /\ lapsed \subseteq Job
    /\ api \in [Job -> {"none", "publish", "mark", "done"}]
    /\ messages \subseteq Message
    /\ published \in Nat /\ cursor \in [SqsWorker -> Nat] /\ faults \in Nat

Unfinished(j) == status[j] \in {"queued", "solving"}
Mailed(j) == \E m \in messages : m.job = j

(* A message id stands for one job.                                          *)
MessagesNamed ==
    /\ \A m \in messages : m.id <= published
    /\ \A m, n \in messages : m.id = n.id => m.job = n.job

(* A worker that will delete its message knows that the job of this very     *)
(* message is finished.                                                      *)
Knows(x) ==
    /\ x.msg <= published
    /\ \A m \in messages : m.id = x.msg => m.job = x.job
    /\ x.pc = "ack" => status[x.job] \in Terminal

WorkersKnow == \A w \in Worker : Knows(worker[w])

(* Who is about to mark a notification as sent has sent it: the message is   *)
(* there, or was deleted because the job is finished.                        *)
Announced(j) == status[j] \in Terminal \/ Mailed(j)

SentBeforeMark ==
    /\ \A j \in Job : api[j] = "mark" => Announced(j)
    /\ \A d \in Dispatcher : disp[d].pc = "mark" => Announced(disp[d].cur)

LapsedAreSolving == \A j \in lapsed : status[j] = "solving"

DeliveryInv ==
    /\ LapsedAreSolving /\ MessagesNamed /\ WorkersKnow /\ SentBeforeMark
    /\ NoJobStranded

(* A token is handed out once.                                               *)
TokensDiffer ==
    \A v, w \in Worker :
        Working(v) => /\ worker[v].token <= tokens
                      /\ Working(w) /\ worker[v].token = worker[w].token => v = w

-----------------------------------------------------------------------------
(* What the steps do to the process that takes them.                         *)

OtherWorkers(w) == \A v \in Worker : v # w => worker'[v] = worker[v]
OtherDispatchers(d) == \A e \in Dispatcher : e # d => disp'[e] = disp[e]

LEMMA FleetStays ==
    ASSUME fleet' = fleet
    PROVE  /\ Worker' = Worker /\ SqsWorker' = SqsWorker /\ HttpWorker' = HttpWorker
           /\ Dispatcher' = Dispatcher
BY DEF Worker, SqsWorker, HttpWorker, Dispatcher

LEMMA WorkerUpdate ==
    ASSUME WorkerTypes, fleet' = fleet, NEW w \in Worker, NEW x \in WorkerState,
           x.pc \in JobPcs => x.job \in Job, worker' = [worker EXCEPT ![w] = x]
    PROVE  WorkerTypes' /\ OtherWorkers(w) /\ worker'[w] = x
<1>1. Worker' = Worker
  BY FleetStays
<1>2. worker \in [Worker -> WorkerState]
  BY DEF WorkerTypes
<1>3. worker' \in [Worker -> WorkerState] /\ OtherWorkers(w) /\ worker'[w] = x
  BY <1>2 DEF OtherWorkers
<1>4. QED BY <1>1, <1>3 DEF WorkerTypes, OtherWorkers

LEMMA DispatcherUpdate ==
    ASSUME DispatcherTypes, fleet' = fleet, NEW d \in Dispatcher, NEW x \in DispatcherState,
           x.pc = "mark" => x.cur \in Job, disp' = [disp EXCEPT ![d] = x]
    PROVE  DispatcherTypes' /\ OtherDispatchers(d) /\ disp'[d] = x
<1>1. Dispatcher' = Dispatcher
  BY FleetStays
<1>2. disp \in [Dispatcher -> DispatcherState]
  BY DEF DispatcherTypes
<1>3. disp' \in [Dispatcher -> DispatcherState] /\ OtherDispatchers(d) /\ disp'[d] = x
  BY <1>2 DEF OtherDispatchers
<1>4. QED BY <1>1, <1>3 DEF DispatcherTypes, OtherDispatchers

LEMMA IdleWorker ==
    Idle \in WorkerState /\ Idle.pc = "idle" /\ Idle.msg = 0
BY DEF Idle, WorkerState, WorkerPcs, NoToken, Store!NoToken, NoMessage

(* The steps of a worker, by what becomes of its record.                     *)
WorkerBecomes(w, x) ==
    /\ x \in WorkerState /\ (x.pc \in JobPcs => x.job \in Job)
    /\ worker' = [worker EXCEPT ![w] = x]

(* The worker starts over.                                                   *)
LEMMA BecomesIdle ==
    ASSUME NEW w \in Worker, worker' = [worker EXCEPT ![w] = Idle]
    PROVE  WorkerBecomes(w, Idle)
BY IdleWorker DEF WorkerBecomes, JobPcs

(* The worker goes on with the job it has.                                   *)
LEMMA BecomesPc ==
    ASSUME WorkerTypes, NEW w \in Worker, NEW p \in WorkerPcs,
           p \in JobPcs => worker[w].job \in Job,
           worker' = [worker EXCEPT ![w] = [worker[w] EXCEPT !.pc = p]]
    PROVE  \E x : /\ WorkerBecomes(w, x) /\ x.pc = p /\ x.job = worker[w].job
                  /\ x.token = worker[w].token /\ x.msg = worker[w].msg
<1>1. PICK x : x = [worker[w] EXCEPT !.pc = p]
  OBVIOUS
<1>2. worker[w] \in WorkerState
  BY DEF WorkerTypes
<1>3. /\ x \in WorkerState /\ x.pc = p /\ x.job = worker[w].job
      /\ x.token = worker[w].token /\ x.msg = worker[w].msg
  BY <1>1, <1>2 DEF WorkerState
<1>4. QED BY <1>1, <1>3 DEF WorkerBecomes

LEMMA BecomesReceiver ==
    ASSUME TypeOK, NEW w \in Worker, NEW m \in messages, Receive(w, m)
    PROVE  \E x : WorkerBecomes(w, x) /\ x.pc = "claim" /\ x.job = m.job /\ x.msg = m.id
<1>1. PICK x : x = [Idle EXCEPT !.pc = "claim", !.job = m.job, !.msg = m.id]
  OBVIOUS
<1>2. m.job \in Job /\ m.id \in Nat
  BY DEF TypeOK, Message
<1>3. x \in WorkerState /\ x.pc = "claim" /\ x.job = m.job /\ x.msg = m.id
  BY <1>1, <1>2, IdleWorker DEF WorkerState, WorkerPcs
<1>4. worker' = [worker EXCEPT ![w] = x]
  BY <1>1 DEF Receive
<1>5. QED BY <1>2, <1>3, <1>4 DEF WorkerBecomes

LEMMA BecomesHolder ==
    ASSUME TypeOK, NEW w \in Worker, NEW j \in Job, Claim(w, j)
    PROVE  \E x : /\ WorkerBecomes(w, x) /\ x.pc = "input" /\ x.job = j
                  /\ x.token = tokens + 1 /\ x.msg = worker[w].msg
                  /\ worker[w].pc = "idle" /\ w \notin SqsWorker => x.msg = 0
                  /\ w \in SqsWorker => worker[w].job = j
<1>1. PICK x : x = [worker[w] EXCEPT !.pc = "input", !.job = j, !.token = tokens + 1]
  OBVIOUS
<1>2. worker \in [Worker -> WorkerState] /\ worker[w] \in WorkerState /\ tokens + 1 \in Nat
  BY DEF TypeOK, WorkerTypes, StoreTypes
<1>3. /\ x \in WorkerState /\ x.pc = "input" /\ x.job = j /\ x.token = tokens + 1
      /\ x.msg = worker[w].msg
  BY <1>1, <1>2 DEF WorkerState, WorkerPcs
<1>4. worker' = [worker EXCEPT ![w] = x]
  BY <1>1, <1>2 DEF Claim
<1>5. w \in SqsWorker => worker[w].job = j
  BY DEF Claim
<1>6. w \notin SqsWorker => worker[w].msg = 0
  BY IdleWorker DEF Claim
<1>7. QED BY <1>3, <1>4, <1>5, <1>6 DEF WorkerBecomes

-----------------------------------------------------------------------------
(* What the steps do to the job store.                                       *)

(* A finished job stays finished, and only enqueue makes a job unfinished.   *)
StoreAges ==
    /\ StoreTypes'
    /\ tokens' >= tokens
    /\ \A j \in Job : /\ status[j] \in Terminal => status'[j] \in Terminal
                      /\ Unfinished(j)' => Unfinished(j) \/ j \in outbox'

LEMMA StoreStays ==
    ASSUME StoreTypes, UNCHANGED storeVars
    PROVE  StoreAges
BY DEF StoreTypes, storeVars, StoreAges, Unfinished

LEMMA SubmitAges ==
    ASSUME StoreTypes, NEW j \in Job, Store!Submit(j)
    PROVE  /\ StoreAges /\ outbox \subseteq outbox' /\ tokens' = tokens
           /\ \A k \in Job : status[k] = "solving" => status'[k] = "solving"
BY DEF StoreTypes, StoreAges, Unfinished, Store!Submit, Store!Status, Store!Terminal, Terminal

LEMMA AcknowledgeAges ==
    ASSUME StoreTypes, NEW j \in Job, Store!Acknowledge(j)
    PROVE  /\ StoreAges /\ status' = status /\ outbox' = outbox \ {j} /\ tokens' = tokens
BY DEF StoreTypes, StoreAges, Unfinished, Store!Acknowledge

LEMMA RequeueAges ==
    ASSUME StoreTypes, NEW R \in SUBSET Job, Store!Requeue(R, R)
    PROVE  /\ StoreAges /\ outbox' = outbox \cup R /\ tokens' = tokens
           /\ \A k \in Job \ R : status'[k] = status[k]
<1>1. status' \in [Job -> Store!Status] /\ lease' \in [Job -> Nat]
  BY DEF StoreTypes, Store!Requeue, Store!Status, Store!NoToken
<1>2. QED BY <1>1 DEF StoreTypes, StoreAges, Unfinished, Store!Requeue, Store!Terminal, Terminal

LEMMA GrantAges ==
    ASSUME StoreTypes, NEW R \in SUBSET Job, NEW P \in SUBSET Job, NEW j \in Job,
           Store!Grant(R, P, j)
    PROVE  /\ StoreAges /\ outbox' = outbox \cup P /\ tokens' = tokens + 1
           /\ status'[j] = "solving"
           /\ \A k \in Job \ R : k # j => status'[k] = status[k]
<1>1. status' \in [Job -> Store!Status] /\ lease' \in [Job -> Nat]
  BY DEF StoreTypes, Store!Grant, Store!Status, Store!NoToken
<1>2. QED BY <1>1 DEF StoreTypes, StoreAges, Unfinished, Store!Grant, Store!Terminal, Terminal

LEMMA FinishAges ==
    ASSUME StoreTypes, NEW j \in Job, NEW end, Store!Finish(j, end)
    PROVE  /\ StoreAges /\ outbox' = outbox /\ tokens' = tokens
           /\ status'[j] \in Terminal /\ \A k \in Job \ {j} : status'[k] = status[k]
<1>1. status' \in [Job -> Store!Status] /\ lease' \in [Job -> Nat] /\ result' \in [Job -> Nat]
  BY DEF StoreTypes, Store!Finish, Store!Status, Store!NoToken
<1>2. QED BY <1>1 DEF StoreTypes, StoreAges, Unfinished, Store!Finish, Store!Terminal, Terminal

-----------------------------------------------------------------------------
(* What the steps do to the queue.                                           *)

(* An id keeps its job, the new ids name one job each, and the mail of an    *)
(* unfinished job is still there.                                            *)
MailAges ==
    /\ messages' \subseteq Message /\ published' \in Nat /\ published' >= published
    /\ \A m \in messages' :
         /\ m.id <= published'
         /\ m.id <= published => \E n \in messages : n.id = m.id /\ n.job = m.job
         /\ \A n \in messages' : m.id > published /\ n.id = m.id => n.job = m.job
    /\ \A j \in Job : Mailed(j) => Mailed(j)' \/ status[j] \in Terminal

MailTypes == messages \subseteq Message /\ published \in Nat /\ MessagesNamed

LEMMA MailStays ==
    ASSUME MailTypes, UNCHANGED <<messages, published>>
    PROVE  MailAges
BY DEF MailTypes, MessagesNamed, MailAges, Mailed, Message

LEMMA SendAges ==
    ASSUME MailTypes, NEW j \in Job, Send(j)
    PROVE  MailAges /\ Mailed(j)'
<1>1. PICK n : n = [id |-> published + 1, job |-> j, queue |-> QueueOf(j), visible |-> TRUE]
  OBVIOUS
<1>2. n \in Message /\ n.id = published + 1 /\ n.job = j
  BY <1>1 DEF Message, QueueOf, MailTypes
<1>3. messages' = messages \cup {n} /\ published' = published + 1
  BY <1>1 DEF Send
<1>4. published \in Nat /\ \A m \in messages : m.id <= published /\ m.id \in Nat /\ m \in Message
  BY DEF MailTypes, MessagesNamed, Message
<1>5. QED BY <1>2, <1>3, <1>4 DEF MailAges, Mailed

LEMMA VisibilityAges ==
    ASSUME MailTypes, NEW m \in messages, NEW v \in BOOLEAN,
           messages' = SetVisible(m, v), published' = published
    PROVE  MailAges
<1>1. PICK n : n = [m EXCEPT !.visible = v]
  OBVIOUS
<1>2. n \in Message /\ n.id = m.id /\ n.job = m.job
  BY <1>1 DEF MailTypes, Message
<1>3. messages' = (messages \ {m}) \cup {n}
  BY <1>1 DEF SetVisible
<1>4. published \in Nat /\ \A k \in messages : k.id <= published /\ k.id \in Nat /\ k \in Message
  BY DEF MailTypes, MessagesNamed, Message
<1>5. \A k \in messages' : k.id <= published /\ \E l \in messages : l.id = k.id /\ l.job = k.job
  BY <1>2, <1>3, <1>4
<1>6. \A j \in Job : Mailed(j) => Mailed(j)'
  BY <1>2, <1>3 DEF Mailed
<1>7. messages' \subseteq Message
  BY <1>2, <1>3, <1>4
<1>8. \A k \in messages' : ~(k.id > published)
  BY <1>4, <1>5, <1>7 DEF Message
<1>9. QED BY <1>4, <1>5, <1>6, <1>7, <1>8 DEF MailAges

(* Deleting a message takes the mail of a finished job only.                 *)
LEMMA DeletionAges ==
    ASSUME MailTypes, NEW i, published' = published,
           messages' = {m \in messages : m.id # i},
           \A m \in messages : m.id = i => status[m.job] \in Terminal
    PROVE  MailAges
<1>1. published \in Nat /\ \A k \in messages : k.id <= published /\ k.id \in Nat /\ k \in Message
  BY DEF MailTypes, MessagesNamed, Message
<1>2. \A j \in Job : Mailed(j) => Mailed(j)' \/ status[j] \in Terminal
  BY DEF Mailed
<1>3. QED BY <1>1, <1>2 DEF MailAges

-----------------------------------------------------------------------------
(* Type correctness of the processes and of their store.                     *)

LEMMA BecomesTyped ==
    ASSUME TypeOK, fleet' = fleet, NEW w \in Worker, NEW x, WorkerBecomes(w, x)
    PROVE  WorkerTypes' /\ OtherWorkers(w) /\ worker'[w] = x
BY WorkerUpdate DEF WorkerBecomes, TypeOK

(* The record of a worker that is waiting for one of two queues.             *)
LEMMA PollNothingWorker ==
    ASSUME TypeOK, NEW w \in Worker, PollNothing(w)
    PROVE  \E x : WorkerBecomes(w, x) /\ x.pc \in {"idle", "fallback"}
                  /\ (x.msg = 0 \/ (x.msg = worker[w].msg /\ x.job = worker[w].job))
<1>1. CASE worker' = [worker EXCEPT ![w] = Idle]
  BY <1>1, BecomesIdle, IdleWorker
<1>2. CASE worker' = [worker EXCEPT ![w].pc = "fallback"]
  <2>1. WorkerTypes /\ worker' = [worker EXCEPT ![w] = [worker[w] EXCEPT !.pc = "fallback"]]
    BY <1>2 DEF TypeOK, WorkerTypes
  <2>2. "fallback" \in WorkerPcs /\ "fallback" \notin JobPcs
    BY DEF WorkerPcs, JobPcs
  <2>3. PICK x : /\ WorkerBecomes(w, x) /\ x.pc = "fallback" /\ x.job = worker[w].job
                 /\ x.token = worker[w].token /\ x.msg = worker[w].msg
    BY <2>1, <2>2, BecomesPc
  <2>4. QED BY <2>3
<1>3. QED BY <1>1, <1>2 DEF PollNothing

LEMMA ClaimNothingWorker ==
    ASSUME TypeOK, NEW w \in Worker, ClaimNothing(w)
    PROVE  \E x : /\ WorkerBecomes(w, x) /\ x.pc = "check" /\ x.job = worker[w].job
                  /\ x.token = worker[w].token /\ x.msg = worker[w].msg
<1>1. WorkerTypes /\ worker[w].job \in Job /\ "check" \in WorkerPcs
  BY DEF TypeOK, WorkerTypes, ClaimNothing, JobPcs, WorkerPcs
<1>2. worker' = [worker EXCEPT ![w] = [worker[w] EXCEPT !.pc = "check"]]
  BY <1>1 DEF ClaimNothing, WorkerTypes
<1>3. QED BY <1>1, <1>2, BecomesPc

LEMMA FetchInputWorker ==
    ASSUME TypeOK, NEW w \in Worker, FetchInput(w)
    PROVE  \E x : /\ WorkerBecomes(w, x) /\ x.pc = "solve" /\ x.job = worker[w].job
                  /\ x.token = worker[w].token /\ x.msg = worker[w].msg
<1>1. WorkerTypes /\ worker[w].job \in Job /\ "solve" \in WorkerPcs
  BY DEF TypeOK, WorkerTypes, FetchInput, JobPcs, WorkerPcs
<1>2. worker' = [worker EXCEPT ![w] = [worker[w] EXCEPT !.pc = "solve"]]
  BY <1>1 DEF FetchInput, WorkerTypes
<1>3. QED BY <1>1, <1>2, BecomesPc

(* The worker is done with its job: idle, or about to delete the message.    *)
LEMMA EndingWorker ==
    ASSUME TypeOK, NEW w \in Worker, NEW end \in Terminal, CheckTerminal(w) \/ CompleteJob(w, end)
    PROVE  \E x : /\ WorkerBecomes(w, x)
                  /\ \/ x = Idle
                     \/ /\ x.pc = "ack" /\ x.job = worker[w].job /\ x.msg = worker[w].msg
                        /\ CheckTerminal(w) => status[x.job] \in Terminal
<1>1. WorkerTypes /\ worker[w].job \in Job /\ "ack" \in WorkerPcs
  BY DEF TypeOK, WorkerTypes, CheckTerminal, CompleteJob, JobPcs, WorkerPcs
<1>2. \/ worker' = [worker EXCEPT ![w] = Idle]
      \/ /\ worker' = [worker EXCEPT ![w] = [worker[w] EXCEPT !.pc = "ack"]]
         /\ CheckTerminal(w) => status[worker[w].job] \in Terminal
  <2>1. CASE CheckTerminal(w)
    <3>1. worker' = [worker EXCEPT ![w] = IF status[worker[w].job] \in Terminal
                                            THEN [worker[w] EXCEPT !.pc = "ack"] ELSE Idle]
      BY <1>1, <2>1 DEF CheckTerminal, WorkerTypes
    <3>2. QED BY <3>1
  <2>2. CASE CompleteJob(w, end)
    <3>1. worker' = [worker EXCEPT ![w] = IF w \in SqsWorker
                                            THEN [worker[w] EXCEPT !.pc = "ack"] ELSE Idle]
      BY <1>1, <2>2 DEF CompleteJob, WorkerTypes
    <3>2. ~CheckTerminal(w)
      BY <2>2 DEF CheckTerminal, CompleteJob
    <3>3. QED BY <3>1, <3>2
  <2>3. QED BY <2>1, <2>2
<1>3. CASE worker' = [worker EXCEPT ![w] = Idle]
  BY <1>3, BecomesIdle
<1>4. CASE /\ worker' = [worker EXCEPT ![w] = [worker[w] EXCEPT !.pc = "ack"]]
           /\ CheckTerminal(w) => status[worker[w].job] \in Terminal
  <2>1. PICK x : /\ WorkerBecomes(w, x) /\ x.pc = "ack" /\ x.job = worker[w].job
                 /\ x.token = worker[w].token /\ x.msg = worker[w].msg
    BY <1>1, <1>4, BecomesPc
  <2>2. QED BY <1>4, <2>1
<1>5. QED BY <1>2, <1>3, <1>4

-----------------------------------------------------------------------------
(* The invariant, from what a step does to each process.                     *)

WorkerPart ==
    /\ WorkerTypes' /\ cursor' \in [SqsWorker -> Nat]
    /\ \A w \in Worker : worker'[w] = worker[w] \/ Knows(worker[w])'

DispatcherPart ==
    /\ DispatcherTypes'
    /\ \A d \in Dispatcher : disp'[d].pc = "mark" =>
         disp'[d] = disp[d] \/ Mailed(disp[d].cur)'

ApiPart ==
    /\ api' \in [Job -> {"none", "publish", "mark", "done"}]
    /\ \A j \in Job : api'[j] = "mark" => api[j] = "mark" \/ Mailed(j)'

LapsedPart == lapsed' \subseteq Job /\ \A j \in lapsed' : status'[j] = "solving"

OutboxPart == \A j \in outbox : j \in outbox' \/ ~Unfinished(j)' \/ Mailed(j)'

StepFacts ==
    /\ fleet' = fleet /\ faults' \in Nat
    /\ StoreAges /\ MailAges /\ WorkerPart /\ DispatcherPart /\ ApiPart
    /\ LapsedPart /\ OutboxPart

LEMMA TypesFollow ==
    ASSUME TypeOK, StepFacts
    PROVE  TypeOK'
<1>1. /\ SqsWorker' = SqsWorker /\ fleet' \in Fleets
      /\ StoreTypes' /\ WorkerTypes' /\ DispatcherTypes' /\ lapsed' \subseteq Job
      /\ api' \in [Job -> {"none", "publish", "mark", "done"}]
      /\ messages' \subseteq Message /\ published' \in Nat
      /\ cursor' \in [SqsWorker -> Nat] /\ faults' \in Nat
  BY FleetStays DEF StepFacts, StoreAges, MailAges, WorkerPart, DispatcherPart, ApiPart,
                    LapsedPart, TypeOK
<1>2. QED BY <1>1 DEF TypeOK

LEMMA MailNamed ==
    ASSUME MailTypes, MailAges
    PROVE  MessagesNamed'
<1>1. \A m \in messages' : m.id \in Nat
  BY DEF MailAges, Message
<1>2. \A m, n \in messages' : m.id = n.id => m.job = n.job
  <2>1. SUFFICES ASSUME NEW m \in messages', NEW n \in messages', m.id = n.id
                 PROVE  m.job = n.job
    OBVIOUS
  <2>2. CASE m.id <= published
    <3>1. PICK k \in messages : k.id = m.id /\ k.job = m.job
      BY <2>2 DEF MailAges
    <3>2. PICK l \in messages : l.id = n.id /\ l.job = n.job
      BY <2>1, <2>2 DEF MailAges
    <3>3. QED BY <2>1, <3>1, <3>2 DEF MailTypes, MessagesNamed
  <2>3. CASE ~(m.id <= published)
    <3>1. m.id > published
      BY <1>1, <2>3 DEF MailTypes
    <3>2. QED BY <2>1, <3>1 DEF MailAges
  <2>4. QED BY <2>2, <2>3
<1>3. QED BY <1>2 DEF MailAges, MessagesNamed

(* What a worker knows stays true.                                           *)
LEMMA KnownStays ==
    ASSUME TypeOK, DeliveryInv, StoreAges, MailAges, NEW w \in Worker, worker'[w] = worker[w]
    PROVE  Knows(worker[w])'
<1>1. /\ worker[w] \in WorkerState /\ Knows(worker[w])
      /\ worker[w].pc = "ack" => worker[w].job \in Job
  BY DEF TypeOK, WorkerTypes, DeliveryInv, WorkersKnow, JobPcs, WorkerPcs
<1>2. worker[w].msg \in Nat /\ published \in Nat /\ published' \in Nat
  BY <1>1 DEF WorkerState, TypeOK, MailAges
<1>3. worker[w].msg <= published'
  BY <1>1, <1>2 DEF Knows, MailAges
<1>4. \A m \in messages' : m.id = worker[w].msg => m.job = worker[w].job
  <2>1. SUFFICES ASSUME NEW m \in messages', m.id = worker[w].msg
                 PROVE  m.job = worker[w].job
    OBVIOUS
  <2>2. PICK n \in messages : n.id = m.id /\ n.job = m.job
    BY <1>1, <2>1 DEF Knows, MailAges
  <2>3. QED BY <1>1, <2>1, <2>2 DEF Knows
<1>5. worker[w].pc = "ack" => status'[worker[w].job] \in Terminal
  BY <1>1 DEF Knows, StoreAges
<1>6. QED BY <1>3, <1>4, <1>5 DEF Knows, Terminal, Store!Terminal

LEMMA InvFollows ==
    ASSUME TypeOK, DeliveryInv, StepFacts
    PROVE  DeliveryInv'
<1>0. /\ StoreAges /\ MailAges /\ WorkerPart /\ DispatcherPart /\ ApiPart
      /\ LapsedPart /\ OutboxPart /\ Worker' = Worker /\ Dispatcher' = Dispatcher
      /\ MailTypes /\ fleet' = fleet
  BY FleetStays DEF StepFacts, DeliveryInv, MailTypes, TypeOK
<1>1. LapsedAreSolving'
  BY <1>0 DEF LapsedPart, LapsedAreSolving
<1>2. MessagesNamed'
  BY <1>0, MailNamed
<1>3. WorkersKnow'
  <2>1. \A w \in Worker : Knows(worker[w])'
    BY <1>0, KnownStays DEF WorkerPart
  <2>2. QED BY <1>0, <2>1 DEF WorkersKnow
<1>4. ASSUME NEW j \in Job, Announced(j) PROVE Announced(j)'
  BY <1>0, <1>4 DEF Announced, MailAges, StoreAges, Terminal, Store!Terminal
<1>5. \A j \in Job : api'[j] = "mark" => Announced(j)'
  BY <1>0, <1>4 DEF ApiPart, Announced, DeliveryInv, SentBeforeMark
<1>6. \A d \in Dispatcher : disp'[d].pc = "mark" => Announced(disp[d].cur)'
  <2>1. SUFFICES ASSUME NEW d \in Dispatcher, disp'[d].pc = "mark"
                 PROVE  Announced(disp[d].cur)'
    OBVIOUS
  <2>2. CASE Mailed(disp[d].cur)'
    BY <2>2 DEF Announced
  <2>3. CASE disp'[d] = disp[d]
    <3>1. disp[d].cur \in Job /\ Announced(disp[d].cur)
      BY <2>1, <2>3 DEF DeliveryInv, SentBeforeMark, TypeOK, DispatcherTypes
    <3>2. PICK j \in Job : j = disp[d].cur
      BY <3>1
    <3>3. Announced(j)'
      BY <1>4, <3>1, <3>2
    <3>4. QED BY <2>3, <3>2, <3>3 DEF Announced, Mailed
  <2>4. QED BY <1>0, <2>1, <2>2, <2>3 DEF DispatcherPart
<1>7. NoJobStranded'
  <2>1. SUFFICES ASSUME NEW j \in Job, Unfinished(j)' PROVE j \in outbox' \/ Mailed(j)'
    BY DEF NoJobStranded, Unfinished, Mailed
  <2>2. status'[j] \notin Terminal
    BY <2>1 DEF Unfinished, Terminal, Store!Terminal
  <2>3. CASE Unfinished(j)
    <3>1. j \in outbox \/ Announced(j)
      BY <2>3 DEF DeliveryInv, NoJobStranded, Unfinished, Announced, Mailed
    <3>2. Announced(j)' => Mailed(j)'
      BY <2>2 DEF Announced, Terminal, Store!Terminal
    <3>3. QED BY <1>0, <1>4, <2>1, <3>1, <3>2 DEF OutboxPart
  <2>4. QED BY <1>0, <2>1, <2>3 DEF StoreAges
<1>8. QED BY <1>0, <1>1, <1>2, <1>3, <1>5, <1>6, <1>7 DEF DeliveryInv, SentBeforeMark

-----------------------------------------------------------------------------
(* A process that does nothing.                                              *)

LEMMA WorkersIdle ==
    ASSUME TypeOK, UNCHANGED <<fleet, worker, cursor>>
    PROVE  WorkerPart
BY FleetStays DEF TypeOK, WorkerTypes, WorkerPart

LEMMA DispatchersIdle ==
    ASSUME TypeOK, UNCHANGED <<fleet, disp>>
    PROVE  DispatcherPart
BY FleetStays DEF TypeOK, DispatcherTypes, DispatcherPart

LEMMA ApiIdle ==
    ASSUME TypeOK, UNCHANGED api
    PROVE  ApiPart
BY DEF TypeOK, ApiPart

LEMMA StoreIdle ==
    ASSUME TypeOK, DeliveryInv, UNCHANGED storeVars
    PROVE  StoreAges /\ OutboxPart /\ (lapsed' = lapsed => LapsedPart)
BY StoreStays DEF TypeOK, DeliveryInv, LapsedAreSolving, storeVars, OutboxPart, LapsedPart

LEMMA MailIdle ==
    ASSUME TypeOK, DeliveryInv, UNCHANGED <<messages, published>>
    PROVE  MailAges
BY MailStays DEF TypeOK, DeliveryInv, MailTypes

-----------------------------------------------------------------------------
(* The steps of the API and of the dispatchers.                              *)

LEMMA ApiSteps ==
    ASSUME TypeOK, DeliveryInv, NEW j \in Job,
           SubmitJob(j) \/ ApiPublish(j) \/ ApiMark(j) \/ ApiFault(j) \/ Lapse(j)
    PROVE  StepFacts
<1>0. StoreTypes /\ MailTypes /\ faults \in Nat /\ LapsedAreSolving
  BY DEF TypeOK, MailTypes, DeliveryInv
<1>1. CASE SubmitJob(j)
  <2>1. UNCHANGED <<fleet, worker, cursor, disp, messages, published, lapsed, faults>>
    BY <1>1 DEF SubmitJob
  <2>2. /\ StoreAges /\ outbox \subseteq outbox'
        /\ \A k \in Job : status[k] = "solving" => status'[k] = "solving"
    BY <1>0, <1>1, SubmitAges DEF SubmitJob
  <2>3. LapsedPart /\ OutboxPart
    BY <1>0, <2>1, <2>2 DEF LapsedPart, OutboxPart, LapsedAreSolving, TypeOK
  <2>4. ApiPart
    BY <1>1 DEF SubmitJob, TypeOK, ApiPart
  <2>5. QED BY <1>0, <2>1, <2>2, <2>3, <2>4, WorkersIdle, DispatchersIdle, MailIdle DEF StepFacts
<1>2. CASE ApiPublish(j)
  <2>1. UNCHANGED <<fleet, worker, cursor, disp, storeVars, lapsed, faults>>
    BY <1>2 DEF ApiPublish
  <2>2. MailAges /\ Mailed(j)'
    BY <1>0, <1>2, SendAges DEF ApiPublish
  <2>3. ApiPart
    BY <1>2, <2>2 DEF ApiPublish, TypeOK, ApiPart
  <2>4. QED BY <1>0, <2>1, <2>2, <2>3, WorkersIdle, DispatchersIdle, StoreIdle DEF StepFacts
<1>3. CASE ApiMark(j)
  <2>1. UNCHANGED <<fleet, worker, cursor, disp, messages, published, lapsed, faults>>
    BY <1>3 DEF ApiMark
  <2>2. StoreAges /\ status' = status /\ outbox' = outbox \ {j}
    BY <1>0, <1>3, AcknowledgeAges DEF ApiMark
  <2>3. Announced(j)
    BY <1>3 DEF ApiMark, DeliveryInv, SentBeforeMark
  <2>4. LapsedPart /\ OutboxPart
    BY <1>0, <2>1, <2>2, <2>3
    DEF LapsedPart, OutboxPart, LapsedAreSolving, TypeOK, Announced, Mailed, Unfinished,
        Terminal, Store!Terminal
  <2>5. ApiPart
    BY <1>3 DEF ApiMark, TypeOK, ApiPart
  <2>6. QED BY <1>0, <2>1, <2>2, <2>4, <2>5, WorkersIdle, DispatchersIdle, MailIdle DEF StepFacts
<1>4. CASE ApiFault(j)
  <2>1. /\ UNCHANGED <<fleet, worker, cursor, disp, messages, published, storeVars, lapsed>>
        /\ faults' \in Nat
    BY <1>0, <1>4 DEF ApiFault
  <2>2. ApiPart
    BY <1>4 DEF ApiFault, TypeOK, ApiPart
  <2>3. QED BY <2>1, <2>2, WorkersIdle, DispatchersIdle, StoreIdle, MailIdle DEF StepFacts
<1>5. CASE Lapse(j)
  <2>1. /\ UNCHANGED <<fleet, worker, cursor, disp, messages, published, storeVars, api>>
        /\ faults' \in Nat /\ lapsed' = lapsed \cup {j} /\ status[j] = "solving"
    BY <1>0, <1>5 DEF Lapse
  <2>2. LapsedPart
    BY <1>0, <2>1 DEF LapsedPart, LapsedAreSolving, TypeOK, storeVars
  <2>3. QED BY <2>1, <2>2, WorkersIdle, DispatchersIdle, StoreIdle, MailIdle, ApiIdle DEF StepFacts
<1>6. QED BY <1>1, <1>2, <1>3, <1>4, <1>5

(* A dispatcher's record after a step.                                       *)
DispatcherBecomes(d, x) ==
    /\ x \in DispatcherState /\ (x.pc = "mark" => x.cur \in Job /\ Mailed(x.cur)')
    /\ disp' = [disp EXCEPT ![d] = x]

LEMMA OneDispatches ==
    ASSUME TypeOK, fleet' = fleet, NEW d \in Dispatcher, NEW x, DispatcherBecomes(d, x)
    PROVE  DispatcherPart
<1>1. DispatcherTypes' /\ OtherDispatchers(d) /\ disp'[d] = x
  BY DispatcherUpdate DEF DispatcherBecomes, TypeOK
<1>2. disp'[d].pc = "mark" => Mailed(disp[d].cur)'
  BY <1>1 DEF DispatcherBecomes, Mailed
<1>3. QED BY <1>1, <1>2 DEF DispatcherPart, OtherDispatchers

(* The record of a dispatcher that starts a pass over the jobs in S.         *)
Publishing(S) == [Polling EXCEPT !.pc = "publish", !.todo = S]

LEMMA PublishingState ==
    ASSUME NEW S \in SUBSET Job
    PROVE  Publishing(S) \in DispatcherState /\ Publishing(S).pc = "publish"
<1>1. Polling \in DispatcherState
  BY DEF DispatcherState, Polling
<1>2. QED BY <1>1 DEF DispatcherState, Publishing

LEMMA DispatchPublishEffect ==
    ASSUME NEW d \in Dispatcher, NEW j \in Job, disp \in [Dispatcher -> DispatcherState],
           DispatchPublish(d, j)
    PROVE  /\ \E x \in DispatcherState : x.cur = j /\ disp' = [disp EXCEPT ![d] = x]
           /\ Send(j) /\ UNCHANGED <<fleet, worker, cursor, storeVars, lapsed, api, faults>>
<1>1. /\ disp' = [disp EXCEPT ![d] = [disp[d] EXCEPT !.pc = "mark", !.cur = j]]
      /\ Send(j) /\ UNCHANGED <<fleet, worker, cursor, storeVars, lapsed, api, faults>>
  BY DEF DispatchPublish
<1>2. PICK x : x = [disp[d] EXCEPT !.pc = "mark", !.cur = j]
  OBVIOUS
<1>3. x \in DispatcherState /\ x.cur = j
  BY <1>2 DEF DispatcherState
<1>4. disp' = [disp EXCEPT ![d] = x]
  BY <1>1, <1>2
<1>5. QED BY <1>1, <1>3, <1>4

LEMMA DispatcherSteps ==
    ASSUME TypeOK, DeliveryInv, NEW d \in Dispatcher,
           \/ Poll(d) \/ DispatchMark(d) \/ DispatchDone(d) \/ DispatchFault(d)
           \/ \E j \in Job : DispatchPublish(d, j)
    PROVE  StepFacts
<1>0. /\ StoreTypes /\ MailTypes /\ faults \in Nat /\ LapsedAreSolving /\ lapsed \in SUBSET Job
      /\ disp \in [Dispatcher -> DispatcherState] /\ disp[d] \in DispatcherState
      /\ disp[d].todo \subseteq Job /\ outbox \subseteq Job
  BY DEF TypeOK, MailTypes, DeliveryInv, DispatcherTypes, DispatcherState, StoreTypes
<1>1. ASSUME NEW x, x \in DispatcherState, x.pc # "mark", fleet' = fleet,
             disp' = [disp EXCEPT ![d] = x]
      PROVE  DispatcherPart
  <2>1. DispatcherBecomes(d, x)
    BY <1>1 DEF DispatcherBecomes
  <2>2. QED BY <1>1, <2>1, OneDispatches
<1>2. ASSUME NEW S \in SUBSET Job, fleet' = fleet,
             disp' = [disp EXCEPT ![d] = [pc |-> "publish", cur |-> NoJob, todo |-> S]]
      PROVE  DispatcherPart
  <2>1. PICK x : x = [pc |-> "publish", cur |-> NoJob, todo |-> S]
    OBVIOUS
  <2>2. x \in DispatcherState /\ x.pc # "mark" /\ disp' = [disp EXCEPT ![d] = x]
    BY <1>2, <2>1 DEF DispatcherState
  <2>3. QED BY <1>1, <1>2, <2>2
<1>3. ASSUME fleet' = fleet, disp' = [disp EXCEPT ![d] = Polling]
      PROVE  DispatcherPart
  <2>1. Polling \in DispatcherState /\ Polling.pc # "mark"
    BY DEF DispatcherState, Polling
  <2>2. QED BY <1>1, <1>3, <2>1
<1>4. ASSUME NEW S \in SUBSET Job, fleet' = fleet, disp' = [disp EXCEPT ![d] = Publishing(S)]
      PROVE  DispatcherPart
  BY <1>1, <1>4, PublishingState
<1>5. CASE Poll(d)
  <2>1. UNCHANGED <<fleet, worker, cursor, messages, published, api, faults>>
    BY <1>5 DEF Poll
  <2>2. ASSUME Store!Requeue(lapsed, lapsed), lapsed' = {},
               disp' = [disp EXCEPT ![d] = [Polling EXCEPT !.pc = "publish", !.todo = outbox']]
        PROVE  StepFacts
    <3>1. StoreAges /\ outbox' = outbox \cup lapsed
      BY <1>0, <2>2, RequeueAges
    <3>2. outbox' \in SUBSET Job /\ LapsedPart /\ OutboxPart
      BY <2>2, <3>1 DEF StoreAges, StoreTypes, LapsedPart, OutboxPart
    <3>3. PICK S \in SUBSET Job : S = outbox'
      BY <3>2
    <3>4. disp' = [disp EXCEPT ![d] = Publishing(S)]
      BY <2>2, <3>3 DEF Publishing
    <3>5. DispatcherPart
      BY <1>4, <2>1, <3>4
    <3>6. QED BY <1>0, <2>1, <3>1, <3>2, <3>5, WorkersIdle, MailIdle, ApiIdle DEF StepFacts
  <2>3. ASSUME UNCHANGED <<storeVars, lapsed>>,
               disp' = [disp EXCEPT ![d] = [Polling EXCEPT !.pc = "publish",
                                !.todo = {j \in outbox : status[j] = "queued"}]]
        PROVE  StepFacts
    <3>1. PICK S \in SUBSET Job : S = {j \in outbox : status[j] = "queued"}
      BY <1>0
    <3>2. disp' = [disp EXCEPT ![d] = Publishing(S)]
      BY <2>3, <3>1 DEF Publishing
    <3>3. DispatcherPart
      BY <1>4, <2>1, <3>2
    <3>4. QED BY <1>0, <2>1, <2>3, <3>3, WorkersIdle, MailIdle, ApiIdle, StoreIdle DEF StepFacts
  <2>4. QED BY <1>5, <2>2, <2>3 DEF Poll
<1>6. ASSUME NEW j \in Job, DispatchPublish(d, j) PROVE StepFacts
  <2>1. UNCHANGED <<fleet, worker, cursor, storeVars, lapsed, api, faults>> /\ Send(j)
    BY <1>0, <1>6, DispatchPublishEffect
  <2>2. MailAges /\ Mailed(j)'
    BY <1>0, <2>1, SendAges
  <2>3. PICK x \in DispatcherState : x.cur = j /\ disp' = [disp EXCEPT ![d] = x]
    BY <1>0, <1>6, DispatchPublishEffect
  <2>4. DispatcherPart
    BY <2>1, <2>2, <2>3, OneDispatches DEF DispatcherBecomes, Mailed
  <2>5. QED BY <1>0, <2>1, <2>2, <2>4, WorkersIdle, ApiIdle, StoreIdle DEF StepFacts
<1>7. CASE DispatchMark(d)
  <2>1. /\ UNCHANGED <<fleet, worker, cursor, messages, published, lapsed, api, faults>>
        /\ disp[d].pc = "mark"
    BY <1>7 DEF DispatchMark
  <2>2. PICK j \in Job : j = disp[d].cur
    BY <2>1 DEF TypeOK, DispatcherTypes
  <2>3. Announced(j)
    BY <2>1, <2>2 DEF DeliveryInv, SentBeforeMark
  <2>4. StoreAges /\ status' = status /\ outbox' = outbox \ {j}
    BY <1>0, <1>7, <2>2, AcknowledgeAges DEF DispatchMark
  <2>5. LapsedPart /\ OutboxPart
    BY <1>0, <2>1, <2>3, <2>4
    DEF LapsedPart, OutboxPart, LapsedAreSolving, TypeOK, Announced, Mailed, Unfinished,
        Terminal, Store!Terminal
  <2>6. PICK S \in SUBSET Job : S = disp[d].todo \ {disp[d].cur}
    BY <1>0
  <2>7. DispatcherPart
    BY <1>2, <1>7, <2>1, <2>6 DEF DispatchMark
  <2>8. QED BY <1>0, <2>1, <2>4, <2>5, <2>7, WorkersIdle, MailIdle, ApiIdle DEF StepFacts
<1>8. CASE DispatchDone(d) \/ DispatchFault(d)
  <2>1. /\ UNCHANGED <<fleet, worker, cursor, storeVars, messages, published, lapsed, api>>
        /\ faults' \in Nat
    BY <1>0, <1>8 DEF DispatchDone, DispatchFault
  <2>2. CASE disp' = [disp EXCEPT ![d] = Polling]
    <3>1. DispatcherPart
      BY <1>3, <2>1, <2>2
    <3>2. QED BY <2>1, <3>1, WorkersIdle, MailIdle, ApiIdle, StoreIdle DEF StepFacts
  <2>3. ASSUME NEW j \in disp[d].todo,
               disp' = [disp EXCEPT ![d] = [pc |-> "publish", cur |-> NoJob,
                                            todo |-> disp[d].todo \ {j}]]
        PROVE  StepFacts
    <3>1. PICK S \in SUBSET Job : S = disp[d].todo \ {j}
      BY <1>0
    <3>2. DispatcherPart
      BY <1>2, <2>1, <2>3, <3>1
    <3>3. QED BY <2>1, <3>2, WorkersIdle, MailIdle, ApiIdle, StoreIdle DEF StepFacts
  <2>4. QED BY <1>8, <2>2, <2>3 DEF DispatchDone, DispatchFault
<1>9. QED BY <1>5, <1>6, <1>7, <1>8

-----------------------------------------------------------------------------
(* The steps of the workers.                                                 *)

LEMMA OneWorks ==
    ASSUME TypeOK, fleet' = fleet, cursor' \in [SqsWorker -> Nat],
           NEW w \in Worker, NEW x, WorkerBecomes(w, x), Knows(x)'
    PROVE  WorkerPart
<1>1. WorkerTypes' /\ OtherWorkers(w) /\ worker'[w] = x
  BY BecomesTyped
<1>2. Knows(worker[w])'
  BY <1>1 DEF Knows
<1>3. QED BY <1>1, <1>2 DEF WorkerPart, OtherWorkers

(* A worker that has no message knows all it has to.                         *)
LEMMA NothingToKnow ==
    ASSUME MailAges, NEW x, x.msg = 0, x.pc # "ack"
    PROVE  Knows(x)'
<1>1. published' \in Nat /\ \A m \in messages' : m.id # 0
  BY DEF MailAges, Message
<1>2. QED BY <1>1 DEF Knows

(* A worker that keeps its job and its message.                              *)
LEMMA KnowledgeKept ==
    ASSUME TypeOK, DeliveryInv, MailAges, NEW w \in Worker, NEW x,
           x.msg = worker[w].msg, x.job = worker[w].job,
           x.pc = "ack" => status'[x.job] \in Terminal
    PROVE  Knows(x)'
<1>1. worker[w] \in WorkerState /\ Knows(worker[w])
  BY DEF TypeOK, WorkerTypes, DeliveryInv, WorkersKnow
<1>2. worker[w].msg \in Nat /\ published \in Nat /\ published' \in Nat
  BY <1>1 DEF WorkerState, TypeOK, MailAges
<1>3. x.msg <= published'
  BY <1>1, <1>2 DEF Knows, MailAges
<1>4. \A m \in messages' : m.id = x.msg => m.job = x.job
  <2>1. SUFFICES ASSUME NEW m \in messages', m.id = worker[w].msg
                 PROVE  m.job = worker[w].job
    OBVIOUS
  <2>2. PICK n \in messages : n.id = m.id /\ n.job = m.job
    BY <1>1, <2>1 DEF Knows, MailAges
  <2>3. QED BY <1>1, <2>1, <2>2 DEF Knows
<1>5. QED BY <1>3, <1>4 DEF Knows, Terminal, Store!Terminal

LEMMA CursorAdvances ==
    ASSUME TypeOK, NEW w \in SqsWorker, cursor' = Advanced(w)
    PROVE  cursor' \in [SqsWorker -> Nat]
<1>1. fleet.weight \in Nat
  BY SolveDeliveryAssumptions DEF TypeOK, Fleet
<1>2. cursor \in [SqsWorker -> Nat] /\ (cursor[w] + 1) % (fleet.weight + 1) \in Nat
  BY <1>1 DEF TypeOK
<1>3. QED BY <1>2 DEF Advanced

(* The worker starts over, whatever it was doing.                            *)
LEMMA StartsOver ==
    ASSUME TypeOK, fleet' = fleet, cursor' \in [SqsWorker -> Nat], MailAges,
           NEW w \in Worker, worker' = [worker EXCEPT ![w] = Idle]
    PROVE  WorkerPart
<1>1. WorkerBecomes(w, Idle)
  BY BecomesIdle
<1>2. PICK x : x = Idle
  OBVIOUS
<1>3. WorkerBecomes(w, x) /\ x.msg = 0 /\ x.pc # "ack"
  BY <1>1, <1>2, IdleWorker
<1>4. QED BY <1>3, NothingToKnow, OneWorks

LEMMA ReceiveStep ==
    ASSUME TypeOK, DeliveryInv, NEW m \in messages, NEW w \in SqsWorker, Receive(w, m)
    PROVE  StepFacts
<1>1. UNCHANGED <<fleet, storeVars, lapsed, api, disp, published, faults>>
  BY DEF Receive
<1>2. MailTypes /\ messages' = SetVisible(m, FALSE) /\ w \in Worker /\ faults \in Nat
  BY DEF Receive, TypeOK, MailTypes, DeliveryInv, Worker
<1>3. MailAges
  BY <1>1, <1>2, VisibilityAges
<1>4. PICK x : WorkerBecomes(w, x) /\ x.pc = "claim" /\ x.job = m.job /\ x.msg = m.id
  BY <1>2, BecomesReceiver
<1>5. m.id \in Nat /\ m.id <= published /\ published \in Nat
  BY <1>2 DEF MailTypes, MessagesNamed, Message
<1>6. \A k \in messages' : k.id = m.id => k.job = m.job
  <2>1. SUFFICES ASSUME NEW k \in messages', k.id = m.id PROVE k.job = m.job
    OBVIOUS
  <2>2. PICK n \in messages : n.id = k.id /\ n.job = k.job
    BY <1>3, <1>5, <2>1 DEF MailAges
  <2>3. QED BY <1>2, <2>1, <2>2 DEF MailTypes, MessagesNamed
<1>7. Knows(x)'
  BY <1>1, <1>4, <1>5, <1>6 DEF Knows
<1>8. cursor' \in [SqsWorker -> Nat]
  BY CursorAdvances DEF Receive
<1>9. WorkerPart
  BY <1>1, <1>2, <1>4, <1>7, <1>8, OneWorks
<1>10. QED BY <1>1, <1>2, <1>3, <1>9, DispatchersIdle, ApiIdle, StoreIdle DEF StepFacts

LEMMA RedeliverStep ==
    ASSUME TypeOK, DeliveryInv, NEW m \in messages, Redeliver(m)
    PROVE  StepFacts
<1>1. UNCHANGED <<fleet, cursor, storeVars, lapsed, api, disp, published, worker, faults>>
  BY DEF Redeliver
<1>2. MailTypes /\ messages' = SetVisible(m, TRUE) /\ faults \in Nat
  BY DEF Redeliver, TypeOK, MailTypes, DeliveryInv
<1>3. MailAges
  BY <1>1, <1>2, VisibilityAges
<1>4. QED BY <1>1, <1>2, <1>3, WorkersIdle, DispatchersIdle, ApiIdle, StoreIdle DEF StepFacts

LEMMA ClaimStep ==
    ASSUME TypeOK, DeliveryInv, NEW w \in Worker, NEW j \in Job, Claim(w, j)
    PROVE  StepFacts
<1>1. UNCHANGED <<fleet, cursor, api, disp, messages, published, faults>>
  BY Zenon DEF Claim
<1>2. /\ Store!Grant(Reclaims(w, j), Rearms(w, j), j)
      /\ lapsed' = lapsed \ Reclaims(w, j)
  BY Zenon DEF Claim
<1>3. /\ StoreTypes /\ Reclaims(w, j) \in SUBSET Job /\ Rearms(w, j) \in SUBSET Job
      /\ lapsed \subseteq Job /\ faults \in Nat /\ LapsedAreSolving
      /\ cursor \in [SqsWorker -> Nat]
  BY DEF TypeOK, Reclaims, Rearms, DeliveryInv
<1>4. /\ StoreAges /\ outbox' = outbox \cup Rearms(w, j) /\ status'[j] = "solving"
      /\ \A k \in Job \ Reclaims(w, j) : k # j => status'[k] = status[k]
  BY <1>2, <1>3, GrantAges
<1>5. LapsedPart /\ OutboxPart
  BY <1>2, <1>3, <1>4 DEF LapsedPart, OutboxPart, LapsedAreSolving
<1>6. MailAges
  BY <1>1, MailIdle
<1>7. PICK x : /\ WorkerBecomes(w, x) /\ x.pc = "input" /\ x.job = j
               /\ x.token = tokens + 1 /\ x.msg = worker[w].msg
               /\ worker[w].pc = "idle" /\ w \notin SqsWorker => x.msg = 0
               /\ w \in SqsWorker => worker[w].job = j
  BY BecomesHolder
<1>8. w \notin SqsWorker => x.msg = 0
  <2>1. w \notin SqsWorker => worker[w].pc = "idle"
    BY IdleWorker DEF Claim
  <2>2. QED BY <1>7, <2>1
<1>9. Knows(x)'
  <2>1. CASE w \in SqsWorker
    BY <1>6, <1>7, <2>1, KnowledgeKept
  <2>2. CASE w \notin SqsWorker
    BY <1>6, <1>7, <1>8, <2>2, NothingToKnow
  <2>3. QED BY <2>1, <2>2
<1>10. WorkerPart
  BY <1>1, <1>3, <1>7, <1>9, OneWorks
<1>11. QED BY <1>1, <1>3, <1>4, <1>5, <1>6, <1>10, DispatchersIdle, ApiIdle DEF StepFacts

LEMMA ClaimNothingStep ==
    ASSUME TypeOK, DeliveryInv, NEW w \in Worker, ClaimNothing(w)
    PROVE  StepFacts
<1>1. UNCHANGED <<fleet, cursor, api, disp, messages, published, faults>>
  BY DEF ClaimNothing
<1>2. PICK R : R = Reclaims(w, worker[w].job)
  OBVIOUS
<1>3. Store!Requeue(R, R) /\ lapsed' = lapsed \ R
  BY <1>2 DEF ClaimNothing
<1>4. /\ StoreTypes /\ R \in SUBSET Job /\ lapsed \subseteq Job /\ faults \in Nat
      /\ LapsedAreSolving /\ cursor \in [SqsWorker -> Nat]
  BY <1>2 DEF TypeOK, Reclaims, DeliveryInv
<1>5. /\ StoreAges /\ outbox' = outbox \cup R
      /\ \A k \in Job \ R : status'[k] = status[k]
  BY <1>3, <1>4, RequeueAges
<1>6. LapsedPart /\ OutboxPart
  BY <1>3, <1>4, <1>5 DEF LapsedPart, OutboxPart, LapsedAreSolving
<1>7. MailAges
  BY <1>1, MailIdle
<1>8. PICK x : /\ WorkerBecomes(w, x) /\ x.pc = "check" /\ x.job = worker[w].job
               /\ x.token = worker[w].token /\ x.msg = worker[w].msg
  BY ClaimNothingWorker
<1>9. Knows(x)'
  BY <1>7, <1>8, KnowledgeKept
<1>10. WorkerPart
  BY <1>1, <1>4, <1>8, <1>9, OneWorks
<1>11. QED BY <1>1, <1>4, <1>5, <1>6, <1>7, <1>10, DispatchersIdle, ApiIdle DEF StepFacts

LEMMA PollNothingStep ==
    ASSUME TypeOK, DeliveryInv, NEW w \in Worker, PollNothing(w)
    PROVE  StepFacts
<1>1. UNCHANGED <<fleet, storeVars, lapsed, api, disp, messages, published>> /\ w \in SqsWorker
  BY DEF PollNothing
<1>2. faults' \in Nat
  BY DEF PollNothing, TypeOK
<1>3. MailAges
  BY <1>1, MailIdle
<1>4. cursor' \in [SqsWorker -> Nat]
  <2>1. cursor' = cursor \/ cursor' = Advanced(w)
    BY DEF PollNothing
  <2>2. QED BY <1>1, <2>1, CursorAdvances DEF TypeOK
<1>5. PICK x : /\ WorkerBecomes(w, x) /\ x.pc \in {"idle", "fallback"}
               /\ (x.msg = 0 \/ (x.msg = worker[w].msg /\ x.job = worker[w].job))
  BY PollNothingWorker
<1>6. Knows(x)'
  <2>1. x.pc # "ack"
    BY <1>5
  <2>2. CASE x.msg = 0
    BY <1>3, <2>1, <2>2, NothingToKnow
  <2>3. CASE x.msg = worker[w].msg /\ x.job = worker[w].job
    BY <1>3, <2>1, <2>3, KnowledgeKept
  <2>4. QED BY <1>5, <2>2, <2>3
<1>7. WorkerPart
  BY <1>1, <1>4, <1>5, <1>6, OneWorks
<1>8. QED BY <1>1, <1>2, <1>3, <1>7, DispatchersIdle, ApiIdle, StoreIdle DEF StepFacts

LEMMA FetchInputStep ==
    ASSUME TypeOK, DeliveryInv, NEW w \in Worker, FetchInput(w)
    PROVE  StepFacts
<1>1. UNCHANGED <<fleet, cursor, storeVars, lapsed, api, disp, messages, published, faults>>
  BY DEF FetchInput
<1>2. MailAges
  BY <1>1, MailIdle
<1>3. PICK x : /\ WorkerBecomes(w, x) /\ x.pc = "solve" /\ x.job = worker[w].job
               /\ x.token = worker[w].token /\ x.msg = worker[w].msg
  BY FetchInputWorker
<1>4. Knows(x)'
  BY <1>2, <1>3, KnowledgeKept
<1>5. cursor' \in [SqsWorker -> Nat] /\ faults' \in Nat
  BY <1>1 DEF TypeOK
<1>6. WorkerPart
  BY <1>1, <1>3, <1>4, <1>5, OneWorks
<1>7. QED BY <1>1, <1>2, <1>5, <1>6, DispatchersIdle, ApiIdle, StoreIdle DEF StepFacts

LEMMA EndingStep ==
    ASSUME TypeOK, DeliveryInv, NEW w \in Worker, NEW end \in Terminal,
           CheckTerminal(w) \/ CompleteJob(w, end)
    PROVE  StepFacts
<1>1. UNCHANGED <<fleet, cursor, lapsed, api, disp, messages, published, faults>>
  BY DEF CheckTerminal, CompleteJob
<1>2. MailAges
  BY <1>1, MailIdle
<1>3. cursor' \in [SqsWorker -> Nat] /\ faults' \in Nat
  BY <1>1 DEF TypeOK
<1>4. /\ StoreAges /\ LapsedPart /\ OutboxPart
      /\ CompleteJob(w, end) => status'[worker[w].job] \in Terminal
      /\ CheckTerminal(w) => status' = status
  <2>1. CASE CheckTerminal(w)
    <3>1. UNCHANGED <<storeVars, lapsed>>
      BY <2>1 DEF CheckTerminal
    <3>2. ~CompleteJob(w, end)
      BY <2>1 DEF CheckTerminal, CompleteJob
    <3>3. QED BY <3>1, <3>2, StoreIdle DEF storeVars
  <2>2. CASE CompleteJob(w, end)
    <3>1. worker[w].job \in Job /\ StoreTypes /\ lapsed \subseteq Job /\ LapsedAreSolving
      BY <2>2 DEF TypeOK, WorkerTypes, CompleteJob, JobPcs, WorkerPcs, DeliveryInv
    <3>2. PICK j \in Job : j = worker[w].job
      BY <3>1
    <3>3. Store!Finish(j, end) /\ j \notin lapsed
      BY <2>2, <3>2 DEF CompleteJob, Active
    <3>4. /\ StoreAges /\ outbox' = outbox
          /\ status'[j] \in Terminal /\ \A k \in Job \ {j} : status'[k] = status[k]
      BY <3>1, <3>3, FinishAges
    <3>5. LapsedPart /\ OutboxPart
      BY <1>1, <3>1, <3>3, <3>4 DEF LapsedPart, OutboxPart, LapsedAreSolving
    <3>6. ~CheckTerminal(w)
      BY <2>2 DEF CheckTerminal, CompleteJob
    <3>7. QED BY <3>2, <3>4, <3>5, <3>6
  <2>3. QED BY <2>1, <2>2
<1>5. PICK x : /\ WorkerBecomes(w, x)
               /\ \/ x = Idle
                  \/ /\ x.pc = "ack" /\ x.job = worker[w].job /\ x.msg = worker[w].msg
                     /\ CheckTerminal(w) => status[x.job] \in Terminal
  BY EndingWorker
<1>6. Knows(x)'
  <2>1. CASE x = Idle
    <3>1. x.msg = 0 /\ x.pc # "ack"
      BY <2>1, IdleWorker
    <3>2. QED BY <1>2, <3>1, NothingToKnow
  <2>2. CASE /\ x.pc = "ack" /\ x.job = worker[w].job /\ x.msg = worker[w].msg
             /\ CheckTerminal(w) => status[x.job] \in Terminal
    <3>1. status'[x.job] \in Terminal
      BY <1>4, <2>2
    <3>2. QED BY <1>2, <2>2, <3>1, KnowledgeKept
  <2>3. QED BY <1>5, <2>1, <2>2
<1>7. WorkerPart
  BY <1>1, <1>3, <1>5, <1>6, OneWorks
<1>8. QED BY <1>1, <1>2, <1>3, <1>4, <1>7, DispatchersIdle, ApiIdle DEF StepFacts

LEMMA DroppingStep ==
    ASSUME TypeOK, DeliveryInv, NEW w \in Worker,
           LoseLease(w) \/ DeleteMessage(w) \/ WorkerFault(w)
    PROVE  StepFacts
<1>1. /\ UNCHANGED <<fleet, storeVars, lapsed, api, disp, published>>
      /\ worker' = [worker EXCEPT ![w] = Idle]
  BY DEF LoseLease, DeleteMessage, WorkerFault
<1>2. faults' \in Nat /\ cursor' \in [SqsWorker -> Nat]
  BY DEF LoseLease, DeleteMessage, WorkerFault, TypeOK
<1>3. MailAges
  <2>1. CASE LoseLease(w) \/ WorkerFault(w)
    <3>1. UNCHANGED <<messages, published>>
      BY <2>1 DEF LoseLease, WorkerFault
    <3>2. QED BY <3>1, MailIdle
  <2>2. CASE DeleteMessage(w)
    <3>1. messages' = {m \in messages : m.id # worker[w].msg} /\ worker[w].pc = "ack"
      BY <2>2 DEF DeleteMessage
    <3>2. \A m \in messages : m.id = worker[w].msg => status[m.job] \in Terminal
      BY <3>1 DEF DeliveryInv, WorkersKnow, Knows
    <3>3. MailTypes
      BY DEF TypeOK, MailTypes, DeliveryInv
    <3>4. QED BY <1>1, <3>1, <3>2, <3>3, DeletionAges
  <2>3. QED BY <2>1, <2>2
<1>4. WorkerPart
  BY <1>1, <1>2, <1>3, StartsOver
<1>5. QED BY <1>1, <1>2, <1>3, <1>4, DispatchersIdle, ApiIdle, StoreIdle DEF StepFacts

-----------------------------------------------------------------------------
(* The theorems.                                                             *)

(* Every step does to each process, to the store and to the queue what the   *)
(* invariant asks of it.                                                     *)
LEMMA StepCases ==
    ASSUME TypeOK, DeliveryInv, [Next]_vars
    PROVE  StepFacts
<1>1. CASE UNCHANGED vars
  <2>1. UNCHANGED <<fleet, storeVars, lapsed, api, disp, messages, published, worker, cursor,
                    faults>>
    BY <1>1 DEF vars
  <2>2. faults' \in Nat
    BY <2>1 DEF TypeOK
  <2>3. QED BY <2>1, <2>2, WorkersIdle, DispatchersIdle, ApiIdle, StoreIdle, MailIdle DEF StepFacts
<1>2. CASE \E j \in Job : SubmitJob(j) \/ ApiPublish(j) \/ ApiMark(j) \/ ApiFault(j) \/ Lapse(j)
  BY <1>2, ApiSteps
<1>3. CASE \E d \in Dispatcher : \/ Poll(d) \/ DispatchMark(d) \/ DispatchDone(d)
                                 \/ DispatchFault(d)
  BY <1>3, DispatcherSteps
<1>4. CASE \E d \in Dispatcher, j \in Job : DispatchPublish(d, j)
  BY <1>4, DispatcherSteps
<1>5. CASE \E m \in messages : Redeliver(m) \/ \E w \in SqsWorker : Receive(w, m)
  BY <1>5, ReceiveStep, RedeliverStep
<1>6. CASE \E w \in Worker, j \in Job : Claim(w, j)
  BY <1>6, ClaimStep
<1>7. CASE \E w \in Worker : \/ PollNothing(w) \/ ClaimNothing(w) \/ CheckTerminal(w)
                             \/ FetchInput(w) \/ LoseLease(w) \/ DeleteMessage(w)
                             \/ WorkerFault(w)
  <2>1. PICK end \in Terminal : TRUE
    BY DEF Terminal, Store!Terminal
  <2>2. QED BY <1>7, <2>1, PollNothingStep, ClaimNothingStep, EndingStep, FetchInputStep,
               DroppingStep
<1>8. CASE \E w \in Worker, end \in Terminal : CompleteJob(w, end)
  BY <1>8, EndingStep
<1>9. QED BY <1>1, <1>2, <1>3, <1>4, <1>5, <1>6, <1>7, <1>8, Zenon DEF Next

LEMMA InitialState ==
    ASSUME Init
    PROVE  TypeOK /\ DeliveryInv /\ TokensDiffer
<1>1. /\ fleet \in Fleets /\ Store!Init /\ lapsed = {} /\ api = [j \in Job |-> "none"]
      /\ disp = [d \in Dispatcher |-> Polling] /\ messages = {} /\ published = 0
      /\ worker = [w \in Worker |-> Idle] /\ cursor = [w \in SqsWorker |-> 0] /\ faults = 0
  BY DEF Init
<1>2. StoreTypes /\ (\A j \in Job : status[j] = "absent")
  BY <1>1 DEF StoreTypes, Store!Init, Store!Status, Store!Terminal, Store!NoToken
<1>3. WorkerTypes /\ (\A w \in Worker : worker[w] = Idle /\ Idle.pc = "idle" /\ Idle.msg = 0)
  BY <1>1, IdleWorker DEF WorkerTypes, JobPcs
<1>4. Polling \in DispatcherState /\ Polling.pc = "poll"
  BY DEF Polling, DispatcherState
<1>5. DispatcherTypes /\ (\A d \in Dispatcher : disp[d].pc = "poll")
  BY <1>1, <1>4 DEF DispatcherTypes
<1>6. TypeOK
  BY <1>1, <1>2, <1>3, <1>5 DEF TypeOK
<1>7. WorkersKnow
  BY <1>1, <1>3 DEF WorkersKnow, Knows
<1>8. SentBeforeMark
  BY <1>1, <1>5 DEF SentBeforeMark
<1>9. NoJobStranded
  BY <1>2 DEF NoJobStranded
<1>10. TokensDiffer
  BY <1>3 DEF TokensDiffer, Working
<1>11. QED BY <1>1, <1>6, <1>7, <1>8, <1>9, <1>10
           DEF DeliveryInv, LapsedAreSolving, MessagesNamed

(* Types are kept, and so is the invariant behind NoJobStranded: an id       *)
(* stands for one job, a worker deletes only a message whose job it knows to *)
(* be finished, and who marks a notification as sent has sent it.            *)
THEOREM DeliveryInvHolds == Spec => [](TypeOK /\ DeliveryInv)
<1>1. Init => TypeOK /\ DeliveryInv
  BY InitialState
<1>2. TypeOK /\ DeliveryInv /\ [Next]_vars => (TypeOK /\ DeliveryInv)'
  BY StepCases, TypesFollow, InvFollows
<1>3. QED BY <1>1, <1>2, PTL DEF Spec

(* A job that is not finished is announced by its outbox row or by a message *)
(* in the queue, whatever crashes, duplicates and late acknowledgements      *)
(* come in between: enqueue_stored, dispatch_outbox and the SQS worker       *)
(* together never strand a job, on either back end.                          *)
THEOREM NoJobStrandedHolds == Spec => []NoJobStranded
<1>1. TypeOK /\ DeliveryInv => NoJobStranded
  BY DEF DeliveryInv
<1>2. QED BY <1>1, DeliveryInvHolds, PTL

-----------------------------------------------------------------------------
(* Tokens, and whose solves are lost.                                        *)

(* A step gives a worker a lease of its own, or leaves its token alone.      *)
HoldersAge ==
    /\ tokens' \in Nat /\ tokens' >= tokens
    /\ \E w \in Worker :
         /\ \A v \in Worker : v # w => worker'[v] = worker[v]
         /\ Working(w)' => \/ Working(w) /\ worker'[w].token = worker[w].token
                           \/ tokens' = tokens + 1 /\ worker'[w].token = tokens + 1

LEMMA TokensStay ==
    ASSUME TypeOK, TokensDiffer, fleet' = fleet, tokens' >= tokens, tokens' \in Nat,
           worker' = worker \/ HoldersAge
    PROVE  TokensDiffer'
<1>0. /\ Worker' = Worker /\ tokens \in Nat
      /\ \A v \in Worker : worker[v] \in WorkerState /\ worker[v].token \in Nat
  BY FleetStays DEF TypeOK, StoreTypes, WorkerTypes, WorkerState
<1>1. CASE worker' = worker
  BY <1>0, <1>1 DEF TokensDiffer, Working
<1>2. CASE HoldersAge
  <2>1. PICK w \in Worker :
           /\ \A v \in Worker : v # w => worker'[v] = worker[v]
           /\ Working(w)' => \/ Working(w) /\ worker'[w].token = worker[w].token
                             \/ tokens' = tokens + 1 /\ worker'[w].token = tokens + 1
    BY <1>2 DEF HoldersAge
  <2>2. \A v \in Worker : v # w => (Working(v)' <=> Working(v)) /\ worker'[v].token = worker[v].token
    BY <2>1 DEF Working
  <2>3. \A v \in Worker : Working(v)' => worker'[v].token <= tokens' /\ worker'[v].token \in Nat
    BY <1>0, <2>1, <2>2 DEF TokensDiffer
  <2>4. \A v \in Worker : v # w /\ Working(v)' /\ Working(w)' => worker'[v].token # worker'[w].token
    BY <1>0, <2>1, <2>2 DEF TokensDiffer
  <2>5. \A u, v \in Worker : u # w /\ v # w /\ Working(u)' /\ Working(v)'
                             /\ worker'[u].token = worker'[v].token => u = v
    BY <2>2 DEF TokensDiffer
  <2>6. \A u, v \in Worker : Working(u)' /\ Working(v)'
                             /\ worker'[u].token = worker'[v].token => u = v
    BY <2>4, <2>5
  <2>7. QED BY <1>0, <2>3, <2>6 DEF TokensDiffer
<1>3. QED BY <1>1, <1>2

(* One worker's record changes.                                              *)
LEMMA OneHolds ==
    ASSUME TypeOK, fleet' = fleet, tokens' \in Nat, tokens' >= tokens, NEW w \in Worker, NEW x,
           WorkerBecomes(w, x),
           x.pc \in {"input", "solve"} =>
             \/ Working(w) /\ x.token = worker[w].token
             \/ tokens' = tokens + 1 /\ x.token = tokens + 1
    PROVE  HoldersAge
<1>1. OtherWorkers(w) /\ worker'[w] = x
  BY BecomesTyped
<1>2. QED BY <1>1 DEF HoldersAge, OtherWorkers, Working

LEMMA HolderSteps ==
    ASSUME TypeOK, DeliveryInv, [Next]_vars, StepFacts
    PROVE  worker' = worker \/ HoldersAge
<1>0. fleet' = fleet /\ tokens' \in Nat /\ tokens' >= tokens
  BY DEF StepFacts, StoreAges, StoreTypes
<1>1. CASE UNCHANGED vars
  BY <1>1 DEF vars
<1>2. CASE \E j \in Job : SubmitJob(j) \/ ApiPublish(j) \/ ApiMark(j) \/ ApiFault(j) \/ Lapse(j)
  BY <1>2 DEF SubmitJob, ApiPublish, ApiMark, ApiFault, Lapse
<1>3. CASE \E d \in Dispatcher : \/ Poll(d) \/ DispatchMark(d) \/ DispatchDone(d)
                                 \/ DispatchFault(d)
  <2>1. PICK d \in Dispatcher : \/ Poll(d) \/ DispatchMark(d) \/ DispatchDone(d)
                                \/ DispatchFault(d)
    BY <1>3
  <2>2. CASE Poll(d)
    BY <2>2, Zenon DEF Poll
  <2>3. CASE DispatchMark(d) \/ DispatchDone(d)
    BY <2>3 DEF DispatchMark, DispatchDone
  <2>4. CASE DispatchFault(d)
    BY <2>4 DEF DispatchFault
  <2>5. QED BY <2>1, <2>2, <2>3, <2>4
<1>4. CASE \E d \in Dispatcher, j \in Job : DispatchPublish(d, j)
  <2>1. disp \in [Dispatcher -> DispatcherState]
    BY DEF TypeOK, DispatcherTypes
  <2>2. QED BY <1>4, <2>1, DispatchPublishEffect
<1>5. CASE \E m \in messages : Redeliver(m) \/ \E w \in SqsWorker : Receive(w, m)
  <2>1. ASSUME NEW m \in messages, Redeliver(m) PROVE worker' = worker
    BY <2>1 DEF Redeliver
  <2>2. ASSUME NEW m \in messages, NEW w \in SqsWorker, Receive(w, m) PROVE HoldersAge
    <3>1. w \in Worker
      BY DEF Worker
    <3>2. PICK x : WorkerBecomes(w, x) /\ x.pc = "claim" /\ x.job = m.job /\ x.msg = m.id
      BY <2>2, <3>1, BecomesReceiver
    <3>3. QED BY <1>0, <3>1, <3>2, OneHolds
  <2>3. QED BY <1>5, <2>1, <2>2
<1>6. ASSUME NEW w \in Worker, NEW j \in Job, Claim(w, j) PROVE HoldersAge
  <2>1. PICK x : /\ WorkerBecomes(w, x) /\ x.pc = "input" /\ x.job = j
                 /\ x.token = tokens + 1 /\ x.msg = worker[w].msg
                 /\ worker[w].pc = "idle" /\ w \notin SqsWorker => x.msg = 0
                 /\ w \in SqsWorker => worker[w].job = j
    BY <1>6, BecomesHolder
  <2>2. Store!Grant(Reclaims(w, j), Rearms(w, j), j)
    BY <1>6, Zenon DEF Claim
  <2>3. StoreTypes /\ Reclaims(w, j) \in SUBSET Job /\ Rearms(w, j) \in SUBSET Job
    BY DEF TypeOK, Reclaims, Rearms
  <2>4. tokens' = tokens + 1
    BY <2>2, <2>3, GrantAges
  <2>5. QED BY <1>0, <2>1, <2>4, OneHolds
<1>7. ASSUME NEW w \in Worker, NEW end \in Terminal,
             \/ PollNothing(w) \/ ClaimNothing(w) \/ CheckTerminal(w) \/ CompleteJob(w, end)
             \/ LoseLease(w) \/ DeleteMessage(w) \/ WorkerFault(w)
      PROVE  HoldersAge
  <2>1. \E x : WorkerBecomes(w, x) /\ x.pc \notin {"input", "solve"}
    <3>1. CASE PollNothing(w)
      <4>1. PICK x : /\ WorkerBecomes(w, x) /\ x.pc \in {"idle", "fallback"}
                     /\ (x.msg = 0 \/ (x.msg = worker[w].msg /\ x.job = worker[w].job))
        BY <3>1, PollNothingWorker
      <4>2. QED BY <4>1
    <3>2. CASE ClaimNothing(w)
      <4>1. PICK x : /\ WorkerBecomes(w, x) /\ x.pc = "check" /\ x.job = worker[w].job
                     /\ x.token = worker[w].token /\ x.msg = worker[w].msg
        BY <3>2, ClaimNothingWorker
      <4>2. QED BY <4>1
    <3>3. CASE CheckTerminal(w) \/ CompleteJob(w, end)
      <4>1. PICK x : /\ WorkerBecomes(w, x)
                     /\ \/ x = Idle
                        \/ /\ x.pc = "ack" /\ x.job = worker[w].job /\ x.msg = worker[w].msg
                           /\ CheckTerminal(w) => status[x.job] \in Terminal
        BY <3>3, EndingWorker
      <4>2. QED BY <4>1, IdleWorker
    <3>4. CASE LoseLease(w) \/ DeleteMessage(w) \/ WorkerFault(w)
      <4>1. worker' = [worker EXCEPT ![w] = Idle]
        BY <3>4 DEF LoseLease, DeleteMessage, WorkerFault
      <4>2. QED BY <4>1, BecomesIdle, IdleWorker
    <3>5. QED BY <1>7, <3>1, <3>2, <3>3, <3>4
  <2>2. PICK x : WorkerBecomes(w, x) /\ x.pc \notin {"input", "solve"}
    BY <2>1
  <2>3. QED BY <1>0, <2>2, OneHolds
<1>8. ASSUME NEW w \in Worker, FetchInput(w) PROVE HoldersAge
  <2>1. PICK x : /\ WorkerBecomes(w, x) /\ x.pc = "solve" /\ x.job = worker[w].job
                 /\ x.token = worker[w].token /\ x.msg = worker[w].msg
    BY <1>8, FetchInputWorker
  <2>2. Working(w)
    BY <1>8 DEF FetchInput, Working
  <2>3. QED BY <1>0, <2>1, <2>2, OneHolds
<1>9. CASE \E w \in Worker : \/ PollNothing(w) \/ ClaimNothing(w) \/ CheckTerminal(w)
                             \/ FetchInput(w) \/ LoseLease(w) \/ DeleteMessage(w)
                             \/ WorkerFault(w)
  <2>1. PICK end \in Terminal : TRUE
    BY DEF Terminal, Store!Terminal
  <2>2. QED BY <1>7, <1>8, <1>9, <2>1
<1>10. CASE \E w \in Worker, end \in Terminal : CompleteJob(w, end)
  BY <1>7, <1>10
<1>11. CASE \E w \in Worker, j \in Job : Claim(w, j)
  BY <1>6, <1>11
<1>12. QED BY <1>1, <1>2, <1>3, <1>4, <1>5, <1>9, <1>10, <1>11, Zenon DEF Next

(* A lease token is drawn by one claim only and never reused.                *)
THEOREM TokensDifferHolds == Spec => []TokensDiffer
<1>1. Init => TokensDiffer
  BY InitialState
<1>2. TypeOK /\ DeliveryInv /\ TokensDiffer /\ [Next]_vars => TokensDiffer'
  <2>1. SUFFICES ASSUME TypeOK, DeliveryInv, TokensDiffer, [Next]_vars PROVE TokensDiffer'
    OBVIOUS
  <2>2. StepFacts
    BY <2>1, StepCases
  <2>3. fleet' = fleet /\ tokens' \in Nat /\ tokens' >= tokens
    BY <2>2 DEF StepFacts, StoreAges, StoreTypes
  <2>4. QED BY <2>1, <2>2, <2>3, HolderSteps, TokensStay
<1>3. QED BY <1>1, <1>2, DeliveryInvHolds, PTL DEF Spec

(* A job that is being solved under a lease that has not run out stays so.   *)
LiveStays ==
    \A j \in Job : status[j] = "solving" /\ j \notin lapsed =>
        status'[j] = "solving" /\ lease'[j] = lease[j] /\ j \notin lapsed'

(* No worker joins those that solve in vain.                                 *)
NoneLost == \A v \in Worker : Working(v)' /\ ~Active(v)' => Working(v) /\ ~Active(v)

LEMMA HoldsOn ==
    ASSUME TypeOK, NEW v \in Worker, Working(v), Active(v), LiveStays,
           worker'[v].job = worker[v].job, worker'[v].token = worker[v].token
    PROVE  Active(v)'
<1>1. worker[v].job \in Job
  BY DEF TypeOK, WorkerTypes, Working, JobPcs, WorkerPcs
<1>2. QED BY <1>1 DEF LiveStays, Active

LEMMA OthersHoldOn ==
    ASSUME TypeOK, LiveStays, NEW w \in Worker, \A v \in Worker : v # w => worker'[v] = worker[v],
           Working(w)' => Active(w)'
    PROVE  NoneLost
<1>1. ASSUME NEW v \in Worker, v # w, Working(v)', ~Active(v)' PROVE Working(v) /\ ~Active(v)
  <2>1. worker'[v] = worker[v] /\ Working(v)
    BY <1>1 DEF Working
  <2>2. QED BY <1>1, <2>1, HoldsOn
<1>2. QED BY <1>1 DEF NoneLost

LEMMA AllHoldOn ==
    ASSUME TypeOK, LiveStays, worker' = worker
    PROVE  NoneLost
<1>1. ASSUME NEW v \in Worker, Working(v)', ~Active(v)' PROVE Working(v) /\ ~Active(v)
  <2>1. Working(v)
    BY <1>1 DEF Working
  <2>2. QED BY <1>1, <2>1, HoldsOn
<1>2. QED BY <1>1 DEF NoneLost

(* The worker that takes the step does not work after it.                    *)
LEMMA OneStops ==
    ASSUME TypeOK, fleet' = fleet, LiveStays, NEW w \in Worker, NEW x, WorkerBecomes(w, x),
           x.pc \notin {"input", "solve"}
    PROVE  NoneLost
<1>1. OtherWorkers(w) /\ worker'[w] = x
  BY BecomesTyped
<1>2. ~Working(w)'
  BY <1>1 DEF Working
<1>3. QED BY <1>1, <1>2, OthersHoldOn DEF OtherWorkers

(* Only expired leases are given up.                                         *)
LEMMA RequeueSpares ==
    ASSUME NEW R \in SUBSET Job, NEW P \in SUBSET Job, Store!Requeue(R, P), R \subseteq lapsed,
           lapsed' \subseteq lapsed
    PROVE  LiveStays
BY DEF Store!Requeue, LiveStays

LEMMA GrantSpares ==
    ASSUME NEW R \in SUBSET Job, NEW P \in SUBSET Job, NEW j \in Job, Store!Grant(R, P, j),
           R \subseteq lapsed, lapsed' \subseteq lapsed
    PROVE  LiveStays
BY DEF Store!Grant, LiveStays

LEMMA NothingSpared ==
    ASSUME UNCHANGED <<status, lease, lapsed>>
    PROVE  LiveStays
BY DEF LiveStays

(* The worker that claims holds the lease it was given.                      *)
LEMMA ClaimKeeps ==
    ASSUME TypeOK, DeliveryInv, fleet' = fleet, NEW w \in Worker, NEW j \in Job, Claim(w, j)
    PROVE  NoneLost
<1>1. PICK x : /\ WorkerBecomes(w, x) /\ x.pc = "input" /\ x.job = j
               /\ x.token = tokens + 1 /\ x.msg = worker[w].msg
               /\ worker[w].pc = "idle" /\ w \notin SqsWorker => x.msg = 0
               /\ w \in SqsWorker => worker[w].job = j
  BY BecomesHolder
<1>2. Store!Grant(Reclaims(w, j), Rearms(w, j), j) /\ lapsed' = lapsed \ Reclaims(w, j)
  BY Zenon DEF Claim
<1>3. /\ Reclaims(w, j) \in SUBSET Job /\ Rearms(w, j) \in SUBSET Job
      /\ Reclaims(w, j) \subseteq lapsed
  BY DEF TypeOK, Reclaims, Rearms
<1>4. LiveStays
  BY <1>2, <1>3, GrantSpares
<1>5. /\ status' = [k \in Job |-> IF k = j THEN "solving"
                                  ELSE IF k \in Reclaims(w, j) THEN "queued" ELSE status[k]]
      /\ lease' = [k \in Job |-> IF k = j THEN tokens + 1
                                 ELSE IF k \in Reclaims(w, j) THEN Store!NoToken ELSE lease[k]]
      /\ status[j] = "queued" \/ j \in Reclaims(w, j)
  BY <1>2, Zenon DEF Store!Grant
<1>6. j \notin lapsed'
  BY <1>2, <1>5 DEF DeliveryInv, LapsedAreSolving
<1>7. OtherWorkers(w) /\ worker'[w] = x
  BY <1>1, BecomesTyped
<1>8. Active(w)'
  BY <1>1, <1>5, <1>6, <1>7 DEF Active
<1>9. QED BY <1>4, <1>7, <1>8, OthersHoldOn DEF OtherWorkers

(* The worker that completes its job was the only one to hold it.            *)
LEMMA CompleteKeeps ==
    ASSUME TypeOK, TokensDiffer, fleet' = fleet, NEW w \in Worker, NEW end \in Terminal,
           CompleteJob(w, end)
    PROVE  NoneLost
<1>1. PICK x : /\ WorkerBecomes(w, x)
               /\ \/ x = Idle
                  \/ /\ x.pc = "ack" /\ x.job = worker[w].job /\ x.msg = worker[w].msg
                     /\ CheckTerminal(w) => status[x.job] \in Terminal
  BY EndingWorker
<1>2. OtherWorkers(w) /\ worker'[w] = x /\ ~Working(w)'
  BY <1>1, BecomesTyped, IdleWorker DEF Working
<1>3. /\ Active(w) /\ Working(w) /\ lapsed' = lapsed
      /\ Store!Finish(worker[w].job, end)
  BY Zenon DEF CompleteJob, Working
<1>4. /\ status' = [status EXCEPT ![worker[w].job] = end]
      /\ lease' = [lease EXCEPT ![worker[w].job] = Store!NoToken]
  BY <1>3, Zenon DEF Store!Finish
<1>5. ASSUME NEW v \in Worker, Working(v)', ~Active(v)', Active(v) PROVE FALSE
  <2>1. v # w /\ worker'[v] = worker[v] /\ Working(v)
    BY <1>2, <1>5 DEF OtherWorkers, Working
  <2>2. worker[v].job \in Job
    BY <2>1 DEF TypeOK, WorkerTypes, Working, JobPcs, WorkerPcs
  <2>3. CASE worker[v].job = worker[w].job
    <3>1. worker[v].token = worker[w].token
      BY <1>3, <1>5, <2>3 DEF Active
    <3>2. QED BY <1>3, <2>1, <3>1 DEF TokensDiffer
  <2>4. CASE worker[v].job # worker[w].job
    <3>1. /\ status \in [Job -> Store!Status] /\ lease \in [Job -> Nat]
      BY DEF TypeOK, StoreTypes
    <3>2. status'[worker[v].job] = status[worker[v].job] /\ lease'[worker[v].job] = lease[worker[v].job]
      BY <1>4, <2>2, <2>4, <3>1
    <3>3. QED BY <1>3, <1>5, <2>1, <3>2 DEF Active
  <2>5. QED BY <2>3, <2>4
<1>6. ASSUME NEW v \in Worker, Working(v)' PROVE Working(v)
  BY <1>2, <1>6 DEF OtherWorkers, Working
<1>7. QED BY <1>5, <1>6 DEF NoneLost

(* A lease that runs out costs its one holder the solve, and is a fault.     *)
LEMMA LapseCosts ==
    ASSUME TypeOK, TokensDiffer, fleet' = fleet, NEW j \in Job, Lapse(j)
    PROVE  \/ NoneLost /\ faults' = faults
           \/ faults' = faults + 1 /\ \E w \in Worker : Superseded' \subseteq Superseded \cup {w}
<1>1. UNCHANGED <<worker, status, lease>> /\ lapsed' = lapsed \cup {j}
  BY DEF Lapse, storeVars
<1>2. ASSUME NEW v \in Worker, Working(v)', ~Active(v)', ~(Working(v) /\ ~Active(v))
      PROVE  Working(v) /\ worker[v].job = j /\ worker[v].token = lease[j]
  <2>1. Working(v) /\ Active(v)
    BY <1>1, <1>2 DEF Working
  <2>2. QED BY <1>1, <1>2, <2>1 DEF Active
<1>3. CASE Abandoned(j) /\ UNCHANGED faults
  <2>1. NoneLost
    BY <1>2, <1>3 DEF NoneLost, Abandoned
  <2>2. QED BY <1>3, <2>1
<1>4. CASE ~Abandoned(j) /\ faults' = faults + 1
  <2>1. PICK w \in Worker : Working(w) /\ worker[w].job = j /\ worker[w].token = lease[j]
    BY <1>4 DEF Abandoned
  <2>2. Worker' = Worker
    BY FleetStays
  <2>3. ASSUME NEW v \in Superseded', v \notin Superseded PROVE v = w
    <3>1. v \in Worker /\ Working(v)' /\ ~Active(v)'
      BY <2>2 DEF Superseded
    <3>2. ~(Working(v) /\ ~Active(v))
      BY <2>3, <3>1 DEF Superseded
    <3>3. Working(v) /\ worker[v].token = lease[j]
      BY <1>2, <3>1, <3>2
    <3>4. QED BY <2>1, <3>1, <3>3 DEF TokensDiffer
  <2>4. QED BY <1>4, <2>3
<1>5. QED BY <1>3, <1>4 DEF Lapse

LEMMA FaultsGrow ==
    ASSUME TypeOK, [Next]_vars, ~\E j \in Job : Lapse(j)
    PROVE  faults' \in {faults, faults + 1}
<1>1. CASE UNCHANGED vars
  BY <1>1 DEF vars
<1>2. CASE \E j \in Job : SubmitJob(j) \/ ApiPublish(j) \/ ApiMark(j) \/ ApiFault(j) \/ Lapse(j)
  BY <1>2 DEF SubmitJob, ApiPublish, ApiMark, ApiFault
<1>3. CASE \E d \in Dispatcher : \/ Poll(d) \/ DispatchMark(d) \/ DispatchDone(d)
                                 \/ DispatchFault(d)
  <2>1. PICK d \in Dispatcher : \/ Poll(d) \/ DispatchMark(d) \/ DispatchDone(d)
                                \/ DispatchFault(d)
    BY <1>3
  <2>2. ASSUME Poll(d) PROVE faults' = faults
    BY <2>2, Zenon DEF Poll
  <2>3. ASSUME DispatchMark(d) \/ DispatchDone(d) PROVE faults' = faults
    BY <2>3 DEF DispatchMark, DispatchDone
  <2>4. ASSUME DispatchFault(d) PROVE faults' = faults + 1
    BY <2>4, Zenon DEF DispatchFault
  <2>5. QED BY <2>1, <2>2, <2>3, <2>4
<1>4. CASE \E d \in Dispatcher, j \in Job : DispatchPublish(d, j)
  BY <1>4, Zenon DEF DispatchPublish
<1>5. CASE \E m \in messages : Redeliver(m) \/ \E w \in SqsWorker : Receive(w, m)
  BY <1>5, Zenon DEF Redeliver, Receive
<1>6. CASE \E w \in Worker, j \in Job : Claim(w, j)
  BY <1>6, Zenon DEF Claim
<1>7. ASSUME NEW w \in Worker,
             \/ PollNothing(w) \/ ClaimNothing(w) \/ CheckTerminal(w)
             \/ FetchInput(w) \/ LoseLease(w) \/ DeleteMessage(w) \/ WorkerFault(w)
      PROVE  faults' \in {faults, faults + 1}
  <2>1. ASSUME PollNothing(w) PROVE faults' = faults \/ faults' = faults + 1
    BY <2>1, Zenon DEF PollNothing
  <2>2. ASSUME ClaimNothing(w) PROVE faults' = faults
    BY <2>2, Zenon DEF ClaimNothing
  <2>3. ASSUME CheckTerminal(w) \/ FetchInput(w) \/ LoseLease(w) \/ DeleteMessage(w)
        PROVE  faults' = faults
    BY <2>3, Zenon DEF CheckTerminal, FetchInput, LoseLease, DeleteMessage
  <2>4. ASSUME WorkerFault(w) PROVE faults' = faults + 1
    BY <2>4, Zenon DEF WorkerFault
  <2>5. QED BY <1>7, <2>1, <2>2, <2>3, <2>4
<1>8. CASE \E w \in Worker, end \in Terminal : CompleteJob(w, end)
  BY <1>8, Zenon DEF CompleteJob
<1>9. QED BY <1>1, <1>2, <1>3, <1>4, <1>5, <1>6, <1>7, <1>8, Zenon DEF Next

LEMMA StepsKeep ==
    ASSUME TypeOK, DeliveryInv, TokensDiffer, [Next]_vars, StepFacts, ~\E j \in Job : Lapse(j)
    PROVE  NoneLost
<1>0. fleet' = fleet
  BY DEF StepFacts
<1>1. CASE UNCHANGED vars
  <2>1. worker' = worker /\ UNCHANGED <<status, lease, lapsed>>
    BY <1>1 DEF vars, storeVars
  <2>2. QED BY <2>1, NothingSpared, AllHoldOn
<1>2. CASE \E j \in Job : SubmitJob(j) \/ ApiPublish(j) \/ ApiMark(j) \/ ApiFault(j) \/ Lapse(j)
  <2>1. PICK j \in Job : SubmitJob(j) \/ ApiPublish(j) \/ ApiMark(j) \/ ApiFault(j)
    BY <1>2
  <2>2. worker' = worker /\ lapsed' = lapsed
    BY <2>1 DEF SubmitJob, ApiPublish, ApiMark, ApiFault
  <2>3. CASE SubmitJob(j)
    <3>1. /\ status[j] = "absent" /\ status' = [status EXCEPT ![j] = "queued"]
          /\ lease' = lease /\ status \in [Job -> Store!Status]
      BY <2>3 DEF SubmitJob, Store!Submit, TypeOK, StoreTypes
    <3>2. LiveStays
      BY <2>2, <3>1 DEF LiveStays
    <3>3. QED BY <2>2, <3>2, AllHoldOn
  <2>4. CASE ApiPublish(j) \/ ApiMark(j) \/ ApiFault(j)
    <3>1. UNCHANGED <<status, lease>>
      BY <2>4 DEF ApiPublish, ApiMark, ApiFault, storeVars, Store!Acknowledge
    <3>2. QED BY <2>2, <3>1, NothingSpared, AllHoldOn
  <2>5. QED BY <2>1, <2>3, <2>4
<1>3. CASE \E d \in Dispatcher : \/ Poll(d) \/ DispatchMark(d) \/ DispatchDone(d)
                                 \/ DispatchFault(d)
  <2>1. PICK d \in Dispatcher : \/ Poll(d) \/ DispatchMark(d) \/ DispatchDone(d)
                                \/ DispatchFault(d)
    BY <1>3
  <2>2. CASE Poll(d)
    <3>1. /\ worker' = worker
          /\ \/ Store!Requeue(lapsed, lapsed) /\ lapsed' = {}
             \/ UNCHANGED <<storeVars, lapsed>>
      BY <2>2, Zenon DEF Poll
    <3>2. CASE Store!Requeue(lapsed, lapsed) /\ lapsed' = {}
      <4>1. lapsed \in SUBSET Job
        BY DEF TypeOK
      <4>2. LiveStays
        BY <3>2, <4>1, RequeueSpares
      <4>3. QED BY <3>1, <4>2, AllHoldOn
    <3>3. CASE UNCHANGED <<storeVars, lapsed>>
      <4>1. UNCHANGED <<status, lease, lapsed>>
        BY <3>3 DEF storeVars
      <4>2. QED BY <3>1, <4>1, NothingSpared, AllHoldOn
    <3>4. QED BY <3>1, <3>2, <3>3
  <2>3. CASE DispatchMark(d) \/ DispatchDone(d) \/ DispatchFault(d)
    <3>1. worker' = worker /\ UNCHANGED <<status, lease, lapsed>>
      BY <2>3, Zenon DEF DispatchMark, DispatchDone, DispatchFault, storeVars, Store!Acknowledge
    <3>2. QED BY <3>1, NothingSpared, AllHoldOn
  <2>4. QED BY <2>1, <2>2, <2>3
<1>4. CASE \E d \in Dispatcher, j \in Job : DispatchPublish(d, j)
  <2>1. worker' = worker /\ UNCHANGED <<status, lease, lapsed>>
    BY <1>4, Zenon DEF DispatchPublish, storeVars
  <2>2. QED BY <2>1, NothingSpared, AllHoldOn
<1>5. CASE \E m \in messages : Redeliver(m) \/ \E w \in SqsWorker : Receive(w, m)
  <2>1. ASSUME NEW m \in messages, Redeliver(m) PROVE NoneLost
    <3>1. worker' = worker /\ UNCHANGED <<status, lease, lapsed>>
      BY <2>1 DEF Redeliver, storeVars
    <3>2. QED BY <3>1, NothingSpared, AllHoldOn
  <2>2. ASSUME NEW m \in messages, NEW w \in SqsWorker, Receive(w, m) PROVE NoneLost
    <3>1. w \in Worker
      BY DEF Worker
    <3>2. PICK x : WorkerBecomes(w, x) /\ x.pc = "claim" /\ x.job = m.job /\ x.msg = m.id
      BY <2>2, <3>1, BecomesReceiver
    <3>3. UNCHANGED <<status, lease, lapsed>>
      BY <2>2, Zenon DEF Receive, storeVars
    <3>4. QED BY <1>0, <3>1, <3>2, <3>3, NothingSpared, OneStops
  <2>3. QED BY <1>5, <2>1, <2>2
<1>6. CASE \E w \in Worker, j \in Job : Claim(w, j)
  BY <1>0, <1>6, ClaimKeeps
<1>7. ASSUME NEW w \in Worker, ClaimNothing(w) PROVE NoneLost
  <2>1. PICK x : /\ WorkerBecomes(w, x) /\ x.pc = "check" /\ x.job = worker[w].job
                 /\ x.token = worker[w].token /\ x.msg = worker[w].msg
    BY <1>7, ClaimNothingWorker
  <2>2. PICK gone : /\ gone = Reclaims(w, worker[w].job) /\ Store!Requeue(gone, gone)
                    /\ lapsed' = lapsed \ gone
    BY <1>7, Zenon DEF ClaimNothing
  <2>3. gone \in SUBSET Job /\ gone \subseteq lapsed
    BY <2>2 DEF TypeOK, Reclaims
  <2>4. LiveStays
    BY <2>2, <2>3, RequeueSpares
  <2>5. QED BY <1>0, <2>1, <2>4, OneStops
<1>8. ASSUME NEW w \in Worker,
             PollNothing(w) \/ CheckTerminal(w) \/ LoseLease(w) \/ DeleteMessage(w) \/ WorkerFault(w)
      PROVE  NoneLost
  <2>1. UNCHANGED <<status, lease, lapsed>>
    BY <1>8, Zenon DEF PollNothing, CheckTerminal, LoseLease, DeleteMessage, WorkerFault, storeVars
  <2>2. \E x : WorkerBecomes(w, x) /\ x.pc \notin {"input", "solve"}
    <3>1. CASE PollNothing(w)
      <4>1. PICK x : /\ WorkerBecomes(w, x) /\ x.pc \in {"idle", "fallback"}
                     /\ (x.msg = 0 \/ (x.msg = worker[w].msg /\ x.job = worker[w].job))
        BY <3>1, PollNothingWorker
      <4>2. QED BY <4>1
    <3>2. CASE CheckTerminal(w)
      <4>1. PICK end \in Terminal : TRUE
        BY DEF Terminal, Store!Terminal
      <4>2. PICK x : /\ WorkerBecomes(w, x)
                     /\ \/ x = Idle
                        \/ /\ x.pc = "ack" /\ x.job = worker[w].job /\ x.msg = worker[w].msg
                           /\ CheckTerminal(w) => status[x.job] \in Terminal
        BY <3>2, <4>1, EndingWorker
      <4>3. QED BY <4>2, IdleWorker
    <3>3. CASE LoseLease(w) \/ DeleteMessage(w) \/ WorkerFault(w)
      <4>1. worker' = [worker EXCEPT ![w] = Idle]
        BY <3>3 DEF LoseLease, DeleteMessage, WorkerFault
      <4>2. QED BY <4>1, BecomesIdle, IdleWorker
    <3>4. QED BY <1>8, <3>1, <3>2, <3>3
  <2>3. PICK x : WorkerBecomes(w, x) /\ x.pc \notin {"input", "solve"}
    BY <2>2
  <2>4. QED BY <1>0, <2>1, <2>3, NothingSpared, OneStops
<1>9. ASSUME NEW w \in Worker, FetchInput(w) PROVE NoneLost
  <2>1. PICK x : /\ WorkerBecomes(w, x) /\ x.pc = "solve" /\ x.job = worker[w].job
                 /\ x.token = worker[w].token /\ x.msg = worker[w].msg
    BY <1>9, FetchInputWorker
  <2>2. Working(w) /\ Active(w) /\ UNCHANGED <<status, lease, lapsed>>
    BY <1>9, Zenon DEF FetchInput, Working, storeVars
  <2>3. OtherWorkers(w) /\ worker'[w] = x
    BY <2>1, <1>0, BecomesTyped
  <2>4. LiveStays /\ Active(w)'
    BY <2>1, <2>2, <2>3, NothingSpared DEF Active
  <2>5. QED BY <2>3, <2>4, OthersHoldOn DEF OtherWorkers
<1>10. CASE \E w \in Worker, end \in Terminal : CompleteJob(w, end)
  BY <1>0, <1>10, CompleteKeeps
<1>11. CASE \E w \in Worker : \/ PollNothing(w) \/ ClaimNothing(w) \/ CheckTerminal(w)
                              \/ FetchInput(w) \/ LoseLease(w) \/ DeleteMessage(w)
                              \/ WorkerFault(w)
  BY <1>7, <1>8, <1>9, <1>11
<1>12. QED BY <1>1, <1>2, <1>3, <1>4, <1>5, <1>6, <1>10, <1>11, Zenon DEF Next

(* The workers that solve in vain are counted by the faults.                 *)
LostCounted == IsFiniteSet(Superseded) /\ Cardinality(Superseded) <= faults

LEMMA CountedStep ==
    ASSUME TypeOK, DeliveryInv, TokensDiffer, LostCounted, [Next]_vars
    PROVE  LostCounted'
<1>1. StepFacts
  BY StepCases
<1>2. fleet' = fleet /\ Worker' = Worker
  BY <1>1, FleetStays DEF StepFacts
<1>3. faults \in Nat /\ Cardinality(Superseded) \in Nat
  BY FS_CardinalityType DEF TypeOK, LostCounted
<1>4. ASSUME NoneLost PROVE Superseded' \subseteq Superseded
  BY <1>2, <1>4 DEF NoneLost, Superseded
<1>5. ASSUME NoneLost, faults' \in {faults, faults + 1} PROVE LostCounted'
  <2>1. IsFiniteSet(Superseded') /\ Cardinality(Superseded') <= Cardinality(Superseded)
    BY <1>4, <1>5, FS_Subset DEF LostCounted
  <2>2. Cardinality(Superseded') \in Nat
    BY <2>1, FS_CardinalityType
  <2>3. QED BY <1>3, <1>5, <2>1, <2>2 DEF LostCounted
<1>6. ASSUME NEW w \in Worker, Superseded' \subseteq Superseded \cup {w}, faults' = faults + 1
      PROVE  LostCounted'
  <2>1. /\ IsFiniteSet(Superseded \cup {w})
        /\ Cardinality(Superseded \cup {w}) \in {Cardinality(Superseded), Cardinality(Superseded) + 1}
    BY FS_AddElement DEF LostCounted
  <2>2. /\ IsFiniteSet(Superseded')
        /\ Cardinality(Superseded') <= Cardinality(Superseded \cup {w})
    BY <1>6, <2>1, FS_Subset
  <2>3. Cardinality(Superseded') \in Nat
    BY <2>2, FS_CardinalityType
  <2>4. QED BY <1>3, <1>6, <2>1, <2>2, <2>3 DEF LostCounted
<1>7. CASE \E j \in Job : Lapse(j)
  <2>1. PICK j \in Job : Lapse(j)
    BY <1>7
  <2>2. \/ NoneLost /\ faults' = faults
        \/ faults' = faults + 1 /\ \E w \in Worker : Superseded' \subseteq Superseded \cup {w}
    BY <1>2, <2>1, LapseCosts
  <2>3. QED BY <1>5, <1>6, <2>2
<1>8. CASE ~\E j \in Job : Lapse(j)
  BY <1>1, <1>5, <1>8, FaultsGrow, StepsKeep
<1>9. QED BY <1>7, <1>8

(* Duplicated and redelivered messages bring several workers to one job,     *)
(* claims and dispatchers of every replica give up on leases, yet no worker  *)
(* loses the job it solves unless its own lease ran out: claim, the reclaim  *)
(* of expired leases and complete never touch a lease that is still active.  *)
THEOREM LostSolvesAreFaultsHolds == Spec => []LostSolvesAreFaults
<1>1. Init => LostCounted
  <2>1. SUFFICES ASSUME Init PROVE LostCounted
    OBVIOUS
  <2>2. worker = [w \in Worker |-> Idle] /\ faults = 0
    BY <2>1 DEF Init
  <2>3. Superseded = {}
    BY <2>2, IdleWorker DEF Superseded, Working
  <2>4. QED BY <2>2, <2>3, FS_EmptySet DEF LostCounted
<1>2. TypeOK /\ DeliveryInv /\ TokensDiffer /\ LostCounted /\ [Next]_vars => LostCounted'
  BY CountedStep
<1>3. LostCounted => LostSolvesAreFaults
  BY DEF LostCounted, LostSolvesAreFaults
<1>4. QED BY <1>1, <1>2, <1>3, DeliveryInvHolds, TokensDifferHolds, PTL DEF Spec

-----------------------------------------------------------------------------
(* The rate limiter in front of submissions, for any identities and any size, *)
(* refill and sweep of its buckets.  Its state is not that of delivery, so    *)
(* that RateLimits is instantiated with variables of its own.                *)
(* What identity x could spend at time t: what its bucket holds, or a full   *)
(* one if it has none.                                                       *)
Available(b, t, x) ==
    IF x \in DOMAIN b
      THEN AtMost(b[x].tokens + Elapsed(t, b[x].updated_at), Capacity)
      ELSE Capacity

(* The requests of s from the i-th to the j-th that were of the i-th's       *)
(* identity.                                                                 *)
SameWho(s, i, j) == {k \in i..j : s[k].who = s[i].who}

LimiterTypes ==
    /\ now \in Nat
    /\ \A c \in Call : call[c] = Ready
    /\ \A x \in DOMAIN buckets : /\ buckets[x].tokens \in Nat
                                 /\ buckets[x].updated_at \in 0..now
    /\ granted \in Seq([who : Identity, at : Nat])
    /\ \A i \in DOMAIN granted : granted[i].at <= now

(* From each request on, what was let through and what is left to spend do   *)
(* not exceed a full bucket and what has flowed in.                          *)
NothingFromNowhere ==
    \A i \in DOMAIN granted :
        Cardinality(SameWho(granted, i, Len(granted))) * Cost + Available(buckets, now, granted[i].who)
            <= Capacity + (now - granted[i].at)

BurstsFit ==
    \A i, j \in DOMAIN granted : i <= j =>
        Cardinality(SameWho(granted, i, j)) * Cost <= Capacity + (granted[j].at - granted[i].at)

LimiterInv ==
    subject = "requests" => LimiterTypes /\ NothingFromNowhere /\ BurstsFit

-----------------------------------------------------------------------------
LEMMA FewAlike ==
    ASSUME NEW s, NEW i \in Nat, NEW j \in Nat
    PROVE  IsFiniteSet(SameWho(s, i, j)) /\ Cardinality(SameWho(s, i, j)) \in Nat
<1>1. IsFiniteSet(i..j) /\ SameWho(s, i, j) \subseteq i..j
  BY FS_Interval DEF SameWho
<1>2. QED BY <1>1, FS_Subset, FS_CardinalityType

LEMMA AvailableType ==
    ASSUME LimiterTypes, NEW id
    PROVE  Available(buckets, now, id) \in Nat /\ Available(buckets, now, id) <= Capacity
BY RateLimitsAssumptions DEF Available, LimiterTypes, AtMost, Level, Elapsed

(* Forgetting full buckets changes nothing for anybody.                      *)
LEMMA SweepIsHarmless ==
    ASSUME LimiterTypes, NEW id
    PROVE  /\ Tokens(id) = Available(buckets, now, id)
           /\ DOMAIN Swept(id) \subseteq DOMAIN buckets
           /\ \A x \in DOMAIN Swept(id) : Swept(id)[x] = buckets[x]
           /\ \A x : x \notin DOMAIN Swept(id) => Available(buckets, now, x) = Capacity
<1>1. CASE Cardinality(DOMAIN buckets) >= Threshold /\ id \notin DOMAIN buckets
  <2>1. Swept(id) = [x \in {y \in DOMAIN buckets : Kept(buckets[y])} |-> buckets[x]]
    BY <1>1 DEF Swept
  <2>2. /\ DOMAIN Swept(id) = {y \in DOMAIN buckets : Kept(buckets[y])}
        /\ \A x \in DOMAIN Swept(id) : Swept(id)[x] = buckets[x]
    BY <2>1
  <2>3. ASSUME NEW x, x \notin DOMAIN Swept(id) PROVE Available(buckets, now, x) = Capacity
    <3>1. CASE x \in DOMAIN buckets
      <4>1. ~(Level(buckets[x]) < Capacity)
        BY <2>2, <2>3, <3>1 DEF Kept
      <4>2. QED BY <3>1, <4>1 DEF Available, AtMost, Level
    <3>2. CASE x \notin DOMAIN buckets
      BY <3>2 DEF Available
    <3>3. QED BY <3>1, <3>2
  <2>4. id \notin DOMAIN Swept(id)
    BY <1>1, <2>2
  <2>5. Tokens(id) = Capacity /\ Available(buckets, now, id) = Capacity
    BY <1>1, <2>4 DEF Tokens, Available
  <2>6. QED BY <2>2, <2>3, <2>5
<1>2. CASE ~(Cardinality(DOMAIN buckets) >= Threshold /\ id \notin DOMAIN buckets)
  <2>1. Swept(id) = buckets
    BY <1>2 DEF Swept
  <2>2. Tokens(id) = Available(buckets, now, id)
    BY <2>1 DEF Tokens, Level, Available
  <2>3. QED BY <2>1, <2>2 DEF Available
<1>3. QED BY <1>1, <1>2

(* Whole seconds: no less than the exact wait, and less than a second more.  *)
LEMMA Divided ==
    ASSUME NEW m \in Int, NEW s \in Nat, s > 0
    PROVE  m \div s \in Int /\ s * (m \div s) <= m /\ m < s * (m \div s) + s
OBVIOUS

LEMMA RoundedUpBounds ==
    ASSUME NEW n \in Nat, n > 0
    PROVE  RoundedUp(n) \in Nat /\ RoundedUp(n) >= n /\ RoundedUp(n) < n + Second
<1>1. Second \in Nat /\ Second > 0
  BY RateLimitsAssumptions
<1>2. PICK q : q = (n + Second - 1) \div Second
  OBVIOUS
<1>3. q \in Int /\ Second * q <= n + Second - 1 /\ n + Second - 1 < Second * q + Second
  BY <1>1, <1>2, Divided
<1>4. q > 0
  BY <1>1, <1>3
<1>5. RoundedUp(n) = Second * q
  BY <1>2, <1>3, <1>4 DEF RoundedUp
<1>6. Second * q \in Nat
  BY <1>1, <1>3, <1>4
<1>7. QED BY <1>1, <1>3, <1>5, <1>6

(* Who is told to wait is told a second at least.                            *)
LEMMA SomeWait ==
    ASSUME NEW n \in Int
    PROVE  /\ RoundedUp(n) \in Nat /\ RoundedUp(n) > 0
           /\ RoundedDown(n) \in Nat /\ RoundedDown(n) > 0
<1>1. Second \in Nat /\ Second > 0
  BY RateLimitsAssumptions
<1>2. ASSUME NEW q \in Int PROVE Second * (IF q > 1 THEN q ELSE 1) \in Nat
                               /\ Second * (IF q > 1 THEN q ELSE 1) > 0
  <2>1. CASE q > 1
    BY <1>1, <2>1
  <2>2. CASE ~(q > 1)
    BY <1>1, <2>2
  <2>3. QED BY <2>1, <2>2
<1>3. n + Second - 1 \in Int
  BY <1>1
<1>4. (n + Second - 1) \div Second \in Int /\ n \div Second \in Int
  BY <1>1, <1>3, Divided
<1>5. QED BY <1>2, <1>4 DEF RoundedUp, RoundedDown

(* A call spends what it is charged, and nobody else's bucket changes.       *)
LEMMA CheckSpends ==
    ASSUME LimiterTypes, NEW id, Check(id)
    PROVE  LET paid == IF Available(buckets, now, id) >= Cost THEN Available(buckets, now, id) - Cost ELSE Available(buckets, now, id)
           IN  /\ Available(buckets', now', id) = paid
               /\ \A x : x # id => Available(buckets', now', x) = Available(buckets, now, x)
               /\ \A x \in DOMAIN buckets' : /\ buckets'[x].tokens \in Nat
                                             /\ buckets'[x].updated_at \in 0..now
               /\ \/ Available(buckets, now, id) >= Cost /\ granted' = Append(granted, [who |-> id, at |-> now])
                  \/ Available(buckets, now, id) < Cost /\ granted' = granted
<1>1. PICK kept : kept = Swept(id)
  OBVIOUS
<1>2. /\ DOMAIN kept \subseteq DOMAIN buckets
      /\ \A x \in DOMAIN kept : kept[x] = buckets[x]
      /\ \A x : x \notin DOMAIN kept => Available(buckets, now, x) = Capacity
      /\ Tokens(id) = Available(buckets, now, id)
  BY <1>1, SweepIsHarmless
<1>3. Available(buckets, now, id) \in Nat /\ Available(buckets, now, id) <= Capacity /\ Cost \in Nat \ {0} /\ Capacity \in Nat /\ now \in Nat
  BY AvailableType, RateLimitsAssumptions DEF LimiterTypes
<1>4. PICK paid : paid = IF Available(buckets, now, id) >= Cost THEN Available(buckets, now, id) - Cost ELSE Available(buckets, now, id)
  OBVIOUS
<1>5. paid \in Nat /\ paid <= Capacity
  BY <1>3, <1>4
<1>6. PICK wait : wait = BucketWait(id)
  OBVIOUS
<1>7. /\ wait \in Nat /\ (wait = 0 <=> Available(buckets, now, id) >= Cost)
  <2>1. CASE Available(buckets, now, id) >= Cost
    BY <1>2, <1>6, <2>1 DEF BucketWait
  <2>2. CASE ~(Available(buckets, now, id) >= Cost)
    <3>1. wait = RoundedUp(Cost - Available(buckets, now, id))
      BY <1>2, <1>6, <2>2 DEF BucketWait
    <3>2. Cost - Available(buckets, now, id) \in Int
      BY <1>3
    <3>3. wait \in Nat /\ wait > 0
      BY <3>1, <3>2, SomeWait
    <3>4. QED BY <2>2, <3>3
  <2>3. QED BY <2>1, <2>2
<1>8. paid = IF wait = 0 THEN Tokens(id) - Cost ELSE Tokens(id)
  BY <1>2, <1>4, <1>7
<1>9. /\ buckets' = Put(kept, id, [tokens |-> paid, updated_at |-> now])
      /\ Answer(id, now, wait) /\ now' = now
  BY <1>1, <1>6, <1>8 DEF Check
<1>10. /\ DOMAIN buckets' = DOMAIN kept \cup {id}
       /\ buckets'[id].tokens = paid /\ buckets'[id].updated_at = now
       /\ \A x \in DOMAIN kept : x # id => buckets'[x] = buckets[x]
  BY <1>2, <1>9 DEF Put
<1>11. Available(buckets', now', id) = paid
  BY <1>3, <1>5, <1>9, <1>10 DEF Available, AtMost, Level, Elapsed
<1>12. ASSUME NEW x, x # id PROVE Available(buckets', now', x) = Available(buckets, now, x)
  <2>1. CASE x \in DOMAIN kept
    BY <1>2, <1>9, <1>10, <1>12, <2>1 DEF Available, AtMost, Level, Elapsed
  <2>2. CASE x \notin DOMAIN kept
    BY <1>2, <1>10, <1>12, <2>2 DEF Available
  <2>3. QED BY <2>1, <2>2
<1>13. \A x \in DOMAIN buckets' : buckets'[x].tokens \in Nat /\ buckets'[x].updated_at \in 0..now
  BY <1>2, <1>3, <1>5, <1>10 DEF LimiterTypes
<1>14. \/ Available(buckets, now, id) >= Cost /\ granted' = Append(granted, [who |-> id, at |-> now])
       \/ Available(buckets, now, id) < Cost /\ granted' = granted
  BY <1>3, <1>7, <1>9 DEF Answer
<1>15. QED BY <1>4, <1>11, <1>12, <1>13, <1>14

(* One request more, of the same identity or of another.                     *)
LEMMA EarlierAlike ==
    ASSUME NEW S, NEW s \in Seq(S), NEW e \in S, NEW i \in 1..Len(s), NEW j \in 1..Len(s)
    PROVE  SameWho(Append(s, e), i, j) = SameWho(s, i, j)
BY DEF SameWho

LEMMA OneMoreAlike ==
    ASSUME NEW S, NEW s \in Seq(S), NEW e \in S, NEW i \in 1..Len(s)
    PROVE  Cardinality(SameWho(Append(s, e), i, Len(s) + 1))
             = Cardinality(SameWho(s, i, Len(s))) + IF s[i].who = e.who THEN 1 ELSE 0
<1>1. PICK n : n = Len(s)
  OBVIOUS
<1>2. PICK a : a = Append(s, e)
  OBVIOUS
<1>3. /\ n \in Nat /\ i \in 1..n /\ i \in Nat /\ n + 1 \in Nat
      /\ \A k \in 1..n : a[k] = s[k]
      /\ a[n + 1] = e
  BY <1>1, <1>2
<1>4. i..(n + 1) = (i..n) \cup {n + 1} /\ n + 1 \notin i..n /\ \A k \in i..n : k \in 1..n
  BY <1>3
<1>5. SameWho(a, i, n + 1) =
        IF s[i].who = e.who THEN SameWho(s, i, n) \cup {n + 1} ELSE SameWho(s, i, n)
  BY <1>3, <1>4 DEF SameWho
<1>6. /\ n + 1 \notin SameWho(s, i, n) /\ IsFiniteSet(SameWho(s, i, n))
      /\ Cardinality(SameWho(s, i, n)) \in Nat
  BY <1>3, <1>4, FewAlike DEF SameWho
<1>7. s[i].who = e.who => Cardinality(SameWho(a, i, n + 1)) = Cardinality(SameWho(s, i, n)) + 1
  BY <1>5, <1>6, FS_AddElement
<1>8. s[i].who # e.who => Cardinality(SameWho(a, i, n + 1)) = Cardinality(SameWho(s, i, n)) + 0
  BY <1>5, <1>6
<1>9. QED BY <1>1, <1>2, <1>7, <1>8

(* A behaviour stays about the limiter it began with.                        *)
LEMMA SubjectFixed ==
    ASSUME [LimiterNext]_limiterVars
    PROVE  subject' = subject
<1>1. ASSUME NEW s, NEW r, NEW t, CheckAt(s, r, t) PROVE subject' = subject
  BY <1>1 DEF CheckAt
<1>2. ASSUME NEW s, NEW r, CheckMail(s, r) \/ \E c \in Call : ReadClock(c, s, r)
      PROVE  subject' = subject
  BY <1>1, <1>2 DEF CheckMail, ReadClock
<1>3. ASSUME NEW c \in Call, TakeLock(c) PROVE subject' = subject
  BY <1>1, <1>3 DEF TakeLock
<1>4. ASSUME Tick \/ UNCHANGED limiterVars \/ \E id \in Identity : Check(id)
      PROVE  subject' = subject
  BY <1>4 DEF Tick, limiterVars, Check
<1>5. QED BY <1>2, <1>3, <1>4 DEF LimiterNext

(* Every call, on the limiter of requests or on that of mail, and the clock. *)
LEMMA LimiterStep ==
    ASSUME LimiterInv, [LimiterNext]_limiterVars
    PROVE  LimiterInv'
<1>1. subject' = subject
  BY SubjectFixed
<1>2. SUFFICES ASSUME subject = "requests", LimiterTypes, NothingFromNowhere, BurstsFit
               PROVE  LimiterTypes' /\ NothingFromNowhere' /\ BurstsFit'
  BY <1>1 DEF LimiterInv
<1>3. /\ Cost \in Nat \ {0} /\ Capacity \in Nat /\ now \in Nat /\ Len(granted) \in Nat
      /\ DOMAIN granted = 1..Len(granted) /\ granted \in Seq([who : Identity, at : Nat])
      /\ \A i \in DOMAIN granted : granted[i].at \in Nat /\ granted[i].at <= now
  <2>1. Cost \in Nat \ {0} /\ Capacity \in Nat /\ now \in Nat
    BY <1>2, RateLimitsAssumptions DEF LimiterTypes
  <2>2. PICK S : S = [who : Identity, at : Nat]
    OBVIOUS
  <2>3. granted \in Seq(S)
    BY <1>2, <2>2 DEF LimiterTypes
  <2>4. \A i \in DOMAIN granted : granted[i] \in S
    BY <2>3
  <2>5. \A i \in DOMAIN granted : granted[i].at \in Nat /\ granted[i].at <= now
    BY <1>2, <2>2, <2>4 DEF LimiterTypes
  <2>6. Len(granted) \in Nat /\ DOMAIN granted = 1..Len(granted)
    BY <2>3
  <2>7. QED BY <2>1, <2>2, <2>3, <2>5, <2>6
<1>4. \A id : Available(buckets, now, id) \in Nat /\ Available(buckets, now, id) <= Capacity
  BY <1>2, AvailableType
<1>5. CASE Tick
  <2>1. now' = now + 1 /\ UNCHANGED <<buckets, granted, call>>
    BY <1>5 DEF Tick
  <2>2. LimiterTypes'
    BY <1>2, <1>3, <2>1 DEF LimiterTypes
  <2>3. ASSUME NEW id PROVE Available(buckets', now', id) \in Nat /\ Available(buckets', now', id) <= Available(buckets, now, id) + 1
    <3>1. CASE id \in DOMAIN buckets
      BY <1>2, <1>3, <2>1, <3>1
      DEF LimiterTypes, Available, AtMost, Level, Elapsed
    <3>2. CASE id \notin DOMAIN buckets
      BY <1>3, <2>1, <3>2 DEF Available
    <3>3. QED BY <3>1, <3>2
  <2>4. ASSUME NEW i \in DOMAIN granted
        PROVE  Cardinality(SameWho(granted, i, Len(granted))) * Cost + Available(buckets', now', granted[i].who)
                 <= Capacity + (now' - granted[i].at)
    <3>1. PICK spent : spent = Cardinality(SameWho(granted, i, Len(granted))) * Cost
      OBVIOUS
    <3>2. Cardinality(SameWho(granted, i, Len(granted))) \in Nat
      BY <1>3, FewAlike
    <3>3. spent \in Nat
      BY <1>3, <3>1, <3>2
    <3>4. spent + Available(buckets, now, granted[i].who) <= Capacity + (now - granted[i].at)
      BY <1>2, <3>1 DEF NothingFromNowhere
    <3>5. Available(buckets', now', granted[i].who) <= Available(buckets, now, granted[i].who) + 1 /\ Available(buckets', now', granted[i].who) \in Nat
      BY <2>3
    <3>6. granted[i].at \in Nat /\ granted[i].at <= now /\ Available(buckets, now, granted[i].who) \in Nat
      BY <1>3, <1>4
    <3>7. PICK was, is, at : was = Available(buckets, now, granted[i].who)
                             /\ is = Available(buckets', now', granted[i].who) /\ at = granted[i].at
      OBVIOUS
    <3>8. /\ was \in Nat /\ is \in Nat /\ at \in Nat /\ at <= now
          /\ is <= was + 1 /\ spent + was <= Capacity + (now - at)
      BY <3>4, <3>5, <3>6, <3>7
    <3>9. spent + is <= Capacity + ((now + 1) - at)
      BY <1>3, <3>3, <3>8
    <3>10. QED BY <2>1, <3>1, <3>7, <3>9
  <2>5. NothingFromNowhere'
    <3>1. SUFFICES ASSUME NEW i \in DOMAIN granted
                   PROVE  Cardinality(SameWho(granted, i, Len(granted))) * Cost
                            + Available(buckets', now', granted[i].who)
                              <= Capacity + (now' - granted[i].at)
      BY <2>1 DEF NothingFromNowhere
    <3>2. QED BY <2>4
  <2>6. BurstsFit'
    BY <1>2, <2>1 DEF BurstsFit
  <2>7. QED BY <2>2, <2>5, <2>6
<1>6. ASSUME NEW id \in Identity, Check(id)
      PROVE  LimiterTypes' /\ NothingFromNowhere' /\ BurstsFit'
  <2>1. now' = now /\ call' = call
    BY <1>6 DEF Check
  <2>2. PICK paid : paid = IF Available(buckets, now, id) >= Cost THEN Available(buckets, now, id) - Cost ELSE Available(buckets, now, id)
    OBVIOUS
  <2>3. /\ Available(buckets', now', id) = paid
        /\ \A x : x # id => Available(buckets', now', x) = Available(buckets, now, x)
        /\ \A x \in DOMAIN buckets' : buckets'[x].tokens \in Nat /\ buckets'[x].updated_at \in 0..now
        /\ \/ Available(buckets, now, id) >= Cost /\ granted' = Append(granted, [who |-> id, at |-> now])
           \/ Available(buckets, now, id) < Cost /\ granted' = granted
    BY <1>2, <1>6, <2>2, CheckSpends
  <2>4. CASE Available(buckets, now, id) < Cost /\ granted' = granted
    <3>1. paid = Available(buckets, now, id)
      BY <1>3, <1>4, <2>2, <2>4
    <3>2. \A x : Available(buckets', now', x) = Available(buckets, now, x)
      BY <2>3, <3>1
    <3>3. LimiterTypes'
      BY <1>2, <1>3, <2>1, <2>3, <2>4 DEF LimiterTypes
    <3>4. NothingFromNowhere'
      <4>1. \A i \in DOMAIN granted : Available(buckets', now', granted[i].who) = Available(buckets, now, granted[i].who)
        BY <3>2
      <4>2. QED BY <1>2, <2>1, <2>4, <4>1 DEF NothingFromNowhere
    <3>5. BurstsFit'
      BY <1>2, <2>4 DEF BurstsFit
    <3>6. QED BY <3>3, <3>4, <3>5
  <2>5. CASE Available(buckets, now, id) >= Cost /\ granted' = Append(granted, [who |-> id, at |-> now])
    <3>1. PICK e : e = [who |-> id, at |-> now]
      OBVIOUS
    <3>2. e \in [who : Identity, at : Nat] /\ e.who = id /\ e.at = now
      BY <1>3, <3>1
    <3>3. PICK n : n = Len(granted) + 1
      OBVIOUS
    <3>4. /\ granted' = Append(granted, e) /\ granted' \in Seq([who : Identity, at : Nat])
          /\ Len(granted') = n /\ DOMAIN granted' = 1..n /\ n \in Nat /\ granted'[n] = e
          /\ \A i \in DOMAIN granted : granted'[i] = granted[i]
      BY <1>3, <2>5, <3>1, <3>2, <3>3
    <3>a. PICK S : S = [who : Identity, at : Nat]
      OBVIOUS
    <3>b. granted \in Seq(S) /\ e \in S
      BY <1>3, <3>2, <3>a
    <3>c. ASSUME NEW i \in 1..Len(granted)
          PROVE  /\ \A j \in 1..Len(granted) : SameWho(granted', i, j) = SameWho(granted, i, j)
                 /\ Cardinality(SameWho(granted', i, n))
                      = Cardinality(SameWho(granted, i, Len(granted)))
                          + IF granted[i].who = id THEN 1 ELSE 0
      <4>1. \A j \in 1..Len(granted) : SameWho(Append(granted, e), i, j) = SameWho(granted, i, j)
        BY <3>b, EarlierAlike
      <4>2. Cardinality(SameWho(Append(granted, e), i, Len(granted) + 1))
              = Cardinality(SameWho(granted, i, Len(granted))) + IF granted[i].who = e.who THEN 1 ELSE 0
        BY <3>b, OneMoreAlike, Zenon
      <4>3. QED BY <3>2, <3>3, <3>4, <4>1, <4>2
    <3>d. \A i \in 1..n : granted'[i].at \in Nat
      BY <1>3, <3>2, <3>3, <3>4
    <3>5. LimiterTypes'
      <4>1. \A i \in DOMAIN granted' : granted'[i].at <= now
        BY <1>3, <3>2, <3>3, <3>4
      <4>2. QED BY <1>2, <1>3, <2>1, <2>3, <3>4, <4>1 DEF LimiterTypes
    <3>6. paid = Available(buckets, now, id) - Cost /\ paid \in Nat
      BY <1>3, <1>4, <2>2, <2>5
    <3>7. Cardinality(SameWho(granted', n, n)) = 1
      <4>1. SameWho(granted', n, n) = {n}
        BY <3>4 DEF SameWho
      <4>2. QED BY <4>1, FS_Singleton
    <3>8. ASSUME NEW i \in 1..n
          PROVE  Cardinality(SameWho(granted', i, n)) * Cost + Available(buckets', now', granted'[i].who)
                   <= Capacity + (now - granted'[i].at)
      <4>1. CASE i = n
        <5>1. granted'[i].who = id /\ granted'[i].at = now
          BY <3>2, <3>4, <4>1
        <5>2. Available(buckets', now', granted'[i].who) = paid
          BY <2>3, <5>1
        <5>3. 1 * Cost + paid <= Capacity + (now - now)
          BY <1>3, <1>4, <3>6
        <5>4. QED BY <3>7, <4>1, <5>1, <5>2, <5>3
      <4>2. CASE i # n
        <5>1. i \in DOMAIN granted /\ granted'[i] = granted[i]
          BY <1>3, <3>3, <3>4, <4>2
        <5>2. PICK was : was = Cardinality(SameWho(granted, i, Len(granted)))
          OBVIOUS
        <5>3. was \in Nat /\ n - 1 = Len(granted)
          BY <1>3, <3>3, <5>1, <5>2, FewAlike
        <5>4. was * Cost + Available(buckets, now, granted[i].who) <= Capacity + (now - granted[i].at)
          BY <1>2, <5>1, <5>2 DEF NothingFromNowhere
        <5>5. CASE granted[i].who = id
          <6>1. Cardinality(SameWho(granted', i, n)) = was + 1
            BY <1>3, <3>c, <5>1, <5>2, <5>3, <5>5
          <6>2. Available(buckets', now', granted'[i].who) = paid
            BY <2>3, <5>1, <5>5
          <6>3. (was + 1) * Cost = was * Cost + Cost /\ was * Cost \in Nat
            BY <1>3, <5>3
          <6>4. (was + 1) * Cost + paid <= Capacity + (now - granted[i].at)
            BY <1>3, <1>4, <3>6, <5>1, <5>4, <5>5, <6>3
          <6>5. QED BY <5>1, <6>1, <6>2, <6>4
        <5>6. CASE granted[i].who # id
          <6>1. Cardinality(SameWho(granted', i, n)) = was
            BY <1>3, <3>c, <5>1, <5>2, <5>3, <5>6
          <6>2. Available(buckets', now', granted'[i].who) = Available(buckets, now, granted[i].who)
            BY <2>3, <5>1, <5>6
          <6>3. QED BY <5>1, <5>4, <6>1, <6>2
        <5>7. QED BY <5>5, <5>6
      <4>3. QED BY <4>1, <4>2
    <3>9. NothingFromNowhere'
      BY <2>1, <3>4, <3>8 DEF NothingFromNowhere
    <3>10. ASSUME NEW i \in DOMAIN granted', NEW j \in DOMAIN granted', i <= j
           PROVE  Cardinality(SameWho(granted', i, j)) * Cost
                    <= Capacity + (granted'[j].at - granted'[i].at)
      <4>1. CASE j = n
        <5>1. PICK burst : burst = Cardinality(SameWho(granted', i, n)) * Cost
          OBVIOUS
        <5>2. Cardinality(SameWho(granted', i, n)) \in Nat
          BY <3>4, <3>10, FewAlike
        <5>3. burst \in Nat
          BY <1>3, <5>1, <5>2
        <5>4. PICK left : left = Available(buckets', now', granted'[i].who)
          OBVIOUS
        <5>5. left \in Nat
          <6>1. left = paid \/ left = Available(buckets, now, granted'[i].who)
            BY <2>3, <5>4
          <6>2. QED BY <1>4, <3>6, <6>1
        <5>6. burst + left <= Capacity + (now - granted'[i].at)
          BY <3>4, <3>8, <3>10, <5>1, <5>4
        <5>7. granted'[i].at \in Nat /\ granted'[j].at = now
          BY <3>2, <3>4, <3>d, <3>10, <4>1
        <5>8. QED BY <1>3, <4>1, <5>1, <5>3, <5>5, <5>6, <5>7
      <4>2. CASE j # n
        <5>1. i \in DOMAIN granted /\ j \in DOMAIN granted
          BY <1>3, <3>3, <3>4, <3>10, <4>2
        <5>2. granted'[i] = granted[i] /\ granted'[j] = granted[j]
          BY <3>4, <5>1
        <5>3. SameWho(granted', i, j) = SameWho(granted, i, j)
          BY <1>3, <3>c, <5>1
        <5>4. QED BY <1>2, <3>10, <5>1, <5>2, <5>3 DEF BurstsFit
      <4>3. QED BY <4>1, <4>2
    <3>11. BurstsFit'
      BY <3>10 DEF BurstsFit
    <3>12. QED BY <3>5, <3>9, <3>11
  <2>6. QED BY <2>3, <2>4, <2>5
<1>7. CASE UNCHANGED limiterVars
  <2>1. UNCHANGED <<now, buckets, granted, call>>
    BY <1>7 DEF limiterVars
  <2>2. \A x : Available(buckets', now', x) = Available(buckets, now, x)
    BY <2>1 DEF Available, AtMost, Level, Elapsed
  <2>3. LimiterTypes' /\ BurstsFit'
    BY <1>2, <2>1 DEF LimiterTypes, BurstsFit
  <2>4. NothingFromNowhere'
    <3>1. \A i \in DOMAIN granted : Available(buckets', now', granted[i].who) = Available(buckets, now, granted[i].who)
      BY <2>2
    <3>2. QED BY <1>2, <2>1, <3>1 DEF NothingFromNowhere
  <2>5. QED BY <2>3, <2>4
(* Calls of the mail limiter are another limiter's.                          *)
<1>8. ASSUME NEW c \in Call PROVE ~TakeLock(c)
  BY <1>2 DEF TakeLock, Ready, LimiterTypes
<1>9. ASSUME NEW s, NEW r PROVE ~CheckMail(s, r) /\ \A c \in Call : ~ReadClock(c, s, r)
  BY <1>2 DEF CheckMail, ReadClock
<1>10. QED BY <1>5, <1>6, <1>7, <1>8, <1>9 DEF LimiterNext

(* The invariant of the limiter holds in every reachable state.              *)
THEOREM LimiterInvHolds == LimiterSpec => []LimiterInv
<1>1. LimiterInit => LimiterInv
  BY DEF LimiterInit, LimiterInv, LimiterTypes, NothingFromNowhere, BurstsFit, NoEvents,
         NoEntries
<1>2. LimiterInv /\ [LimiterNext]_limiterVars => LimiterInv'
  BY LimiterStep
<1>3. QED BY <1>1, <1>2, PTL DEF LimiterSpec

(* Over any stretch of time, an identity gets no more requests through than   *)
(* a full bucket pays for and what flowed in meanwhile, although its bucket  *)
(* may have been forgotten and made anew in between.                         *)
THEOREM BurstBoundedHolds == LimiterSpec => []BurstBounded
<1>1. LimiterInv => BurstBounded
  BY DEF LimiterInv, BurstsFit, SameWho, BurstBounded
<1>2. QED BY <1>1, LimiterInvHolds, PTL

(* Who was told to wait has a bucket that does not pay for a request a second *)
(* sooner.                                                                   *)
ToldTrue ==
    subject = "requests" =>
        \/ told = Nobody
        \/ told.until \in Nat /\ Available(buckets, now, told.who) + told.until < Cost + now + Second

LEMMA ToldTrueStep ==
    ASSUME LimiterInv, ToldTrue, subject = "requests",
           [LimiterNext]_limiterVars
    PROVE  ToldTrue' /\ (Len(granted') > Len(granted) /\ told # Nobody
                           /\ Last(granted').who = told.who
                         => Last(granted').at + Second > told.until)
<1>1. /\ Second \in Nat \ {0} /\ LimiterTypes /\ Cost \in Nat \ {0} /\ Capacity \in Nat /\ now \in Nat /\ Len(granted) \in Nat
      /\ \A x : Available(buckets, now, x) \in Nat /\ Available(buckets, now, x) <= Capacity
      /\ told # Nobody
           => told.until \in Nat /\ Available(buckets, now, told.who) + told.until < Cost + now + Second
  BY AvailableType, RateLimitsAssumptions DEF LimiterInv, LimiterTypes, ToldTrue
<1>2. CASE Tick
  <2>1. /\ now' = now + 1 /\ UNCHANGED <<buckets, granted>>
        /\ told' = told \/ told' = Nobody
    BY <1>2 DEF Tick
  <2>2. ASSUME told' = told, told # Nobody
        PROVE  told'.until \in Nat /\ Available(buckets', now', told'.who) + told'.until < Cost + now' + Second
    <3>1. PICK x, until : x = told.who /\ until = told.until
      OBVIOUS
    <3>2. Available(buckets', now', x) <= Available(buckets, now, x) + 1
          /\ Available(buckets', now', x) \in Nat
      <4>1. CASE x \in DOMAIN buckets
        <5>1. PICK n, at : n = buckets[x].tokens /\ at = buckets[x].updated_at
          OBVIOUS
        <5>2. n \in Nat /\ at \in Nat /\ at <= now /\ now \in Nat /\ Capacity \in Nat
          BY <1>1, <4>1, <5>1 DEF LimiterTypes
        <5>3. /\ Available(buckets, now, x) = AtMost(n + Elapsed(now, at), Capacity)
              /\ Available(buckets', now', x) = AtMost(n + Elapsed(now + 1, at), Capacity)
          BY <2>1, <4>1, <5>1 DEF Available
        <5>4. QED BY <5>2, <5>3 DEF AtMost, Elapsed
      <4>2. CASE x \notin DOMAIN buckets
        BY <1>1, <2>1, <4>2 DEF Available
      <4>3. QED BY <4>1, <4>2
    <3>3. PICK was, is : was = Available(buckets, now, x) /\ is = Available(buckets', now', x)
      OBVIOUS
    <3>4. /\ was \in Nat /\ is \in Nat /\ is <= was + 1 /\ until \in Nat /\ was + until < Cost + now + Second
      BY <1>1, <2>2, <3>1, <3>2, <3>3
    <3>5. is + until < Cost + (now + 1) + Second
      BY <1>1, <3>4
    <3>6. QED BY <2>1, <2>2, <3>1, <3>3, <3>4, <3>5
  <2>3. QED BY <2>1, <2>2 DEF ToldTrue
<1>3. ASSUME NEW id \in Identity, Check(id)
      PROVE  ToldTrue' /\ (Len(granted') > Len(granted) /\ told # Nobody
                             /\ Last(granted').who = told.who
                           => Last(granted').at + Second > told.until)
  <2>1. PICK T : T = Available(buckets, now, id)
    OBVIOUS
  <2>2. T \in Nat /\ now' = now
    BY <1>1, <1>3, <2>1 DEF Check
  <2>3. /\ Available(buckets', now', id) = IF T >= Cost THEN T - Cost ELSE T
        /\ \A x : x # id => Available(buckets', now', x) = Available(buckets, now, x)
        /\ \/ T >= Cost /\ granted' = Append(granted, [who |-> id, at |-> now])
           \/ T < Cost /\ granted' = granted
    BY <1>1, <1>3, <2>1, CheckSpends
  <2>4. PICK wait : wait = BucketWait(id)
    OBVIOUS
  <2>5. /\ T >= Cost => wait = 0
        /\ T < Cost => wait \in Nat /\ wait >= Cost - T /\ wait < Cost - T + Second
    <3>1. wait = IF T >= Cost THEN 0 ELSE RoundedUp(Cost - T)
      BY <1>1, <2>1, <2>4, SweepIsHarmless DEF BucketWait
    <3>2. CASE T >= Cost
      BY <1>1, <2>2, <3>1, <3>2
    <3>3. CASE T < Cost
      <4>1. Cost - T \in Nat /\ Cost - T > 0
        BY <1>1, <2>2, <3>3
      <4>2. RoundedUp(Cost - T) \in Nat /\ RoundedUp(Cost - T) >= Cost - T
            /\ RoundedUp(Cost - T) < Cost - T + Second
        BY <4>1, RoundedUpBounds
      <4>3. wait = RoundedUp(Cost - T)
        BY <1>1, <2>2, <3>1, <3>3
      <4>4. QED BY <1>1, <2>2, <3>3, <4>2, <4>3
    <3>4. QED BY <1>1, <2>2, <3>2, <3>3
  <2>6. told' = told \/ (T < Cost /\ told' = [who |-> id, until |-> now + wait])
    <3>1. Answer(id, now, wait)
      BY <1>3, <2>4 DEF Check
    <3>2. QED BY <1>1, <2>2, <2>5, <3>1 DEF Answer
  <2>7. ToldTrue'
    <3>1. CASE told' = told
      <4>1. \A x : Available(buckets', now', x) \in Nat
                    /\ Available(buckets', now', x) <= Available(buckets, now, x)
        BY <1>1, <2>1, <2>2, <2>3
      <4>2. CASE told = Nobody
        BY <3>1, <4>2 DEF ToldTrue
      <4>3. CASE told # Nobody
        <5>1. PICK x, until : x = told.who /\ until = told.until
          OBVIOUS
        <5>2. PICK was, is : was = Available(buckets, now, x) /\ is = Available(buckets', now', x)
          OBVIOUS
        <5>3. was \in Nat /\ is \in Nat /\ is <= was /\ until \in Nat /\ was + until < Cost + now + Second
          BY <1>1, <4>1, <4>3, <5>1, <5>2
        <5>4. is + until < Cost + now + Second
          BY <1>1, <5>3
        <5>5. QED BY <2>2, <3>1, <5>1, <5>2, <5>3, <5>4 DEF ToldTrue
      <4>4. QED BY <4>2, <4>3
    <3>2. CASE T < Cost /\ told' = [who |-> id, until |-> now + wait]
      <4>1. /\ told'.who = id /\ told'.until = now + wait
            /\ wait \in Nat /\ wait < Cost - T + Second
        BY <1>1, <2>2, <2>5, <3>2
      <4>2. Available(buckets', now', id) = T
        BY <1>1, <2>2, <2>3, <3>2
      <4>3. now + wait \in Nat /\ T + (now + wait) < Cost + now + Second
        BY <1>1, <2>2, <3>2, <4>1
      <4>4. QED BY <2>2, <4>1, <4>2, <4>3 DEF ToldTrue
    <3>3. QED BY <2>6, <3>1, <3>2
  <2>8. ASSUME Len(granted') > Len(granted), told # Nobody,
               Last(granted').who = told.who
        PROVE  Last(granted').at + Second > told.until
    <3>1. T >= Cost /\ granted' = Append(granted, [who |-> id, at |-> now])
      BY <1>1, <2>3, <2>8
    <3>2. Last(granted') = [who |-> id, at |-> now]
      <4>1. PICK e : e = [who |-> id, at |-> now]
        OBVIOUS
      <4>2. PICK S : S = [who : Identity, at : Nat]
        OBVIOUS
      <4>3. granted \in Seq(S) /\ e \in S
        BY <1>1, <1>3, <4>1, <4>2 DEF LimiterTypes
      <4>4. PICK a : a = Append(granted, e)
        OBVIOUS
      <4>5. a[Len(a)] = e
        BY <4>3, <4>4
      <4>6. QED BY <3>1, <4>1, <4>4, <4>5 DEF Last
    <3>3. told.who = id
      BY <2>8, <3>2
    <3>4. PICK until : until = told.until
      OBVIOUS
    <3>5. until \in Nat /\ T + until < Cost + now + Second
      BY <1>1, <2>1, <2>8, <3>3, <3>4
    <3>6. until < now + Second
      BY <1>1, <2>2, <3>1, <3>5
    <3>7. QED BY <3>2, <3>4, <3>6
  <2>9. QED BY <2>7, <2>8
<1>4. CASE UNCHANGED limiterVars
  BY <1>1, <1>4 DEF limiterVars, ToldTrue
<1>5. ASSUME NEW c \in Call PROVE ~TakeLock(c)
  BY <1>1 DEF TakeLock, Ready, LimiterTypes
<1>6. ASSUME NEW s, NEW r PROVE ~CheckMail(s, r) /\ \A c \in Call : ~ReadClock(c, s, r)
  BY DEF CheckMail, ReadClock
<1>7. ASSUME Tick PROVE ~(Len(granted') > Len(granted))
  BY <1>1, <1>7 DEF Tick
<1>8. ASSUME UNCHANGED limiterVars PROVE ~(Len(granted') > Len(granted))
  BY <1>1, <1>8 DEF limiterVars
<1>9. QED BY <1>2, <1>3, <1>4, <1>5, <1>6, <1>7, <1>8 DEF LimiterNext

(* Coming back early is no use: a request that was refused and told to wait   *)
(* is not let through a second or more before that time, whatever happens to *)
(* others and whatever is swept.  (Of the two limiters, the one of requests.) *)
THEOREM RetryAfterIsTrueForRequests ==
    LimiterSpec /\ subject = "requests" => RetryAfterIsTrue
<1> DEFINE StillRefused == (/\ Len(granted') > Len(granted) /\ told # Nobody
                            /\ Last(granted').who = told.who)
                             => Last(granted').at + Second > told.until
           Requests == subject = "requests"
<1>1. LimiterInit => ToldTrue
  BY DEF LimiterInit, ToldTrue
<1>2. LimiterInv /\ ToldTrue /\ Requests /\ [LimiterNext]_limiterVars
        => ToldTrue' /\ Requests' /\ [StillRefused]_limiterVars
  BY ToldTrueStep, SubjectFixed
<1>3. QED BY <1>1, <1>2, LimiterInvHolds, PTL DEF LimiterSpec, RetryAfterIsTrue

-----------------------------------------------------------------------------
(* Sign-in mail.  Each of its lists is a memory of the history: its events   *)
(* are sends that were let through, no two of them the same one, and every   *)
(* send that may still count is among them.                                  *)
Sent(G, Who) == {j \in 1..Len(G) : G[j].who \in Who}

Grant == [who : Source \X Recipient, at : Nat]
Stamp == [at : Nat]
Charge == [at : Nat, recipient : Recipient, window_cost : {1, 2}, daily_cost : {1, 2}]

(* The event f of a list records the send e.                                 *)
Records(f, e) == f.at = e.at /\ (f \in Charge => f.recipient = e.who[2])

Remembers(L, G, Who, ret, t) ==
    \E h \in [1..Len(L) -> Sent(G, Who)] :
       /\ \A i \in 1..Len(L) : Records(L[i], G[h[i]])
       /\ \A i, k \in 1..Len(L) : h[i] = h[k] => i = k
       /\ \A j \in Sent(G, Who) : G[j].at + ret > t => \E i \in 1..Len(L) : h[i] = j

LEMMA FewPositions ==
    ASSUME NEW n \in Nat, NEW A, A \subseteq 1..n
    PROVE  IsFiniteSet(A) /\ Cardinality(A) \in Nat
<1>1. IsFiniteSet(1..n)
  BY FS_Interval
<1>2. A \in SUBSET (1..n)
  OBVIOUS
<1>3. IsFiniteSet(A)
  BY <1>1, <1>2, FS_Subset
<1>4. QED BY <1>3, FS_CardinalityType

LEMMA OneToOne ==
    ASSUME NEW A, NEW B, IsFiniteSet(A), NEW f \in [A -> B],
           \A i, k \in A : f[i] = f[k] => i = k,
           \A j \in B : \E i \in A : f[i] = j
    PROVE  Cardinality(A) = Cardinality(B)
<1>1. ExistsBijection(A, B)
  BY DEF ExistsBijection, Bijection, Injection, Surjection, IsInjective
<1>2. QED BY <1>1, FS_Bijection

(* The events of a list, and the sends of the history, at times in P.        *)
EventsAt(L, P) == {i \in 1..Len(L) : L[i].at \in P}
SentAt(G, Who, P) == {j \in Sent(G, Who) : G[j].at \in P}

(* As many sends are in the list as in the history, at any times that count. *)
LEMMA SameSends ==
    ASSUME NEW L, Len(L) \in Nat, NEW G, Len(G) \in Nat, NEW Who, NEW ret, NEW t,
           Remembers(L, G, Who, ret, t),
           NEW P, \A a \in P : a + ret > t
    PROVE  Cardinality(EventsAt(L, P)) = Cardinality(SentAt(G, Who, P))
<1>1. PICK h \in [1..Len(L) -> Sent(G, Who)] :
         /\ \A i \in 1..Len(L) : Records(L[i], G[h[i]])
         /\ \A i, k \in 1..Len(L) : h[i] = h[k] => i = k
         /\ \A j \in Sent(G, Who) : G[j].at + ret > t => \E i \in 1..Len(L) : h[i] = j
  BY DEF Remembers
<1>2. PICK A, B : A = EventsAt(L, P) /\ B = SentAt(G, Who, P)
  OBVIOUS
<1>3. /\ \A i : i \in A <=> i \in 1..Len(L) /\ L[i].at \in P
      /\ \A j : j \in B <=> j \in Sent(G, Who) /\ G[j].at \in P
  BY <1>2 DEF EventsAt, SentAt
<1>4. PICK f : f = [i \in A |-> h[i]]
  OBVIOUS
<1>5. f \in [A -> B]
  BY <1>1, <1>3, <1>4 DEF Records
<1>6. \A i, k \in A : f[i] = f[k] => i = k
  BY <1>1, <1>3, <1>4
<1>7. \A j \in B : \E i \in A : f[i] = j
  BY <1>1, <1>3, <1>4 DEF Records
<1>8. IsFiniteSet(A)
  <2>1. A \subseteq 1..Len(L)
    BY <1>3
  <2>2. QED BY <2>1, FewPositions
<1>9. Cardinality(A) = Cardinality(B)
  BY <1>5, <1>6, <1>7, <1>8, OneToOne
<1>10. QED BY <1>2, <1>9

LEMMA LeastPosition ==
    ASSUME NEW T, T \subseteq Nat, T # {}
    PROVE  \E n \in T : \A m \in T : n <= m
<1>1. PICK n \in T : \A m \in T : <<m, n>> \notin OpToRel(<, Nat)
  BY WFMin, NatLessThanWellFounded
<1>2. ASSUME NEW m \in T PROVE n <= m
  <2>1. m \in Nat /\ n \in Nat
    OBVIOUS
  <2>2. ~(m < n)
    BY <1>1, <2>1 DEF OpToRel
  <2>3. QED BY <2>1, <2>2
<1>3. QED BY <1>2

(* retain_recent drops from the front, and only what is over.                *)
LEMMA RetainDropsTheOld ==
    ASSUME NEW S, NEW L \in Seq(S), \A i \in 1..Len(L) : L[i].at \in Nat,
           NEW u \in Nat, NEW ret \in Nat \ {0}
    PROVE  /\ Retain(L, u, ret) \in Seq(S)
           /\ \E m \in 0..Len(L) :
                /\ Len(Retain(L, u, ret)) = Len(L) - m
                /\ \A i \in 1..(Len(L) - m) : Retain(L, u, ret)[i] = L[i + m]
                /\ \A i \in 1..m : L[i].at + ret <= u
<1>1. PICK n, F : n = Len(L) /\ F = {i \in 1..n : Elapsed(u, L[i].at) < ret}
  OBVIOUS
<1>2. n \in Nat /\ DOMAIN L = 1..n /\ F \subseteq Nat
  BY <1>1
<1>3. Retain(L, u, ret) = IF F = {} THEN <<>> ELSE SubSeq(L, Min(F), n)
  BY <1>1, <1>2 DEF Retain, NoEvents
<1>4. ASSUME NEW i \in 1..n, i \notin F PROVE L[i].at + ret <= u
  <2>1. PICK a : a = L[i].at
    OBVIOUS
  <2>2. a \in Nat /\ ~(Elapsed(u, a) < ret)
    BY <1>1, <1>4, <2>1
  <2>3. a + ret <= u
    <3>1. CASE a < u
      BY <2>2, <3>1 DEF Elapsed
    <3>2. CASE ~(a < u)
      BY <2>2, <3>2 DEF Elapsed
    <3>3. QED BY <3>1, <3>2
  <2>4. QED BY <2>1, <2>3
<1>5. CASE F = {}
  <2>1. Retain(L, u, ret) = <<>>
    BY <1>3, <1>5
  <2>2. \A i \in 1..n : L[i].at + ret <= u
    BY <1>4, <1>5
  <2>3. <<>> \in Seq(S) /\ Len(<<>>) = n - n /\ n \in 0..n /\ 1..(n - n) = {}
    BY <1>2
  <2>4. QED BY <1>1, <2>1, <2>2, <2>3
<1>6. CASE F # {}
  <2>1. PICK f : f = Min(F)
    OBVIOUS
  <2>2. f \in F /\ \A i \in F : f <= i
    BY <1>2, <1>6, <2>1, LeastPosition DEF Min
  <2>3. f \in 1..n /\ f - 1 \in 0..n
    BY <1>1, <1>2, <2>2
  <2>4. PICK R : R = SubSeq(L, f, n)
    OBVIOUS
  <2>5. R \in Seq(S) /\ Len(R) = n - (f - 1) /\ \A i \in 1..(n - (f - 1)) : R[i] = L[i + (f - 1)]
    BY <1>1, <1>2, <2>3, <2>4
  <2>6. ASSUME NEW i \in 1..(f - 1) PROVE L[i].at + ret <= u
    BY <1>2, <1>4, <2>2, <2>3
  <2>7. Retain(L, u, ret) = R
    BY <1>3, <1>6, <2>1, <2>4
  <2>8. QED BY <1>1, <2>3, <2>5, <2>6, <2>7
<1>7. QED BY <1>5, <1>6

(* What is left is still a memory of the history.                            *)
LEMMA RetainRemembers ==
    ASSUME NEW S, NEW L \in Seq(S), \A i \in 1..Len(L) : L[i].at \in Nat,
           NEW u \in Nat, NEW ret \in Nat \ {0}, NEW t \in Nat, u <= t,
           NEW G, NEW Who, Remembers(L, G, Who, ret, t)
    PROVE  Remembers(Retain(L, u, ret), G, Who, ret, t)
<1>1. PICK R, n : R = Retain(L, u, ret) /\ n = Len(L)
  OBVIOUS
<1>2. PICK m \in 0..n : /\ Len(R) = n - m
                        /\ \A i \in 1..(n - m) : R[i] = L[i + m]
                        /\ \A i \in 1..m : L[i].at + ret <= u
  BY <1>1, RetainDropsTheOld
<1>3. n \in Nat /\ m \in Nat /\ n - m \in Nat /\ m <= n
  BY <1>1
<1>4. PICK h \in [1..n -> Sent(G, Who)] :
         /\ \A i \in 1..n : Records(L[i], G[h[i]])
         /\ \A i, k \in 1..n : h[i] = h[k] => i = k
         /\ \A j \in Sent(G, Who) : G[j].at + ret > t => \E i \in 1..n : h[i] = j
  BY <1>1 DEF Remembers
<1>5. PICK g : g = [i \in 1..(n - m) |-> h[i + m]]
  OBVIOUS
<1>6. \A i \in 1..(n - m) : i + m \in 1..n /\ g[i] = h[i + m]
  BY <1>3, <1>5
<1>7. g \in [1..(n - m) -> Sent(G, Who)]
  BY <1>4, <1>5, <1>6
<1>8. \A i \in 1..(n - m) : Records(R[i], G[g[i]])
  BY <1>2, <1>4, <1>6
<1>9. \A i, k \in 1..(n - m) : g[i] = g[k] => i = k
  <2>1. SUFFICES ASSUME NEW i \in 1..(n - m), NEW k \in 1..(n - m), g[i] = g[k] PROVE i = k
    OBVIOUS
  <2>2. i + m = k + m
    BY <1>4, <1>6, <2>1
  <2>3. QED BY <1>3, <2>2
<1>10. ASSUME NEW j \in Sent(G, Who), G[j].at + ret > t PROVE \E i \in 1..(n - m) : g[i] = j
  <2>1. PICK k \in 1..n : h[k] = j
    BY <1>4, <1>10
  <2>2. L[k].at = G[j].at /\ L[k].at \in Nat
    BY <1>1, <1>4, <2>1 DEF Records
  <2>3. ~(L[k].at + ret <= u)
    BY <1>10, <2>2
  <2>4. k \notin 1..m
    BY <1>2, <2>3
  <2>5. k - m \in 1..(n - m) /\ (k - m) + m = k
    BY <1>3, <2>4
  <2>6. QED BY <1>6, <2>1, <2>5
<1>11. 1..Len(R) = 1..(n - m)
  BY <1>2
<1>12. Remembers(R, G, Who, ret, t)
  <2>1. /\ g \in [1..Len(R) -> Sent(G, Who)]
        /\ \A i \in 1..Len(R) : Records(R[i], G[g[i]])
        /\ \A i, k \in 1..Len(R) : g[i] = g[k] => i = k
        /\ \A j \in Sent(G, Who) : G[j].at + ret > t => \E i \in 1..Len(R) : g[i] = j
    BY <1>7, <1>8, <1>9, <1>10, <1>11
  <2>2. QED BY <2>1, Zenon DEF Remembers
<1>13. QED BY <1>1, <1>12

(* A send of others leaves a memory what it was.                             *)
LEMMA RemembersOthers ==
    ASSUME NEW S, NEW G \in Seq(S), NEW e \in S, NEW Who, e.who \notin Who,
           NEW L, NEW ret, NEW t, Remembers(L, G, Who, ret, t)
    PROVE  Remembers(L, Append(G, e), Who, ret, t)
<1>1. PICK H, n : H = Append(G, e) /\ n = Len(G)
  OBVIOUS
<1>2. n \in Nat /\ Len(H) = n + 1 /\ (\A j \in 1..n : H[j] = G[j]) /\ H[n + 1] = e
  BY <1>1
<1>3. Sent(H, Who) = Sent(G, Who) /\ \A j \in Sent(G, Who) : H[j] = G[j]
  BY <1>1, <1>2 DEF Sent
<1>4. PICK h \in [1..Len(L) -> Sent(G, Who)] :
         /\ \A i \in 1..Len(L) : Records(L[i], G[h[i]])
         /\ \A i, k \in 1..Len(L) : h[i] = h[k] => i = k
         /\ \A j \in Sent(G, Who) : G[j].at + ret > t => \E i \in 1..Len(L) : h[i] = j
  BY DEF Remembers
<1>5. /\ h \in [1..Len(L) -> Sent(H, Who)]
      /\ \A i \in 1..Len(L) : Records(L[i], H[h[i]])
      /\ \A j \in Sent(H, Who) : H[j].at + ret > t => \E i \in 1..Len(L) : h[i] = j
  BY <1>3, <1>4
<1>6. Remembers(L, H, Who, ret, t)
  BY <1>4, <1>5, Zenon DEF Remembers
<1>7. QED BY <1>1, <1>6

(* A send of its own is appended to both.                                    *)
LEMMA RemembersOwn ==
    ASSUME NEW S, NEW G \in Seq(S), NEW e \in S, NEW Who, e.who \in Who,
           NEW T, NEW L \in Seq(T), NEW f \in T, Records(f, e),
           NEW ret, NEW t, Remembers(L, G, Who, ret, t)
    PROVE  Remembers(Append(L, f), Append(G, e), Who, ret, t)
<1>1. PICK H, n : H = Append(G, e) /\ n = Len(G)
  OBVIOUS
<1>2. PICK M, l : M = Append(L, f) /\ l = Len(L)
  OBVIOUS
<1>3. n \in Nat /\ Len(H) = n + 1 /\ (\A j \in 1..n : H[j] = G[j]) /\ H[n + 1] = e
  BY <1>1
<1>4. l \in Nat /\ Len(M) = l + 1 /\ (\A i \in 1..l : M[i] = L[i]) /\ M[l + 1] = f
  BY <1>2
<1>5. /\ Sent(H, Who) = Sent(G, Who) \cup {n + 1} /\ n + 1 \notin Sent(G, Who)
      /\ \A j \in Sent(G, Who) : H[j] = G[j]
  BY <1>1, <1>3 DEF Sent
<1>6. PICK h \in [1..l -> Sent(G, Who)] :
         /\ \A i \in 1..l : Records(L[i], G[h[i]])
         /\ \A i, k \in 1..l : h[i] = h[k] => i = k
         /\ \A j \in Sent(G, Who) : G[j].at + ret > t => \E i \in 1..l : h[i] = j
  BY <1>2 DEF Remembers
<1>7. PICK g : g = [i \in 1..(l + 1) |-> IF i = l + 1 THEN n + 1 ELSE h[i]]
  OBVIOUS
<1>8. 1..(l + 1) = (1..l) \cup {l + 1} /\ l + 1 \notin 1..l
  BY <1>4
<1>9. g[l + 1] = n + 1 /\ (\A i \in 1..l : g[i] = h[i]) /\ g \in [1..(l + 1) -> Sent(H, Who)]
  BY <1>5, <1>6, <1>7, <1>8
<1>10. \A i \in 1..(l + 1) : Records(M[i], H[g[i]])
  <2>1. ASSUME NEW i \in 1..l PROVE Records(M[i], H[g[i]])
    <3>1. PICK j \in Sent(G, Who) : j = h[i] /\ Records(L[i], G[j])
      BY <1>6
    <3>2. QED BY <1>4, <1>5, <1>9, <3>1
  <2>2. Records(M[l + 1], H[g[l + 1]])
    BY <1>3, <1>4, <1>9
  <2>3. QED BY <1>8, <2>1, <2>2
<1>11. \A i, k \in 1..(l + 1) : g[i] = g[k] => i = k
  BY <1>5, <1>6, <1>8, <1>9
<1>12. \A j \in Sent(H, Who) : H[j].at + ret > t => \E i \in 1..(l + 1) : g[i] = j
  BY <1>5, <1>6, <1>8, <1>9
<1>13. 1..Len(M) = 1..(l + 1)
  BY <1>4
<1>14. Remembers(M, H, Who, ret, t)
  <2>1. /\ g \in [1..Len(M) -> Sent(H, Who)]
        /\ \A i \in 1..Len(M) : Records(M[i], H[g[i]])
        /\ \A i, k \in 1..Len(M) : g[i] = g[k] => i = k
        /\ \A j \in Sent(H, Who) : H[j].at + ret > t => \E i \in 1..Len(M) : g[i] = j
    BY <1>9, <1>10, <1>11, <1>12, <1>13
  <2>2. QED BY <2>1, Zenon DEF Remembers
<1>15. QED BY <1>1, <1>2, <1>14

(* count_retry_after: there is a limit-th newest, and it is still to expire. *)
NoOlder(A, i) == {j \in A : j >= i}

LEMMA NthNewest ==
    ASSUME NEW n \in Nat, NEW A, A \subseteq 1..n, NEW k \in Nat \ {0}, k <= Cardinality(A)
    PROVE  \E i \in A : Cardinality(NoOlder(A, i)) = k
<1>1. \A j \in A : j \in Nat /\ j <= n
  OBVIOUS
<1>2. \A i : IsFiniteSet(NoOlder(A, i)) /\ Cardinality(NoOlder(A, i)) \in Nat
  BY FewPositions DEF NoOlder
<1>3. PICK T : T = {i \in Nat : Cardinality(NoOlder(A, i)) < k}
  OBVIOUS
<1>4. NoOlder(A, n + 1) = {}
  <2>1. \A j \in A : ~(j >= n + 1)
    BY <1>1
  <2>2. QED BY <2>1, Zenon DEF NoOlder
<1>5. n + 1 \in T
  <2>1. Cardinality(NoOlder(A, n + 1)) = 0
    BY <1>4, FS_EmptySet
  <2>2. QED BY <1>3, <2>1
<1>6. PICK m \in T : \A i \in T : m <= i
  BY <1>3, <1>5, LeastPosition
<1>7. NoOlder(A, 0) = A
  <2>1. \A j \in A : j >= 0
    BY <1>1
  <2>2. QED BY <2>1 DEF NoOlder
<1>8. m # 0
  BY <1>2, <1>3, <1>6, <1>7
<1>9. m - 1 \in Nat /\ m \in Nat
  BY <1>3, <1>6, <1>8
<1>10. m - 1 \notin T
  BY <1>3, <1>6, <1>9
<1>11. PICK B, C : B = NoOlder(A, m - 1) /\ C = NoOlder(A, m)
  OBVIOUS
<1>12. ~(Cardinality(B) < k) /\ Cardinality(C) < k
  BY <1>3, <1>6, <1>9, <1>10, <1>11
<1>13. B = (IF m - 1 \in A THEN C \cup {m - 1} ELSE C) /\ m - 1 \notin C
  <2>1. \A j \in A : j >= m - 1 <=> (j >= m \/ j = m - 1)
    BY <1>1, <1>9
  <2>2. ~(m - 1 >= m)
    BY <1>9
  <2>3. \A j : j \in B <=> j \in A /\ (j >= m \/ j = m - 1)
    BY <1>11, <2>1 DEF NoOlder
  <2>4. \A j : j \in C <=> j \in A /\ j >= m
    BY <1>11 DEF NoOlder
  <2>5. QED BY <1>9, <2>2, <2>3, <2>4
<1>14. m - 1 \in A
  BY <1>12, <1>13
<1>15. Cardinality(B) = Cardinality(C) + 1
  BY <1>2, <1>11, <1>13, <1>14, FS_AddElement
<1>16. Cardinality(B) = k
  BY <1>2, <1>11, <1>12, <1>15
<1>17. QED BY <1>11, <1>14, <1>16

LEMMA StillToExpire ==
    ASSUME NEW at \in Nat, NEW t \in Nat, NEW window \in Nat
    PROVE  UntilExpiry(at, t, window) \in Int /\ UntilExpiry(at, t, window) > 0
<1>1. window - Elapsed(t, at) \in Int
  BY DEF Elapsed
<1>2. QED BY <1>1, SomeWait DEF UntilExpiry

LEMMA CountAllows ==
    ASSUME NEW S, NEW L \in Seq(S), \A i \in 1..Len(L) : L[i].at \in Nat,
           NEW t \in Nat, NEW window \in Nat, NEW limit \in Nat \ {0}
    PROVE  /\ CountRetryAfter(L, t, window, limit) \in Int
           /\ CountRetryAfter(L, t, window, limit) <= 0
                => Cardinality(Recent(L, t, window)) < limit
<1>1. PICK n, A : n = Len(L) /\ A = {i \in 1..n : Elapsed(t, L[i].at) < window}
  OBVIOUS
<1>2. n \in Nat /\ DOMAIN L = 1..n /\ A \subseteq 1..n
  BY <1>1
<1>3. Recent(L, t, window) = A
  BY <1>1, <1>2 DEF Recent
<1>4. Cardinality(A) \in Nat
  BY <1>2, FewPositions
<1>5. PICK r : r = CHOOSE i \in A : Cardinality(NoOlder(A, i)) = limit
  OBVIOUS
<1>6. CountRetryAfter(L, t, window, limit)
        = IF Cardinality(A) < limit THEN 0 ELSE UntilExpiry(L[r].at, t, window)
  BY <1>3, <1>5 DEF CountRetryAfter, NoOlder
<1>7. CASE Cardinality(A) < limit
  BY <1>3, <1>6, <1>7
<1>8. CASE ~(Cardinality(A) < limit)
  <2>1. limit <= Cardinality(A)
    BY <1>4, <1>8
  <2>2. \E i \in A : Cardinality(NoOlder(A, i)) = limit
    BY <1>2, <2>1, NthNewest
  <2>3. r \in A
    BY <1>5, <2>2
  <2>4. L[r].at \in Nat /\ Elapsed(t, L[r].at) < window
    BY <1>1, <2>3
  <2>5. UntilExpiry(L[r].at, t, window) \in Int /\ UntilExpiry(L[r].at, t, window) > 0
    BY <2>4, StillToExpire
  <2>6. QED BY <1>6, <1>8, <2>5
<1>9. QED BY <1>7, <1>8

LEMMA WeightedIsNumber ==
    ASSUME NEW S, NEW L \in Seq(S), \A i \in 1..Len(L) : L[i].at \in Nat,
           NEW t \in Nat, NEW window \in Nat, NEW budget, NEW incoming, NEW cost
    PROVE  WeightedRetryAfter(L, t, window, budget, incoming, cost) \in Int
<1>1. PICK R : R = Recent(L, t, window)
  OBVIOUS
<1>2. R \subseteq 1..Len(L) /\ R \subseteq Nat
  BY <1>1 DEF Recent
<1>3. PICK spent : spent = Spent(L, R, cost)
  OBVIOUS
<1>4. PICK E : E = {i \in R : spent[i] + budget >= spent[Len(L)] + incoming}
  OBVIOUS
<1>5. WeightedRetryAfter(L, t, window, budget, incoming, cost)
        = IF spent[Len(L)] + incoming <= budget THEN 0
          ELSE IF E = {} THEN RoundedDown(window) ELSE UntilExpiry(L[Min(E)].at, t, window)
  BY <1>1, <1>3, <1>4 DEF WeightedRetryAfter
<1>6. ASSUME E # {} PROVE UntilExpiry(L[Min(E)].at, t, window) \in Int
  <2>1. Min(E) \in E
    BY <1>2, <1>4, <1>6, LeastPosition DEF Min
  <2>2. L[Min(E)].at \in Nat
    BY <1>2, <1>4, <2>1
  <2>3. QED BY <2>2, StillToExpire
<1>7. RoundedDown(window) \in Int
  BY SomeWait
<1>8. QED BY <1>5, <1>6, <1>7

(* The largest of a few numbers.                                             *)
LEMMA OneMoreNumber ==
    ASSUME NEW S, S \subseteq Int, \E m \in S : \A y \in S : y <= m, NEW x \in Int
    PROVE  /\ S \cup {x} \subseteq Int
           /\ \E m \in S \cup {x} : \A y \in S \cup {x} : y <= m
<1>1. PICK m \in S : \A y \in S : y <= m
  OBVIOUS
<1>2. CASE x <= m
  BY <1>1, <1>2
<1>3. CASE ~(x <= m)
  <2>1. \A y \in S \cup {x} : y <= x
    BY <1>1, <1>3
  <2>2. QED BY <2>1
<1>4. QED BY <1>2, <1>3

LEMMA LargestOf ==
    ASSUME NEW S, S \subseteq Int, \E m \in S : \A y \in S : y <= m
    PROVE  Max(S) \in S /\ \A y \in S : y <= Max(S)
BY DEF Max

LEMMA LargestOfTwo ==
    ASSUME NEW a \in Int, NEW b \in Int
    PROVE  Max({a, b}) \in {a, b} /\ \A y \in {a, b} : y <= Max({a, b})
<1>1. {a} \subseteq Int /\ \E m \in {a} : \A y \in {a} : y <= m
  OBVIOUS
<1>2. {a} \cup {b} \subseteq Int /\ \E m \in {a} \cup {b} : \A y \in {a} \cup {b} : y <= m
  BY <1>1, OneMoreNumber
<1>3. {a} \cup {b} = {a, b}
  OBVIOUS
<1>4. QED BY <1>2, <1>3, LargestOf

LEMMA LargestOfThree ==
    ASSUME NEW a \in Int, NEW b \in Int, NEW c \in Int
    PROVE  Max({a, b, c}) \in {a, b, c} /\ \A y \in {a, b, c} : y <= Max({a, b, c})
<1>1. {a, b} \subseteq Int /\ \E m \in {a, b} : \A y \in {a, b} : y <= m
  BY LargestOfTwo
<1>2. PICK S : S = {a, b} \cup {c}
  OBVIOUS
<1>3. S \subseteq Int /\ \E m \in S : \A y \in S : y <= m
  BY <1>1, <1>2, OneMoreNumber
<1>4. S = {a, b, c}
  BY <1>2
<1>5. QED BY <1>3, <1>4, LargestOf

LEMMA LargestOfSeven ==
    ASSUME NEW a \in Int, NEW b \in Int, NEW c \in Int, NEW d \in Int, NEW e \in Int,
           NEW f \in Int, NEW g \in Int
    PROVE  /\ Max({a, b, c, d, e, f, g}) \in Int
           /\ Max({a, b, c, d, e, f, g}) \in {a, b, c, d, e, f, g}
           /\ \A y \in {a, b, c, d, e, f, g} : y <= Max({a, b, c, d, e, f, g})
<1>1. PICK S3, S4, S5, S6, S7 : /\ S3 = {a, b, c} /\ S4 = S3 \cup {d} /\ S5 = S4 \cup {e}
                                /\ S6 = S5 \cup {f} /\ S7 = S6 \cup {g}
  OBVIOUS
<1>2. S3 \subseteq Int /\ \E m \in S3 : \A y \in S3 : y <= m
  BY <1>1, LargestOfThree
<1>3. S4 \subseteq Int /\ \E m \in S4 : \A y \in S4 : y <= m
  BY <1>1, <1>2, OneMoreNumber
<1>4. S5 \subseteq Int /\ \E m \in S5 : \A y \in S5 : y <= m
  BY <1>1, <1>3, OneMoreNumber
<1>5. S6 \subseteq Int /\ \E m \in S6 : \A y \in S6 : y <= m
  BY <1>1, <1>4, OneMoreNumber
<1>6. S7 \subseteq Int /\ \E m \in S7 : \A y \in S7 : y <= m
  BY <1>1, <1>5, OneMoreNumber
<1>7. S7 = {a, b, c, d, e, f, g}
  BY <1>1
<1>8. Max(S7) \in S7 /\ \A y \in S7 : y <= Max(S7)
  BY <1>6, LargestOf
<1>9. Max(S7) \in Int /\ Max(S7) \in S7 /\ \A y \in S7 : y <= Max(S7)
  BY <1>6, <1>8
<1>10. QED BY <1>7, <1>9

LEMMA SomeLimits ==
    /\ Limits.source_window \in Nat \ {0} /\ Limits.source_daily_window \in Nat \ {0}
    /\ Limits.source_budget \in Nat \ {0} /\ Limits.source_daily_budget \in Nat \ {0}
    /\ Limits.recipient_cooldown \in Nat \ {0}
    /\ Limits.recipient_hour_window \in Nat \ {0} /\ Limits.recipient_hour_limit \in Nat \ {0}
    /\ Limits.recipient_daily_window \in Nat \ {0} /\ Limits.recipient_daily_limit \in Nat \ {0}
    /\ Limits.global_hour_window \in Nat \ {0} /\ Limits.global_hour_limit \in Nat \ {0}
    /\ Limits.global_daily_window \in Nat \ {0} /\ Limits.global_daily_limit \in Nat \ {0}
BY RateLimitsAssumptions DEF EmailSendRateLimits

(* Sends are remembered for the longest of the windows they count in.        *)
LEMMA RetentionCovers ==
    /\ Retention.source \in Nat \ {0} /\ Retention.recipient \in Nat \ {0}
    /\ Retention.global \in Nat \ {0}
    /\ Limits.source_window <= Retention.source
    /\ Limits.recipient_cooldown <= Retention.recipient
    /\ Limits.recipient_hour_window <= Retention.recipient
    /\ Limits.recipient_daily_window <= Retention.recipient
    /\ Limits.global_hour_window <= Retention.global
    /\ Limits.global_daily_window <= Retention.global
<1>1. PICK a, b, c, d, e, f, g :
         /\ a = Limits.source_window /\ b = Limits.source_daily_window
         /\ c = Limits.recipient_cooldown /\ d = Limits.recipient_hour_window
         /\ e = Limits.recipient_daily_window
         /\ f = Limits.global_hour_window /\ g = Limits.global_daily_window
  OBVIOUS
<1>2. /\ a \in Nat \ {0} /\ b \in Nat \ {0} /\ c \in Nat \ {0} /\ d \in Nat \ {0}
      /\ e \in Nat \ {0} /\ f \in Nat \ {0} /\ g \in Nat \ {0}
  BY <1>1, SomeLimits
<1>3. /\ a \in Int /\ b \in Int /\ c \in Int /\ d \in Int /\ e \in Int /\ f \in Int /\ g \in Int
  BY <1>2
<1>4. /\ Retention.source = Max({a, b}) /\ Retention.recipient = Max({c, d, e})
      /\ Retention.global = Max({f, g})
  BY <1>1 DEF Retention
<1>5. Max({a, b}) \in {a, b} /\ a <= Max({a, b})
  BY <1>3, LargestOfTwo
<1>6. Max({f, g}) \in {f, g} /\ f <= Max({f, g}) /\ g <= Max({f, g})
  BY <1>3, LargestOfTwo
<1>7. /\ Max({c, d, e}) \in {c, d, e}
      /\ c <= Max({c, d, e}) /\ d <= Max({c, d, e}) /\ e <= Max({c, d, e})
  BY <1>3, LargestOfThree
<1>8. QED BY <1>1, <1>2, <1>4, <1>5, <1>6, <1>7

(* The answer is the longest of the seven waits.                             *)
Longest(w, a, b, c, d, e, f, g) ==
    /\ w \in Int
    /\ a \in Int /\ b \in Int /\ c \in Int /\ d \in Int /\ e \in Int /\ f \in Int /\ g \in Int
    /\ a <= w /\ b <= w /\ c <= w /\ d <= w /\ e <= w /\ f <= w /\ g <= w
    /\ w \in {a, b, c, d, e, f, g}

LEMMA LongestWait ==
    ASSUME NEW t \in Nat, NEW send,
           NEW S, NEW from \in Seq(S), \A i \in 1..Len(from) : from[i].at \in Nat,
           NEW T, NEW to \in Seq(T), \A i \in 1..Len(to) : to[i].at \in Nat,
           NEW all \in Seq(T), \A i \in 1..Len(all) : all[i].at \in Nat
    PROVE  Longest(MailWait(from, to, all, send, t),
                  WeightedRetryAfter(from, t, Limits.source_window, Limits.source_budget,
                                     send.window_cost, "window_cost"),
                  WeightedRetryAfter(from, t, Limits.source_daily_window, Limits.source_daily_budget,
                                     send.daily_cost, "daily_cost"),
                  CountRetryAfter(to, t, Limits.recipient_cooldown, 1),
                  CountRetryAfter(to, t, Limits.recipient_hour_window, Limits.recipient_hour_limit),
                  CountRetryAfter(to, t, Limits.recipient_daily_window, Limits.recipient_daily_limit),
                  CountRetryAfter(all, t, Limits.global_hour_window, Limits.global_hour_limit),
                  CountRetryAfter(all, t, Limits.global_daily_window, Limits.global_daily_limit))
<1>1. PICK w, a, b, c, d, e, f, g :
         /\ w = MailWait(from, to, all, send, t)
         /\ a = WeightedRetryAfter(from, t, Limits.source_window, Limits.source_budget,
                                     send.window_cost, "window_cost")
         /\ b = WeightedRetryAfter(from, t, Limits.source_daily_window, Limits.source_daily_budget,
                                     send.daily_cost, "daily_cost")
         /\ c = CountRetryAfter(to, t, Limits.recipient_cooldown, 1)
         /\ d = CountRetryAfter(to, t, Limits.recipient_hour_window, Limits.recipient_hour_limit)
         /\ e = CountRetryAfter(to, t, Limits.recipient_daily_window, Limits.recipient_daily_limit)
         /\ f = CountRetryAfter(all, t, Limits.global_hour_window, Limits.global_hour_limit)
         /\ g = CountRetryAfter(all, t, Limits.global_daily_window, Limits.global_daily_limit)
  OBVIOUS
<1>2. PICK aw, bw, cw, dw, dl, ew, el, fw, fl, gw, gl :
         /\ aw = Limits.source_window /\ bw = Limits.source_daily_window
         /\ cw = Limits.recipient_cooldown
         /\ dw = Limits.recipient_hour_window /\ dl = Limits.recipient_hour_limit
         /\ ew = Limits.recipient_daily_window /\ el = Limits.recipient_daily_limit
         /\ fw = Limits.global_hour_window /\ fl = Limits.global_hour_limit
         /\ gw = Limits.global_daily_window /\ gl = Limits.global_daily_limit
  OBVIOUS
<1>3. /\ aw \in Nat /\ bw \in Nat /\ 1 \in Nat \ {0} /\ cw \in Nat
      /\ dw \in Nat /\ dl \in Nat \ {0} /\ ew \in Nat /\ el \in Nat \ {0}
      /\ fw \in Nat /\ fl \in Nat \ {0} /\ gw \in Nat /\ gl \in Nat \ {0}
  BY <1>2, SomeLimits, SMTT(30)
<1>4. a \in Int /\ b \in Int
  BY <1>1, <1>2, <1>3, WeightedIsNumber
<1>5. /\ CountRetryAfter(to, t, cw, 1) \in Int /\ CountRetryAfter(to, t, dw, dl) \in Int
      /\ CountRetryAfter(to, t, ew, el) \in Int
  BY <1>3, CountAllows
<1>6. CountRetryAfter(all, t, fw, fl) \in Int /\ CountRetryAfter(all, t, gw, gl) \in Int
  BY <1>3, CountAllows
<1>7. c \in Int /\ d \in Int /\ e \in Int /\ f \in Int /\ g \in Int
  BY <1>1, <1>2, <1>5, <1>6
<1>8. w = Max({a, b, c, d, e, f, g})
  BY <1>1 DEF MailWait
<1>9. \A y \in {a, b, c, d, e, f, g} : y <= Max({a, b, c, d, e, f, g})
  BY <1>4, <1>7, LargestOfSeven
<1>10. Max({a, b, c, d, e, f, g}) \in {a, b, c, d, e, f, g}
  BY <1>4, <1>7, LargestOfSeven
<1>11. w \in {a, b, c, d, e, f, g} /\ \A y \in {a, b, c, d, e, f, g} : y <= w
  BY <1>8, <1>9, <1>10
<1>12. Longest(w, a, b, c, d, e, f, g)
  BY <1>4, <1>7, <1>11 DEF Longest
<1>13. QED BY <1>1, <1>12

(* A message is let through only if none of the budgets is used up.          *)
LEMMA AllBudgetsAllow ==
    ASSUME NEW t \in Nat, NEW send,
           NEW S, NEW from \in Seq(S), \A i \in 1..Len(from) : from[i].at \in Nat,
           NEW T, NEW to \in Seq(T), \A i \in 1..Len(to) : to[i].at \in Nat,
           NEW all \in Seq(T), \A i \in 1..Len(all) : all[i].at \in Nat,
           MailWait(from, to, all, send, t) = 0
    PROVE  /\ WeightedRetryAfter(from, t, Limits.source_window, Limits.source_budget,
                                  send.window_cost, "window_cost") <= 0
           /\ WeightedRetryAfter(from, t, Limits.source_daily_window, Limits.source_daily_budget,
                                  send.daily_cost, "daily_cost") <= 0
           /\ Cardinality(Recent(to, t, Limits.recipient_cooldown)) < 1
           /\ Cardinality(Recent(to, t, Limits.recipient_hour_window)) < Limits.recipient_hour_limit
           /\ Cardinality(Recent(to, t, Limits.recipient_daily_window)) < Limits.recipient_daily_limit
           /\ Cardinality(Recent(all, t, Limits.global_hour_window)) < Limits.global_hour_limit
           /\ Cardinality(Recent(all, t, Limits.global_daily_window)) < Limits.global_daily_limit
<1>1. /\ WeightedRetryAfter(from, t, Limits.source_window, Limits.source_budget,
                             send.window_cost, "window_cost") <= 0
      /\ WeightedRetryAfter(from, t, Limits.source_daily_window, Limits.source_daily_budget,
                             send.daily_cost, "daily_cost") <= 0
      /\ CountRetryAfter(to, t, Limits.recipient_cooldown, 1) <= 0
      /\ CountRetryAfter(to, t, Limits.recipient_hour_window, Limits.recipient_hour_limit) <= 0
      /\ CountRetryAfter(to, t, Limits.recipient_daily_window, Limits.recipient_daily_limit) <= 0
      /\ CountRetryAfter(all, t, Limits.global_hour_window, Limits.global_hour_limit) <= 0
      /\ CountRetryAfter(all, t, Limits.global_daily_window, Limits.global_daily_limit) <= 0
  <2>1. PICK w, a, b, c, d, e, f, g :
         /\ w = MailWait(from, to, all, send, t)
         /\ a = WeightedRetryAfter(from, t, Limits.source_window, Limits.source_budget,
                                     send.window_cost, "window_cost")
         /\ b = WeightedRetryAfter(from, t, Limits.source_daily_window, Limits.source_daily_budget,
                                     send.daily_cost, "daily_cost")
         /\ c = CountRetryAfter(to, t, Limits.recipient_cooldown, 1)
         /\ d = CountRetryAfter(to, t, Limits.recipient_hour_window, Limits.recipient_hour_limit)
         /\ e = CountRetryAfter(to, t, Limits.recipient_daily_window, Limits.recipient_daily_limit)
         /\ f = CountRetryAfter(all, t, Limits.global_hour_window, Limits.global_hour_limit)
         /\ g = CountRetryAfter(all, t, Limits.global_daily_window, Limits.global_daily_limit)
    OBVIOUS
  <2>2. Longest(w, a, b, c, d, e, f, g)
    BY <2>1, LongestWait
  <2>3. a <= 0 /\ b <= 0 /\ c <= 0 /\ d <= 0 /\ e <= 0 /\ f <= 0 /\ g <= 0
    BY <2>1, <2>2 DEF Longest
  <2>4. QED BY <2>1, <2>3
<1>2. PICK cw, dw, dl, ew, el, fw, fl, gw, gl :
         /\ cw = Limits.recipient_cooldown
         /\ dw = Limits.recipient_hour_window /\ dl = Limits.recipient_hour_limit
         /\ ew = Limits.recipient_daily_window /\ el = Limits.recipient_daily_limit
         /\ fw = Limits.global_hour_window /\ fl = Limits.global_hour_limit
         /\ gw = Limits.global_daily_window /\ gl = Limits.global_daily_limit
  OBVIOUS
<1>3. /\ 1 \in Nat \ {0} /\ cw \in Nat
      /\ dw \in Nat /\ dl \in Nat \ {0} /\ ew \in Nat /\ el \in Nat \ {0}
      /\ fw \in Nat /\ fl \in Nat \ {0} /\ gw \in Nat /\ gl \in Nat \ {0}
  BY <1>2, SomeLimits, SMTT(30)
<1>4. /\ CountRetryAfter(to, t, cw, 1) <= 0 => Cardinality(Recent(to, t, cw)) < 1
      /\ CountRetryAfter(to, t, dw, dl) <= 0 => Cardinality(Recent(to, t, dw)) < dl
      /\ CountRetryAfter(to, t, ew, el) <= 0 => Cardinality(Recent(to, t, ew)) < el
  BY <1>3, CountAllows
<1>5. /\ CountRetryAfter(all, t, fw, fl) <= 0 => Cardinality(Recent(all, t, fw)) < fl
      /\ CountRetryAfter(all, t, gw, gl) <= 0 => Cardinality(Recent(all, t, gw)) < gl
  BY <1>3, CountAllows
<1>6. QED BY <1>1, <1>2, <1>4, <1>5

(* The sends of a window that begins at `a', short of the lag.               *)
Near(G, Who, a, window, late) ==
    {j \in Sent(G, Who) : a <= G[j].at /\ G[j].at + late < a + window}

InBudget(G, Who, window, limit, late) ==
    \A i \in Sent(G, Who) : Cardinality(Near(G, Who, G[i].at, window, late)) <= limit

LEMMA OthersStayInBudget ==
    ASSUME NEW S, NEW G \in Seq(S), NEW e \in S, NEW Who, e.who \notin Who,
           NEW window, NEW limit, NEW late, InBudget(G, Who, window, limit, late)
    PROVE  InBudget(Append(G, e), Who, window, limit, late)
<1>1. PICK H, n : H = Append(G, e) /\ n = Len(G)
  OBVIOUS
<1>2. n \in Nat /\ Len(H) = n + 1 /\ (\A j \in 1..n : H[j] = G[j]) /\ H[n + 1] = e
  BY <1>1
<1>3. Sent(H, Who) = Sent(G, Who) /\ \A j \in Sent(G, Who) : H[j] = G[j]
  BY <1>1, <1>2 DEF Sent
<1>4. \A a : Near(H, Who, a, window, late) = Near(G, Who, a, window, late)
  BY <1>3 DEF Near
<1>5. QED BY <1>1, <1>3, <1>4 DEF InBudget

(* One more send fits the window, because those that the list still counts   *)
(* are at least those of the window.                                         *)
LEMMA BudgetStep ==
    ASSUME NEW S, NEW G \in Seq(S), \A j \in 1..Len(G) : G[j].at \in Nat,
           NEW e \in S, e.at \in Nat, NEW Who, e.who \in Who,
           NEW T, NEW L \in Seq(T), \A i \in 1..Len(L) : L[i].at \in Nat,
           NEW window \in Nat \ {0}, NEW ret \in Nat, window <= ret,
           NEW limit \in Nat \ {0}, NEW late \in Nat,
           NEW t \in Nat, t <= e.at + late,
           Remembers(L, G, Who, ret, t),
           Cardinality(Recent(L, e.at, window)) < limit,
           InBudget(G, Who, window, limit, late)
    PROVE  InBudget(Append(G, e), Who, window, limit, late)
<1>1. PICK H, n, x : H = Append(G, e) /\ n = Len(G) /\ x = e.at
  OBVIOUS
<1>2. /\ n \in Nat /\ Len(H) = n + 1 /\ (\A j \in 1..n : H[j] = G[j]) /\ H[n + 1] = e /\ x \in Nat
      /\ t <= x + late
  BY <1>1
<1>3. /\ Sent(H, Who) = Sent(G, Who) \cup {n + 1} /\ n + 1 \notin Sent(G, Who)
      /\ \A j \in Sent(G, Who) : H[j] = G[j] /\ G[j].at \in Nat
  BY <1>1, <1>2 DEF Sent
<1>4. SUFFICES ASSUME NEW i \in Sent(H, Who)
               PROVE  Cardinality(Near(H, Who, H[i].at, window, late)) <= limit
  BY <1>1 DEF InBudget
<1>5. PICK a : a = H[i].at
  OBVIOUS
<1>6. a \in Nat
  BY <1>1, <1>2, <1>3, <1>5
<1>7. PICK M, N : M = Near(H, Who, a, window, late) /\ N = Near(G, Who, a, window, late)
  OBVIOUS
<1>8. n + 1 \notin N /\ M = IF a <= x /\ x + late < a + window THEN N \cup {n + 1} ELSE N
  BY <1>1, <1>2, <1>3, <1>7 DEF Near
<1>9. IsFiniteSet(N) /\ Cardinality(N) \in Nat
  <2>1. N \subseteq 1..n
    BY <1>1, <1>7 DEF Near, Sent
  <2>2. QED BY <1>2, <2>1, FewPositions
<1>10. CASE ~(a <= x /\ x + late < a + window)
  <2>1. M = N
    BY <1>8, <1>10
  <2>2. CASE i \in Sent(G, Who)
    <3>1. a = G[i].at
      BY <1>3, <1>5, <2>2
    <3>2. QED BY <1>5, <1>7, <2>1, <2>2, <3>1 DEF InBudget
  <2>3. CASE i = n + 1
    <3>1. a = x
      BY <1>1, <1>2, <1>5, <2>3
    <3>2. late >= window
      BY <1>2, <1>10, <3>1
    <3>3. \A y \in Nat : ~(a <= y /\ y + late < a + window)
      BY <1>6, <3>2
    <3>4. N = {}
      BY <1>3, <1>7, <3>3 DEF Near
    <3>5. Cardinality(N) = 0
      BY <3>4, FS_EmptySet
    <3>6. QED BY <1>5, <1>7, <2>1, <3>5
  <2>4. QED BY <1>3, <2>2, <2>3
<1>11. CASE a <= x /\ x + late < a + window
  <2>1. PICK P : P = {y \in Nat : a <= y /\ y + late < a + window}
    OBVIOUS
  <2>2. \A y \in P : y + ret > t
    BY <1>2, <1>6, <1>11, <2>1
  <2>3. N = SentAt(G, Who, P)
    BY <1>3, <1>7, <2>1 DEF Near, SentAt
  <2>4. PICK A : A = EventsAt(L, P)
    OBVIOUS
  <2>5. Cardinality(A) = Cardinality(N)
    <3>1. Len(L) \in Nat /\ Len(G) \in Nat
      OBVIOUS
    <3>2. QED BY <2>2, <2>3, <2>4, <3>1, SameSends
  <2>6. \A y \in P : Elapsed(x, y) < window
    BY <1>2, <1>6, <1>11, <2>1 DEF Elapsed
  <2>7. PICK B : B = Recent(L, x, window)
    OBVIOUS
  <2>8. B = {k \in 1..Len(L) : Elapsed(x, L[k].at) < window}
    BY <2>7 DEF Recent
  <2>9. A \subseteq B /\ B \subseteq 1..Len(L)
    BY <2>4, <2>6, <2>8 DEF EventsAt
  <2>10. Len(L) \in Nat
    OBVIOUS
  <2>11. IsFiniteSet(B) /\ Cardinality(B) \in Nat
    BY <2>9, <2>10, FewPositions
  <2>12. Cardinality(A) <= Cardinality(B)
    BY <2>9, <2>11, FS_Subset
  <2>13. Cardinality(B) < limit
    BY <1>1, <2>7
  <2>14. Cardinality(N) < limit
    BY <1>9, <2>5, <2>11, <2>12, <2>13
  <2>15. Cardinality(M) = Cardinality(N) + 1
    BY <1>8, <1>9, <1>11, FS_AddElement
  <2>16. Cardinality(M) <= limit
    BY <1>9, <2>14, <2>15
  <2>17. QED BY <1>5, <1>7, <2>16
<1>12. QED BY <1>10, <1>11

(* A list as the limiter keeps it.                                           *)
Memory(L, T, G, Who, ret, t) ==
    /\ L \in Seq(T)
    /\ \A i \in 1..Len(L) : L[i].at \in Nat
    /\ Remembers(L, G, Who, ret, t)

LEMMA MemoryRetained ==
    ASSUME NEW L, NEW T, NEW G, NEW Who, NEW ret \in Nat \ {0}, NEW t \in Nat, NEW u \in Nat, u <= t,
           Memory(L, T, G, Who, ret, t)
    PROVE  Memory(Retain(L, u, ret), T, G, Who, ret, t)
<1>1. PICK R, n : R = Retain(L, u, ret) /\ n = Len(L)
  OBVIOUS
<1>2. L \in Seq(T) /\ (\A i \in 1..n : L[i].at \in Nat) /\ Remembers(L, G, Who, ret, t) /\ n \in Nat
  BY <1>1 DEF Memory
<1>3. Remembers(R, G, Who, ret, t)
  BY <1>1, <1>2, RetainRemembers
<1>4. R \in Seq(T)
  BY <1>1, <1>2, RetainDropsTheOld
<1>5. PICK m \in 0..n : /\ Len(R) = n - m
                        /\ \A i \in 1..(n - m) : R[i] = L[i + m]
                        /\ \A i \in 1..m : L[i].at + ret <= u
  BY <1>1, <1>2, RetainDropsTheOld
<1>6. \A i \in 1..Len(R) : i + m \in 1..n /\ R[i] = L[i + m]
  BY <1>2, <1>5
<1>7. \A i \in 1..Len(R) : R[i].at \in Nat
  BY <1>2, <1>6
<1>8. QED BY <1>1, <1>3, <1>4, <1>7 DEF Memory

LEMMA MemoryOthers ==
    ASSUME NEW S, NEW G \in Seq(S), NEW e \in S, NEW Who, e.who \notin Who,
           NEW L, NEW T, NEW ret, NEW t, Memory(L, T, G, Who, ret, t)
    PROVE  Memory(L, T, Append(G, e), Who, ret, t)
BY RemembersOthers DEF Memory

LEMMA MemoryOwn ==
    ASSUME NEW S, NEW G \in Seq(S), NEW e \in S, NEW Who, e.who \in Who, e.at \in Nat,
           NEW L, NEW T, NEW f \in T, Records(f, e), NEW ret, NEW t, Memory(L, T, G, Who, ret, t)
    PROVE  Memory(Append(L, f), T, Append(G, e), Who, ret, t)
<1>1. PICK M, n : M = Append(L, f) /\ n = Len(L)
  OBVIOUS
<1>2. L \in Seq(T) /\ (\A i \in 1..n : L[i].at \in Nat) /\ Remembers(L, G, Who, ret, t) /\ n \in Nat
  BY <1>1 DEF Memory
<1>3. M \in Seq(T) /\ Len(M) = n + 1 /\ (\A i \in 1..n : M[i] = L[i]) /\ M[n + 1] = f
  BY <1>1, <1>2
<1>4. \A i \in 1..Len(M) : M[i].at \in Nat
  BY <1>2, <1>3 DEF Records
<1>5. Remembers(M, Append(G, e), Who, ret, t)
  BY <1>1, <1>2, RemembersOwn
<1>6. QED BY <1>1, <1>3, <1>4, <1>5 DEF Memory

LEMMA MemoryAges ==
    ASSUME NEW L, NEW T, NEW G, NEW Who, NEW ret \in Nat, NEW t \in Nat, Memory(L, T, G, Who, ret, t),
           \A j \in 1..Len(G) : G[j].at \in Nat
    PROVE  Memory(L, T, G, Who, ret, t + 1)
<1>1. \A j \in Sent(G, Who) : G[j].at + ret > t + 1 => G[j].at + ret > t
  BY DEF Sent
<1>2. PICK h \in [1..Len(L) -> Sent(G, Who)] :
         /\ \A i \in 1..Len(L) : Records(L[i], G[h[i]])
         /\ \A i, k \in 1..Len(L) : h[i] = h[k] => i = k
         /\ \A j \in Sent(G, Who) : G[j].at + ret > t => \E i \in 1..Len(L) : h[i] = j
  BY DEF Memory, Remembers
<1>3. \A j \in Sent(G, Who) : G[j].at + ret > t + 1 => \E i \in 1..Len(L) : h[i] = j
  BY <1>1, <1>2
<1>4. Remembers(L, G, Who, ret, t + 1)
  BY <1>2, <1>3, Zenon DEF Remembers
<1>5. QED BY <1>4 DEF Memory

(* A map of lists, absent entries being empty, and its sweep.                *)
Entry(m, x) == IF x \in DOMAIN m THEN m[x] ELSE <<>>

LEMMA NothingToRetain ==
    ASSUME NEW t, NEW window
    PROVE  Retain(<<>>, t, window) = <<>>
<1>1. DOMAIN <<>> = {}
  OBVIOUS
<1>2. QED BY <1>1 DEF Retain, NoEvents

(* M is the map m swept, with an own entry for x: every other entry is as it *)
(* was or was shortened, and what x is charged changes no other.             *)
IsSwept(M, m, x, t, window) ==
    /\ x \in DOMAIN M
    /\ M[x] = Retain(Entry(m, x), t, window)
    /\ \A y : y # x => \/ Entry(M, y) = Entry(m, y)
                       \/ Entry(M, y) = Retain(Entry(m, y), t, window)
    /\ \A v : /\ Entry([M EXCEPT ![x] = v], x) = v
              /\ \A y : y # x => Entry([M EXCEPT ![x] = v], y) = Entry(M, y)

LEMMA SweptEntries ==
    ASSUME NEW m, NEW x, NEW t, NEW window
    PROVE  IsSwept(SweptMap(m, x, t, window), m, x, t, window)
<1>0. PICK M : M = SweptMap(m, x, t, window)
  OBVIOUS
<1>1. PICK swept : swept = [y \in {z \in DOMAIN m : Retain(m[z], t, window) # NoEvents}
                                 |-> Retain(m[y], t, window)]
  OBVIOUS
<1>2. PICK own : own = IF x \in DOMAIN m THEN Retain(m[x], t, window) ELSE NoEvents
  OBVIOUS
<1>3. \E rest \in {swept, m} : M = Put(rest, x, own)
  BY <1>0, <1>1, <1>2 DEF SweptMap
<1>4. PICK rest \in {swept, m} : M = [y \in DOMAIN rest \cup {x} |-> IF y = x THEN own ELSE rest[y]]
  BY <1>3 DEF Put
<1>5. /\ DOMAIN M = DOMAIN rest \cup {x} /\ M[x] = own
      /\ \A y \in DOMAIN rest : y # x => M[y] = rest[y]
  BY <1>4
<1>6. own = Retain(Entry(m, x), t, window)
  BY <1>2, NothingToRetain DEF Entry, NoEvents
<1>7. ASSUME NEW y, y # x
      PROVE  Entry(M, y) = Entry(m, y) \/ Entry(M, y) = Retain(Entry(m, y), t, window)
  <2>1. Entry(M, y) = Entry(rest, y)
    BY <1>5, <1>7 DEF Entry
  <2>2. CASE rest = m
    BY <2>1, <2>2
  <2>3. CASE rest = swept
    <3>1. CASE y \notin DOMAIN m
      BY <1>1, <2>1, <2>3, <3>1 DEF Entry
    <3>2. CASE y \in DOMAIN m
      BY <1>1, <2>1, <2>3, <3>2 DEF Entry, NoEvents
    <3>3. QED BY <3>1, <3>2
  <2>4. QED BY <2>2, <2>3
<1>8. ASSUME NEW v
      PROVE  /\ Entry([M EXCEPT ![x] = v], x) = v
             /\ \A y : y # x => Entry([M EXCEPT ![x] = v], y) = Entry(M, y)
  BY <1>5 DEF Entry
<1>9. IsSwept(M, m, x, t, window)
  BY <1>5, <1>6, <1>7, <1>8 DEF IsSwept
<1>10. QED BY <1>0, <1>9

(* The history, and the calls that wait for the lock.                        *)
MailHistory ==
    /\ now \in Nat /\ lag \in Nat
    /\ granted \in Seq(Grant) /\ \A j \in 1..Len(granted) : granted[j].at \in Nat /\ granted[j].at <= now

Waiting(c) ==
    /\ call[c].pc = "wait" /\ call[c].source \in Source /\ call[c].recipient \in Recipient
    /\ call[c].at \in Nat /\ call[c].at <= now /\ now <= call[c].at + lag

CallsWait ==
    /\ call = [c \in Call |-> call[c]]
    /\ \A c \in Call : call[c] = Ready \/ Waiting(c)

(* The three lists remember what was sent, over the whole history.           *)
MailRemembered ==
    /\ \A s \in Source :
         Memory(Entry(sources, s), Charge, granted, {s} \X Recipient, Retention.source, now)
    /\ \A r \in Recipient :
         Memory(Entry(recipients, r), Stamp, granted, Source \X {r}, Retention.recipient, now)
    /\ Memory(global, Stamp, granted, Source \X Recipient, Retention.global, now)

MailInBudget ==
    /\ \A r \in Recipient :
         /\ InBudget(granted, Source \X {r}, Limits.recipient_cooldown, 1, lag)
         /\ InBudget(granted, Source \X {r}, Limits.recipient_hour_window,
                     Limits.recipient_hour_limit, lag)
         /\ InBudget(granted, Source \X {r}, Limits.recipient_daily_window,
                     Limits.recipient_daily_limit, lag)
    /\ InBudget(granted, Source \X Recipient, Limits.global_hour_window,
                Limits.global_hour_limit, lag)
    /\ InBudget(granted, Source \X Recipient, Limits.global_daily_window,
                Limits.global_daily_limit, lag)

MailInv ==
    subject = "mail" => MailHistory /\ CallsWait /\ MailRemembered /\ MailInBudget

LEMMA ChargeIsSound ==
    ASSUME NEW from, NEW r \in Recipient, NEW t \in Nat
    PROVE  /\ SourceSend(from, r, t) \in Charge
           /\ \A e : e.at = t /\ (\E s : e.who = <<s, r>>) => Records(SourceSend(from, r, t), e)
BY DEF SourceSend, Charge, RecipientCost, Records

LEMMA StampIsSound ==
    ASSUME NEW t \in Nat
    PROVE  [at |-> t] \in Stamp /\ \A e : e.at = t => Records([at |-> t], e)
<1>1. [at |-> t] \notin Charge
  <2>1. SUFFICES ASSUME [at |-> t] \in Charge PROVE FALSE
    OBVIOUS
  <2>2. DOMAIN [at |-> t] = {"at", "recipient", "window_cost", "daily_cost"}
    BY <2>1 DEF Charge
  <2>3. QED BY <2>2
<1>2. QED BY <1>1 DEF Stamp, Records

LEMMA HistoryGrows ==
    ASSUME NEW S, NEW G \in Seq(S), NEW t, \A j \in 1..Len(G) : G[j].at \in Nat /\ G[j].at <= t,
           NEW e \in S, e.at \in Nat, e.at <= t
    PROVE  /\ Append(G, e) \in Seq(S)
           /\ \A j \in 1..Len(Append(G, e)) : Append(G, e)[j].at \in Nat /\ Append(G, e)[j].at <= t
<1>1. PICK H, n : H = Append(G, e) /\ n = Len(G)
  OBVIOUS
<1>2. /\ n \in Nat /\ H \in Seq(S) /\ Len(H) = n + 1
      /\ (\A j \in 1..n : H[j] = G[j]) /\ H[n + 1] = e
  BY <1>1
<1>3. \A j \in 1..Len(H) : H[j].at \in Nat /\ H[j].at <= t
  BY <1>1, <1>2
<1>4. QED BY <1>1, <1>2, <1>3

(* check_at, under the lock.                                                 *)
LEMMA CheckAtStep ==
    ASSUME MailHistory, MailRemembered, MailInBudget,
           NEW s \in Source, NEW r \in Recipient, NEW t \in Nat, t <= now, now <= t + lag,
           CheckAt(s, r, t)
    PROVE  MailHistory' /\ MailRemembered' /\ MailInBudget'
<1>1. PICK bs, br, al : /\ bs = SweptMap(sources, s, t, Retention.source)
                        /\ br = SweptMap(recipients, r, t, Retention.recipient)
                        /\ al = Retain(global, t, Retention.global)
  OBVIOUS
<1>2. PICK send : send = SourceSend(bs[s], r, t)
  OBVIOUS
<1>3. PICK wait : wait = MailWait(bs[s], br[r], al, send, t)
  OBVIOUS
<1>4. PICK from, to, all :
        /\ from = IF "source" \in Charged(wait) THEN Append(bs[s], send) ELSE bs[s]
        /\ to = IF "recipient" \in Charged(wait) THEN Append(br[r], [at |-> t]) ELSE br[r]
        /\ all = IF "global" \in Charged(wait) THEN Append(al, [at |-> t]) ELSE al
  OBVIOUS
<1>5. /\ sources' = [bs EXCEPT ![s] = from]
      /\ recipients' = [br EXCEPT ![r] = to]
      /\ global' = all
      /\ Answer(<<s, r>>, t, wait)
      /\ now' = now /\ lag' = lag
  BY <1>1, <1>2, <1>3, <1>4 DEF CheckAt
<1>6. /\ Retention.source \in Nat \ {0} /\ Retention.recipient \in Nat \ {0} /\ Retention.global \in Nat \ {0}
      /\ now \in Nat /\ lag \in Nat
  <2>1. Retention.source \in Nat \ {0} /\ Retention.recipient \in Nat \ {0} /\ Retention.global \in Nat \ {0}
    BY RetentionCovers
  <2>2. now \in Nat /\ lag \in Nat
    BY DEF MailHistory
  <2>3. QED BY <2>1, <2>2
(* Before it is charged, every list is a memory of the history.              *)
<1>7. /\ Memory(bs[s], Charge, granted, {s} \X Recipient, Retention.source, now)
      /\ \A x \in Source : x # s =>
           Memory(Entry(bs, x), Charge, granted, {x} \X Recipient, Retention.source, now)
      /\ Entry(sources', s) = from /\ \A x : x # s => Entry(sources', x) = Entry(bs, x)
  <2>0. IsSwept(bs, sources, s, t, Retention.source)
    BY <1>1, SweptEntries
  <2>1. /\ bs[s] = Retain(Entry(sources, s), t, Retention.source)
        /\ \A x : x # s => \/ Entry(bs, x) = Entry(sources, x)
                           \/ Entry(bs, x) = Retain(Entry(sources, x), t, Retention.source)
        /\ \A v : /\ Entry([bs EXCEPT ![s] = v], s) = v
                  /\ \A x : x # s => Entry([bs EXCEPT ![s] = v], x) = Entry(bs, x)
    BY <2>0 DEF IsSwept
  <2>2. ASSUME NEW x \in Source
        PROVE  /\ Memory(Entry(sources, x), Charge, granted, {x} \X Recipient, Retention.source, now)
               /\ Memory(Retain(Entry(sources, x), t, Retention.source), Charge, granted,
                         {x} \X Recipient, Retention.source, now)
    BY <1>6, MemoryRetained DEF MailRemembered
  <2>3. Entry(sources', s) = from /\ \A x : x # s => Entry(sources', x) = Entry(bs, x)
    BY <1>5, <2>1
  <2>4. ASSUME NEW x \in Source, x # s
        PROVE  Memory(Entry(bs, x), Charge, granted, {x} \X Recipient, Retention.source, now)
    BY <2>1, <2>2, <2>4
  <2>5. QED BY <2>1, <2>2, <2>3, <2>4
<1>8. /\ Memory(br[r], Stamp, granted, Source \X {r}, Retention.recipient, now)
      /\ \A x \in Recipient : x # r =>
           Memory(Entry(br, x), Stamp, granted, Source \X {x}, Retention.recipient, now)
      /\ Entry(recipients', r) = to /\ \A x : x # r => Entry(recipients', x) = Entry(br, x)
  <2>0. IsSwept(br, recipients, r, t, Retention.recipient)
    BY <1>1, SweptEntries
  <2>1. /\ br[r] = Retain(Entry(recipients, r), t, Retention.recipient)
        /\ \A x : x # r => \/ Entry(br, x) = Entry(recipients, x)
                           \/ Entry(br, x) = Retain(Entry(recipients, x), t, Retention.recipient)
        /\ \A v : /\ Entry([br EXCEPT ![r] = v], r) = v
                  /\ \A x : x # r => Entry([br EXCEPT ![r] = v], x) = Entry(br, x)
    BY <2>0 DEF IsSwept
  <2>2. ASSUME NEW x \in Recipient
        PROVE  /\ Memory(Entry(recipients, x), Stamp, granted, Source \X {x}, Retention.recipient, now)
               /\ Memory(Retain(Entry(recipients, x), t, Retention.recipient), Stamp, granted,
                         Source \X {x}, Retention.recipient, now)
    BY <1>6, MemoryRetained DEF MailRemembered
  <2>3. Entry(recipients', r) = to /\ \A x : x # r => Entry(recipients', x) = Entry(br, x)
    BY <1>5, <2>1
  <2>4. ASSUME NEW x \in Recipient, x # r
        PROVE  Memory(Entry(br, x), Stamp, granted, Source \X {x}, Retention.recipient, now)
    BY <2>1, <2>2, <2>4
  <2>5. QED BY <2>1, <2>2, <2>3, <2>4
<1>9. Memory(al, Stamp, granted, Source \X Recipient, Retention.global, now)
  BY <1>1, <1>6, MemoryRetained DEF MailRemembered
<1>10. CASE wait # 0
  <2>1. from = bs[s] /\ to = br[r] /\ all = al
    BY <1>4, <1>10 DEF Charged
  <2>2. granted' = granted
    BY <1>5, <1>10 DEF Answer
  <2>3. MailRemembered'
    <3>1. ASSUME NEW x \in Source
          PROVE  Memory(Entry(sources', x), Charge, granted', {x} \X Recipient, Retention.source, now')
      <4>1. CASE x = s
        BY <1>5, <1>7, <2>1, <2>2, <4>1
      <4>2. CASE x # s
        BY <1>5, <1>7, <2>2, <4>2
      <4>3. QED BY <4>1, <4>2
    <3>2. ASSUME NEW x \in Recipient
          PROVE  Memory(Entry(recipients', x), Stamp, granted', Source \X {x}, Retention.recipient, now')
      <4>1. CASE x = r
        BY <1>5, <1>8, <2>1, <2>2, <4>1
      <4>2. CASE x # r
        BY <1>5, <1>8, <2>2, <4>2
      <4>3. QED BY <4>1, <4>2
    <3>3. Memory(global', Stamp, granted', Source \X Recipient, Retention.global, now')
      BY <1>5, <1>9, <2>1, <2>2
    <3>4. QED BY <3>1, <3>2, <3>3 DEF MailRemembered
  <2>4. MailHistory' /\ MailInBudget'
    BY <1>5, <2>2 DEF MailHistory, MailInBudget
  <2>5. QED BY <2>3, <2>4
<1>11. CASE wait = 0
  <2>1. from = Append(bs[s], send) /\ to = Append(br[r], [at |-> t]) /\ all = Append(al, [at |-> t])
    BY <1>4, <1>11 DEF Charged
  <2>2. PICK e : e = [who |-> <<s, r>>, at |-> t]
    OBVIOUS
  <2>3. granted' = Append(granted, e)
    BY <1>5, <1>11, <2>2 DEF Answer
  <2>4. e \in Grant /\ e.at = t /\ e.who = <<s, r>> /\ granted \in Seq(Grant)
    BY <2>2 DEF Grant, MailHistory
  <2>5. send \in Charge /\ Records(send, e) /\ [at |-> t] \in Stamp /\ Records([at |-> t], e)
    BY <1>2, <2>4, ChargeIsSound, StampIsSound
  <2>6. /\ e.who \in {s} \X Recipient /\ e.who \in Source \X {r} /\ e.who \in Source \X Recipient
        /\ (\A x \in Source : x # s => e.who \notin {x} \X Recipient)
        /\ \A x \in Recipient : x # r => e.who \notin Source \X {x}
    BY <2>4
  <2>7. MailHistory'
    <3>1. /\ Append(granted, e) \in Seq(Grant)
          /\ \A j \in 1..Len(Append(granted, e)) :
               Append(granted, e)[j].at \in Nat /\ Append(granted, e)[j].at <= now
      BY <1>6, <2>4, HistoryGrows DEF MailHistory
    <3>2. QED BY <1>5, <1>6, <2>3, <3>1 DEF MailHistory
  <2>8. MailRemembered'
    <3>1. ASSUME NEW x \in Source
          PROVE  Memory(Entry(sources', x), Charge, granted', {x} \X Recipient, Retention.source, now')
      <4>1. CASE x = s
        <5>1. Memory(Append(bs[s], send), Charge, Append(granted, e), {s} \X Recipient, Retention.source, now)
          BY <1>7, <2>4, <2>5, <2>6, MemoryOwn
        <5>2. QED BY <1>5, <1>7, <2>1, <2>3, <4>1, <5>1
      <4>2. CASE x # s
        <5>1. Memory(Entry(bs, x), Charge, Append(granted, e), {x} \X Recipient, Retention.source, now)
          BY <1>7, <2>4, <2>6, <4>2, MemoryOthers
        <5>2. QED BY <1>5, <1>7, <2>3, <4>2, <5>1
      <4>3. QED BY <4>1, <4>2
    <3>2. ASSUME NEW x \in Recipient
          PROVE  Memory(Entry(recipients', x), Stamp, granted', Source \X {x}, Retention.recipient, now')
      <4>1. CASE x = r
        <5>1. Memory(Append(br[r], [at |-> t]), Stamp, Append(granted, e), Source \X {r}, Retention.recipient, now)
          BY <1>8, <2>4, <2>5, <2>6, MemoryOwn
        <5>2. QED BY <1>5, <1>8, <2>1, <2>3, <4>1, <5>1
      <4>2. CASE x # r
        <5>1. Memory(Entry(br, x), Stamp, Append(granted, e), Source \X {x}, Retention.recipient, now)
          BY <1>8, <2>4, <2>6, <4>2, MemoryOthers
        <5>2. QED BY <1>5, <1>8, <2>3, <4>2, <5>1
      <4>3. QED BY <4>1, <4>2
    <3>3. Memory(global', Stamp, granted', Source \X Recipient, Retention.global, now')
      <4>1. Memory(Append(al, [at |-> t]), Stamp, Append(granted, e), Source \X Recipient, Retention.global, now)
        BY <1>9, <2>4, <2>5, <2>6, MemoryOwn
      <4>2. QED BY <1>5, <2>1, <2>3, <4>1
    <3>4. QED BY <3>1, <3>2, <3>3 DEF MailRemembered
  <2>9. MailInBudget'
    <3>1. PICK cw, dw, dl, ew, el, fw, fl, gw, gl :
             /\ cw = Limits.recipient_cooldown
             /\ dw = Limits.recipient_hour_window /\ dl = Limits.recipient_hour_limit
             /\ ew = Limits.recipient_daily_window /\ el = Limits.recipient_daily_limit
             /\ fw = Limits.global_hour_window /\ fl = Limits.global_hour_limit
             /\ gw = Limits.global_daily_window /\ gl = Limits.global_daily_limit
      OBVIOUS
    <3>2. /\ 1 \in Nat \ {0} /\ cw \in Nat \ {0}
          /\ dw \in Nat \ {0} /\ dl \in Nat \ {0} /\ ew \in Nat \ {0} /\ el \in Nat \ {0}
          /\ fw \in Nat \ {0} /\ fl \in Nat \ {0} /\ gw \in Nat \ {0} /\ gl \in Nat \ {0}
      BY <3>1, SomeLimits
    <3>3. /\ cw <= Retention.recipient /\ dw <= Retention.recipient /\ ew <= Retention.recipient
          /\ fw <= Retention.global /\ gw <= Retention.global
      BY <3>1, RetentionCovers
    <3>4. PICK L : L = br[r]
      OBVIOUS
    <3>5. /\ L \in Seq(Stamp) /\ (\A i \in 1..Len(L) : L[i].at \in Nat)
          /\ Remembers(L, granted, Source \X {r}, Retention.recipient, now)
      BY <1>8, <3>4 DEF Memory
    <3>6. /\ al \in Seq(Stamp) /\ (\A i \in 1..Len(al) : al[i].at \in Nat)
          /\ Remembers(al, granted, Source \X Recipient, Retention.global, now)
      BY <1>9 DEF Memory
    <3>7. PICK F : F = bs[s]
      OBVIOUS
    <3>8. F \in Seq(Charge) /\ \A i \in 1..Len(F) : F[i].at \in Nat
      BY <1>7, <3>7 DEF Memory
    <3>9. MailWait(F, L, al, send, t) = 0
      BY <1>3, <1>11, <3>4, <3>7
    <3>10. /\ Cardinality(Recent(L, t, cw)) < 1
           /\ Cardinality(Recent(L, t, dw)) < dl
           /\ Cardinality(Recent(L, t, ew)) < el
           /\ Cardinality(Recent(al, t, fw)) < fl
           /\ Cardinality(Recent(al, t, gw)) < gl
      BY <3>1, <3>5, <3>6, <3>8, <3>9, AllBudgetsAllow
    <3>11. /\ \A j \in 1..Len(granted) : granted[j].at \in Nat
           /\ e.at \in Nat /\ now <= e.at + lag
      BY <2>4 DEF MailHistory
    <3>12. ASSUME NEW x \in Recipient
           PROVE  /\ InBudget(granted, Source \X {x}, cw, 1, lag)
                  /\ InBudget(granted, Source \X {x}, dw, dl, lag)
                  /\ InBudget(granted, Source \X {x}, ew, el, lag)
      BY <3>1 DEF MailInBudget
    <3>13. InBudget(granted, Source \X Recipient, fw, fl, lag) /\ InBudget(granted, Source \X Recipient, gw, gl, lag)
      BY <3>1 DEF MailInBudget
    <3>14. ASSUME NEW x \in Recipient
           PROVE  /\ InBudget(Append(granted, e), Source \X {x}, cw, 1, lag)
                  /\ InBudget(Append(granted, e), Source \X {x}, dw, dl, lag)
                  /\ InBudget(Append(granted, e), Source \X {x}, ew, el, lag)
      <4>1. CASE x # r
        BY <2>4, <2>6, <3>12, <4>1, OthersStayInBudget
      <4>2. CASE x = r
        <5>1. InBudget(Append(granted, e), Source \X {r}, cw, 1, lag)
          BY <1>6, <2>4, <2>6, <3>2, <3>3, <3>5, <3>10, <3>11, <3>12, BudgetStep
        <5>2. InBudget(Append(granted, e), Source \X {r}, dw, dl, lag)
          BY <1>6, <2>4, <2>6, <3>2, <3>3, <3>5, <3>10, <3>11, <3>12, BudgetStep
        <5>3. InBudget(Append(granted, e), Source \X {r}, ew, el, lag)
          BY <1>6, <2>4, <2>6, <3>2, <3>3, <3>5, <3>10, <3>11, <3>12, BudgetStep
        <5>4. QED BY <4>2, <5>1, <5>2, <5>3
      <4>3. QED BY <4>1, <4>2
    <3>15. InBudget(Append(granted, e), Source \X Recipient, fw, fl, lag)
      BY <1>6, <2>4, <2>6, <3>2, <3>3, <3>6, <3>10, <3>11, <3>13, BudgetStep
    <3>16. InBudget(Append(granted, e), Source \X Recipient, gw, gl, lag)
      BY <1>6, <2>4, <2>6, <3>2, <3>3, <3>6, <3>10, <3>11, <3>13, BudgetStep
    <3>17. QED BY <1>5, <2>3, <3>1, <3>14, <3>15, <3>16 DEF MailInBudget
  <2>10. QED BY <2>7, <2>8, <2>9
<1>12. QED BY <1>10, <1>11

LEMMA MailStep ==
    ASSUME MailInv, [LimiterNext]_limiterVars
    PROVE  MailInv'
<1>1. subject' = subject
  BY SubjectFixed
<1>2. SUFFICES ASSUME subject = "mail", MailHistory, CallsWait, MailRemembered, MailInBudget
               PROVE  MailHistory' /\ CallsWait' /\ MailRemembered' /\ MailInBudget'
  BY <1>1 DEF MailInv
<1>3. now \in Nat /\ lag \in Nat
  BY <1>2 DEF MailHistory
<1>4. /\ call = [c \in Call |-> call[c]]
      /\ \A c \in Call : call[c] = Ready \/ Waiting(c)
      /\ Ready.pc # "wait"
  BY <1>2 DEF CallsWait, Ready
<1>5. CASE Tick
  <2>1. /\ now' = now + 1 /\ UNCHANGED <<lag, sources, recipients, global, call, granted>>
        /\ \A c \in Call : call[c].pc = "wait" => now < call[c].at + lag
    BY <1>5 DEF Tick
  <2>2. MailHistory' /\ MailInBudget'
    <3>1. ASSUME NEW j \in 1..Len(granted) PROVE granted[j].at \in Nat /\ granted[j].at <= now + 1
      <4>1. granted[j].at \in Nat /\ granted[j].at <= now
        BY <1>2 DEF MailHistory
      <4>2. QED BY <1>3, <4>1
    <3>2. MailHistory'
      BY <1>2, <1>3, <2>1, <3>1 DEF MailHistory
    <3>3. QED BY <1>2, <2>1, <3>2 DEF MailInBudget
  <2>3. CallsWait'
    <3>1. ASSUME NEW c \in Call, Waiting(c) PROVE Waiting(c)'
      BY <1>3, <2>1, <3>1 DEF Waiting
    <3>2. QED BY <1>4, <2>1, <3>1 DEF CallsWait
  <2>4. MailRemembered'
    <3>1. /\ Retention.source \in Nat /\ Retention.recipient \in Nat /\ Retention.global \in Nat
          /\ \A j \in 1..Len(granted) : granted[j].at \in Nat
      BY <1>2, RetentionCovers DEF MailHistory
    <3>2. ASSUME NEW s \in Source
          PROVE  Memory(Entry(sources, s), Charge, granted, {s} \X Recipient, Retention.source, now + 1)
      BY <1>2, <1>3, <3>1, MemoryAges DEF MailRemembered
    <3>3. ASSUME NEW r \in Recipient
          PROVE  Memory(Entry(recipients, r), Stamp, granted, Source \X {r}, Retention.recipient, now + 1)
      BY <1>2, <1>3, <3>1, MemoryAges DEF MailRemembered
    <3>4. Memory(global, Stamp, granted, Source \X Recipient, Retention.global, now + 1)
      BY <1>2, <1>3, <3>1, MemoryAges DEF MailRemembered
    <3>5. QED BY <2>1, <3>2, <3>3, <3>4 DEF MailRemembered
  <2>5. QED BY <2>2, <2>3, <2>4
<1>6. ASSUME NEW id \in Identity, Check(id) PROVE FALSE
  BY <1>2, <1>6 DEF Check
<1>7. ASSUME NEW s \in Source, NEW r \in Recipient, CheckMail(s, r)
      PROVE  MailHistory' /\ CallsWait' /\ MailRemembered' /\ MailInBudget'
  <2>1. CheckAt(s, r, now) /\ call' = call
    BY <1>7 DEF CheckMail
  <2>2. now <= now /\ now <= now + lag
    BY <1>3
  <2>3. MailHistory' /\ MailRemembered' /\ MailInBudget'
    BY <1>2, <1>3, <2>1, <2>2, CheckAtStep
  <2>4. now' = now /\ lag' = lag
    BY <2>1 DEF CheckAt
  <2>5. CallsWait'
    BY <1>2, <2>1, <2>4 DEF CallsWait, Waiting
  <2>6. QED BY <2>3, <2>5
<1>8. ASSUME NEW c \in Call, NEW s \in Source, NEW r \in Recipient, ReadClock(c, s, r)
      PROVE  MailHistory' /\ CallsWait' /\ MailRemembered' /\ MailInBudget'
  <2>1. /\ call' = [call EXCEPT ![c] = [pc |-> "wait", source |-> s, recipient |-> r, at |-> now]]
        /\ UNCHANGED <<now, lag, sources, recipients, global, granted>>
    BY <1>8 DEF ReadClock
  <2>2. MailHistory' /\ MailRemembered' /\ MailInBudget'
    BY <1>2, <2>1 DEF MailHistory, MailRemembered, MailInBudget
  <2>3. /\ call' = [d \in Call |-> call'[d]]
        /\ call'[c] = [pc |-> "wait", source |-> s, recipient |-> r, at |-> now]
        /\ \A d \in Call : d # c => call'[d] = call[d]
    BY <1>4, <2>1
  <2>4. Waiting(c)'
    BY <1>3, <2>1, <2>3 DEF Waiting
  <2>5. ASSUME NEW d \in Call, d # c PROVE call'[d] = Ready \/ Waiting(d)'
    BY <1>4, <2>1, <2>3, <2>5 DEF Waiting
  <2>6. CallsWait'
    BY <2>3, <2>4, <2>5 DEF CallsWait
  <2>7. QED BY <2>2, <2>6
<1>9. ASSUME NEW c \in Call, TakeLock(c)
      PROVE  MailHistory' /\ CallsWait' /\ MailRemembered' /\ MailInBudget'
  <2>1. /\ call[c].pc = "wait" /\ CheckAt(call[c].source, call[c].recipient, call[c].at)
        /\ call' = [call EXCEPT ![c] = Ready]
    BY <1>9 DEF TakeLock
  <2>2. Waiting(c)
    BY <1>4, <2>1
  <2>3. MailHistory' /\ MailRemembered' /\ MailInBudget'
    BY <1>2, <2>1, <2>2, CheckAtStep DEF Waiting
  <2>4. now' = now /\ lag' = lag
    BY <2>1 DEF CheckAt
  <2>5. /\ call' = [d \in Call |-> call'[d]] /\ call'[c] = Ready
        /\ \A d \in Call : d # c => call'[d] = call[d]
    BY <1>4, <2>1
  <2>6. ASSUME NEW d \in Call PROVE call'[d] = Ready \/ Waiting(d)'
    BY <1>4, <2>4, <2>5 DEF Waiting
  <2>7. CallsWait'
    BY <2>5, <2>6 DEF CallsWait
  <2>8. QED BY <2>3, <2>7
<1>10. CASE UNCHANGED limiterVars
  BY <1>2, <1>10 DEF limiterVars, MailHistory, CallsWait, Waiting, MailRemembered, MailInBudget
<1>11. QED BY <1>5, <1>6, <1>7, <1>8, <1>9, <1>10 DEF LimiterNext

(* Init: nothing was sent, nothing is remembered.                            *)
LEMMA MailInit ==
    ASSUME LimiterInit
    PROVE  MailInv
<1>1. SUFFICES ASSUME subject = "mail"
               PROVE  MailHistory /\ CallsWait /\ MailRemembered /\ MailInBudget
  BY DEF MailInv
<1>2. /\ now = 0 /\ lag \in Nat /\ granted = <<>> /\ global = <<>>
      /\ call = [c \in Call |-> Ready]
      /\ DOMAIN sources = {} /\ DOMAIN recipients = {}
  BY <1>1, RateLimitsAssumptions DEF LimiterInit, NoEntries, NoEvents
<1>3. Len(<<>>) = 0 /\ 1..0 = {} /\ <<>> \in Seq(Grant) /\ <<>> \in Seq(Charge) /\ <<>> \in Seq(Stamp)
  OBVIOUS
<1>4. MailHistory /\ CallsWait
  BY <1>2, <1>3 DEF MailHistory, CallsWait
<1>5. \A Who : Sent(<<>>, Who) = {}
  BY <1>3 DEF Sent
<1>6. ASSUME NEW Who, NEW ret, NEW t PROVE Remembers(<<>>, <<>>, Who, ret, t)
  <2>1. [i \in 1..Len(<<>>) |-> 0] \in [1..Len(<<>>) -> Sent(<<>>, Who)]
    BY <1>3
  <2>2. QED BY <1>3, <1>5, <2>1 DEF Remembers
<1>7. /\ \A s : Entry(sources, s) = <<>>
      /\ \A r : Entry(recipients, r) = <<>>
  BY <1>2 DEF Entry
<1>8. MailRemembered
  <2>1. ASSUME NEW T, NEW Who, NEW ret PROVE Memory(<<>>, T, granted, Who, ret, now)
    <3>1. <<>> \in Seq(T)
      OBVIOUS
    <3>2. QED BY <1>2, <1>3, <1>6, <3>1 DEF Memory
  <2>2. QED BY <1>2, <1>7, <2>1 DEF MailRemembered
<1>9. MailInBudget
  BY <1>2, <1>5 DEF MailInBudget, InBudget
<1>10. QED BY <1>4, <1>8, <1>9

(* Type correctness, the three memories and the budgets, for every number of *)
(* sources, recipients and calls, every setting of the budgets and every     *)
(* bound on the wait for the lock.                                           *)
THEOREM MailInvHolds == LimiterSpec => []MailInv
<1>1. LimiterInit => MailInv
  BY MailInit
<1>2. MailInv /\ [LimiterNext]_limiterVars => MailInv'
  BY MailStep
<1>3. QED BY <1>1, <1>2, PTL DEF LimiterSpec

(* EmailSendRateLimiter::check_at: every rolling budget of sign-in mail per  *)
(* recipient and for the process holds over the whole history, for sends     *)
(* that retain_recent and sweep have long dropped, and calls that overtake   *)
(* each other on the way to the lock.                                        *)
THEOREM MailBudgetsHoldAlways == LimiterSpec => []MailBudgetsHold
<1>1. ASSUME MailInv PROVE MailBudgetsHold
  <2>1. SUFFICES ASSUME subject = "mail", MailHistory, MailInBudget
                 PROVE  MailBudgetsHold
    BY <1>1 DEF MailInv, MailBudgetsHold
  <2>2. DOMAIN granted = 1..Len(granted)
    BY <2>1 DEF MailHistory
  <2>3. ASSUME NEW Who, NEW window, NEW limit, InBudget(granted, Who, window, limit, lag)
        PROVE  Within(Who, window, limit)
    <3>1. Grants(Who) = Sent(granted, Who)
      BY <2>2 DEF Grants, Sent
    <3>2. QED BY <2>3, <3>1 DEF Within, InBudget, Near
  <2>4. QED BY <2>1, <2>3 DEF MailBudgetsHold, MailInBudget
<1>2. QED BY <1>1, MailInvHolds, PTL

(* L holds what was let through for those in Who, as long as it counts.      *)
Tallies(L, Who, ret) ==
    \A t \in 0..now : t + ret > now =>
        Cardinality({i \in DOMAIN L : L[i].at = t})
          = Cardinality({i \in Grants(Who) : granted[i].at = t})

(* check_at charges all three lists or none: what each of them holds of a    *)
(* time that still counts is exactly what was let through at that time.      *)
THEOREM OnlySendsAreChargedAlways == LimiterSpec => []OnlySendsAreCharged
<1>1. ASSUME MailInv PROVE OnlySendsAreCharged
  <2>1. SUFFICES ASSUME subject = "mail", MailHistory, MailRemembered
                 PROVE  OnlySendsAreCharged
    BY <1>1 DEF MailInv, OnlySendsAreCharged
  <2>2. DOMAIN granted = 1..Len(granted) /\ Len(granted) \in Nat /\ now \in Nat
    BY <2>1 DEF MailHistory
  <2>3. ASSUME NEW L, NEW T, NEW Who, NEW ret, Memory(L, T, granted, Who, ret, now)
        PROVE  Tallies(L, Who, ret)
    <3>1. SUFFICES ASSUME NEW t \in 0..now, t + ret > now
                   PROVE  Cardinality({i \in DOMAIN L : L[i].at = t})
                            = Cardinality({i \in Grants(Who) : granted[i].at = t})
      BY DEF Tallies
    <3>2. L \in Seq(T) /\ Remembers(L, granted, Who, ret, now)
      BY <2>3 DEF Memory
    <3>3. Len(L) \in Nat /\ DOMAIN L = 1..Len(L)
      BY <3>2
    <3>4. \A a \in {t} : a + ret > now
      BY <3>1
    <3>5. Cardinality(EventsAt(L, {t})) = Cardinality(SentAt(granted, Who, {t}))
      BY <2>2, <3>2, <3>3, <3>4, SameSends
    <3>6. EventsAt(L, {t}) = {i \in DOMAIN L : L[i].at = t}
      BY <3>3 DEF EventsAt
    <3>7. SentAt(granted, Who, {t}) = {i \in Grants(Who) : granted[i].at = t}
      BY <2>2 DEF SentAt, Sent, Grants
    <3>8. QED BY <3>5, <3>6, <3>7
  <2>4. ASSUME NEW s \in Source
        PROVE  Tallies(Entry(sources, s), {s} \X Recipient, Retention.source)
    <3>1. Memory(Entry(sources, s), Charge, granted, {s} \X Recipient, Retention.source, now)
      BY <2>1 DEF MailRemembered
    <3>2. QED BY <2>3, <3>1
  <2>5. ASSUME NEW r \in Recipient
        PROVE  Tallies(Entry(recipients, r), Source \X {r}, Retention.recipient)
    <3>1. Memory(Entry(recipients, r), Stamp, granted, Source \X {r}, Retention.recipient, now)
      BY <2>1 DEF MailRemembered
    <3>2. QED BY <2>3, <3>1
  <2>6. Tallies(global, Source \X Recipient, Retention.global)
    <3>1. Memory(global, Stamp, granted, Source \X Recipient, Retention.global, now)
      BY <2>1 DEF MailRemembered
    <3>2. QED BY <2>3, <3>1
  <2>7. QED BY <2>4, <2>5, <2>6, Zenon DEF OnlySendsAreCharged, Tallies, Entry, NoEvents
<1>2. QED BY <1>1, MailInvHolds, PTL

-----------------------------------------------------------------------------
(* Spent, a running sum of costs.  The recursion defines a function: for     *)
(* every bound there is one, by the least bound for which there were none.   *)
LEMMA RunningSums ==
    ASSUME NEW n \in Nat, NEW c
    PROVE  \E f : f = [i \in 0..n |-> IF i = 0 THEN 0 ELSE f[i - 1] + c[i]]
<1>1. PICK T : T = {m \in Nat : ~\E f : f = [i \in 0..m |-> IF i = 0 THEN 0 ELSE f[i - 1] + c[i]]}
  OBVIOUS
<1>2. CASE T = {}
  BY <1>1, <1>2
<1>3. CASE T # {}
  <2>1. PICK m \in T : \A i \in T : m <= i
    BY <1>1, <1>3, LeastPosition
  <2>2. m \in Nat
    BY <1>1
  <2>3. m # 0
    <3>1. PICK f : f = [i \in 0..0 |-> 0]
      OBVIOUS
    <3>2. f = [i \in 0..0 |-> IF i = 0 THEN 0 ELSE f[i - 1] + c[i]]
      BY <3>1
    <3>3. QED BY <1>1, <2>1, <3>2
  <2>4. m - 1 \in Nat /\ m - 1 \notin T
    BY <2>1, <2>2, <2>3
  <2>5. PICK f : f = [i \in 0..(m - 1) |-> IF i = 0 THEN 0 ELSE f[i - 1] + c[i]]
    BY <1>1, <2>4
  <2>6. PICK g : g = [i \in 0..m |-> IF i = m THEN f[m - 1] + c[m] ELSE f[i]]
    OBVIOUS
  <2>7. ASSUME NEW i \in 0..m PROVE g[i] = IF i = 0 THEN 0 ELSE g[i - 1] + c[i]
    <3>1. CASE i = m
      BY <2>2, <2>3, <2>6, <3>1
    <3>2. CASE i # m /\ i = 0
      BY <2>2, <2>4, <2>5, <2>6, <3>2
    <3>3. CASE i # m /\ i # 0
      BY <2>2, <2>4, <2>5, <2>6, <3>3
    <3>4. QED BY <3>1, <3>2, <3>3
  <2>8. g = [i \in 0..m |-> IF i = 0 THEN 0 ELSE g[i - 1] + c[i]]
    BY <2>6, <2>7
  <2>9. QED BY <1>1, <2>1, <2>8
<1>4. QED BY <1>2, <1>3

LEMMA SpentUnfolds ==
    ASSUME NEW S, NEW L \in Seq(S), NEW R, NEW cost, NEW f, f = Spent(L, R, cost)
    PROVE  /\ f[0] = 0
           /\ \A i \in 1..Len(L) : f[i] = f[i - 1] + (IF i \in R THEN L[i][cost] ELSE 0)
<1>1. PICK c, n : c = [i \in 1..Len(L) |-> IF i \in R THEN L[i][cost] ELSE 0] /\ n = Len(L)
  OBVIOUS
<1>2. n \in Nat
  BY <1>1
<1>3. f = CHOOSE g : g = [i \in 0..n |-> IF i = 0 THEN 0 ELSE g[i - 1] + (IF i \in R THEN L[i][cost] ELSE 0)]
  BY <1>1 DEF Spent
<1>4. PICK g : g = [i \in 0..n |-> IF i = 0 THEN 0 ELSE g[i - 1] + c[i]]
  BY <1>2, RunningSums
<1>5. ASSUME NEW i \in 0..n
      PROVE  (IF i = 0 THEN 0 ELSE g[i - 1] + c[i])
               = IF i = 0 THEN 0 ELSE g[i - 1] + (IF i \in R THEN L[i][cost] ELSE 0)
  BY <1>1, <1>2
<1>6. g = [i \in 0..n |-> IF i = 0 THEN 0 ELSE g[i - 1] + (IF i \in R THEN L[i][cost] ELSE 0)]
  BY <1>4, <1>5
<1>7. f = [i \in 0..n |-> IF i = 0 THEN 0 ELSE f[i - 1] + (IF i \in R THEN L[i][cost] ELSE 0)]
  BY <1>3, <1>6
<1>8. QED BY <1>1, <1>2, <1>7

(* What a set of events weighs: one each, and one more for those that count  *)
(* double.                                                                   *)
Upto(A, i) == A \cap (1..i)
Costs(L, cost) == [i \in 1..Len(L) |-> L[i][cost]]
Dear(c, A) == {j \in A : c[j] = 2}
Weighs(c, A) == Cardinality(A) + Cardinality(Dear(c, A))

LEMMA WeighsSome ==
    ASSUME NEW c, NEW n \in Nat, NEW A, A \subseteq 1..n
    PROVE  /\ Cardinality(A) \in Nat /\ Weighs(c, A) \in Nat /\ Cardinality(A) <= Weighs(c, A)
           /\ \A k \in A : c[k] = 2 => Cardinality(A) + 1 <= Weighs(c, A)
<1>1. PICK D : D = Dear(c, A)
  OBVIOUS
<1>2. D \subseteq 1..n
  BY <1>1 DEF Dear
<1>3. /\ Cardinality(A) \in Nat /\ IsFiniteSet(D) /\ Cardinality(D) \in Nat
  BY <1>2, FewPositions
<1>4. ASSUME NEW k \in A, c[k] = 2 PROVE Cardinality(D) # 0
  <2>1. k \in D
    BY <1>1, <1>4 DEF Dear
  <2>2. QED BY <1>3, <2>1, FS_EmptySet
<1>5. QED BY <1>1, <1>3, <1>4 DEF Weighs

LEMMA WeighsMore ==
    ASSUME NEW c, NEW n \in Nat, NEW B, B \subseteq 1..n, NEW A, A \subseteq B
    PROVE  Weighs(c, A) <= Weighs(c, B)
<1>1. PICK D, E : D = Dear(c, A) /\ E = Dear(c, B)
  OBVIOUS
<1>2. D \subseteq E /\ E \subseteq 1..n /\ A \subseteq 1..n /\ D \subseteq 1..n
  BY <1>1 DEF Dear
<1>3. /\ IsFiniteSet(B) /\ IsFiniteSet(E)
      /\ Cardinality(A) \in Nat /\ Cardinality(B) \in Nat /\ Cardinality(D) \in Nat /\ Cardinality(E) \in Nat
  BY <1>2, FewPositions
<1>4. Cardinality(A) <= Cardinality(B)
  BY <1>3, FS_Subset
<1>5. Cardinality(D) <= Cardinality(E)
  BY <1>2, <1>3, FS_Subset
<1>6. QED BY <1>1, <1>3, <1>4, <1>5 DEF Weighs

NewTo(A, n, k) == n \in Nat /\ A \subseteq 1..n /\ k \notin A

LEMMA WeighsOneMore ==
    ASSUME NEW c, NEW n, NEW A, NEW k, NewTo(A, n, k), c[k] \in {1, 2}
    PROVE  Weighs(c, A \cup {k}) = Weighs(c, A) + c[k]
<1>0. n \in Nat /\ A \subseteq 1..n /\ k \notin A
  BY DEF NewTo
<1>1. PICK D : D = Dear(c, A)
  OBVIOUS
<1>2. D \subseteq 1..n /\ k \notin D /\ Dear(c, A \cup {k}) = IF c[k] = 2 THEN D \cup {k} ELSE D
  BY <1>0, <1>1 DEF Dear
<1>3. /\ IsFiniteSet(A) /\ IsFiniteSet(D) /\ Cardinality(A) \in Nat /\ Cardinality(D) \in Nat
  BY <1>0, <1>2, FewPositions
<1>4. Cardinality(A \cup {k}) = Cardinality(A) + 1
  BY <1>0, <1>3, FS_AddElement
<1>5. Cardinality(D \cup {k}) = Cardinality(D) + 1
  BY <1>2, <1>3, FS_AddElement
<1>6. Cardinality(Dear(c, A \cup {k})) = Cardinality(D) + (c[k] - 1)
  <2>1. CASE c[k] = 2
    <3>1. Dear(c, A \cup {k}) = D \cup {k}
      BY <1>2, <2>1
    <3>2. Cardinality(Dear(c, A \cup {k})) = Cardinality(D) + 1
      BY <1>5, <3>1
    <3>3. QED BY <1>3, <2>1, <3>2
  <2>2. CASE c[k] = 1
    BY <1>2, <1>3, <2>2
  <2>3. QED BY <2>1, <2>2
<1>7. QED BY <1>1, <1>3, <1>4, <1>6 DEF Weighs

(* The running sum is what was recent so far weighs.                         *)
Priced(c, n) == \A i \in 1..n : c[i] = 1 \/ c[i] = 2
RunsUp(f, c, R, n) ==
    f[0] = 0 /\ \A i \in 1..n : f[i] = f[i - 1] + (IF i \in R THEN c[i] ELSE 0)

LEMMA SumIsWeight ==
    ASSUME NEW n \in Nat, NEW c, Priced(c, n), NEW R, NEW f, RunsUp(f, c, R, n), NEW i \in 0..n
    PROVE  f[i] = Weighs(c, Upto(R, i))
<1>1. PICK T : T = {k \in 0..n : f[k] # Weighs(c, Upto(R, k))}
  OBVIOUS
<1>2. SUFFICES ASSUME T # {} PROVE FALSE
  BY <1>1
<1>3. T \subseteq Nat
  BY <1>1
<1>4. PICK m \in T : \A k \in T : m <= k
  BY <1>2, <1>3, LeastPosition
<1>5. m \in 0..n /\ m \in Nat /\ f[m] # Weighs(c, Upto(R, m))
  BY <1>1, <1>3, <1>4
<1>6. m # 0
  <2>1. Upto(R, 0) = {} /\ Dear(c, {}) = {}
    BY DEF Dear, Upto
  <2>2. Cardinality({}) = 0
    BY FS_EmptySet
  <2>3. Weighs(c, {}) = 0
    BY <2>1, <2>2 DEF Weighs
  <2>4. QED BY <1>5, <2>1, <2>3 DEF RunsUp
<1>7. m \in 1..n /\ m - 1 \in 0..n /\ m - 1 \notin T
  BY <1>4, <1>5, <1>6
<1>8. PICK A : A = Upto(R, m - 1)
  OBVIOUS
<1>9. f[m - 1] = Weighs(c, A)
  BY <1>1, <1>7, <1>8
<1>10. A \subseteq 1..n /\ m \notin A /\ Upto(R, m) = IF m \in R THEN A \cup {m} ELSE A
  BY <1>5, <1>7, <1>8 DEF Upto
<1>11. Weighs(c, A) \in Nat
  BY <1>10, WeighsSome
<1>12. f[m] = f[m - 1] + (IF m \in R THEN c[m] ELSE 0)
  BY <1>7 DEF RunsUp
<1>13. CASE m \in R
  <2>1. c[m] \in {1, 2} /\ NewTo(A, n, m)
    BY <1>7, <1>10 DEF Priced, NewTo
  <2>2. Weighs(c, A \cup {m}) = Weighs(c, A) + c[m]
    BY <2>1, WeighsOneMore
  <2>3. QED BY <1>5, <1>9, <1>10, <1>12, <1>13, <2>2
<1>14. CASE m \notin R
  <2>1. f[m] = f[m - 1] + 0
    BY <1>12, <1>14
  <2>2. QED BY <1>5, <1>9, <1>10, <1>11, <1>14, <2>1
<1>15. QED BY <1>13, <1>14

LEMMA SpentIsWeight ==
    ASSUME NEW S, NEW L \in Seq(S), NEW R, R \subseteq 1..Len(L), NEW cost, Priced(Costs(L, cost), Len(L))
    PROVE  Spent(L, R, cost)[Len(L)] = Weighs(Costs(L, cost), R)
<1>1. PICK n, f, c : n = Len(L) /\ f = Spent(L, R, cost) /\ c = Costs(L, cost)
  OBVIOUS
<1>2. n \in Nat /\ f[0] = 0 /\ \A i \in 1..n : f[i] = f[i - 1] + (IF i \in R THEN L[i][cost] ELSE 0)
  BY <1>1, SpentUnfolds
<1>3. \A i \in 1..n : c[i] = L[i][cost]
  BY <1>1 DEF Costs
<1>4. RunsUp(f, c, R, n)
  BY <1>2, <1>3 DEF RunsUp
<1>5. Priced(c, n) /\ n \in 0..n
  BY <1>1, <1>2
<1>6. f[n] = Weighs(c, Upto(R, n))
  BY <1>2, <1>4, <1>5, SumIsWeight
<1>7. Upto(R, n) = R
  BY <1>1, <1>2 DEF Upto
<1>8. QED BY <1>1, <1>6, <1>7

(* weighted_retry_after lets a message through only if the budget has room.  *)
LEMMA WeightedAllows ==
    ASSUME NEW S, NEW L \in Seq(S), \A i \in 1..Len(L) : L[i].at \in Nat,
           NEW t \in Nat, NEW window \in Nat \ {0}, NEW budget \in Nat, NEW incoming \in Nat,
           NEW cost, Priced(Costs(L, cost), Len(L)),
           WeightedRetryAfter(L, t, window, budget, incoming, cost) <= 0
    PROVE  Weighs(Costs(L, cost), Recent(L, t, window)) + incoming <= budget
<1>1. PICK R, n, w : R = Recent(L, t, window) /\ n = Len(L) /\ w = Weighs(Costs(L, cost), R)
  OBVIOUS
<1>2. R \subseteq 1..n /\ n \in Nat /\ R \subseteq Nat /\ \A i \in R : Elapsed(t, L[i].at) < window
  BY <1>1 DEF Recent
<1>3. PICK spent : spent = Spent(L, R, cost)
  OBVIOUS
<1>4. spent[n] = w
  BY <1>1, <1>2, <1>3, SpentIsWeight
<1>5. w \in Nat
  BY <1>1, <1>2, WeighsSome
<1>6. PICK E : E = {i \in R : spent[i] + budget >= spent[n] + incoming}
  OBVIOUS
<1>7. WeightedRetryAfter(L, t, window, budget, incoming, cost)
        = IF spent[n] + incoming <= budget THEN 0
          ELSE IF E = {} THEN RoundedDown(window) ELSE UntilExpiry(L[Min(E)].at, t, window)
  BY <1>1, <1>3, <1>6 DEF WeightedRetryAfter
<1>8. ASSUME E # {} PROVE UntilExpiry(L[Min(E)].at, t, window) > 0
                          /\ UntilExpiry(L[Min(E)].at, t, window) \in Int
  <2>1. Min(E) \in E
    BY <1>2, <1>6, <1>8, LeastPosition DEF Min
  <2>2. L[Min(E)].at \in Nat /\ Elapsed(t, L[Min(E)].at) < window
    BY <1>1, <1>2, <1>6, <2>1
  <2>3. QED BY <2>2, StillToExpire
<1>9. spent[n] + incoming <= budget
  <2>1. RoundedDown(window) \in Nat /\ RoundedDown(window) > 0
    BY SomeWait
  <2>2. QED BY <1>4, <1>5, <1>7, <1>8, <2>1
<1>10. QED BY <1>1, <1>4, <1>9

-----------------------------------------------------------------------------
(* Two recipients from one source.  A list is orderly if it is in the order  *)
(* of its times and if, between two sends to different recipients that are   *)
(* less than a window apart, one counted double.                             *)
Chronological(L) == \A p, q \in 1..Len(L) : p <= q => L[p].at <= L[q].at

DoubledBetween(L, p, q) == \E k \in p..q : L[k].window_cost = 2

Doubled(L, window) ==
    \A p, q \in 1..Len(L) :
        p < q /\ L[q].at < L[p].at + window /\ L[p].recipient # L[q].recipient
            => DoubledBetween(L, p, q)

Orderly(L, window) == Chronological(L) /\ Doubled(L, window)

LEMMA RetainIsOrderly ==
    ASSUME NEW S, NEW L \in Seq(S), \A i \in 1..Len(L) : L[i].at \in Nat,
           NEW u \in Nat, NEW ret \in Nat \ {0}, NEW window, Orderly(L, window)
    PROVE  Orderly(Retain(L, u, ret), window)
<1>1. PICK R, n : R = Retain(L, u, ret) /\ n = Len(L)
  OBVIOUS
<1>2. n \in Nat
  BY <1>1
<1>3. PICK m \in 0..n : /\ Len(R) = n - m
                        /\ \A i \in 1..(n - m) : R[i] = L[i + m]
                        /\ \A i \in 1..m : L[i].at + ret <= u
  BY <1>1, RetainDropsTheOld
<1>4. \A i \in 1..Len(R) : i + m \in 1..n /\ R[i] = L[i + m]
  BY <1>2, <1>3
<1>5. Chronological(R)
  <2>1. SUFFICES ASSUME NEW p \in 1..Len(R), NEW q \in 1..Len(R), p <= q PROVE R[p].at <= R[q].at
    BY DEF Chronological
  <2>2. p + m \in 1..n /\ q + m \in 1..n /\ p + m <= q + m
    BY <1>2, <1>3, <1>4, <2>1
  <2>3. L[p + m].at <= L[q + m].at
    BY <1>1, <2>2 DEF Orderly, Chronological
  <2>4. QED BY <1>4, <2>1, <2>3
<1>6. ASSUME NEW p \in 1..Len(R), NEW q \in 1..Len(R), p < q,
             R[q].at < R[p].at + window, R[p].recipient # R[q].recipient
      PROVE  DoubledBetween(R, p, q)
  <2>1. p + m \in 1..n /\ q + m \in 1..n /\ p + m < q + m /\ p \in Nat /\ q \in Nat /\ m \in Nat
    BY <1>2, <1>3, <1>4, <1>6
  <2>2. L[q + m].at < L[p + m].at + window /\ L[p + m].recipient # L[q + m].recipient
    BY <1>4, <1>6
  <2>3. DoubledBetween(L, p + m, q + m)
    BY <1>1, <2>1, <2>2 DEF Orderly, Doubled
  <2>4. PICK k \in (p + m)..(q + m) : L[k].window_cost = 2
    BY <2>3 DEF DoubledBetween
  <2>5. k - m \in p..q /\ k - m \in 1..Len(R) /\ (k - m) + m = k
    BY <1>2, <1>3, <2>1, <2>4
  <2>6. R[k - m].window_cost = 2
    BY <1>4, <2>4, <2>5
  <2>7. QED BY <2>5, <2>6 DEF DoubledBetween
<1>7. Doubled(R, window)
  BY <1>6 DEF Doubled
<1>8. QED BY <1>1, <1>5, <1>7 DEF Orderly

(* The event f records a send to r at time t from a source with the list L.  *)
SendsTo(f, L, r, t, window) ==
    f.at = t /\ f.recipient = r /\ f.window_cost = RecipientCost(L, r, t, window)

WindowCosts(L) == Costs(L, "window_cost")

Charges(L) ==
    \A i \in 1..Len(L) : L[i].at \in Nat /\ (L[i].window_cost = 1 \/ L[i].window_cost = 2)

LEMMA ChargesArePriced ==
    ASSUME NEW S, NEW L \in Seq(S), Charges(L)
    PROVE  Priced(WindowCosts(L), Len(L)) /\ \A i \in 1..Len(L) : WindowCosts(L)[i] = L[i].window_cost
BY DEF Charges, Priced, WindowCosts, Costs

(* A budget of three does not let a third recipient-change slip through: two *)
(* older sends, one of them double, and the new one would cost four.         *)
LEMMA CostsTooMuch ==
    ASSUME NEW S, NEW L \in Seq(S), Charges(L), NEW t \in Nat, NEW window,
           NEW k \in Recent(L, t, window), NEW p \in Recent(L, t, window), k # p, L[k].window_cost = 2
    PROVE  Weighs(WindowCosts(L), Recent(L, t, window)) >= 3
<1>1. PICK R, n, c : R = Recent(L, t, window) /\ n = Len(L) /\ c = WindowCosts(L)
  OBVIOUS
<1>2. R \subseteq 1..n /\ n \in Nat /\ {k, p} \subseteq R /\ {k, p} \subseteq 1..n
  BY <1>1 DEF Recent
<1>3. Cardinality({k, p}) = 2
  <2>1. IsFiniteSet({k}) /\ Cardinality({k}) = 1 /\ p \notin {k}
    BY FS_Singleton
  <2>2. Cardinality({k} \cup {p}) = 1 + 1
    BY <2>1, FS_AddElement
  <2>3. {k} \cup {p} = {k, p}
    OBVIOUS
  <2>4. Cardinality({k, p}) = 1 + 1
    BY <2>2, <2>3
  <2>5. QED BY <2>4
<1>4. c[k] = 2
  BY <1>1, <1>2, ChargesArePriced
<1>5. /\ Weighs(c, {k, p}) \in Nat /\ Cardinality({k, p}) + 1 <= Weighs(c, {k, p})
  BY <1>2, <1>4, WeighsSome
<1>6. Weighs(c, R) \in Nat /\ Weighs(c, {k, p}) <= Weighs(c, R)
  BY <1>2, WeighsSome, WeighsMore
<1>7. QED BY <1>1, <1>3, <1>5, <1>6

LEMMA AppendIsOrderly ==
    ASSUME NEW S, NEW L \in Seq(S), Charges(L), NEW t \in Nat, \A i \in 1..Len(L) : L[i].at <= t,
           NEW window \in Nat \ {0}, NEW r, NEW f \in S, SendsTo(f, L, r, t, window),
           NEW budget \in Nat, budget <= 3,
           Weighs(WindowCosts(L), Recent(L, t, window)) + f.window_cost <= budget,
           Orderly(L, window)
    PROVE  Orderly(Append(L, f), window)
<1>1. PICK M, n, R : M = Append(L, f) /\ n = Len(L) /\ R = Recent(L, t, window)
  OBVIOUS
<1>2. n \in Nat /\ Len(M) = n + 1 /\ (\A i \in 1..n : M[i] = L[i]) /\ M[n + 1] = f
  BY <1>1
<1>3. f.at = t /\ f.recipient = r /\ f.window_cost = RecipientCost(L, r, t, window)
  BY DEF SendsTo
<1>4. \A i \in 1..n : L[i].at \in Nat /\ L[i].at <= t /\ (i \in R <=> t < L[i].at + window)
  <2>1. SUFFICES ASSUME NEW i \in 1..n
                 PROVE  L[i].at \in Nat /\ L[i].at <= t /\ (i \in R <=> t < L[i].at + window)
    OBVIOUS
  <2>2. PICK a : a = L[i].at
    OBVIOUS
  <2>3. a \in Nat /\ a <= t
    BY <1>1, <2>2 DEF Charges
  <2>4. Elapsed(t, a) < window <=> t < a + window
    BY <2>3 DEF Elapsed
  <2>5. i \in R <=> Elapsed(t, a) < window
    BY <1>1, <2>2 DEF Recent
  <2>6. QED BY <2>2, <2>3, <2>4, <2>5
<1>5. Chronological(M)
  <2>1. ASSUME NEW p \in 1..(n + 1), NEW q \in 1..(n + 1), p <= q PROVE M[p].at <= M[q].at
    <3>1. CASE q \in 1..n
      <4>1. p \in 1..n
        BY <1>2, <2>1, <3>1
      <4>2. L[p].at <= L[q].at
        BY <1>1, <2>1, <3>1, <4>1 DEF Orderly, Chronological
      <4>3. QED BY <1>2, <3>1, <4>1, <4>2
    <3>2. CASE q = n + 1 /\ p \in 1..n
      BY <1>2, <1>3, <1>4, <3>2
    <3>3. CASE q = n + 1 /\ p = n + 1
      BY <1>2, <1>3, <3>3
    <3>4. QED BY <1>2, <2>1, <3>1, <3>2, <3>3
  <2>2. QED BY <1>2, <2>1 DEF Chronological
<1>6. ASSUME NEW p \in 1..n, t < L[p].at + window, L[p].recipient # r PROVE DoubledBetween(M, p, n + 1)
  <2>1. p \in R /\ p \in p..(n + 1) /\ n + 1 \in p..(n + 1)
    BY <1>2, <1>4, <1>6
  <2>2. CASE f.window_cost = 2
    BY <1>2, <2>1, <2>2 DEF DoubledBetween
  <2>3. CASE f.window_cost # 2
    <3>1. f.window_cost = 1 /\ \E i \in R : L[i].recipient = r
      BY <1>1, <1>3, <2>1, <2>3 DEF RecipientCost
    <3>2. PICK o \in R : L[o].recipient = r
      BY <3>1
    <3>3. o \in 1..n /\ o # p /\ t < L[o].at + window
      BY <1>1, <1>4, <1>6, <3>2 DEF Recent
    <3>4. CASE o > p
      <4>1. L[o].at < L[p].at + window
        BY <1>4, <1>6, <3>3
      <4>2. DoubledBetween(L, p, o)
        BY <1>1, <1>6, <3>2, <3>3, <3>4, <4>1 DEF Orderly, Doubled
      <4>3. PICK k \in p..o : L[k].window_cost = 2
        BY <4>2 DEF DoubledBetween
      <4>4. k \in 1..n /\ k \in p..(n + 1)
        BY <1>2, <1>6, <3>3, <4>3
      <4>5. QED BY <1>2, <4>3, <4>4 DEF DoubledBetween
    <3>5. CASE o < p
      <4>1. L[p].at < L[o].at + window
        BY <1>4, <1>6, <3>3
      <4>2. DoubledBetween(L, o, p)
        BY <1>1, <1>6, <3>2, <3>3, <3>5, <4>1 DEF Orderly, Doubled
      <4>3. PICK k \in o..p : L[k].window_cost = 2
        BY <4>2 DEF DoubledBetween
      <4>4. CASE k = p
        BY <1>2, <2>1, <4>3, <4>4 DEF DoubledBetween
      <4>5. CASE k # p
        <5>1. k \in 1..n /\ o <= k
          BY <1>2, <1>6, <3>3, <4>3
        <5>2. L[o].at <= L[k].at
          BY <1>1, <3>3, <5>1 DEF Orderly, Chronological
        <5>3. k \in R
          BY <1>4, <3>3, <5>1, <5>2
        <5>4. Weighs(WindowCosts(L), R) >= 3
          BY <1>1, <2>1, <4>3, <4>5, <5>3, CostsTooMuch
        <5>5. Weighs(WindowCosts(L), R) \in Nat
          <6>1. R \subseteq 1..n
            BY <1>1 DEF Recent
          <6>2. PICK c : c = WindowCosts(L)
            OBVIOUS
          <6>3. Weighs(c, R) \in Nat
            BY <1>2, <6>1, WeighsSome
          <6>4. QED BY <6>2, <6>3
        <5>6. QED BY <1>1, <3>1, <5>4, <5>5
      <4>6. QED BY <4>4, <4>5
    <3>6. QED BY <1>2, <1>6, <3>3, <3>4, <3>5
  <2>4. QED BY <2>2, <2>3
<1>7. ASSUME NEW p \in 1..n, NEW q \in 1..n, p < q, L[q].at < L[p].at + window,
             L[p].recipient # L[q].recipient
      PROVE  DoubledBetween(M, p, q)
  <2>1. DoubledBetween(L, p, q)
    BY <1>1, <1>7 DEF Orderly, Doubled
  <2>2. PICK k \in p..q : L[k].window_cost = 2
    BY <2>1 DEF DoubledBetween
  <2>3. k \in 1..n
    BY <1>2, <1>7, <2>2
  <2>4. QED BY <1>2, <2>2, <2>3 DEF DoubledBetween
<1>8. Doubled(M, window)
  <2>1. ASSUME NEW p \in 1..(n + 1), NEW q \in 1..(n + 1), p < q,
               M[q].at < M[p].at + window, M[p].recipient # M[q].recipient
        PROVE  DoubledBetween(M, p, q)
    <3>1. p \in 1..n
      BY <1>2, <2>1
    <3>2. CASE q \in 1..n
      BY <1>2, <1>7, <2>1, <3>1, <3>2
    <3>3. CASE q = n + 1
      BY <1>2, <1>3, <1>6, <2>1, <3>1, <3>3
    <3>4. QED BY <1>2, <3>2, <3>3
  <2>2. QED BY <1>2, <2>1 DEF Doubled
<1>9. QED BY <1>1, <1>5, <1>8 DEF Orderly

(* A send weighs what it costs.                                              *)
LEMMA AppendWeighs ==
    ASSUME NEW S, NEW L \in Seq(S), Charges(L), NEW t \in Nat, NEW window \in Nat \ {0},
           NEW f \in S, f.at = t, f.window_cost = 1 \/ f.window_cost = 2
    PROVE  Weighs(WindowCosts(Append(L, f)), Recent(Append(L, f), t, window))
             = Weighs(WindowCosts(L), Recent(L, t, window)) + f.window_cost
<1>1. PICK M, n : M = Append(L, f) /\ n = Len(L)
  OBVIOUS
<1>2. /\ n \in Nat /\ n + 1 \in Nat /\ M \in Seq(S) /\ Len(M) = n + 1
      /\ (\A i \in 1..n : M[i] = L[i]) /\ M[n + 1] = f
  BY <1>1
<1>3. PICK A, B : A = Recent(L, t, window) /\ B = Recent(M, t, window)
  OBVIOUS
<1>4. Elapsed(t, t) < window
  BY DEF Elapsed
<1>5. A \subseteq 1..n /\ n + 1 \notin A
  BY <1>1, <1>2, <1>3 DEF Recent
<1>6. B = A \cup {n + 1}
  <2>1. DOMAIN M = 1..(n + 1) /\ DOMAIN L = 1..n
    BY <1>1, <1>2
  <2>2. \A i : i \in B <=> i \in 1..(n + 1) /\ Elapsed(t, M[i].at) < window
    BY <1>3, <2>1 DEF Recent
  <2>3. \A i : i \in A <=> i \in 1..n /\ Elapsed(t, L[i].at) < window
    BY <1>3, <2>1 DEF Recent
  <2>4. \A i : i \in 1..(n + 1) <=> i \in 1..n \/ i = n + 1
    BY <1>2
  <2>5. n + 1 \in B
    BY <1>2, <1>4, <2>2, <2>4
  <2>6. \A i : i \in 1..n => (i \in B <=> i \in A)
    BY <1>2, <2>2, <2>3, <2>4
  <2>7. QED BY <2>2, <2>3, <2>4, <2>5, <2>6
<1>7. PICK c, d : c = WindowCosts(L) /\ d = WindowCosts(M)
  OBVIOUS
<1>8. (\A i \in 1..n : c[i] = L[i].window_cost) /\ \A i \in 1..(n + 1) : d[i] = M[i].window_cost
  BY <1>1, <1>2, <1>7 DEF WindowCosts, Costs
<1>9. d[n + 1] = f.window_cost /\ \A i \in 1..n : d[i] = c[i]
  BY <1>2, <1>8
<1>10. Dear(d, A) = Dear(c, A)
  BY <1>5, <1>9 DEF Dear
<1>11. Weighs(d, A) = Weighs(c, A)
  BY <1>10 DEF Weighs
<1>12. Weighs(d, A \cup {n + 1}) = Weighs(d, A) + d[n + 1]
  <2>1. NewTo(A, n, n + 1) /\ d[n + 1] \in {1, 2}
    BY <1>2, <1>5, <1>9 DEF NewTo
  <2>2. QED BY <2>1, WeighsOneMore
<1>13. QED BY <1>1, <1>3, <1>6, <1>7, <1>9, <1>11, <1>12

(* What NoSpraying says of the window that begins at `a'.                    *)
SparedAt(G, Who, a, window, budget) ==
    /\ Cardinality(Near(G, Who, a, window, 0)) <= budget
    /\ (\E i, j \in Near(G, Who, a, window, 0) : G[i].who # G[j].who)
         => Cardinality(Near(G, Who, a, window, 0)) < budget

Spared(G, Who, window, budget) ==
    \A i \in Sent(G, Who) : SparedAt(G, Who, G[i].at, window, budget)

(* Two sends that a chronological list holds, to two recipients, bring one   *)
(* that counted double, and no older than both.                              *)
LEMMA OneIsDear ==
    ASSUME NEW S, NEW L \in Seq(S), Charges(L), NEW window, Orderly(L, window), NEW a \in Nat,
           \A i \in 1..Len(L) : L[i].at < a + window,
           NEW p \in 1..Len(L), NEW q \in 1..Len(L), a <= L[p].at, a <= L[q].at,
           L[p].recipient # L[q].recipient, window \in Nat
    PROVE  \E k \in 1..Len(L) : a <= L[k].at /\ L[k].window_cost = 2
<1>1. PICK n : n = Len(L)
  OBVIOUS
<1>2. n \in Nat /\ p \in 1..n /\ q \in 1..n /\ \A i \in 1..n : L[i].at \in Nat /\ L[i].at < a + window
  BY <1>1 DEF Charges
<1>3. ASSUME NEW x \in 1..n, NEW y \in 1..n, x < y, a <= L[x].at, L[x].recipient # L[y].recipient
      PROVE  \E k \in 1..n : a <= L[k].at /\ L[k].window_cost = 2
  <2>1. L[y].at < L[x].at + window
    BY <1>2, <1>3
  <2>2. DoubledBetween(L, x, y)
    BY <1>1, <1>3, <2>1 DEF Orderly, Doubled
  <2>3. PICK k \in x..y : L[k].window_cost = 2
    BY <2>2 DEF DoubledBetween
  <2>4. k \in 1..n /\ x <= k
    BY <1>2, <2>3
  <2>5. L[x].at <= L[k].at
    BY <1>1, <2>4 DEF Orderly, Chronological
  <2>6. a <= L[k].at
    BY <1>2, <1>3, <2>4, <2>5
  <2>7. QED BY <2>3, <2>4, <2>6
<1>4. CASE p < q
  BY <1>1, <1>2, <1>3, <1>4
<1>5. CASE q < p
  BY <1>1, <1>2, <1>3, <1>5
<1>6. p # q
  OBVIOUS
<1>7. QED BY <1>2, <1>4, <1>5, <1>6

LEMMA SendIsHeld ==
    ASSUME NEW L, NEW G, NEW Who, NEW ret, NEW t, Remembers(L, G, Who, ret, t),
           NEW j \in Sent(G, Who), G[j].at + ret > t
    PROVE  \E i \in 1..Len(L) : Records(L[i], G[j])
<1>1. PICK h \in [1..Len(L) -> Sent(G, Who)] :
        /\ \A i \in 1..Len(L) : Records(L[i], G[h[i]])
        /\ \A i, k \in 1..Len(L) : h[i] = h[k] => i = k
        /\ \A k \in Sent(G, Who) : G[k].at + ret > t => \E i \in 1..Len(L) : h[i] = k
  BY DEF Remembers
<1>2. QED BY <1>1

(* A list that is in its budget, and remembers all sends that count, spares  *)
(* every window that is not over yet.                                        *)
LEMMA NearSpared ==
    ASSUME NEW S, NEW G \in Seq(S), NEW t \in Nat, \A j \in 1..Len(G) : G[j].at \in Nat /\ G[j].at <= t,
           NEW s, \A j \in 1..Len(G) : G[j].who \in Source \X Recipient,
           NEW ret \in Nat, NEW window \in Nat \ {0}, window <= ret, NEW budget \in Nat,
           NEW M, Memory(M, Charge, G, {s} \X Recipient, ret, t), Orderly(M, window),
           \A i \in 1..Len(M) : M[i].at <= t,
           Weighs(WindowCosts(M), Recent(M, t, window)) <= budget,
           NEW a \in Nat, t < a + window
    PROVE  SparedAt(G, {s} \X Recipient, a, window, budget)
<1>1. PICK Who, N : Who = {s} \X Recipient /\ N = Near(G, Who, a, window, 0)
  OBVIOUS
<1>2. PICK g, n : g = Len(G) /\ n = Len(M)
  OBVIOUS
<1>3. /\ g \in Nat /\ \A j \in 1..g : G[j].at \in Nat /\ G[j].at <= t
      /\ M \in Seq(Charge) /\ n \in Nat /\ Remembers(M, G, Who, ret, t)
  BY <1>1, <1>2 DEF Memory
<1>4. \A i \in 1..n : M[i] \in Charge /\ M[i].at \in Nat /\ M[i].at <= t
                       /\ (M[i].window_cost = 1 \/ M[i].window_cost = 2)
  <2>1. \A i \in 1..n : M[i] \in Charge /\ M[i].at <= t
    BY <1>2, <1>3
  <2>2. \A f \in Charge : f.at \in Nat /\ (f.window_cost = 1 \/ f.window_cost = 2)
    BY DEF Charge
  <2>3. QED BY <2>1, <2>2
<1>5. Charges(M)
  BY <1>2, <1>4 DEF Charges
<1>6. PICK P : P = {x \in Nat : a <= x}
  OBVIOUS
<1>7. \A x \in P : x + ret > t
  BY <1>6
<1>8. N = SentAt(G, Who, P)
  <2>1. \A x \in Nat : x <= t => x + 0 < a + window
    OBVIOUS
  <2>2. \A j \in Sent(G, Who) : j \in 1..g
    BY <1>2 DEF Sent
  <2>3. \A j \in Sent(G, Who) : G[j].at \in P <=> a <= G[j].at /\ G[j].at + 0 < a + window
    BY <1>3, <1>6, <2>1, <2>2
  <2>4. QED BY <1>1, <2>3 DEF Near, SentAt
<1>9. PICK A : A = EventsAt(M, P)
  OBVIOUS
<1>10. Cardinality(A) = Cardinality(N)
  BY <1>2, <1>3, <1>7, <1>8, <1>9, SameSends
<1>11. PICK B, c : B = Recent(M, t, window) /\ c = WindowCosts(M)
  OBVIOUS
<1>12. A \subseteq B /\ B \subseteq 1..n
  <2>1. DOMAIN M = 1..n
    BY <1>2, <1>3
  <2>2. \A i : i \in B <=> i \in 1..n /\ Elapsed(t, M[i].at) < window
    BY <1>11, <2>1 DEF Recent
  <2>3. \A x \in P : Elapsed(t, x) < window
    BY <1>6 DEF Elapsed
  <2>4. \A i : i \in A <=> i \in 1..n /\ M[i].at \in P
    BY <1>2, <1>9 DEF EventsAt
  <2>5. QED BY <2>2, <2>3, <2>4
<1>13. A \subseteq 1..n
  BY <1>12
<1>14. /\ Cardinality(A) \in Nat /\ Weighs(c, A) \in Nat /\ Cardinality(A) <= Weighs(c, A)
       /\ \A k \in A : c[k] = 2 => Cardinality(A) + 1 <= Weighs(c, A)
  BY <1>3, <1>13, WeighsSome
<1>15. Weighs(c, B) \in Nat /\ Weighs(c, A) <= Weighs(c, B)
  BY <1>3, <1>12, WeighsSome, WeighsMore
<1>16. Weighs(c, A) <= budget
  <2>1. Weighs(c, B) <= budget
    BY <1>11
  <2>2. QED BY <1>14, <1>15, <2>1
<1>17. Cardinality(N) <= budget
  BY <1>10, <1>14, <1>16
<1>18. ASSUME NEW i \in N, NEW j \in N, G[i].who # G[j].who
       PROVE  Cardinality(N) < budget
  <2>1. i \in Sent(G, Who) /\ G[i].at \in P /\ j \in Sent(G, Who) /\ G[j].at \in P
    BY <1>8, <1>18 DEF SentAt
  <2>2. G[i].at + ret > t /\ G[j].at + ret > t
    BY <1>7, <2>1
  <2>3. PICK p \in 1..n : Records(M[p], G[i])
    BY <1>2, <1>3, <2>1, <2>2, SendIsHeld
  <2>4. PICK q \in 1..n : Records(M[q], G[j])
    BY <1>2, <1>3, <2>1, <2>2, SendIsHeld
  <2>5. /\ M[p].at = G[i].at /\ M[q].at = G[j].at
        /\ M[p].recipient = G[i].who[2] /\ M[q].recipient = G[j].who[2]
    BY <1>4, <2>3, <2>4 DEF Records
  <2>6. G[i].who \in {s} \X Recipient /\ G[j].who \in {s} \X Recipient
    BY <1>1, <2>1 DEF Sent
  <2>7. G[i].who[2] # G[j].who[2]
    <3>1. \A u, v \in {s} \X Recipient : u # v => u[2] # v[2]
      OBVIOUS
    <3>2. QED BY <1>18, <2>6, <3>1
  <2>8. a <= M[p].at /\ a <= M[q].at /\ M[p].recipient # M[q].recipient
    BY <1>6, <2>1, <2>5, <2>7
  <2>9. \A k \in 1..n : M[k].at < a + window
    BY <1>4
  <2>10. PICK k \in 1..n : a <= M[k].at /\ M[k].window_cost = 2
    BY <1>2, <1>3, <1>5, <2>8, <2>9, OneIsDear
  <2>11. k \in A
    BY <1>2, <1>4, <1>6, <1>9, <2>10 DEF EventsAt
  <2>12. c[k] = 2
    BY <1>2, <1>3, <1>5, <1>11, <2>10, ChargesArePriced
  <2>13. Cardinality(A) + 1 <= Weighs(c, A)
    BY <1>14, <2>11, <2>12
  <2>14. QED BY <1>10, <1>14, <1>16, <2>13
<1>19. QED BY <1>1, <1>17, <1>18, Zenon DEF SparedAt

LEMMA SparedAnyway ==
    ASSUME NEW S, NEW G \in Seq(S), NEW e \in S, NEW Who, NEW a, NEW window,
           e.who \notin Who \/ ~(e.at + 0 < a + window),
           NEW budget, SparedAt(G, Who, a, window, budget)
    PROVE  SparedAt(Append(G, e), Who, a, window, budget)
<1>1. PICK H, n : H = Append(G, e) /\ n = Len(G)
  OBVIOUS
<1>2. n \in Nat /\ Len(H) = n + 1 /\ (\A j \in 1..n : H[j] = G[j]) /\ H[n + 1] = e
  BY <1>1
<1>3. PICK M, N : M = Near(H, Who, a, window, 0) /\ N = Near(G, Who, a, window, 0)
  OBVIOUS
<1>4. \A j : j \in N <=> /\ j \in 1..n /\ G[j].who \in Who
                         /\ a <= G[j].at /\ G[j].at + 0 < a + window
  BY <1>1, <1>3 DEF Near, Sent
<1>5. \A j : j \in M <=> /\ j \in 1..(n + 1) /\ H[j].who \in Who
                         /\ a <= H[j].at /\ H[j].at + 0 < a + window
  BY <1>2, <1>3 DEF Near, Sent
<1>6. n + 1 \notin M
  BY <1>2, <1>5
<1>7. \A j : j \in 1..(n + 1) <=> j \in 1..n \/ j = n + 1
  BY <1>2
<1>8. \A j : j \in M <=> j \in N
  <2>1. \A j \in 1..n : j \in M <=> j \in N
    BY <1>2, <1>4, <1>5, <1>7
  <2>2. QED BY <1>4, <1>5, <1>6, <1>7, <2>1
<1>9. M = N
  BY <1>8
<1>10. \A j \in N : H[j] = G[j]
  BY <1>2, <1>4
<1>11. /\ Cardinality(N) <= budget
       /\ (\E i, j \in N : G[i].who # G[j].who) => Cardinality(N) < budget
  BY <1>3 DEF SparedAt
<1>12. (\E i, j \in M : H[i].who # H[j].who) => Cardinality(M) < budget
  BY <1>9, <1>10, <1>11
<1>13. SparedAt(H, Who, a, window, budget)
  BY <1>3, <1>9, <1>11, <1>12, Zenon DEF SparedAt
<1>14. QED BY <1>1, <1>13

LEMMA ListIsPast ==
    ASSUME NEW L, NEW T, NEW G, NEW Who, NEW ret, NEW t, Memory(L, T, G, Who, ret, t),
           \A j \in 1..Len(G) : G[j].at <= t
    PROVE  \A i \in 1..Len(L) : L[i].at <= t
<1>1. PICK h \in [1..Len(L) -> Sent(G, Who)] : \A i \in 1..Len(L) : Records(L[i], G[h[i]])
  BY DEF Memory, Remembers
<1>2. SUFFICES ASSUME NEW i \in 1..Len(L) PROVE L[i].at <= t
  OBVIOUS
<1>3. h[i] \in 1..Len(G) /\ L[i].at = G[h[i]].at
  BY <1>1 DEF Sent, Records
<1>4. QED BY <1>3

(* The lists of the sources are orderly, and the history is spared.          *)
SprayLists ==
    \A s \in Source :
        /\ Orderly(Entry(sources, s), Limits.source_window)
        /\ Spared(granted, {s} \X Recipient, Limits.source_window, Limits.source_budget)

SprayInv == subject = "mail" /\ lag = 0 => SprayLists

LEMMA CheckSpares ==
    ASSUME Limits.source_budget <= 3,
           MailHistory, MailRemembered, SprayLists, MailHistory', MailRemembered',
           NEW s \in Source, NEW r \in Recipient, NEW t \in Nat, t = now,
           CheckAt(s, r, t)
    PROVE  SprayLists'
<1>1. PICK window, budget, ret :
        window = Limits.source_window /\ budget = Limits.source_budget /\ ret = Retention.source
  OBVIOUS
<1>2. /\ window \in Nat \ {0} /\ budget \in Nat /\ budget <= 3 /\ ret \in Nat \ {0} /\ window <= ret
      /\ Retention.recipient \in Nat \ {0} /\ Retention.global \in Nat \ {0}
  BY <1>1, SomeLimits, RetentionCovers
<1>3. PICK bs, br, al : /\ bs = SweptMap(sources, s, t, ret)
                        /\ br = SweptMap(recipients, r, t, Retention.recipient)
                        /\ al = Retain(global, t, Retention.global)
  OBVIOUS
<1>4. PICK F, L, send : F = bs[s] /\ L = br[r] /\ send = SourceSend(F, r, t)
  OBVIOUS
<1>5. PICK wait : wait = MailWait(F, L, al, send, t)
  OBVIOUS
<1>6. PICK M : M = IF "source" \in Charged(wait) THEN Append(F, send) ELSE F
  OBVIOUS
<1>7. sources' = [bs EXCEPT ![s] = M] /\ Answer(<<s, r>>, t, wait) /\ now' = now
  BY <1>1, <1>3, <1>4, <1>5, <1>6 DEF CheckAt
<1>8. IsSwept(bs, sources, s, t, ret) /\ IsSwept(br, recipients, r, t, Retention.recipient)
  BY <1>3, SweptEntries
<1>9. /\ F = Retain(Entry(sources, s), t, ret) /\ L = Retain(Entry(recipients, r), t, Retention.recipient)
      /\ Entry(sources', s) = M
      /\ \A x : x # s => \/ Entry(sources', x) = Entry(sources, x)
                         \/ Entry(sources', x) = Retain(Entry(sources, x), t, ret)
  BY <1>4, <1>7, <1>8 DEF IsSwept
<1>10. /\ Memory(F, Charge, granted, {s} \X Recipient, ret, t)
       /\ Memory(L, Stamp, granted, Source \X {r}, Retention.recipient, t)
       /\ Memory(al, Stamp, granted, Source \X Recipient, Retention.global, t)
  BY <1>1, <1>2, <1>3, <1>9, MemoryRetained DEF MailRemembered
<1>11. ASSUME NEW x \in Source
       PROVE  Orderly(Entry(sources, x), window) /\ Orderly(Retain(Entry(sources, x), t, ret), window)
  <2>1. PICK E : E = Entry(sources, x)
    OBVIOUS
  <2>2. Memory(E, Charge, granted, {x} \X Recipient, ret, now) /\ Orderly(E, window)
    BY <1>1, <2>1 DEF MailRemembered, SprayLists
  <2>3. E \in Seq(Charge) /\ \A i \in 1..Len(E) : E[i].at \in Nat
    BY <2>2 DEF Memory
  <2>4. Orderly(Retain(E, t, ret), window)
    BY <1>2, <2>2, <2>3, RetainIsOrderly
  <2>5. QED BY <2>1, <2>2, <2>4
<1>12. ASSUME NEW x \in Source, x # s PROVE Orderly(Entry(sources', x), window)
  BY <1>9, <1>11, <1>12
<1>13. Orderly(F, window)
  BY <1>9, <1>11
<1>14. ASSUME NEW x \in Source PROVE Spared(granted, {x} \X Recipient, window, budget)
  BY <1>1 DEF SprayLists
<1>15. CASE wait # 0
  <2>1. M = F
    BY <1>6, <1>15 DEF Charged
  <2>2. granted' = granted
    BY <1>7, <1>15 DEF Answer
  <2>3. ASSUME NEW x \in Source
        PROVE  Orderly(Entry(sources', x), window) /\ Spared(granted', {x} \X Recipient, window, budget)
    BY <1>9, <1>12, <1>13, <1>14, <2>1, <2>2
  <2>4. QED BY <1>1, <2>3 DEF SprayLists
<1>16. CASE wait = 0
  <2>1. M = Append(F, send)
    BY <1>6, <1>16 DEF Charged
  <2>2. PICK e : e = [who |-> <<s, r>>, at |-> t]
    OBVIOUS
  <2>3. granted' = Append(granted, e)
    BY <1>7, <1>16, <2>2 DEF Answer
  <2>4. e \in Grant /\ e.at = t /\ e.who = <<s, r>> /\ granted \in Seq(Grant)
    BY <2>2 DEF Grant, MailHistory
  <2>5. /\ F \in Seq(Charge) /\ (\A i \in 1..Len(F) : F[i].at \in Nat)
        /\ L \in Seq(Stamp) /\ (\A i \in 1..Len(L) : L[i].at \in Nat)
        /\ al \in Seq(Stamp) /\ (\A i \in 1..Len(al) : al[i].at \in Nat)
    BY <1>10 DEF Memory
  <2>6. Charges(F)
    <3>1. \A f \in Charge : f.window_cost = 1 \/ f.window_cost = 2
      BY DEF Charge
    <3>2. \A i \in 1..Len(F) : F[i] \in Charge
      BY <2>5
    <3>3. QED BY <2>5, <3>1, <3>2 DEF Charges
  <2>7. /\ send \in Charge /\ send.at = t /\ (send.window_cost = 1 \/ send.window_cost = 2)
        /\ SendsTo(send, F, r, t, window)
    <3>1. send \in Charge
      BY <1>4, ChargeIsSound
    <3>2. SendsTo(send, F, r, t, window)
      BY <1>1, <1>4 DEF SourceSend, SendsTo
    <3>3. send.at = t /\ (send.window_cost = 1 \/ send.window_cost = 2)
      BY <3>1, <3>2 DEF Charge, SendsTo
    <3>4. QED BY <3>1, <3>2, <3>3
  <2>8. WeightedRetryAfter(F, t, window, budget, send.window_cost, "window_cost") <= 0
    BY <1>1, <1>5, <1>16, <2>5, AllBudgetsAllow
  <2>9. Weighs(WindowCosts(F), Recent(F, t, window)) + send.window_cost <= budget
    <3>1. Priced(Costs(F, "window_cost"), Len(F))
      BY <2>5, <2>6, ChargesArePriced DEF WindowCosts
    <3>2. send.window_cost \in Nat
      BY <2>7
    <3>3. QED BY <1>2, <2>5, <2>8, <3>1, <3>2, WeightedAllows DEF WindowCosts
  <2>10. /\ \A j \in 1..Len(granted) : granted[j].at \in Nat /\ granted[j].at <= t
         /\ \A i \in 1..Len(F) : F[i].at <= t
    <3>1. \A j \in 1..Len(granted) : granted[j].at \in Nat /\ granted[j].at <= t
      BY DEF MailHistory
    <3>2. QED BY <1>10, <3>1, ListIsPast
  <2>11. Orderly(M, window)
    BY <1>2, <1>13, <2>1, <2>5, <2>6, <2>7, <2>9, <2>10, AppendIsOrderly
  <2>12. Weighs(WindowCosts(M), Recent(M, t, window)) <= budget
    <3>1. Weighs(WindowCosts(M), Recent(M, t, window))
            = Weighs(WindowCosts(F), Recent(F, t, window)) + send.window_cost
      BY <1>2, <2>1, <2>5, <2>6, <2>7, AppendWeighs
    <3>2. QED BY <2>9, <3>1
  <2>13. PICK H : H = Append(granted, e)
    OBVIOUS
  <2>14. /\ H \in Seq(Grant) /\ \A j \in 1..Len(H) : H[j].at \in Nat /\ H[j].at <= t
         /\ Memory(M, Charge, H, {s} \X Recipient, ret, t)
    <3>1. granted' = H /\ now' = t
      BY <1>7, <2>3, <2>13
    <3>2. Memory(Entry(sources', s), Charge, granted', {s} \X Recipient, ret, now')
      BY <1>1 DEF MailRemembered
    <3>3. /\ granted' \in Seq(Grant)
          /\ \A j \in 1..Len(granted') : granted'[j].at \in Nat /\ granted'[j].at <= now'
      BY DEF MailHistory
    <3>4. QED BY <1>9, <3>1, <3>2, <3>3
  <2>15. /\ Len(granted) \in Nat /\ Len(H) = Len(granted) + 1
         /\ \A j \in 1..Len(granted) : H[j] = granted[j] /\ granted[j] \in Grant
         /\ H[Len(granted) + 1] = e
    BY <2>4, <2>13
  <2>16. ASSUME NEW x \in Source, x # s PROVE Spared(H, {x} \X Recipient, window, budget)
    <3>1. e.who \notin {x} \X Recipient
      BY <2>4, <2>16
    <3>2. SUFFICES ASSUME NEW i \in Sent(H, {x} \X Recipient)
                   PROVE  SparedAt(H, {x} \X Recipient, H[i].at, window, budget)
      BY DEF Spared
    <3>3. i \in Sent(granted, {x} \X Recipient) /\ H[i] = granted[i]
      BY <2>15, <3>1, <3>2 DEF Sent
    <3>4. SparedAt(granted, {x} \X Recipient, granted[i].at, window, budget)
      BY <1>14, <3>3 DEF Spared
    <3>5. SparedAt(H, {x} \X Recipient, granted[i].at, window, budget)
      BY <2>4, <2>13, <3>1, <3>4, SparedAnyway
    <3>6. QED BY <3>3, <3>5
  <2>17. Spared(H, {s} \X Recipient, window, budget)
    <3>1. SUFFICES ASSUME NEW i \in Sent(H, {s} \X Recipient)
                   PROVE  SparedAt(H, {s} \X Recipient, H[i].at, window, budget)
      BY DEF Spared
    <3>2. PICK a : a = H[i].at
      OBVIOUS
    <3>3. i \in 1..Len(H) /\ a \in Nat
      BY <2>14, <3>1, <3>2 DEF Sent
    <3>4. CASE t < a + window
      <4>1. \A j \in 1..Len(H) : H[j].who \in Source \X Recipient
        <5>1. \A g \in Grant : g.who \in Source \X Recipient
          BY DEF Grant
        <5>2. \A j \in 1..Len(H) : H[j] \in Grant
          BY <2>14
        <5>3. QED BY <5>1, <5>2
      <4>2. \A j \in 1..Len(M) : M[j].at <= t
        BY <2>14, ListIsPast
      <4>3. SparedAt(H, {s} \X Recipient, a, window, budget)
        BY <1>2, <2>11, <2>12, <2>14, <3>3, <3>4, <4>1, <4>2, NearSpared
      <4>4. QED BY <3>2, <4>3
    <3>5. CASE ~(t < a + window)
      <4>1. i # Len(granted) + 1
        BY <1>2, <2>4, <2>15, <3>2, <3>3, <3>5
      <4>2. i \in Sent(granted, {s} \X Recipient) /\ a = granted[i].at
        BY <2>15, <3>1, <3>2, <3>3, <4>1 DEF Sent
      <4>3. SparedAt(granted, {s} \X Recipient, a, window, budget)
        BY <1>14, <4>2 DEF Spared
      <4>4. ~(e.at + 0 < a + window)
        BY <2>4, <3>5
      <4>5. SparedAt(H, {s} \X Recipient, a, window, budget)
        BY <2>4, <2>13, <4>3, <4>4, SparedAnyway
      <4>6. QED BY <3>2, <4>5
    <3>6. QED BY <3>4, <3>5
  <2>18. ASSUME NEW x \in Source
         PROVE  Orderly(Entry(sources', x), window) /\ Spared(granted', {x} \X Recipient, window, budget)
    <3>1. CASE x = s
      BY <1>9, <2>3, <2>11, <2>13, <2>17, <3>1
    <3>2. CASE x # s
      BY <1>12, <2>3, <2>13, <2>16, <3>2
    <3>3. QED BY <3>1, <3>2
  <2>19. QED BY <1>1, <2>18 DEF SprayLists
<1>17. QED BY <1>15, <1>16

LEMMA SprayStep ==
    ASSUME Limits.source_budget <= 3, MailInv, MailInv', SprayInv, [LimiterNext]_limiterVars
    PROVE  SprayInv'
<1>1. subject' = subject
  BY SubjectFixed
<1>2. lag' = lag
  BY ZenonT(30) DEF LimiterNext, Tick, Check, CheckMail, ReadClock, TakeLock, CheckAt, limiterVars
<1>3. SUFFICES ASSUME subject = "mail", lag = 0 PROVE SprayLists'
  BY <1>1, <1>2 DEF SprayInv
<1>4. MailHistory /\ CallsWait /\ MailRemembered /\ MailHistory' /\ MailRemembered' /\ SprayLists
  BY <1>1, <1>3 DEF MailInv, SprayInv
<1>5. now \in Nat
  BY <1>4 DEF MailHistory
<1>6. CASE sources' = sources /\ granted' = granted
  BY <1>4, <1>6 DEF SprayLists
<1>7. CASE Tick \/ UNCHANGED limiterVars
  BY <1>6, <1>7 DEF Tick, limiterVars
<1>8. ASSUME NEW id \in Identity, Check(id) PROVE FALSE
  BY <1>3, <1>8 DEF Check
<1>9. ASSUME NEW s \in Source, NEW r \in Recipient, CheckMail(s, r) PROVE SprayLists'
  <2>1. CheckAt(s, r, now)
    BY <1>9 DEF CheckMail
  <2>2. QED BY <1>4, <1>5, <2>1, CheckSpares
<1>10. ASSUME NEW c \in Call, NEW s \in Source, NEW r \in Recipient, ReadClock(c, s, r)
       PROVE  SprayLists'
  BY <1>6, <1>10 DEF ReadClock
<1>11. ASSUME NEW c \in Call, TakeLock(c) PROVE SprayLists'
  <2>1. call[c].pc = "wait" /\ CheckAt(call[c].source, call[c].recipient, call[c].at)
    BY <1>11 DEF TakeLock
  <2>2. Waiting(c)
    BY <1>4, <2>1 DEF CallsWait, Ready
  <2>3. call[c].source \in Source /\ call[c].recipient \in Recipient /\ call[c].at = now
    BY <1>3, <1>5, <2>2 DEF Waiting
  <2>4. QED BY <1>4, <1>5, <2>1, <2>3, CheckSpares
<1>12. QED BY <1>7, <1>8, <1>9, <1>10, <1>11 DEF LimiterNext

LEMMA SprayInit ==
    ASSUME LimiterInit
    PROVE  SprayInv
<1>1. granted = <<>> /\ DOMAIN sources = {}
  BY DEF LimiterInit, NoEntries, NoEvents
<1>2. Len(<<>>) = 0 /\ 1..0 = {}
  OBVIOUS
<1>3. ASSUME NEW s \in Source PROVE Entry(sources, s) = <<>>
  BY <1>1 DEF Entry
<1>4. \A window : Orderly(<<>>, window)
  BY <1>2 DEF Orderly, Chronological, Doubled
<1>5. \A Who, window, budget : Spared(<<>>, Who, window, budget)
  BY <1>2 DEF Spared, Sent
<1>6. QED BY <1>1, <1>3, <1>4, <1>5 DEF SprayInv, SprayLists

InWindow(Who, window, i) ==
    {j \in Grants(Who) : /\ granted[i].at <= granted[j].at
                         /\ granted[j].at < granted[i].at + window}

(* recipient_cost and weighted_retry_after: no source sends more mail in a   *)
(* window than its budget, and less if it wrote to two recipients or more,   *)
(* however the sends are spaced and whatever was swept in between.  The      *)
(* budget of the source is the documented three, or less: with four, two     *)
(* recipients can share a window of four messages.                           *)
THEOREM NoSprayingHolds ==
    ASSUME Limits.source_budget <= 3
    PROVE  LimiterSpec => []NoSpraying
<1>1. LimiterInit => SprayInv
  BY SprayInit
<1>2. MailInv /\ MailInv' /\ SprayInv /\ [LimiterNext]_limiterVars => SprayInv'
  BY SprayStep
<1>3. ASSUME MailInv, SprayInv PROVE NoSpraying
  <2>1. SUFFICES ASSUME subject = "mail", lag = 0, MailHistory, SprayLists
                 PROVE  NoSpraying
    BY <1>3 DEF MailInv, SprayInv, NoSpraying
  <2>2. DOMAIN granted = 1..Len(granted) /\ Len(granted) \in Nat
    BY <2>1 DEF MailHistory
  <2>3. \A j \in 1..Len(granted) : granted[j].at \in Nat
    BY <2>1 DEF MailHistory
  <2>4. ASSUME NEW Who, NEW window, NEW budget, Spared(granted, Who, window, budget), NEW i \in Grants(Who)
        PROVE  /\ Cardinality(InWindow(Who, window, i)) <= budget
               /\ Cardinality({granted[j].who : j \in InWindow(Who, window, i)}) > 1
                    => Cardinality(InWindow(Who, window, i)) < budget
    <3>1. PICK N : N = InWindow(Who, window, i)
      OBVIOUS
    <3>2. Grants(Who) = Sent(granted, Who)
      BY <2>2 DEF Grants, Sent
    <3>3. \A j \in Sent(granted, Who) : granted[j].at + 0 = granted[j].at
      BY <2>3 DEF Sent
    <3>4. N = Near(granted, Who, granted[i].at, window, 0)
      BY <3>1, <3>2, <3>3 DEF Near, InWindow
    <3>5. SparedAt(granted, Who, granted[i].at, window, budget)
      BY <2>4, <3>2 DEF Spared
    <3>6. /\ Cardinality(N) <= budget
          /\ (\E j, k \in N : granted[j].who # granted[k].who) => Cardinality(N) < budget
      BY <3>4, <3>5 DEF SparedAt
    <3>7. PICK W : W = {granted[j].who : j \in N}
      OBVIOUS
    <3>8. ASSUME Cardinality(W) > 1 PROVE \E j, k \in N : granted[j].who # granted[k].who
      <4>1. SUFFICES ASSUME \A j, k \in N : granted[j].who = granted[k].who PROVE FALSE
        OBVIOUS
      <4>2. CASE N = {}
        <5>1. W = {}
          BY <3>7, <4>2
        <5>2. Cardinality(W) = 0
          BY <5>1, FS_EmptySet
        <5>3. QED BY <3>8, <5>2
      <4>3. CASE N # {}
        <5>1. PICK k \in N : TRUE
          BY <4>3
        <5>2. W = {granted[k].who}
          BY <3>7, <4>1, <5>1
        <5>3. Cardinality(W) = 1
          BY <5>2, FS_Singleton
        <5>4. QED BY <3>8, <5>3
      <4>4. QED BY <4>2, <4>3
    <3>9. QED BY <3>1, <3>6, <3>7, <3>8
  <2>5. ASSUME NEW s \in Source
        PROVE  Spared(granted, {s} \X Recipient, Limits.source_window, Limits.source_budget)
    BY <2>1 DEF SprayLists
  <2>6. ASSUME NEW s \in Source, NEW i \in Grants({s} \X Recipient)
        PROVE  /\ Cardinality(InWindow({s} \X Recipient, Limits.source_window, i)) <= Limits.source_budget
               /\ Cardinality({granted[j].who : j \in InWindow({s} \X Recipient, Limits.source_window, i)}) > 1
                    => Cardinality(InWindow({s} \X Recipient, Limits.source_window, i)) < Limits.source_budget
    BY <2>4, <2>5
  <2>7. QED BY <2>6, Zenon DEF NoSpraying, InWindow
<1>4. QED BY <1>1, <1>2, <1>3, MailInvHolds, PTL DEF LimiterSpec
=============================================================================
