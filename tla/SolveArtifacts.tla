--------------------------- MODULE SolveArtifacts ---------------------------
(***************************************************************************)
(* Images and the jobs that need them, within one API process: submission,   *)
(* re-solve and donation (src/src/api.rs), the object store and its          *)
(* retention sweep (storage.rs), and the embedded workers with their         *)
(* in-memory wake-up.                                                        *)
(*                                                                         *)
(* A job's image lives under its own upload key; a donated image also lives  *)
(* under the protected validation prefix.  The sweep deletes every other     *)
(* object by its age, whoever still needs it.  A request is a sequence of    *)
(* calls to the two stores and may stop for good between any two of them;    *)
(* calls may fail, or succeed and report a failure.                          *)
(***************************************************************************)
EXTENDS Naturals, FiniteSets

CONSTANTS
    Job,
    First,          \* a job that is finished when the behaviour begins
    Request,        \* submissions, re-solves and donations in progress
    Worker,         \* embedded workers
    Stores,         \* object stores to consider, "local" or "s3"
    Retention,      \* upload_retention_seconds
    MaxTime,        \* bound on the clock
    MaxFaults,      \* bound on failed calls, stopped requests and lost leases
    None

ASSUME SolveArtifactsAssumptions ==
    /\ First \in Job /\ None \notin Job \cup Worker \cup Request
    /\ Stores \subseteq {"local", "s3"}
    /\ Retention \in Nat \ {0} /\ MaxTime \in Nat /\ MaxFaults \in Nat

VARIABLES
    store,          \* the configured object store
    clock,
    object,         \* key -> the stored object
    status,         \* Job -> "none", "queued", "solving" or "done"
    created,        \* Job -> created_at
    holder,         \* Job -> the worker that holds its lease
    donated,        \* jobs with a validation donation
    req,            \* Request -> its progress
    worker,         \* Worker -> its progress
    woken,          \* workers whose registered wake-up was triggered
    announced,      \* jobs whose enqueue_stored went on to notify_waiters
    swept,          \* keys that the retention sweep deleted
    contested,      \* history: local files rewritten under somebody's hands
    faults

objects == <<object, swept, contested>>
jobs == <<status, created, holder, donated>>
wakeups == <<woken, announced>>
vars == <<store, clock, objects, jobs, req, worker, wakeups, faults>>

Upload(j) == <<"upload", j>>
Kept(j) == <<"validation", j>>
Key == {"upload", "validation"} \X Job

(* A local file is torn from the moment a request truncates it until the     *)
(* last request to do so, by, has filled it again; it stays so if that write *)
(* is cut short.                                                             *)
Absent == [state |-> "absent", at |-> 0, by |-> None]
Present(k) == object[k].state # "absent"

Idle == [pc |-> "idle", op |-> "submit", job |-> None, from |-> None, to |-> None,
         image |-> "whole", gone |-> FALSE]
Looping == [pc |-> "loop", job |-> None]

Init ==
    /\ store \in Stores
    /\ clock = 0
    /\ object = [k \in Key |-> IF k = Upload(First) THEN [Absent EXCEPT !.state = "whole"] ELSE Absent]
    /\ status = [j \in Job |-> IF j = First THEN "done" ELSE "none"]
    /\ created = [j \in Job |-> 0]
    /\ holder = [j \in Job |-> None]
    /\ donated = {}
    /\ req = [r \in Request |-> Idle]
    /\ worker = [w \in Worker |-> Looping]
    /\ woken = {} /\ announced = {} /\ swept = {} /\ contested = {}
    /\ faults = 0

Tick ==
    /\ clock < MaxTime
    /\ clock' = clock + 1
    /\ UNCHANGED <<store, objects, jobs, req, worker, wakeups, faults>>

Fault == faults < MaxFaults /\ faults' = faults + 1

-----------------------------------------------------------------------------
(* Retention.                                                                *)

(* Variant for the mutation runs: no prefix is protected.                    *)
NothingProtected(k) == FALSE

(* key_is_protected with the validation prefix.                              *)
Protected(k) == k[1] = "validation"

(* delete_older_than, object by object.                                      *)
Sweep(k) ==
    /\ Present(k)
    /\ ~Protected(k)
    /\ object[k].at + Retention <= clock
    /\ object' = [object EXCEPT ![k] = Absent]
    /\ swept' = swept \cup {k}
    /\ UNCHANGED <<store, clock, contested, jobs, req, worker, wakeups, faults>>

(* input_available, ensure_input_available.                                  *)
InputAvailable(j) == j \in donated \/ clock < created[j] + Retention

(* input_object_key.                                                         *)
InputKey(j) == IF j \in donated THEN Kept(j) ELSE Upload(j)

-----------------------------------------------------------------------------
(* Requests.                                                                 *)

(* new_object_key: the id of a new job is fresh.                             *)
Fresh(j) == status[j] = "none" /\ \A r \in Request : req[r].job # j

(* submit_job: the image is stored first.                                    *)
Submit(r, j) ==
    /\ req[r] = Idle
    /\ Fresh(j) /\ ~Present(Upload(j))
    /\ req' = [req EXCEPT ![r] = [Idle EXCEPT !.pc = "put", !.job = j, !.to = Upload(j)]]
    /\ UNCHANGED <<store, clock, objects, jobs, worker, wakeups, faults>>

(* resolve_solve of a finished job j as a new job n.                         *)
Resolve(r, j, n) ==
    /\ req[r] = Idle
    /\ status[j] = "done" /\ InputAvailable(j)
    /\ Fresh(n) /\ ~Present(Upload(n))
    /\ req' = [req EXCEPT ![r] = [Idle EXCEPT !.pc = "exists", !.op = "resolve", !.job = n,
                                     !.from = InputKey(j), !.to = Upload(n)]]
    /\ UNCHANGED <<store, clock, objects, jobs, worker, wakeups, faults>>

(* donate_validation_image: the image is copied unless that was done before. *)
(* Nothing keeps two donations of one job from copying at the same time.     *)
Donate(r, j) ==
    /\ req[r] = Idle
    /\ status[j] = "done" /\ InputAvailable(j)
    /\ req' = [req EXCEPT ![r] =
            [Idle EXCEPT !.pc = IF j \in donated THEN "record" ELSE "exists",
                         !.op = "donate", !.job = j, !.from = Upload(j), !.to = Kept(j)]]
    /\ UNCHANGED <<store, clock, objects, jobs, worker, wakeups, faults>>

(* The image must still be there; else the answer is "gone".                 *)
CheckExists(r) ==
    /\ req[r].pc = "exists"
    /\ req' = [req EXCEPT ![r] = IF Present(req[r].from) THEN [@ EXCEPT !.pc = "copy"]
                                                         ELSE Idle]
    /\ UNCHANGED <<store, clock, objects, jobs, worker, wakeups, faults>>

AfterPut(r) == IF req[r].op = "donate" THEN "record" ELSE "enqueue"

(* copy on S3 is one request, which fails if the source is gone.             *)
S3Copy(r) ==
    LET from == req[r].from
    IN  /\ store = "s3"
        /\ req[r].pc = "copy"
        /\ IF Present(from)
             THEN /\ object' = [object EXCEPT ![req[r].to] = [object[from] EXCEPT !.at = clock]]
                  /\ req' = [req EXCEPT ![r].pc = AfterPut(r)]
             ELSE req' = [req EXCEPT ![r] = Idle] /\ UNCHANGED object
        /\ UNCHANGED <<store, clock, swept, contested, jobs, worker, wakeups, faults>>

(* The default copy reads all of the source, then writes; what it makes of a *)
(* contested file is no better.                                              *)
LocalGet(r) ==
    LET from == req[r].from
    IN  /\ store = "local"
        /\ req[r].pc = "copy"
        /\ req' = [req EXCEPT ![r] =
                IF Present(from) THEN [@ EXCEPT !.pc = "put", !.image = object[from].state]
                                 ELSE Idle]
        /\ contested' = contested \cup {k \in {req[r].to} : from \in contested}
        /\ UNCHANGED <<store, clock, object, swept, jobs, worker, wakeups, faults>>

(* The key request r writes to is that of a donation on record, or another   *)
(* request has begun to write it and has not recorded or given it up.        *)
Shared(r) ==
    \/ \E j \in donated : req[r].to = Kept(j)
    \/ \E q \in Request \ {r} : req[q].to = req[r].to /\ req[q].pc \in {"write", "record"}

(* put: S3 stores the object at once, the local store truncates the file and *)
(* fills it.                                                                 *)
Put(r) ==
    /\ req[r].pc = "put"
    /\ object' = [object EXCEPT ![req[r].to] =
            IF store = "s3" THEN [state |-> req[r].image, at |-> clock, by |-> None]
                            ELSE [state |-> "torn", at |-> clock, by |-> r]]
    /\ contested' = contested \cup {k \in {req[r].to} : store = "local" /\ Shared(r)}
    /\ req' = [req EXCEPT ![r].pc = IF store = "s3" THEN AfterPut(r) ELSE "write"]
    /\ UNCHANGED <<store, clock, swept, jobs, worker, wakeups, faults>>

(* The file is whole when the last to truncate it has filled it; one that    *)
(* was removed meanwhile is gone with what is written to it.                 *)
LocalWrite(r) ==
    LET to == req[r].to
    IN  /\ req[r].pc = "write"
        /\ object' = IF object[to].by = r
                       THEN [object EXCEPT ![to] = [state |-> req[r].image, at |-> clock, by |-> None]]
                       ELSE object
        /\ req' = [req EXCEPT ![r] = IF req[r].gone THEN Idle ELSE [@ EXCEPT !.pc = AfterPut(r)]]
        /\ UNCHANGED <<store, clock, swept, contested, jobs, worker, wakeups, faults>>

(* donate_validation.                                                        *)
Record(r) ==
    /\ req[r].pc = "record"
    /\ donated' = donated \cup {req[r].job}
    /\ req' = [req EXCEPT ![r] = Idle]
    /\ UNCHANGED <<store, clock, objects, status, created, holder, worker, wakeups, faults>>

-----------------------------------------------------------------------------
(* enqueue_stored: the row, then the wake-up of the embedded workers.        *)

(* Workers that have registered with the Notify and not been woken yet.      *)
Registered == {w \in Worker : worker[w].pc \in {"claim", "empty", "sleep"}}

Stored(j) ==
    /\ status' = [status EXCEPT ![j] = "queued"]
    /\ created' = [created EXCEPT ![j] = clock]
    /\ UNCHANGED <<holder, donated>>

Enqueue(r) ==
    /\ req[r].pc = "enqueue"
    /\ Stored(req[r].job)
    /\ woken' = woken \cup Registered
    /\ announced' = announced \cup {req[r].job}
    /\ req' = [req EXCEPT ![r] = Idle]
    /\ UNCHANGED <<store, clock, objects, worker, faults>>

(* It fails, with or without having stored the row.  A re-solve then looks.  *)
EnqueueFails(r) ==
    /\ req[r].pc = "enqueue"
    /\ Fault
    /\ Stored(req[r].job) \/ UNCHANGED jobs
    /\ req' = [req EXCEPT ![r] = IF req[r].op = "resolve" THEN [@ EXCEPT !.pc = "find"]
                                                          ELSE Idle]
    /\ UNCHANGED <<store, clock, objects, worker, wakeups>>

(* Variant for the mutation runs: the copy is removed whatever happened.     *)
SafeToDeleteAlways(j) == TRUE

SafeToDelete(j) == status[j] = "none"

(* find_by_object_key: the copy is removed only if no job owns it.           *)
Find(r) ==
    /\ req[r].pc = "find"
    /\ req' = [req EXCEPT ![r] = IF SafeToDelete(req[r].job) THEN [@ EXCEPT !.pc = "delete"]
                                                             ELSE Idle]
    /\ UNCHANGED <<store, clock, objects, jobs, worker, wakeups, faults>>

Delete(r) ==
    /\ req[r].pc = "delete"
    /\ object' = [object EXCEPT ![req[r].to] = Absent]
    /\ req' = [req EXCEPT ![r] = Idle]
    /\ UNCHANGED <<store, clock, swept, contested, jobs, worker, wakeups, faults>>

(* A call fails and the request ends, or the request or its process stops.   *)
(* A write to a local file is not cancelled with the request that waits for  *)
(* it: it may go on when the request is gone.                                *)
Stop(r) ==
    /\ req[r] # Idle
    /\ Fault
    /\ \/ req' = [req EXCEPT ![r] = Idle]
       \/ /\ store = "local" /\ req[r].pc \in {"put", "write"}
          /\ req' = [req EXCEPT ![r].gone = TRUE]
    /\ UNCHANGED <<store, clock, objects, jobs, worker, wakeups>>

-----------------------------------------------------------------------------
(* Embedded workers: the loop of start_background_tasks.                     *)

At(w, pc) == worker' = [worker EXCEPT ![w].pc = pc]

(* notified().enable(): from here on a notification is not lost.             *)
Register(w) ==
    /\ worker[w].pc = "loop"
    /\ At(w, "claim")
    /\ woken' = woken \ {w}
    /\ UNCHANGED <<store, clock, objects, jobs, req, announced, faults>>

Claim(w, j) ==
    /\ worker[w].pc = "claim"
    /\ status[j] = "queued"
    /\ status' = [status EXCEPT ![j] = "solving"]
    /\ holder' = [holder EXCEPT ![j] = w]
    /\ worker' = [worker EXCEPT ![w] = [pc |-> "solve", job |-> j]]
    /\ UNCHANGED <<store, clock, objects, created, donated, req, wakeups, faults>>

(* Nothing is queued when the worker looks; by the time the answer is back   *)
(* that may have changed.                                                    *)
ClaimNothing(w) ==
    /\ worker[w].pc = "claim"
    /\ \A j \in Job : status[j] # "queued"
    /\ At(w, "empty")
    /\ UNCHANGED <<store, clock, objects, jobs, req, wakeups, faults>>

(* Variant for the mutation runs: the worker registers only when it waits.   *)
RegisterToSleep(w) ==
    /\ worker[w].pc = "empty"
    /\ At(w, "sleep")
    /\ woken' = woken \ {w}
    /\ UNCHANGED <<store, clock, objects, jobs, req, announced, faults>>

(* It waits for the notification or the fallback poll.                       *)
Sleep(w) ==
    /\ worker[w].pc = "empty"
    /\ At(w, "sleep")
    /\ UNCHANGED <<store, clock, objects, jobs, req, wakeups, faults>>

(* A failed claim only pauses the loop.                                      *)
ClaimFails(w) ==
    /\ worker[w].pc = "claim"
    /\ Fault
    /\ At(w, "loop")
    /\ UNCHANGED <<store, clock, objects, jobs, req, wakeups>>

Wake(w) ==
    /\ worker[w].pc = "sleep" /\ w \in woken
    /\ At(w, "loop")
    /\ UNCHANGED <<store, clock, objects, jobs, req, wakeups, faults>>

(* Variant for the mutation runs: there is no fallback poll.                 *)
FallbackNever(w) == FALSE /\ UNCHANGED vars

(* The fallback poll.                                                        *)
Fallback(w) ==
    /\ worker[w].pc = "sleep"
    /\ At(w, "loop")
    /\ UNCHANGED <<store, clock, objects, jobs, req, wakeups, faults>>

(* run_embedded_job: a solution, or the error that the image is gone; either *)
(* is refused once the lease has passed to somebody else.                    *)
RunEmbeddedJob(w) ==
    LET j == worker[w].job
        mine == holder[j] = w
    IN  /\ worker[w].pc = "solve"
        /\ status' = IF mine THEN [status EXCEPT ![j] = "done"] ELSE status
        /\ holder' = IF mine THEN [holder EXCEPT ![j] = None] ELSE holder
        /\ worker' = [worker EXCEPT ![w] = Looping]
        /\ UNCHANGED <<store, clock, objects, created, donated, req, wakeups, faults>>

(* It gives up before the solve (input_key fails), leaving its lease.        *)
AbandonJob(w) ==
    /\ worker[w].pc = "solve"
    /\ Fault
    /\ worker' = [worker EXCEPT ![w] = Looping]
    /\ UNCHANGED <<store, clock, objects, jobs, req, wakeups>>

(* No heartbeat renews an embedded lease: one that nobody works under runs   *)
(* out, and so may any other.  The job is queued again, with no wake-up.     *)
Lapse(j) ==
    /\ status[j] = "solving"
    /\ \/ worker[holder[j]].job # j /\ UNCHANGED faults
       \/ worker[holder[j]].job = j /\ Fault
    /\ status' = [status EXCEPT ![j] = "queued"]
    /\ holder' = [holder EXCEPT ![j] = None]
    /\ announced' = announced \ {j}
    /\ UNCHANGED <<store, clock, objects, created, donated, req, worker, woken>>

-----------------------------------------------------------------------------
RequestStep(r) ==
    \/ CheckExists(r) \/ S3Copy(r) \/ LocalGet(r) \/ Put(r) \/ LocalWrite(r)
    \/ Record(r) \/ Enqueue(r) \/ EnqueueFails(r) \/ Find(r) \/ Delete(r) \/ Stop(r)
    \/ \E j \in Job : Submit(r, j) \/ Donate(r, j) \/ \E n \in Job : Resolve(r, j, n)

WorkerStep(w) ==
    \/ Register(w) \/ ClaimNothing(w) \/ Sleep(w) \/ Wake(w) \/ Fallback(w) \/ RunEmbeddedJob(w)
    \/ \E j \in Job : Claim(w, j)

Next ==
    \/ Tick
    \/ \E k \in Key : Sweep(k)
    \/ \E r \in Request : RequestStep(r)
    \/ \E w \in Worker : WorkerStep(w) \/ ClaimFails(w) \/ AbandonJob(w)
    \/ \E j \in Job : Lapse(j)

Spec == Init /\ [][Next]_vars

(* The loop of every worker goes on, and an abandoned lease runs out.        *)
FairSpec ==
    /\ Spec
    /\ \A w \in Worker : WF_vars(WorkerStep(w))
    /\ \A j \in Job : WF_vars(Lapse(j) /\ UNCHANGED faults)

-----------------------------------------------------------------------------
(* Properties.                                                             *)

(* A donated image is kept for good: once the donation is on record, a whole *)
(* copy is under the protected prefix, whatever the sweep, re-solves, cut-   *)
(* off requests and, on S3, other donations do.  On the local store a second *)
(* donation that copied too writes the same file again: no promise is made   *)
(* of a copy that was rewritten in this way (contested), and none could be,  *)
(* since a crash then leaves the recorded copy cut short.                    *)
DonatedImageKept ==
    \A j \in donated : object[Kept(j)].state = "whole" \/ Kept(j) \in contested

(* Only its age takes the image of a job away: a queued, solving or finished *)
(* job has its image, whole, until the sweep removes it; no failed re-solve  *)
(* cleans up an image that a job owns, and no job is queued for an image     *)
(* that was swept, or only half copied, while the re-solve was under way,    *)
(* but for a local re-solve of a contested copy.                             *)
OwnedImageKept ==
    \A j \in Job : status[j] # "none" =>
        \/ object[Upload(j)].state = "whole" \/ Upload(j) \in swept
        \/ Upload(j) \in contested

(* No wake-up is lost: while an announced job waits in the queue, no worker  *)
(* sleeps without having been notified.                                      *)
NoLostWakeup ==
    \A j \in announced : status[j] = "queued" =>
        \A w \in Worker : worker[w].pc = "sleep" => w \in woken

(* Every queued job is finished, also one whose request failed before the    *)
(* wake-up or whose worker gave up.                                          *)
QueuedIsFinished == \A j \in Job : status[j] = "queued" ~> status[j] = "done"
=============================================================================
