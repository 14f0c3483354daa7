------------------------ MODULE SolveArtifactsProofs ------------------------
(***************************************************************************)
(* Proofs about images, donations and wake-ups, for any jobs, requests,      *)
(* workers, retention and number of faults, on the local store and on S3;    *)
(* and about the options of a solve and the satellite tracks of its image.   *)
(***************************************************************************)
EXTENDS SolveArtifacts, SatelliteTracks, WellFoundedInduction, TLAPS

-----------------------------------------------------------------------------
(* The invariant.                                                            *)

Pcs == {"idle", "exists", "copy", "put", "write", "record", "enqueue", "find", "delete"}

RequestState ==
    [pc : Pcs,
     op : {"submit", "resolve", "donate"}, job : Job \cup {None},
     from : Key \cup {None}, to : Key \cup {None}, image : {"torn", "whole"},
     gone : BOOLEAN]

WorkerState == [pc : {"loop", "claim", "empty", "sleep", "solve"}, job : Job \cup {None}]

Busy(r) == req[r].pc # "idle"

(* A request under way has a job and a key to write to, and one to read from *)
(* if it copies.                                                             *)
RequestTypes ==
    /\ req \in [Request -> RequestState]
    /\ \A r \in Request :
         /\ Busy(r) => req[r].job \in Job /\ req[r].to \in Key
         /\ req[r].pc \in {"exists", "copy"} => req[r].from \in Key

(* Types of the variables.                                                   *)
TypeOK ==
    /\ store \in Stores
    /\ clock \in Nat /\ faults \in Nat
    /\ object \in [Key -> [state : {"absent", "torn", "whole"}, at : Nat,
                       by : Request \cup {None}]]
    /\ status \in [Job -> {"none", "queued", "solving", "done"}]
    /\ created \in [Job -> Nat]
    /\ holder \in [Job -> Worker \cup {None}]
    /\ donated \subseteq Job
    /\ RequestTypes
    /\ worker \in [Worker -> WorkerState]
    /\ woken \subseteq Worker /\ announced \subseteq Job
    /\ swept \subseteq Key /\ contested \subseteq Key

(* An object that a re-solve or a donation may copy from.                    *)
IsSource(k) ==
    \E i \in Job : \/ k = Upload(i) /\ status[i] = "done"
                   \/ k = Kept(i) /\ i \in donated

(* What a request has read and may rely on: the id of a new job has no row   *)
(* before its enqueue, and neither the job nor the object it copies from can *)
(* go back to an earlier stage.                                              *)
Knows(r) ==
    Busy(r) =>
        /\ req[r].op = "submit" =>
             /\ req[r].pc \in {"put", "write", "enqueue"}
             /\ req[r].to = Upload(req[r].job)
             /\ status[req[r].job] = "none"
        /\ req[r].op = "resolve" =>
             /\ req[r].pc \in {"exists", "copy", "put", "write", "enqueue", "find", "delete"}
             /\ req[r].to = Upload(req[r].job)
             /\ req[r].pc # "find" => status[req[r].job] = "none"
             /\ IsSource(req[r].from)
        /\ req[r].op = "donate" =>
             /\ req[r].pc \in {"exists", "copy", "put", "write", "record"}
             /\ req[r].to = Kept(req[r].job)
             /\ req[r].from = Upload(req[r].job)
             /\ status[req[r].job] = "done"

RequestsKnow == \A r \in Request : Knows(r)

(* No two requests write to the upload key of one job.                       *)
OneWriter ==
    \A r, q \in Request : Busy(r) /\ Busy(q) /\ r # q /\ req[r].job = req[q].job =>
        req[r].op = "donate" \/ req[q].op = "donate"

(* Only a file that is being written, or was cut short, has a last writer.   *)
TornHasWriter == \A k \in Key : object[k].by # None => object[k].state = "torn"

(* Nothing is torn or contested on S3.                                       *)
NoneTornOnS3 ==
    store = "s3" =>
        /\ contested = {}
        /\ \A k \in Key : object[k].state # "torn"
        /\ \A r \in Request : req[r].pc # "write" /\ ~req[r].gone

ImageOrSwept(k) ==
    object[k].state = "whole" \/ (object[k].state = "absent" /\ k \in swept)

RowsHaveImages ==
    \A j \in Job : status[j] # "none" => ImageOrSwept(Upload(j)) \/ Upload(j) \in contested

(* Request r will leave a whole file when it has written it, unless the file *)
(* was removed since it was truncated.                                       *)
WillFill(r) ==
    \/ object[req[r].to].by = r
    \/ /\ ~Protected(req[r].to)
       /\ object[req[r].to].state = "absent" /\ req[r].to \in swept

(* What a request may rely on, while nobody else rewrites its file.          *)
Holds(r) ==
    /\ req[r].pc \in {"put", "write"} => req[r].image = "whole"
    /\ req[r].pc = "write" => WillFill(r)
    /\ req[r].pc = "enqueue" => ImageOrSwept(req[r].to)
    /\ req[r].pc = "record" => object[req[r].to].state = "whole"

HasImage(r) == Holds(r) \/ req[r].to \in contested

RequestsHaveImages == \A r \in Request : HasImage(r)

(* Only a job that is being solved has a worker.                             *)
HeldIsSolving == \A j \in Job : holder[j] # None => status[j] = "solving"

ImageInv ==
    /\ RequestsKnow /\ OneWriter /\ TornHasWriter
    /\ NoneTornOnS3 /\ RowsHaveImages /\ RequestsHaveImages
    /\ DonatedImageKept /\ HeldIsSolving

(* A worker that found nothing and is not yet notified has seen every job    *)
(* that was announced so far.                                                *)
WakeupInv ==
    /\ \A j \in announced : status[j] # "none"
    /\ \A j \in announced : status[j] = "queued" =>
         \A w \in Worker : worker[w].pc \in {"empty", "sleep"} => w \in woken

-----------------------------------------------------------------------------
(* Facts about keys: the two prefixes are apart, and only one is protected.  *)
LEMMA KeyFacts ==
    /\ \A j \in Job : /\ Upload(j) \in Key /\ Kept(j) \in Key
                      /\ ~Protected(Upload(j)) /\ Protected(Kept(j))
    /\ \A i, j \in Job : /\ Upload(i) # Kept(j)
                         /\ Upload(i) = Upload(j) => i = j
                         /\ Kept(i) = Kept(j) => i = j
BY DEF Upload, Kept, Key, Protected

(* What the steps of a request do, field by field.                           *)

OthersKept(r) == \A q \in Request : q # r => req'[q] = req[q]

(* Request r goes on at p, possibly with another image in hand.              *)
GoesTo(r, p) ==
    /\ req'[r].pc = p
    /\ req'[r].op = req[r].op /\ req'[r].job = req[r].job
    /\ req'[r].from = req[r].from /\ req'[r].to = req[r].to
    /\ req'[r].gone = req[r].gone

SameImage(r) == req'[r].image = req[r].image

IdleAgain(r) == req'[r].pc = "idle" /\ ~req'[r].gone

(* A request that only moves on.                                             *)
LEMMA MoveEffect ==
    ASSUME RequestTypes, NEW r \in Request, Busy(r), NEW p \in Pcs \ {"exists"},
           p = "copy" => req[r].pc = "exists",
           req' = [req EXCEPT ![r] = [req[r] EXCEPT !.pc = p]]
    PROVE  RequestTypes' /\ OthersKept(r) /\ GoesTo(r, p) /\ SameImage(r)
<1>1. req' \in [Request -> RequestState] /\ OthersKept(r) /\ GoesTo(r, p) /\ SameImage(r)
  BY DEF RequestTypes, RequestState, OthersKept, GoesTo, SameImage, Pcs
<1>2. QED
  BY <1>1 DEF RequestTypes, OthersKept, GoesTo, Busy

(* A request that ends.                                                      *)
LEMMA EndEffect ==
    ASSUME RequestTypes, NEW r \in Request, req' = [req EXCEPT ![r] = Idle]
    PROVE  RequestTypes' /\ OthersKept(r) /\ IdleAgain(r)
BY DEF RequestTypes, RequestState, Pcs, OthersKept, IdleAgain, Idle, Busy

LEMMA CheckExistsEffect ==
    ASSUME RequestTypes, NEW r \in Request, CheckExists(r)
    PROVE  /\ RequestTypes' /\ OthersKept(r)
           /\ (GoesTo(r, "copy") /\ SameImage(r)) \/ IdleAgain(r)
BY MoveEffect, EndEffect DEF CheckExists, Busy, Pcs

LEMMA S3CopyEffect ==
    ASSUME RequestTypes, NEW r \in Request, S3Copy(r)
    PROVE  /\ RequestTypes' /\ OthersKept(r)
           /\ \/ GoesTo(r, AfterPut(r)) /\ SameImage(r) /\ Present(req[r].from)
              \/ IdleAgain(r) /\ object' = object
BY MoveEffect, EndEffect DEF S3Copy, Busy, Pcs, AfterPut

LEMMA LocalGetEffect ==
    ASSUME TypeOK, NEW r \in Request, LocalGet(r)
    PROVE  /\ RequestTypes' /\ OthersKept(r)
           /\ \/ GoesTo(r, "put") /\ req'[r].image = object[req[r].from].state
                 /\ Present(req[r].from)
              \/ IdleAgain(r)
<1>1. CASE Present(req[r].from)
  <2>1. req' = [req EXCEPT ![r] = [req[r] EXCEPT !.pc = "put", !.image = object[req[r].from].state]]
    BY <1>1 DEF LocalGet
  <2>2. object[req[r].from].state \in {"torn", "whole"}
    BY <1>1 DEF LocalGet, TypeOK, RequestTypes, Present
  <2>3. req[r] \in RequestState /\ req \in [Request -> RequestState]
    BY DEF TypeOK, RequestTypes
  <2>4. /\ req' \in [Request -> RequestState] /\ OthersKept(r) /\ GoesTo(r, "put")
        /\ req'[r].image = object[req[r].from].state
    BY <2>1, <2>2, <2>3 DEF RequestState, OthersKept, GoesTo, Pcs
  <2>5. req[r].pc = "copy" /\ RequestTypes
    BY DEF LocalGet, TypeOK
  <2>6. RequestTypes'
    BY <2>4, <2>5 DEF RequestTypes, OthersKept, GoesTo, Busy
  <2>7. QED BY <1>1, <2>4, <2>6
<1>2. CASE ~Present(req[r].from)
  BY <1>2, EndEffect DEF LocalGet, TypeOK
<1>3. QED BY <1>1, <1>2

LEMMA PutEffect ==
    ASSUME RequestTypes, NEW r \in Request, Put(r)
    PROVE  /\ RequestTypes' /\ OthersKept(r) /\ SameImage(r)
           /\ GoesTo(r, IF store = "s3" THEN AfterPut(r) ELSE "write")
BY MoveEffect DEF Put, Busy, Pcs, AfterPut

LEMMA LocalWriteEffect ==
    ASSUME RequestTypes, NEW r \in Request, LocalWrite(r)
    PROVE  /\ RequestTypes' /\ OthersKept(r)
           /\ (GoesTo(r, AfterPut(r)) /\ SameImage(r)) \/ IdleAgain(r)
<1>1. CASE req[r].gone
  BY <1>1, EndEffect DEF LocalWrite
<1>2. CASE ~req[r].gone
  BY <1>2, MoveEffect DEF LocalWrite, Busy, Pcs, AfterPut
<1>3. QED BY <1>1, <1>2

(* A request that stops, or leaves a write behind that goes on without it.   *)
LEMMA StopEffect ==
    ASSUME RequestTypes, NEW r \in Request, Stop(r)
    PROVE  /\ RequestTypes' /\ OthersKept(r)
           /\ \/ IdleAgain(r)
              \/ /\ store = "local" /\ req[r].pc \in {"put", "write"} /\ SameImage(r)
                 /\ req'[r].pc = req[r].pc /\ req'[r].op = req[r].op /\ req'[r].job = req[r].job
                 /\ req'[r].from = req[r].from /\ req'[r].to = req[r].to
<1>1. CASE req' = [req EXCEPT ![r] = Idle]
  BY <1>1, EndEffect
<1>2. CASE store = "local" /\ req[r].pc \in {"put", "write"} /\ req' = [req EXCEPT ![r].gone = TRUE]
  <2>1. /\ req' \in [Request -> RequestState] /\ OthersKept(r) /\ SameImage(r)
        /\ req'[r].pc = req[r].pc /\ req'[r].op = req[r].op /\ req'[r].job = req[r].job
        /\ req'[r].from = req[r].from /\ req'[r].to = req[r].to
    BY <1>2 DEF RequestTypes, RequestState, OthersKept, SameImage
  <2>2. RequestTypes'
    BY <2>1 DEF RequestTypes, OthersKept, Busy
  <2>3. QED BY <1>2, <2>1, <2>2
<1>3. QED BY <1>1, <1>2 DEF Stop

LEMMA EnqueueFailsEffect ==
    ASSUME RequestTypes, NEW r \in Request, EnqueueFails(r)
    PROVE  /\ RequestTypes' /\ OthersKept(r)
           /\ (GoesTo(r, "find") /\ SameImage(r) /\ req[r].op = "resolve") \/ IdleAgain(r)
BY MoveEffect, EndEffect DEF EnqueueFails, Busy, Pcs

LEMMA FindEffect ==
    ASSUME RequestTypes, NEW r \in Request, Find(r)
    PROVE  /\ RequestTypes' /\ OthersKept(r)
           /\ (GoesTo(r, "delete") /\ SameImage(r) /\ SafeToDelete(req[r].job)) \/ IdleAgain(r)
BY MoveEffect, EndEffect DEF Find, Busy, Pcs

(* A request that begins, with what it knows and writes.                     *)
LEMMA SubmitEffect ==
    ASSUME RequestTypes, NEW r \in Request, NEW j \in Job, Submit(r, j)
    PROVE  /\ RequestTypes' /\ OthersKept(r)
           /\ req'[r].pc = "put" /\ req'[r].op = "submit" /\ req'[r].job = j
           /\ req'[r].to = Upload(j) /\ req'[r].image = "whole" /\ ~req'[r].gone
BY KeyFacts DEF Submit, Idle, RequestTypes, RequestState, Pcs, OthersKept, Busy

LEMMA ResolveEffect ==
    ASSUME RequestTypes, NEW r \in Request, NEW i \in Job, NEW j \in Job, Resolve(r, i, j)
    PROVE  /\ RequestTypes' /\ OthersKept(r)
           /\ req'[r].pc = "exists" /\ req'[r].op = "resolve" /\ req'[r].job = j
           /\ req'[r].to = Upload(j) /\ req'[r].from = InputKey(i) /\ ~req'[r].gone
BY KeyFacts DEF Resolve, InputKey, Idle, RequestTypes, RequestState, Pcs, OthersKept, Busy

LEMMA DonateEffect ==
    ASSUME RequestTypes, NEW r \in Request, NEW j \in Job, Donate(r, j)
    PROVE  /\ RequestTypes' /\ OthersKept(r)
           /\ req'[r].pc = IF j \in donated THEN "record" ELSE "exists"
           /\ req'[r].op = "donate" /\ req'[r].job = j
           /\ req'[r].to = Kept(j) /\ req'[r].from = Upload(j) /\ ~req'[r].gone
BY KeyFacts DEF Donate, Idle, RequestTypes, RequestState, Pcs, OthersKept, Busy

-----------------------------------------------------------------------------
(* Type correctness: every object, row, request and worker keeps its type.      *)
THEOREM TypeCorrect == Spec => []TypeOK
<1>1. Init => TypeOK
  <2> SUFFICES ASSUME Init PROVE TypeOK
    OBVIOUS
  <2>1. RequestTypes
    BY DEF Init, RequestTypes, RequestState, Pcs, Idle, Busy
  <2>2. QED
    BY <2>1, SolveArtifactsAssumptions DEF Init, TypeOK, Looping, Absent, WorkerState
<1>2. TypeOK /\ [Next]_vars => TypeOK'
  <2> SUFFICES ASSUME TypeOK, [Next]_vars PROVE TypeOK'
    OBVIOUS
  <2>0. RequestTypes
    BY DEF TypeOK
  <2> USE SolveArtifactsAssumptions DEF TypeOK, objects, jobs, wakeups
  <2>1. ASSUME NEW k \in Key, Sweep(k)
        PROVE TypeOK'
    BY <2>0, <2>1 DEF Sweep, RequestTypes, Busy, Absent
  <2>2. ASSUME NEW r \in Request, CheckExists(r)
        PROVE TypeOK'
    <3>1. RequestTypes'
      BY <2>0, <2>2, CheckExistsEffect
    <3>2. QED BY <2>0, <2>2, <3>1 DEF CheckExists
  <2>3. ASSUME NEW r \in Request, S3Copy(r)
        PROVE TypeOK'
    <3>1. RequestTypes'
      BY <2>0, <2>3, S3CopyEffect
    <3>2. QED BY <2>0, <2>3, <3>1 DEF S3Copy, RequestTypes, Present
  <2>4. ASSUME NEW r \in Request, LocalGet(r)
        PROVE TypeOK'
    <3>1. RequestTypes'
      BY <2>0, <2>4, LocalGetEffect
    <3>2. QED BY <2>0, <2>4, <3>1 DEF LocalGet, RequestTypes, Busy
  <2>5. ASSUME NEW r \in Request, Put(r)
        PROVE TypeOK'
    <3>1. RequestTypes'
      BY <2>0, <2>5, PutEffect
    <3>2. QED BY <2>0, <2>5, <3>1 DEF Put, RequestTypes, RequestState, Busy
  <2>6. ASSUME NEW r \in Request, LocalWrite(r)
        PROVE TypeOK'
    <3>1. RequestTypes'
      BY <2>0, <2>6, LocalWriteEffect
    <3>2. QED BY <2>0, <2>6, <3>1 DEF LocalWrite, RequestTypes, RequestState, Busy
  <2>7. ASSUME NEW r \in Request, Record(r)
        PROVE TypeOK'
    BY <2>0, <2>7, EndEffect DEF Record, RequestTypes, Busy
  <2>8. ASSUME NEW r \in Request, Enqueue(r)
        PROVE TypeOK'
    BY <2>0, <2>8, EndEffect DEF Enqueue, Stored, Registered, RequestTypes, Busy
  <2>9. ASSUME NEW r \in Request, EnqueueFails(r)
        PROVE TypeOK'
    <3>1. RequestTypes'
      BY <2>0, <2>9, EnqueueFailsEffect
    <3>2. QED BY <2>0, <2>9, <3>1 DEF EnqueueFails, Stored, Fault, RequestTypes, Busy
  <2>10. ASSUME NEW r \in Request, Find(r)
        PROVE TypeOK'
    BY <2>0, <2>10, FindEffect DEF Find
  <2>11. ASSUME NEW r \in Request, Delete(r)
        PROVE TypeOK'
    BY <2>0, <2>11, EndEffect DEF Delete, Absent
  <2>12. ASSUME NEW r \in Request, Stop(r)
        PROVE TypeOK'
    <3>1. RequestTypes'
      BY <2>0, <2>12, StopEffect
    <3>2. QED BY <2>0, <2>12, <3>1 DEF Stop, Fault
  <2>13. ASSUME NEW r \in Request, NEW j \in Job, Submit(r, j)
        PROVE TypeOK'
    <3>1. RequestTypes'
      BY <2>0, <2>13, SubmitEffect
    <3>2. QED BY <2>0, <2>13, <3>1 DEF Submit
  <2>14. ASSUME NEW r \in Request, NEW j \in Job, Donate(r, j)
        PROVE TypeOK'
    <3>1. RequestTypes'
      BY <2>0, <2>14, DonateEffect
    <3>2. QED BY <2>0, <2>14, <3>1 DEF Donate
  <2>15. ASSUME NEW r \in Request, NEW i \in Job, NEW j \in Job, Resolve(r, i, j)
        PROVE TypeOK'
    <3>1. RequestTypes'
      BY <2>0, <2>15, ResolveEffect
    <3>2. QED BY <2>0, <2>15, <3>1 DEF Resolve
  <2>16. ASSUME NEW w \in Worker, Register(w)
        PROVE TypeOK'
    BY <2>0, <2>16 DEF Register, At, WorkerState, RequestTypes, Busy
  <2>17. ASSUME NEW w \in Worker, ClaimNothing(w)
        PROVE TypeOK'
    BY <2>0, <2>17 DEF ClaimNothing, At, WorkerState, RequestTypes, Busy
  <2>18. ASSUME NEW w \in Worker, Sleep(w)
        PROVE TypeOK'
    BY <2>0, <2>18 DEF Sleep, At, WorkerState, RequestTypes, Busy
  <2>19. ASSUME NEW w \in Worker, Wake(w)
        PROVE TypeOK'
    BY <2>0, <2>19 DEF Wake, At, WorkerState, RequestTypes, Busy
  <2>20. ASSUME NEW w \in Worker, Fallback(w)
        PROVE TypeOK'
    BY <2>0, <2>20 DEF Fallback, At, WorkerState, RequestTypes, Busy
  <2>21. ASSUME NEW w \in Worker, RunEmbeddedJob(w)
        PROVE TypeOK'
    BY <2>0, <2>21 DEF RunEmbeddedJob, Looping, WorkerState, RequestTypes, Busy
  <2>22. ASSUME NEW w \in Worker, ClaimFails(w)
        PROVE TypeOK'
    BY <2>0, <2>22 DEF ClaimFails, At, Fault, WorkerState, RequestTypes, Busy
  <2>23. ASSUME NEW w \in Worker, AbandonJob(w)
        PROVE TypeOK'
    BY <2>0, <2>23 DEF AbandonJob, Looping, Fault, WorkerState, RequestTypes, Busy
  <2>24. ASSUME NEW w \in Worker, NEW j \in Job, Claim(w, j)
        PROVE TypeOK'
    BY <2>0, <2>24 DEF Claim, WorkerState, RequestTypes, Busy
  <2>25. ASSUME NEW j \in Job, Lapse(j)
        PROVE TypeOK'
    BY <2>0, <2>25 DEF Lapse, Fault, RequestTypes, Busy
  <2>26. CASE Tick
    BY <2>0, <2>26 DEF Tick, RequestTypes, Busy
  <2>27. CASE UNCHANGED vars
    BY <2>0, <2>27 DEF vars, RequestTypes, Busy
  <2>28. QED
    BY <2>1, <2>2, <2>3, <2>4, <2>5, <2>6, <2>7, <2>8, <2>9, <2>10, <2>11, <2>12, <2>13,
       <2>14, <2>15, <2>16, <2>17, <2>18, <2>19, <2>20, <2>21, <2>22, <2>23, <2>24, <2>25, <2>26, <2>27
    DEF Next, RequestStep, WorkerStep
<1>3. QED
  BY <1>1, <1>2, PTL DEF Spec

-----------------------------------------------------------------------------
(* The image invariant is kept by every step.                               *)

(* What is true of jobs, objects and requests before a step that changes     *)
(* none of them is true after it.                                            *)
LEMMA ImageFrame ==
    ASSUME ImageInv, UNCHANGED <<store, objects, status, holder, donated, req>>
    PROVE  ImageInv'
<1> USE DEF objects
<1>1. RequestsKnow'
  BY DEF ImageInv, RequestsKnow, Knows, IsSource, Busy
<1>2. (OneWriter /\ TornHasWriter)'
  BY DEF ImageInv, OneWriter, TornHasWriter, Busy
<1>3. (NoneTornOnS3 /\ RowsHaveImages)'
  BY DEF ImageInv, NoneTornOnS3, RowsHaveImages, ImageOrSwept
<1>4. RequestsHaveImages'
  BY DEF ImageInv, RequestsHaveImages, HasImage, Holds, WillFill, ImageOrSwept
<1>5. (DonatedImageKept /\ HeldIsSolving)'
  BY DEF ImageInv, DonatedImageKept, HeldIsSolving
<1>6. QED BY <1>1, <1>2, <1>3, <1>4, <1>5 DEF ImageInv

(* A request keeps what it knows while finished jobs stay finished, donated  *)
(* ones donated, and the row of its own job is not stored by another.        *)
LEMMA StillKnows ==
    ASSUME RequestTypes, NEW q \in Request, Knows(q), req'[q] = req[q],
           \A j \in Job : status[j] = "done" => status'[j] = "done",
           donated \subseteq donated',
           Busy(q) /\ status[req[q].job] = "none" => status'[req[q].job] = "none"
    PROVE  Knows(q)'
<1>1. Busy(q) /\ req[q].op = "resolve" => IsSource(req[q].from)'
  BY DEF Knows, IsSource
<1>2. Busy(q) => req[q].job \in Job
  BY DEF RequestTypes
<1>3. QED BY <1>1, <1>2 DEF Knows, Busy

(* It keeps what it holds while the objects stay, or become contested.       *)
LEMMA StillHas ==
    ASSUME NEW q \in Request, HasImage(q), req'[q] = req[q],
           UNCHANGED <<object, swept>>, contested \subseteq contested'
    PROVE  HasImage(q)'
BY DEF HasImage, Holds, WillFill, ImageOrSwept

(* A step of the rows that keeps new jobs new and finished jobs finished.    *)
LEMMA StatusFrame ==
    ASSUME RequestTypes, ImageInv, UNCHANGED <<store, objects, donated, req>>,
           HeldIsSolving',
           \A j \in Job : /\ (status'[j] = "none") <=> (status[j] = "none")
                          /\ status[j] = "done" => status'[j] = "done"
    PROVE  ImageInv'
<1> USE DEF objects
<1>1. RequestsKnow'
  <2> SUFFICES ASSUME NEW q \in Request PROVE Knows(q)'
    BY DEF RequestsKnow
  <2>1. Knows(q) /\ (Busy(q) => req[q].job \in Job)
    BY DEF ImageInv, RequestsKnow, RequestTypes
  <2>2. QED BY <2>1, StillKnows
<1>2. (OneWriter /\ TornHasWriter /\ DonatedImageKept)'
  BY DEF ImageInv, OneWriter, TornHasWriter, DonatedImageKept, Busy
<1>3. (NoneTornOnS3 /\ RowsHaveImages)'
  BY DEF ImageInv, NoneTornOnS3, RowsHaveImages, ImageOrSwept
<1>4. RequestsHaveImages'
  BY StillHas DEF ImageInv, RequestsHaveImages
<1>5. QED BY <1>1, <1>2, <1>3, <1>4 DEF ImageInv

(* A request that goes on or ends disturbs no other writer.                  *)
SameTask(r) ==
    /\ req'[r].op = req[r].op /\ req'[r].job = req[r].job
    /\ req'[r].from = req[r].from /\ req'[r].to = req[r].to

LEMMA WritersFrame ==
    ASSUME ImageInv, NEW r \in Request, Busy(r), OthersKept(r), SameTask(r) \/ IdleAgain(r)
    PROVE  OneWriter'
BY DEF ImageInv, OneWriter, OthersKept, SameTask, IdleAgain, Busy

(* Nobody relies on the key that a request writes to or deletes: it is not   *)
(* that of a stored job or of another request about to store one, and a      *)
(* request that deletes has no key in common with anybody.                   *)
LEMMA KeyIsOwn ==
    ASSUME TypeOK, ImageInv, NEW r \in Request, req[r].pc \in {"copy", "put", "write", "delete"}
    PROVE  /\ \A j \in Job : status[j] # "none" => Upload(j) # req[r].to
           /\ \A q \in Request : q # r /\ req[q].pc = "enqueue" => req[q].to # req[r].to
           /\ req[r].pc = "delete" =>
                /\ \A j \in donated : Kept(j) # req[r].to
                /\ \A q \in Request :
                       q # r /\ req[q].pc \in {"write", "record"} => req[q].to # req[r].to
<1>1. /\ Busy(r) /\ Knows(r) /\ req[r].job \in Job
      /\ req[r].op \in {"submit", "resolve", "donate"}
  BY DEF TypeOK, RequestTypes, RequestState, Busy, ImageInv, RequestsKnow
<1>2. \/ /\ req[r].op # "donate" /\ req[r].to = Upload(req[r].job)
         /\ status[req[r].job] = "none"
      \/ /\ req[r].op = "donate" /\ req[r].to = Kept(req[r].job)
         /\ req[r].pc \notin {"delete", "record"}
  BY <1>1 DEF Knows
<1>3. ASSUME NEW q \in Request, req[q].pc \in {"enqueue", "write", "record"}
      PROVE  /\ Busy(q) /\ req[q].job \in Job
             /\ req[q].pc = "enqueue" => req[q].op # "donate"
             /\ req[q].op # "donate" => req[q].to = Upload(req[q].job)
             /\ req[q].op = "donate" => req[q].to = Kept(req[q].job)
  <2>1. Busy(q) /\ Knows(q) /\ req[q].job \in Job /\ req[q].op \in {"submit", "resolve", "donate"}
    BY <1>3 DEF TypeOK, RequestTypes, RequestState, Busy, ImageInv, RequestsKnow
  <2>2. QED BY <1>3, <2>1 DEF Knows
<1>4. \A j \in Job : status[j] # "none" => Upload(j) # req[r].to
  BY <1>1, <1>2, KeyFacts
<1>5. ASSUME NEW q \in Request, q # r, req[q].pc = "enqueue" PROVE req[q].to # req[r].to
  BY <1>1, <1>2, <1>3, <1>5, KeyFacts DEF ImageInv, OneWriter
<1>6. ASSUME req[r].pc = "delete"
      PROVE  /\ \A j \in donated : Kept(j) # req[r].to
             /\ \A q \in Request :
                    q # r /\ req[q].pc \in {"write", "record"} => req[q].to # req[r].to
  <2>1. req[r].op # "donate" /\ req[r].to = Upload(req[r].job)
    BY <1>2, <1>6
  <2>2. \A j \in donated : Kept(j) # req[r].to
    BY <1>1, <2>1, KeyFacts DEF TypeOK
  <2>3. ASSUME NEW q \in Request, q # r, req[q].pc \in {"write", "record"}
        PROVE  req[q].to # req[r].to
    BY <1>1, <1>3, <2>1, <2>3, KeyFacts DEF ImageInv, OneWriter
  <2>4. QED BY <2>2, <2>3
<1>7. QED BY <1>4, <1>5, <1>6

(* So a step that changes only that object takes no image away from anybody  *)
(* else if it leaves a whole one, or one that nobody needs, or a contested   *)
(* one.                                                                      *)
ObjectsBut(k) == \A x \in Key : x # k => object'[x] = object[x]

Unneeded(r) ==
    /\ \A j \in donated : Kept(j) # req[r].to
    /\ \A q \in Request : q # r /\ req[q].pc = "record" => req[q].to # req[r].to

LEMMA WriteIsHarmless ==
    ASSUME TypeOK, ImageInv, NEW r \in Request,
           req[r].pc \in {"copy", "put", "write", "delete"},
           OthersKept(r), ObjectsBut(req[r].to), UNCHANGED <<store, swept, status, donated>>,
           contested \subseteq contested',
           req[r].to \in contested' \/ object'[req[r].to].state = "whole" \/ Unneeded(r),
           \A q \in Request : q # r /\ req[q].pc = "write" /\ req[q].to = req[r].to =>
               req[r].to \in contested' \/ ~WillFill(q),
           store = "s3" => /\ contested' = {} /\ object'[req[r].to].state # "torn"
                           /\ req'[r].pc # "write" /\ ~req'[r].gone
    PROVE  /\ NoneTornOnS3' /\ RowsHaveImages' /\ DonatedImageKept'
           /\ \A q \in Request : q # r => HasImage(q)' /\ Knows(q)'
<1>0. RequestTypes /\ RequestsKnow
  BY DEF TypeOK, ImageInv
<1>1. NoneTornOnS3'
  BY DEF ImageInv, NoneTornOnS3, ObjectsBut, OthersKept
<1>2. RowsHaveImages'
  BY KeyIsOwn, KeyFacts DEF ImageInv, RowsHaveImages, ImageOrSwept, ObjectsBut
<1>3. DonatedImageKept'
  BY KeyFacts DEF TypeOK, ImageInv, DonatedImageKept, ObjectsBut, Unneeded
<1>4. ASSUME NEW q \in Request, q # r PROVE HasImage(q)'
  <2>1. HasImage(q) /\ req'[q] = req[q] /\ (Busy(q) => req[q].to \in Key)
    BY <1>0, <1>4 DEF ImageInv, RequestsHaveImages, OthersKept, RequestTypes
  <2>2. CASE req[q].to \in contested'
    BY <2>1, <2>2 DEF HasImage
  <2>3. CASE req[q].to \notin contested'
    <3>1. Holds(q)
      BY <2>1, <2>3 DEF HasImage
    <3>2. req[q].pc = "enqueue" => object'[req[q].to] = object[req[q].to]
      BY <1>4, <2>1, KeyIsOwn DEF ObjectsBut, Busy
    <3>3. req[q].pc = "record" => object'[req[q].to].state = "whole"
      BY <1>4, <2>1, <2>3, <3>1 DEF ObjectsBut, Busy, Holds, Unneeded
    <3>4. req[q].pc = "write" => WillFill(q)'
      <4>1. req[q].pc = "write" => req[q].to # req[r].to /\ WillFill(q)
        BY <1>4, <2>3, <3>1 DEF Holds
      <4>2. req[q].pc = "write" => object'[req[q].to] = object[req[q].to]
        BY <2>1, <4>1 DEF ObjectsBut, Busy
      <4>3. QED BY <2>1, <4>1, <4>2 DEF WillFill
    <3>5. QED BY <2>1, <3>1, <3>2, <3>3, <3>4 DEF HasImage, Holds, ImageOrSwept
  <2>4. QED BY <2>2, <2>3
<1>5. ASSUME NEW q \in Request, q # r PROVE Knows(q)'
  BY <1>0, <1>5, StillKnows DEF RequestsKnow, OthersKept
<1>6. QED BY <1>1, <1>2, <1>3, <1>4, <1>5

(* A step of one request that leaves rows and objects alone.                 *)
LEMMA RequestFrame ==
    ASSUME TypeOK, ImageInv, NEW r \in Request, OthersKept(r),
           UNCHANGED <<store, object, swept, status, holder, donated>>,
           contested \subseteq contested',
           store = "s3" => contested' = {} /\ req'[r].pc # "write" /\ ~req'[r].gone
    PROVE  /\ NoneTornOnS3' /\ RowsHaveImages' /\ DonatedImageKept' /\ HeldIsSolving'
           /\ TornHasWriter'
           /\ \A q \in Request : q # r => HasImage(q)' /\ Knows(q)'
<1>0. RequestTypes /\ RequestsKnow
  BY DEF TypeOK, ImageInv
<1>1. (NoneTornOnS3 /\ RowsHaveImages)'
  BY DEF ImageInv, NoneTornOnS3, RowsHaveImages, ImageOrSwept, OthersKept
<1>2. (DonatedImageKept /\ HeldIsSolving /\ TornHasWriter)'
  BY DEF ImageInv, DonatedImageKept, HeldIsSolving, TornHasWriter
<1>3. ASSUME NEW q \in Request, q # r PROVE HasImage(q)' /\ Knows(q)'
  <2>1. HasImage(q)'
    BY <1>3, StillHas DEF ImageInv, RequestsHaveImages, OthersKept
  <2>2. QED BY <1>0, <1>3, <2>1, StillKnows DEF RequestsKnow, OthersKept
<1>4. QED BY <1>1, <1>2, <1>3

(* A request that has ended knows nothing and holds nothing.                 *)
LEMMA EndedIsFree ==
    ASSUME NEW r \in Request, IdleAgain(r)
    PROVE  Knows(r)' /\ HasImage(r)'
BY DEF IdleAgain, Knows, HasImage, Holds, Busy

(* What a request that goes on knows of S3.                                  *)
LEMMA CleanOnS3 ==
    ASSUME ImageInv, NEW r \in Request, store = "s3"
    PROVE  contested = {} /\ ~req[r].gone /\ req[r].pc # "write" /\ Holds(r)
BY DEF ImageInv, NoneTornOnS3, RequestsHaveImages, HasImage

(* An object that may be copied is whole, unless the sweep took it or it was *)
(* contested.                                                                *)
LEMMA SourceIsWhole ==
    ASSUME TypeOK, ImageInv, NEW r \in Request, req[r].pc = "copy", Present(req[r].from)
    PROVE  /\ req[r].from \in Key
           /\ object[req[r].from].state = "whole" \/ req[r].from \in contested
           /\ req[r].op \in {"resolve", "donate"}
<1>1. /\ Busy(r) /\ Knows(r) /\ req[r].job \in Job /\ req[r].from \in Key
      /\ req[r].op \in {"submit", "resolve", "donate"}
  BY DEF TypeOK, RequestTypes, RequestState, Busy, ImageInv, RequestsKnow
<1>2. IsSource(req[r].from) /\ req[r].op # "submit"
  BY <1>1 DEF Knows, IsSource
<1>3. \A i \in Job : status[i] = "done" => ImageOrSwept(Upload(i)) \/ Upload(i) \in contested
  BY DEF ImageInv, RowsHaveImages
<1>4. \A i \in donated : object[Kept(i)].state = "whole" \/ Kept(i) \in contested
  BY DEF ImageInv, DonatedImageKept
<1>5. QED BY <1>1, <1>2, <1>3, <1>4 DEF IsSource, Present, ImageOrSwept

(* Every step keeps the image invariant.                                     *)
LEMMA ImageStep ==
    ASSUME TypeOK, ImageInv, [Next]_vars
    PROVE  ImageInv'
<1>0. RequestTypes /\ RequestsKnow /\ RequestsHaveImages
  BY DEF TypeOK, ImageInv
<1> USE DEF objects, jobs, wakeups
<1>1. ASSUME NEW k \in Key, Sweep(k) PROVE ImageInv'
  <2>1. /\ \A x \in Key : x # k => object'[x] = object[x]
        /\ object'[k] = Absent /\ swept' = swept \cup {k} /\ contested' = contested
    BY <1>1 DEF Sweep, TypeOK
  <2>2. ~Protected(k) /\ UNCHANGED <<store, status, holder, donated, req>>
    BY <1>1 DEF Sweep
  <2>3. \A x \in Key : ImageOrSwept(x) => ImageOrSwept(x)'
    BY <2>1 DEF ImageOrSwept, Absent
  <2>4. RequestsKnow'
    BY <1>0, <2>2, StillKnows DEF RequestsKnow
  <2>5. (OneWriter /\ HeldIsSolving /\ TornHasWriter)'
    BY <2>1, <2>2 DEF ImageInv, OneWriter, HeldIsSolving, TornHasWriter, Absent, Busy
  <2>6. (NoneTornOnS3 /\ RowsHaveImages)'
    BY <2>1, <2>2, <2>3, KeyFacts DEF ImageInv, NoneTornOnS3, RowsHaveImages, Absent
  <2>7. DonatedImageKept'
    BY <2>1, <2>2, KeyFacts DEF TypeOK, ImageInv, DonatedImageKept
  <2>8. ASSUME NEW r \in Request PROVE HasImage(r)'
    <3>1. HasImage(r) /\ Knows(r) /\ (Busy(r) => req[r].to \in Key /\ req[r].job \in Job)
      BY <1>0 DEF RequestsHaveImages, RequestsKnow, RequestTypes
    <3>2. req[r].op \in {"submit", "resolve", "donate"}
      BY <1>0 DEF RequestTypes, RequestState
    <3>3. req[r].pc = "record" => Protected(req[r].to)
      BY <3>1, <3>2, KeyFacts DEF Knows, Busy
    <3>4. req[r].pc = "write" /\ WillFill(r) => WillFill(r)'
      <4>1. req[r].pc = "write" => req[r].to \in Key
        BY <3>1 DEF Busy
      <4>2. CASE req[r].to = k
        BY <2>1, <2>2, <4>2 DEF WillFill, Absent
      <4>3. CASE req[r].to # k
        BY <2>1, <2>2, <4>1, <4>3 DEF WillFill
      <4>4. QED BY <4>2, <4>3
    <3>5. Holds(r) => Holds(r)'
      BY <2>1, <2>2, <2>3, <3>1, <3>3, <3>4 DEF Holds, Busy
    <3>6. QED BY <2>1, <2>2, <3>1, <3>5 DEF HasImage
  <2>9. QED BY <2>4, <2>5, <2>6, <2>7, <2>8 DEF ImageInv, RequestsHaveImages
<1>2. ASSUME NEW r \in Request, CheckExists(r) PROVE ImageInv'
  <2>1. OthersKept(r) /\ (GoesTo(r, "copy") \/ IdleAgain(r)) /\ Busy(r) /\ req[r].pc = "exists"
    BY <1>0, <1>2, CheckExistsEffect DEF CheckExists, Busy
  <2>2. UNCHANGED <<store, object, swept, contested, status, holder, donated>>
    BY <1>2 DEF CheckExists
  <2>3. OneWriter'
    BY <2>1, WritersFrame DEF GoesTo, SameTask
  <2>4. Knows(r)'
    BY <1>0, <2>1, <2>2, EndedIsFree DEF RequestsKnow, Knows, IsSource, GoesTo, Busy
  <2>5. HasImage(r)'
    BY <2>1, EndedIsFree DEF HasImage, Holds, GoesTo
  <2>6. store = "s3" => contested' = {} /\ req'[r].pc # "write" /\ ~req'[r].gone
    BY <1>2, <2>1, <2>2, CleanOnS3 DEF CheckExists, GoesTo, Idle, TypeOK, RequestTypes
  <2>7. QED BY <2>1, <2>2, <2>3, <2>4, <2>5, <2>6, RequestFrame DEF ImageInv, RequestsKnow, RequestsHaveImages
<1>3. ASSUME NEW r \in Request, S3Copy(r) PROVE ImageInv'
  <2>1. /\ OthersKept(r) /\ Busy(r) /\ req[r].pc = "copy" /\ store = "s3"
        /\ \/ GoesTo(r, AfterPut(r)) /\ Present(req[r].from)
           \/ IdleAgain(r) /\ object' = object
    BY <1>0, <1>3, S3CopyEffect DEF S3Copy, Busy
  <2>2. UNCHANGED <<store, swept, contested, status, holder, donated>>
    BY <1>3 DEF S3Copy
  <2>3. OneWriter'
    BY <2>1, WritersFrame DEF GoesTo, SameTask
  <2>0. contested' = {} /\ req'[r].pc # "write" /\ ~req'[r].gone
    <3>1. contested = {} /\ ~req[r].gone
      BY <2>1, CleanOnS3
    <3>2. req' = [req EXCEPT ![r].pc = AfterPut(r)] \/ req' = [req EXCEPT ![r] = Idle]
      BY <1>3 DEF S3Copy
    <3>3. QED BY <1>0, <2>2, <3>1, <3>2 DEF RequestTypes, RequestState, Idle, AfterPut
  <2>4. CASE IdleAgain(r) /\ object' = object
    BY <2>0, <2>1, <2>2, <2>3, <2>4, EndedIsFree, RequestFrame
    DEF ImageInv, RequestsKnow, RequestsHaveImages
  <2>5. CASE GoesTo(r, AfterPut(r)) /\ Present(req[r].from)
    <3>1. /\ req[r].from \in Key /\ object[req[r].from].state = "whole"
          /\ req[r].op \in {"resolve", "donate"} /\ req[r].to \in Key
      BY <1>0, <2>1, <2>5, SourceIsWhole, CleanOnS3 DEF RequestTypes
    <3>2. object' = [object EXCEPT ![req[r].to] = [object[req[r].from] EXCEPT !.at = clock]]
      BY <1>3, <2>5 DEF S3Copy
    <3>3. /\ object'[req[r].to].state = "whole" /\ ObjectsBut(req[r].to)
          /\ object'[req[r].to].by = object[req[r].from].by
      BY <3>1, <3>2 DEF TypeOK, ObjectsBut
    <3>4. HeldIsSolving' /\ TornHasWriter'
      BY <2>2, <3>1, <3>3 DEF ImageInv, HeldIsSolving, TornHasWriter, ObjectsBut
    <3>5. Knows(r)'
      BY <1>0, <2>1, <2>2, <2>5, <3>1 DEF RequestsKnow, Knows, IsSource, GoesTo, AfterPut, Busy
    <3>6. HasImage(r)'
      BY <2>5, <3>1, <3>3 DEF HasImage, Holds, ImageOrSwept, GoesTo, AfterPut
    <3>7. \A q \in Request : req[q].pc # "write"
      BY <2>1, CleanOnS3
    <3>8. QED
      BY <2>0, <2>1, <2>2, <2>3, <3>3, <3>4, <3>5, <3>6, <3>7, WriteIsHarmless
      DEF ImageInv, RequestsKnow, RequestsHaveImages
  <2>6. QED BY <2>1, <2>4, <2>5
<1>4. ASSUME NEW r \in Request, LocalGet(r) PROVE ImageInv'
  <2>1. /\ OthersKept(r) /\ Busy(r) /\ req[r].pc = "copy" /\ store = "local"
        /\ \/ /\ GoesTo(r, "put") /\ req'[r].image = object[req[r].from].state
              /\ Present(req[r].from)
           \/ IdleAgain(r)
    <3>1. req[r].pc = "copy" /\ Busy(r) /\ store = "local"
      BY <1>4 DEF LocalGet, Busy
    <3>2. QED BY <1>4, <3>1, LocalGetEffect
  <2>2. /\ UNCHANGED <<store, object, swept, status, holder, donated>>
        /\ contested \subseteq contested'
        /\ req[r].from \in contested => req[r].to \in contested'
    BY <1>4 DEF LocalGet
  <2>3. OneWriter'
    BY <2>1, WritersFrame DEF GoesTo, SameTask
  <2>4. IdleAgain(r) \/ req'[r].image = "whole" \/ req[r].to \in contested'
    BY <2>1, <2>2, SourceIsWhole
  <2>5. Knows(r)'
    BY <1>0, <2>1, <2>2, EndedIsFree DEF RequestsKnow, Knows, IsSource, GoesTo, Busy
  <2>6. HasImage(r)'
    BY <2>1, <2>4, EndedIsFree DEF HasImage, Holds, GoesTo
  <2>7. QED BY <2>1, <2>2, <2>3, <2>5, <2>6, RequestFrame DEF ImageInv, RequestsKnow, RequestsHaveImages
<1>5. ASSUME NEW r \in Request, Put(r) PROVE ImageInv'
  <2>1. /\ OthersKept(r) /\ SameImage(r) /\ Busy(r) /\ req[r].pc = "put" /\ req[r].to \in Key
        /\ GoesTo(r, IF store = "s3" THEN AfterPut(r) ELSE "write")
    BY <1>0, <1>5, PutEffect DEF Put, Busy, RequestTypes
  <2>2. /\ UNCHANGED <<store, swept, status, holder, donated>>
        /\ contested' = contested \cup {k \in {req[r].to} : store = "local" /\ Shared(r)}
    BY <1>5 DEF Put
  <2>3. OneWriter'
    BY <2>1, WritersFrame DEF GoesTo, SameTask
  <2>4. store \in {"local", "s3"}
    BY SolveArtifactsAssumptions DEF TypeOK
  <2>5. /\ object'[req[r].to].state = IF store = "s3" THEN req[r].image ELSE "torn"
        /\ object'[req[r].to].by = IF store = "s3" THEN None ELSE r
        /\ ObjectsBut(req[r].to)
    BY <1>5, <2>1, <2>4 DEF Put, TypeOK, ObjectsBut
  <2>6. HeldIsSolving' /\ TornHasWriter'
    BY <2>2, <2>4, <2>5 DEF ImageInv, HeldIsSolving, TornHasWriter, ObjectsBut
  <2>7. Knows(r)'
    BY <1>0, <2>1, <2>2 DEF RequestsKnow, RequestTypes, RequestState, Knows, IsSource, GoesTo, AfterPut, Busy
  <2>8. CASE store = "s3"
    <3>1. contested = {} /\ ~req[r].gone /\ req[r].image = "whole" /\ \A q \in Request : req[q].pc # "write"
      BY <2>1, <2>8, CleanOnS3 DEF Holds
    <3>2. contested' = {} /\ object'[req[r].to].state = "whole"
      BY <2>2, <2>5, <2>8, <3>1
    <3>3. ~req'[r].gone /\ req'[r].pc # "write"
      BY <2>1, <2>8, <3>1 DEF GoesTo, AfterPut
    <3>4. HasImage(r)'
      BY <2>1, <2>8, <3>2 DEF HasImage, Holds, ImageOrSwept, GoesTo, AfterPut
    <3>5. QED
      BY <2>1, <2>2, <2>3, <2>5, <2>6, <2>7, <3>1, <3>2, <3>3, <3>4, WriteIsHarmless
      DEF ImageInv, RequestsKnow, RequestsHaveImages
  <2>9. CASE store = "local"
    <3>1. req[r].to \in contested' \/ ~Shared(r)
      BY <2>2, <2>9
    <3>2. ~Shared(r) => Unneeded(r)
      BY DEF Shared, Unneeded
    <3>3. \A q \in Request : q # r /\ req[q].pc = "write" /\ req[q].to = req[r].to => req[r].to \in contested'
      BY <3>1 DEF Shared
    <3>4. HasImage(r)'
      <4>1. HasImage(r)
        BY <1>0 DEF RequestsHaveImages
      <4>2. req'[r].to = req[r].to /\ req'[r].pc = "write" /\ req'[r].image = req[r].image
        BY <2>1, <2>9 DEF GoesTo, SameImage
      <4>3. WillFill(r)'
        BY <2>5, <2>9, <4>2 DEF WillFill
      <4>4. QED BY <2>1, <2>2, <4>1, <4>2, <4>3 DEF HasImage, Holds
    <3>5. contested \subseteq contested' /\ store # "s3"
      BY <2>2, <2>9
    <3>6. QED
      BY <2>1, <2>2, <2>3, <2>5, <2>6, <2>7, <3>1, <3>2, <3>3, <3>4, <3>5, WriteIsHarmless
      DEF ImageInv, RequestsKnow, RequestsHaveImages
  <2>10. QED BY <2>4, <2>8, <2>9
<1>6. ASSUME NEW r \in Request, LocalWrite(r) PROVE ImageInv'
  <2>1. /\ OthersKept(r) /\ Busy(r) /\ req[r].pc = "write" /\ req[r].to \in Key
        /\ GoesTo(r, AfterPut(r)) \/ IdleAgain(r)
    BY <1>0, <1>6, LocalWriteEffect DEF LocalWrite, Busy, RequestTypes
  <2>2. UNCHANGED <<store, swept, contested, status, holder, donated>>
    BY <1>6 DEF LocalWrite
  <2>3. OneWriter'
    BY <2>1, WritersFrame DEF GoesTo, SameTask
  <2>4. store # "s3"
    BY <2>1, CleanOnS3
  <2>5. HasImage(r)
    BY <1>0 DEF RequestsHaveImages
  <2>6. HeldIsSolving'
    BY <2>2 DEF ImageInv, HeldIsSolving
  <2>7. Knows(r)'
    BY <1>0, <2>1, <2>2, EndedIsFree DEF RequestsKnow, RequestTypes, RequestState, Knows, IsSource, GoesTo, AfterPut, Busy
  <2>8. CASE object[req[r].to].by = r
    <3>1. object' = [object EXCEPT ![req[r].to] = [state |-> req[r].image, at |-> clock, by |-> None]]
      BY <1>6, <2>8 DEF LocalWrite
    <3>2. /\ object'[req[r].to].state = req[r].image /\ object'[req[r].to].by = None
          /\ ObjectsBut(req[r].to)
      BY <2>1, <3>1 DEF TypeOK, ObjectsBut
    <3>3. req[r].to \in contested' \/ object'[req[r].to].state = "whole"
      BY <2>1, <2>2, <2>5, <3>2 DEF HasImage, Holds
    <3>4. object[req[r].to].state = "torn"
      BY <2>1, <2>8, SolveArtifactsAssumptions DEF ImageInv, TornHasWriter
    <3>5. \A q \in Request : q # r /\ req[q].to = req[r].to => ~WillFill(q)
      BY <2>8, <3>4 DEF WillFill
    <3>6. TornHasWriter'
      BY <3>2 DEF ImageInv, TornHasWriter, ObjectsBut
    <3>7. HasImage(r)'
      <4>1. CASE GoesTo(r, AfterPut(r))
        BY <3>3, <4>1 DEF HasImage, Holds, ImageOrSwept, GoesTo, AfterPut
      <4>2. QED BY <2>1, <4>1, EndedIsFree
    <3>8. QED
      BY <2>1, <2>2, <2>3, <2>4, <2>6, <2>7, <3>2, <3>3, <3>5, <3>6, <3>7, WriteIsHarmless
      DEF ImageInv, RequestsKnow, RequestsHaveImages
  <2>9. CASE object[req[r].to].by # r
    <3>1. object' = object
      BY <1>6, <2>9 DEF LocalWrite
    <3>2. HasImage(r)'
      <4>1. CASE IdleAgain(r)
        BY <4>1, EndedIsFree
      <4>2. CASE GoesTo(r, AfterPut(r)) /\ req[r].to \in contested
        BY <2>2, <4>2 DEF HasImage, GoesTo
      <4>3. CASE GoesTo(r, AfterPut(r)) /\ req[r].to \notin contested
        <5>1. ~Protected(req[r].to) /\ ImageOrSwept(req[r].to)
          BY <2>1, <2>5, <2>9, <4>3 DEF HasImage, Holds, WillFill, ImageOrSwept
        <5>2. req[r].op # "donate"
          BY <1>0, <2>1, <5>1, KeyFacts DEF RequestTypes, RequestsKnow, Knows
        <5>3. req'[r].pc = "enqueue" /\ req'[r].to = req[r].to
          BY <4>3, <5>2 DEF GoesTo, AfterPut
        <5>4. QED BY <2>2, <3>1, <5>1, <5>3 DEF HasImage, Holds, ImageOrSwept
      <4>4. QED BY <2>1, <4>1, <4>2, <4>3
    <3>3. QED
      BY <2>1, <2>2, <2>3, <2>4, <2>7, <3>1, <3>2, RequestFrame
      DEF ImageInv, RequestsKnow, RequestsHaveImages
  <2>10. QED BY <2>8, <2>9
<1>7. ASSUME NEW r \in Request, Record(r) PROVE ImageInv'
  <2>1. OthersKept(r) /\ IdleAgain(r) /\ req[r].pc = "record" /\ Busy(r) /\ req[r].job \in Job
    BY <1>0, <1>7, EndEffect DEF Record, Busy, RequestTypes
  <2>2. /\ UNCHANGED <<store, object, swept, contested, status, holder>>
        /\ donated' = donated \cup {req[r].job}
    BY <1>7 DEF Record
  <2>3. req[r].op = "donate" /\ req[r].to = Kept(req[r].job)
    BY <1>0, <2>1 DEF RequestTypes, RequestState, RequestsKnow, Knows
  <2>4. object[Kept(req[r].job)].state = "whole" \/ Kept(req[r].job) \in contested
    BY <1>0, <2>1, <2>3 DEF RequestsHaveImages, HasImage, Holds
  <2>5. DonatedImageKept'
    BY <2>2, <2>4 DEF ImageInv, DonatedImageKept
  <2>6. OneWriter'
    BY <2>1, WritersFrame
  <2>7. NoneTornOnS3'
    <3>1. store = "s3" => ~req'[r].gone
      BY <1>0, <1>7 DEF Record, Idle, RequestTypes
    <3>2. QED BY <2>1, <2>2, <3>1 DEF ImageInv, NoneTornOnS3, OthersKept, IdleAgain
  <2>8. (RowsHaveImages /\ HeldIsSolving /\ TornHasWriter)'
    BY <2>2 DEF ImageInv, RowsHaveImages, ImageOrSwept, HeldIsSolving, TornHasWriter
  <2>9. ASSUME NEW q \in Request PROVE Knows(q)' /\ HasImage(q)'
    <3>1. CASE q = r
      BY <2>1, <3>1, EndedIsFree
    <3>2. CASE q # r
      <4>1. Knows(q)'
        BY <1>0, <2>1, <2>2, <3>2, StillKnows DEF OthersKept, RequestsKnow
      <4>2. HasImage(q)'
        BY <1>0, <2>1, <2>2, <3>2, StillHas DEF OthersKept, RequestsHaveImages
      <4>3. QED BY <4>1, <4>2
    <3>3. QED BY <3>1, <3>2
  <2>10. QED
    BY <2>5, <2>6, <2>7, <2>8, <2>9 DEF ImageInv, RequestsKnow, RequestsHaveImages
<1>8. ASSUME NEW r \in Request, req[r].pc = "enqueue", OthersKept(r),
             (GoesTo(r, "find") /\ req[r].op = "resolve") \/ (IdleAgain(r)),
             UNCHANGED <<store, object, swept, contested, holder, donated>>,
             status' = [status EXCEPT ![req[r].job] = "queued"]
      PROVE  ImageInv'
  <2>1. /\ Busy(r) /\ Knows(r) /\ HasImage(r) /\ req[r].job \in Job
        /\ req[r].op \in {"submit", "resolve", "donate"}
    BY <1>0, <1>8 DEF RequestTypes, RequestState, RequestsKnow, RequestsHaveImages, Busy
  <2>2. /\ req[r].op # "donate" /\ status[req[r].job] = "none"
        /\ req[r].to = Upload(req[r].job)
        /\ ImageOrSwept(req[r].to) \/ req[r].to \in contested
    BY <1>8, <2>1 DEF Knows, HasImage, Holds
  <2>3. /\ status'[req[r].job] = "queued"
        /\ \A j \in Job : j # req[r].job => status'[j] = status[j]
    BY <1>8, <2>1 DEF TypeOK
  <2>4. OneWriter'
    BY <1>8, <2>1, WritersFrame DEF GoesTo, SameTask
  <2>9. NoneTornOnS3'
    BY <1>8, CleanOnS3 DEF ImageInv, NoneTornOnS3, OthersKept, GoesTo, IdleAgain
  <2>5. RowsHaveImages' /\ DonatedImageKept' /\ TornHasWriter'
    BY <1>8, <2>2, <2>3
    DEF ImageInv, TornHasWriter, RowsHaveImages, ImageOrSwept, DonatedImageKept
  <2>6. HeldIsSolving'
    BY <1>8, <2>2, <2>3 DEF ImageInv, HeldIsSolving
  <2>7. ASSUME NEW q \in Request PROVE Knows(q)' /\ HasImage(q)'
    <3>1. CASE q = r /\ IdleAgain(r)
      BY <3>1, EndedIsFree
    <3>2. CASE q = r /\ GoesTo(r, "find") /\ req[r].op = "resolve"
      <4>1. IsSource(req[r].from)'
        BY <1>8, <2>1, <2>2, <2>3, <3>2 DEF Knows, IsSource, GoesTo
      <4>2. Knows(r)'
        BY <2>1, <2>2, <3>2, <4>1 DEF Knows, GoesTo, Busy
      <4>3. HasImage(r)'
        BY <3>2 DEF HasImage, Holds, GoesTo
      <4>4. QED BY <3>2, <4>2, <4>3
    <3>3. CASE q # r
      <4>1. Knows(q) /\ HasImage(q) /\ req'[q] = req[q] /\ (Busy(q) => req[q].job \in Job)
        BY <1>0, <1>8, <3>3 DEF RequestsKnow, RequestsHaveImages, OthersKept, RequestTypes
      <4>2. Busy(q) => req[q].job # req[r].job \/ req[q].op = "donate"
        BY <2>1, <2>2, <3>3 DEF ImageInv, OneWriter
      <4>3. Busy(q) => req[q].job # req[r].job
        BY <2>2, <4>1, <4>2 DEF Knows
      <4>4. \A j \in Job : status[j] = "done" => status'[j] = "done"
        BY <2>2, <2>3
      <4>5. Knows(q)'
        BY <1>0, <1>8, <2>3, <4>1, <4>3, <4>4, StillKnows
      <4>6. HasImage(q)'
        BY <1>8, <4>1, StillHas
      <4>7. QED BY <4>5, <4>6
    <3>4. QED BY <1>8, <3>1, <3>2, <3>3
  <2>8. QED BY <2>4, <2>5, <2>6, <2>7, <2>9 DEF ImageInv, RequestsKnow, RequestsHaveImages
<1>9. ASSUME NEW r \in Request, Enqueue(r) PROVE ImageInv'
  <2>1. OthersKept(r) /\ IdleAgain(r)
    BY <1>0, <1>9, EndEffect DEF Enqueue, Idle, RequestTypes
  <2>2. QED BY <1>8, <1>9, <2>1 DEF Enqueue, Stored
<1>10. ASSUME NEW r \in Request, EnqueueFails(r) PROVE ImageInv'
  <2>1. /\ OthersKept(r) /\ req[r].pc = "enqueue" /\ Busy(r)
        /\ (GoesTo(r, "find") /\ req[r].op = "resolve") \/ (IdleAgain(r))
    BY <1>0, <1>10, EnqueueFailsEffect DEF EnqueueFails, Busy
  <2>2. CASE Stored(req[r].job)
    BY <1>8, <1>10, <2>1, <2>2 DEF EnqueueFails, Stored
  <2>3. CASE UNCHANGED jobs
    <3>1. UNCHANGED <<store, object, swept, contested, status, holder, donated>>
      BY <1>10, <2>3 DEF EnqueueFails
    <3>2. OneWriter'
      BY <2>1, WritersFrame DEF GoesTo, SameTask
    <3>3. Knows(r)' /\ HasImage(r)'
      BY <1>0, <2>1, <3>1, EndedIsFree DEF RequestsKnow, Knows, HasImage, Holds, IsSource, GoesTo, Busy
    <3>5. store = "s3" => contested' = {} /\ req'[r].pc # "write" /\ ~req'[r].gone
      BY <2>1, <3>1, CleanOnS3 DEF GoesTo, IdleAgain
    <3>4. QED BY <2>1, <3>1, <3>2, <3>3, <3>5, RequestFrame DEF ImageInv, RequestsKnow, RequestsHaveImages
  <2>4. QED BY <1>10, <2>2, <2>3 DEF EnqueueFails
<1>11. ASSUME NEW r \in Request, Find(r) PROVE ImageInv'
  <2>1. /\ OthersKept(r) /\ Busy(r) /\ req[r].pc = "find"
        /\ (GoesTo(r, "delete") /\ status[req[r].job] = "none") \/ (IdleAgain(r))
    BY <1>0, <1>11, FindEffect DEF Find, Busy, SafeToDelete
  <2>2. UNCHANGED <<store, object, swept, contested, status, holder, donated>>
    BY <1>11 DEF Find
  <2>3. OneWriter'
    BY <2>1, WritersFrame DEF GoesTo, SameTask
  <2>4. Knows(r)' /\ HasImage(r)'
    BY <1>0, <2>1, <2>2, EndedIsFree DEF RequestsKnow, Knows, HasImage, Holds, IsSource, GoesTo, Busy
  <2>6. store = "s3" => contested' = {} /\ req'[r].pc # "write" /\ ~req'[r].gone
    BY <2>1, <2>2, CleanOnS3 DEF GoesTo, IdleAgain
  <2>5. QED BY <2>1, <2>2, <2>3, <2>4, <2>6, RequestFrame DEF ImageInv, RequestsKnow, RequestsHaveImages
<1>12. ASSUME NEW r \in Request, Delete(r) PROVE ImageInv'
  <2>1. /\ OthersKept(r) /\ IdleAgain(r) /\ Busy(r)
        /\ req[r].pc = "delete" /\ req[r].to \in Key
    BY <1>0, <1>12, EndEffect DEF Delete, Busy, RequestTypes, Idle
  <2>2. UNCHANGED <<store, swept, contested, status, holder, donated>>
    BY <1>12 DEF Delete
  <2>3. OneWriter'
    BY <2>1, WritersFrame
  <2>4. object'[req[r].to] = Absent /\ ObjectsBut(req[r].to)
    BY <1>12, <2>1 DEF Delete, TypeOK, ObjectsBut
  <2>5. HeldIsSolving' /\ TornHasWriter' /\ Knows(r)' /\ HasImage(r)'
    BY <2>1, <2>2, <2>4, EndedIsFree DEF ImageInv, HeldIsSolving, TornHasWriter, ObjectsBut, Absent
  <2>7. Unneeded(r) /\ \A q \in Request : q # r /\ req[q].pc = "write" => req[q].to # req[r].to
    BY <2>1, KeyIsOwn DEF Unneeded
  <2>8. store = "s3" => /\ contested' = {} /\ object'[req[r].to].state # "torn"
                        /\ req'[r].pc # "write" /\ ~req'[r].gone
    BY <2>1, <2>2, <2>4, CleanOnS3 DEF Absent, IdleAgain
  <2>6. QED
    BY <2>1, <2>2, <2>3, <2>4, <2>5, <2>7, <2>8, WriteIsHarmless
    DEF ImageInv, RequestsKnow, RequestsHaveImages
<1>13. ASSUME NEW r \in Request, Stop(r) PROVE ImageInv'
  <2>1. /\ OthersKept(r)
        /\ \/ IdleAgain(r)
           \/ /\ store = "local" /\ req[r].pc \in {"put", "write"} /\ SameImage(r)
              /\ req'[r].pc = req[r].pc /\ SameTask(r)
    <3>1. /\ OthersKept(r)
          /\ \/ IdleAgain(r)
             \/ /\ store = "local" /\ req[r].pc \in {"put", "write"} /\ SameImage(r)
                /\ req'[r].pc = req[r].pc /\ req'[r].op = req[r].op /\ req'[r].job = req[r].job
                /\ req'[r].from = req[r].from /\ req'[r].to = req[r].to
      BY <1>0, <1>13, StopEffect
    <3>2. QED BY <3>1 DEF SameTask
  <2>2. UNCHANGED <<store, object, swept, contested, status, holder, donated>>
    BY <1>13 DEF Stop
  <2>3. OneWriter'
    BY <2>1 DEF ImageInv, OneWriter, OthersKept, IdleAgain, SameTask, Busy
  <2>4. Knows(r)' /\ HasImage(r)'
    <3>1. CASE IdleAgain(r)
      BY <3>1, EndedIsFree
    <3>2. CASE SameTask(r) /\ SameImage(r) /\ req'[r].pc = req[r].pc
      <4>1. Knows(r) /\ HasImage(r)
        BY <1>0 DEF RequestsKnow, RequestsHaveImages
      <4>2. Knows(r)'
        BY <2>2, <3>2, <4>1 DEF Knows, IsSource, SameTask, Busy
      <4>3. HasImage(r)'
        BY <2>2, <3>2, <4>1 DEF HasImage, Holds, WillFill, ImageOrSwept, SameTask, SameImage
      <4>4. QED BY <4>2, <4>3
    <3>3. QED BY <2>1, <3>1, <3>2
  <2>5. store = "s3" => contested' = {} /\ req'[r].pc # "write" /\ ~req'[r].gone
    BY <2>1, <2>2, CleanOnS3 DEF IdleAgain
  <2>6. QED
    BY <2>1, <2>2, <2>3, <2>4, <2>5, RequestFrame DEF ImageInv, RequestsKnow, RequestsHaveImages
<1>14. ASSUME NEW r \in Request, NEW j \in Job, Submit(r, j) PROVE ImageInv'
  <2>1. /\ OthersKept(r)
        /\ req'[r].pc = "put" /\ req'[r].op = "submit" /\ req'[r].job = j
        /\ req'[r].to = Upload(j) /\ req'[r].image = "whole" /\ ~req'[r].gone
    BY <1>0, <1>14, SubmitEffect
  <2>2. UNCHANGED <<store, object, swept, contested, status, holder, donated>> /\ Fresh(j)
    BY <1>14 DEF Submit
  <2>3. OneWriter'
    BY <2>1, <2>2 DEF ImageInv, OneWriter, OthersKept, Fresh, Busy
  <2>4. Knows(r)' /\ HasImage(r)'
    BY <2>1, <2>2 DEF Knows, HasImage, Holds, Fresh
  <2>6. store = "s3" => contested' = {} /\ req'[r].pc # "write" /\ ~req'[r].gone
    BY <2>1, <2>2, CleanOnS3
  <2>5. QED BY <2>1, <2>2, <2>3, <2>4, <2>6, RequestFrame DEF ImageInv, RequestsKnow, RequestsHaveImages
<1>15. ASSUME NEW r \in Request, NEW j \in Job, Donate(r, j) PROVE ImageInv'
  <2>1. /\ OthersKept(r)
        /\ req'[r].pc = IF j \in donated THEN "record" ELSE "exists"
        /\ req'[r].op = "donate" /\ req'[r].job = j
        /\ req'[r].to = Kept(j) /\ req'[r].from = Upload(j) /\ ~req'[r].gone
    BY <1>0, <1>15, DonateEffect
  <2>2. UNCHANGED <<store, object, swept, contested, status, holder, donated>> /\ status[j] = "done"
    BY <1>15 DEF Donate
  <2>4. OneWriter'
    BY <2>1, <2>2 DEF ImageInv, OneWriter, OthersKept, Busy
  <2>6. Knows(r)'
    BY <2>1, <2>2 DEF Knows
  <2>7. HasImage(r)'
    BY <2>1, <2>2 DEF ImageInv, DonatedImageKept, HasImage, Holds
  <2>9. store = "s3" => contested' = {} /\ req'[r].pc # "write" /\ ~req'[r].gone
    BY <2>1, <2>2, CleanOnS3
  <2>8. QED
    BY <2>1, <2>2, <2>4, <2>6, <2>7, <2>9, RequestFrame
    DEF ImageInv, RequestsKnow, RequestsHaveImages
<1>16. ASSUME NEW r \in Request, NEW i \in Job, NEW j \in Job, Resolve(r, i, j) PROVE ImageInv'
  <2>1. /\ OthersKept(r)
        /\ req'[r].pc = "exists" /\ req'[r].op = "resolve" /\ req'[r].job = j
        /\ req'[r].to = Upload(j) /\ req'[r].from = InputKey(i) /\ ~req'[r].gone
    BY <1>0, <1>16, ResolveEffect
  <2>2. /\ UNCHANGED <<store, object, swept, contested, status, holder, donated>>
        /\ Fresh(j) /\ status[i] = "done"
    BY <1>16 DEF Resolve
  <2>3. OneWriter'
    BY <2>1, <2>2 DEF ImageInv, OneWriter, OthersKept, Fresh, Busy
  <2>4. IsSource(req[r].from)'
    BY <2>1, <2>2 DEF IsSource, InputKey
  <2>5. Knows(r)' /\ HasImage(r)'
    BY <2>1, <2>2, <2>4 DEF Knows, HasImage, Holds, Fresh
  <2>7. store = "s3" => contested' = {} /\ req'[r].pc # "write" /\ ~req'[r].gone
    BY <2>1, <2>2, CleanOnS3
  <2>6. QED BY <2>1, <2>2, <2>3, <2>5, <2>7, RequestFrame DEF ImageInv, RequestsKnow, RequestsHaveImages
<1>17. ASSUME NEW w \in Worker, Register(w) PROVE ImageInv'
  BY <1>17, ImageFrame DEF Register
<1>18. ASSUME NEW w \in Worker, ClaimNothing(w) PROVE ImageInv'
  BY <1>18, ImageFrame DEF ClaimNothing
<1>19. ASSUME NEW w \in Worker, Sleep(w) PROVE ImageInv'
  BY <1>19, ImageFrame DEF Sleep
<1>20. ASSUME NEW w \in Worker, Wake(w) PROVE ImageInv'
  BY <1>20, ImageFrame DEF Wake
<1>21. ASSUME NEW w \in Worker, Fallback(w) PROVE ImageInv'
  BY <1>21, ImageFrame DEF Fallback
<1>22. ASSUME NEW w \in Worker, ClaimFails(w) PROVE ImageInv'
  BY <1>22, ImageFrame DEF ClaimFails
<1>23. ASSUME NEW w \in Worker, AbandonJob(w) PROVE ImageInv'
  BY <1>23, ImageFrame DEF AbandonJob
<1>24. ASSUME NEW w \in Worker, NEW j \in Job, Claim(w, j) PROVE ImageInv'
  <2>1. HeldIsSolving'
    BY <1>24 DEF Claim, ImageInv, HeldIsSolving, TypeOK
  <2>2. \A i \in Job : /\ (status'[i] = "none") <=> (status[i] = "none")
                       /\ status[i] = "done" => status'[i] = "done"
    BY <1>24, SolveArtifactsAssumptions DEF Claim, ImageInv, HeldIsSolving, TypeOK
  <2>3. QED BY <1>0, <1>24, <2>1, <2>2, StatusFrame DEF Claim
<1>25. ASSUME NEW w \in Worker, RunEmbeddedJob(w) PROVE ImageInv'
  <2>1. HeldIsSolving'
    BY <1>25 DEF RunEmbeddedJob, ImageInv, HeldIsSolving, TypeOK
  <2>2. \A i \in Job : /\ (status'[i] = "none") <=> (status[i] = "none")
                       /\ status[i] = "done" => status'[i] = "done"
    BY <1>25, SolveArtifactsAssumptions DEF RunEmbeddedJob, ImageInv, HeldIsSolving, TypeOK
  <2>3. QED BY <1>0, <1>25, <2>1, <2>2, StatusFrame DEF RunEmbeddedJob
<1>26. ASSUME NEW j \in Job, Lapse(j) PROVE ImageInv'
  <2>1. HeldIsSolving'
    BY <1>26 DEF Lapse, ImageInv, HeldIsSolving, TypeOK
  <2>2. \A i \in Job : /\ (status'[i] = "none") <=> (status[i] = "none")
                       /\ status[i] = "done" => status'[i] = "done"
    BY <1>26, SolveArtifactsAssumptions DEF Lapse, ImageInv, HeldIsSolving, TypeOK
  <2>3. QED BY <1>0, <1>26, <2>1, <2>2, StatusFrame DEF Lapse
<1>27. CASE Tick
  BY <1>27, ImageFrame DEF Tick
<1>28. CASE UNCHANGED vars
  BY <1>28, ImageFrame DEF vars
<1>29. QED
  BY <1>1, <1>2, <1>3, <1>4, <1>5, <1>6, <1>7, <1>9, <1>10, <1>11, <1>12, <1>13, <1>14,
     <1>15, <1>16, <1>17, <1>18, <1>19, <1>20, <1>21, <1>22, <1>23, <1>24, <1>25, <1>26, <1>27, <1>28
  DEF Next, RequestStep, WorkerStep

-----------------------------------------------------------------------------
(* The theorems.                                                             *)

(* The image invariant holds in every behaviour, on either store.            *)
THEOREM ImageInvHolds == Spec => []ImageInv
<1>1. Init => ImageInv
  <2> SUFFICES ASSUME Init PROVE ImageInv
    OBVIOUS
  <2>1. \A r \in Request : ~Busy(r) /\ req[r].pc = "idle" /\ ~req[r].gone
    BY DEF Init, Idle, Busy
  <2>2. RequestsKnow /\ OneWriter /\ RequestsHaveImages
    BY <2>1 DEF RequestsKnow, Knows, OneWriter, RequestsHaveImages, HasImage, Holds
  <2>3. /\ object[Upload(First)].state = "whole" /\ contested = {}
        /\ \A k \in Key : object[k].state # "torn" /\ object[k].by = None
        /\ \A j \in Job : status[j] # "none" => j = First
    BY SolveArtifactsAssumptions, KeyFacts DEF Init, Absent
  <2>4. NoneTornOnS3 /\ RowsHaveImages /\ TornHasWriter
    BY <2>1, <2>3 DEF NoneTornOnS3, RowsHaveImages, ImageOrSwept, TornHasWriter
  <2>5. DonatedImageKept /\ HeldIsSolving
    BY DEF Init, DonatedImageKept, HeldIsSolving
  <2>6. QED BY <2>2, <2>4, <2>5 DEF ImageInv
<1>2. TypeOK /\ ImageInv /\ [Next]_vars => ImageInv'
  BY ImageStep
<1>3. QED BY <1>1, <1>2, TypeCorrect, PTL DEF Spec

(* A donated image is kept: a job whose donation is on record has a whole    *)
(* copy under the protected prefix, but for a local copy that another        *)
(* donation rewrote; and on S3 no copy is ever contested, so there it is     *)
(* kept whatever other donations do.                                         *)
THEOREM DonatedImageKeptHolds ==
    Spec => [](DonatedImageKept /\ (store = "s3" => contested = {}))
<1>1. ImageInv => DonatedImageKept /\ (store = "s3" => contested = {})
  BY DEF ImageInv, NoneTornOnS3
<1>2. QED BY <1>1, ImageInvHolds, PTL

(* Only the retention sweep takes the image of a stored job away: not a      *)
(* failed re-solve that cleans up, nor a copy made while the sweep runs; but *)
(* a local re-solve of a contested copy is only as good as that copy.        *)
THEOREM OwnedImageKeptHolds == Spec => []OwnedImageKept
<1>1. ImageInv => OwnedImageKept
  BY DEF ImageInv, RowsHaveImages, ImageOrSwept, OwnedImageKept
<1>2. QED BY <1>1, ImageInvHolds, PTL

(* Every step keeps the wake-up invariant; a row stored without notification *)
(* is of a job that was never announced.                                     *)
LEMMA WakeupStep ==
    ASSUME TypeOK, ImageInv, WakeupInv, [Next]_vars
    PROVE  WakeupInv'
<1>0. RequestTypes /\ RequestsKnow
  BY DEF TypeOK, ImageInv
<1> USE DEF objects, jobs, wakeups
<1>1. ASSUME NEW r \in Request, Enqueue(r) PROVE WakeupInv'
  <2>1. /\ \A w \in Worker : worker'[w].pc \in {"empty", "sleep"} => w \in woken'
        /\ req[r].job \in Job /\ announced' = announced \cup {req[r].job}
        /\ status' = [status EXCEPT ![req[r].job] = "queued"]
    BY <1>0, <1>1 DEF Enqueue, Stored, Registered, RequestTypes, Busy
  <2>2. QED BY <2>1 DEF WakeupInv, TypeOK
<1>2. ASSUME NEW r \in Request, EnqueueFails(r) PROVE WakeupInv'
  <2>1. req[r].pc = "enqueue" /\ UNCHANGED <<worker, woken, announced>>
    BY <1>2 DEF EnqueueFails
  <2>2. req[r].job \in Job /\ status[req[r].job] = "none"
    BY <1>0, <2>1 DEF RequestTypes, RequestState, RequestsKnow, Knows, Busy
  <2>3. CASE Stored(req[r].job)
    BY <2>1, <2>2, <2>3 DEF Stored, WakeupInv, TypeOK
  <2>4. CASE UNCHANGED jobs
    BY <2>1, <2>4 DEF WakeupInv
  <2>5. QED BY <1>2, <2>3, <2>4 DEF EnqueueFails
<1>3. ASSUME NEW w \in Worker, Register(w) PROVE WakeupInv'
  BY <1>3 DEF Register, At, WakeupInv, TypeOK
<1>4. ASSUME NEW w \in Worker, NEW j \in Job, Claim(w, j) PROVE WakeupInv'
  BY <1>4 DEF Claim, WakeupInv, TypeOK
<1>5. ASSUME NEW w \in Worker, ClaimNothing(w) PROVE WakeupInv'
  BY <1>5 DEF ClaimNothing, At, WakeupInv, TypeOK
<1>6. ASSUME NEW w \in Worker, Sleep(w) PROVE WakeupInv'
  BY <1>6 DEF Sleep, At, WakeupInv, TypeOK
<1>7. ASSUME NEW w \in Worker, Wake(w) \/ Fallback(w) \/ ClaimFails(w) PROVE WakeupInv'
  <2>1. worker' = [worker EXCEPT ![w].pc = "loop"] /\ UNCHANGED <<status, wakeups>>
    BY <1>7 DEF Wake, Fallback, ClaimFails, At
  <2>2. QED BY <2>1 DEF WakeupInv, TypeOK
<1>8. ASSUME NEW w \in Worker, AbandonJob(w) PROVE WakeupInv'
  BY <1>8 DEF AbandonJob, Looping, WakeupInv, TypeOK
<1>9. ASSUME NEW w \in Worker, RunEmbeddedJob(w) PROVE WakeupInv'
  BY <1>9 DEF RunEmbeddedJob, Looping, WakeupInv, TypeOK
<1>10. ASSUME NEW j \in Job, Lapse(j) PROVE WakeupInv'
  BY <1>10 DEF Lapse, WakeupInv, TypeOK
<1>11. ASSUME UNCHANGED <<status, worker, wakeups>> PROVE WakeupInv'
  BY <1>11 DEF WakeupInv
<1>12. ASSUME NEW r \in Request,
              \/ CheckExists(r) \/ S3Copy(r) \/ LocalGet(r) \/ Put(r) \/ LocalWrite(r)
              \/ Record(r) \/ Find(r) \/ Delete(r) \/ Stop(r)
       PROVE  UNCHANGED <<status, worker, wakeups>>
  BY <1>12 DEF CheckExists, S3Copy, LocalGet, Put, LocalWrite, Record, Find, Delete, Stop
<1>13. ASSUME NEW r \in Request, NEW i \in Job,
              Submit(r, i) \/ Donate(r, i) \/ \E j \in Job : Resolve(r, i, j)
       PROVE  UNCHANGED <<status, worker, wakeups>>
  <2>1. CASE Submit(r, i) \/ Donate(r, i)
    BY <2>1 DEF Submit, Donate
  <2>2. CASE \E j \in Job : Resolve(r, i, j)
    BY <2>2 DEF Resolve
  <2>3. QED BY <1>13, <2>1, <2>2
<1>14. ASSUME Tick \/ (\E k \in Key : Sweep(k)) \/ UNCHANGED vars
       PROVE  UNCHANGED <<status, worker, wakeups>>
  BY <1>14 DEF Tick, Sweep, vars
<1>15. QED
  BY <1>1, <1>2, <1>3, <1>4, <1>5, <1>6, <1>7, <1>8, <1>9, <1>10, <1>11, <1>12, <1>13, <1>14
  DEF Next, RequestStep, WorkerStep

(* No wake-up is lost: a worker that registered before it looked for work    *)
(* does not sleep through the enqueue_stored of a job that is still queued.  *)
THEOREM NoLostWakeupHolds == Spec => []NoLostWakeup
<1>1. Init => WakeupInv
  BY DEF Init, WakeupInv
<1>2. TypeOK /\ ImageInv /\ WakeupInv /\ [Next]_vars => WakeupInv'
  BY WakeupStep
<1>3. WakeupInv => NoLostWakeup
  BY DEF WakeupInv, NoLostWakeup
<1>4. QED BY <1>1, <1>2, <1>3, TypeCorrect, ImageInvHolds, PTL DEF Spec

-----------------------------------------------------------------------------
(* What a solve does with the options of an upload and of its re-solve, and  *)
(* the tracks that requests get for them, for any images and options.        *)
OptionFields == {"ra", "dec", "scale", "bounds", "time", "exposure", "lat", "lon", "alt", "itrf",
                 "hint", "meta", "keywords"}
JobFields == {"status", "options", "mode", "ranges", "why"}
ViewFields == {"pc", "job", "pixels", "error", "fingerprint", "answer"}

(* The invariant of the options and searches of a job: w is the job's        *)
(* record, s the searches made for it, a what its client asked for, and c    *)
(* the case.                                                                 *)

Searches == {"hint", "client", "exif", "wide", "default"}

Wanted(c, j) == IF j = 1 THEN c.ask ELSE c.again

(* The searches of a job that finds nothing.                                 *)
PlannedSearches(c, o) ==
    LET blind == BlindScaleSearch(o.bounds, c.image.kind = "raster" /\ c.image.focal)
    IN  IF CompleteHint(o) THEN <<"hint">> \o blind ELSE blind

(* A hint that is not the client's is one of the image's header, whole.      *)
HintKept(a, o) ==
    /\ PartialHint(a) => o.ra = a.ra /\ o.dec = a.dec /\ o.scale = a.scale
    /\ CompleteHint(a) => o.hint = "explicit"
    /\ ~CompleteHint(a) /\ CompleteHint(o) => o.hint \in {"fits", "xisf"}

(* What has been searched and what is left is what was planned.              *)
SearchesInOrder(c, a, w, s) ==
    /\ w.status \notin Terminal => w.why = Missing
    /\ w.status = "queued" => s = <<>>
    /\ w.status = "fallback" =>
         s = <<"hint">> /\ CompleteHint(w.options) /\ ~CompleteHint(a)
    /\ w.status = "searching" =>
         /\ ~CompleteHint(a)
         /\ w.ranges \in Seq(Searches) /\ w.ranges # <<>>
         /\ s \o w.ranges = PlannedSearches(c, w.options)
    /\ w.status \in Terminal =>
         /\ CompleteHint(a) => s \in {<<>>, <<"hint">>}
         /\ w.why = "nothing found" /\ ~CompleteHint(a) => s = PlannedSearches(c, w.options)

(* An exposure that is wholly the image's.                                   *)
TimeNormal(c, o) ==
    HasTime(o) /\ o.time \notin {c.ask.time, c.again.time}
      /\ o.exposure \notin {c.ask.exposure, c.again.exposure} \ {NoNumber}
    => o.time = 0 /\ o.exposure \in {NoNumber, Shutter}

(* An observation without anything of a client's.                            *)
FromImage(o) ==
    /\ o.time \in {NoNumber, 0} /\ o.exposure \in {NoNumber, Shutter}
    /\ {o.lat, o.lon, o.alt, o.itrf} \subseteq {Missing, "image", "zero", "far"}

ObservationKept(c, o) ==
    TimeNormal(c, o) /\ (o.meta \in {"fits", "xisf", "exif"} => FromImage(o))

(* A header does not lie, except that its two dates may be the wrong way     *)
(* round (what dates that are reversed mean).                                *)
Truthful(image) == image.reversed => {"BEG", "END"} \subseteq image.dates

JobKept(c, j, w, s) ==
    /\ DOMAIN w = JobFields /\ s \in Seq(Searches)
    /\ w.status = "none" => s = <<>>
    /\ w.status \notin {"none", "refused"} =>
         /\ w.status \in {"queued", "fallback", "searching"} \cup Terminal
         /\ DOMAIN w.options = OptionFields
         /\ HintKept(Wanted(c, j), w.options)
         /\ SearchesInOrder(c, Wanted(c, j), w, s)
         /\ Truthful(c.image) => ObservationKept(c, w.options)

AllCases == HintCases \cup AstrometryCases \cup ObservationCases \cup WatchedCases

PlanInv ==
    /\ case \in AllCases
    /\ DOMAIN job = PlanJob /\ DOMAIN tried = PlanJob
    /\ \A j \in PlanJob : JobKept(case, j, job[j], tried[j])

(* The cache of predictions, and the requests for tracks.                    *)
Reasons == {Missing, "not loaded", "expired", "no alignment"}

Predictions ==
    {r \in [job : PlanJob, fingerprint : Nat, given : BOOLEAN, attempted : BOOLEAN, error : Reasons] :
        ~r.attempted => r.error # Missing}

Entries ==
    {e \in [key : PlanJob \X Nat \X BOOLEAN, result : Predictions] :
        e.key = <<e.result.job, e.result.fingerprint, e.result.given>>}

RequestKept(w) ==
    /\ DOMAIN w = ViewFields
    /\ w.job \in PlanJob /\ w.fingerprint \in Nat /\ w.pixels \in BOOLEAN /\ w.error \in Reasons
    /\ w.pc \in {"lookup", "resolving", "waiting", "predicting"} /\ ~w.pixels => w.error # Missing
    /\ w.pc = "answered" =>
         /\ w.answer \in Predictions
         /\ w.answer.job = w.job /\ w.answer.fingerprint = w.fingerprint
         /\ w.answer.given = w.pixels

TracksInv ==
    /\ elements \in Nat
    /\ cache \in Seq(Entries)
    /\ DOMAIN view = Viewer
    /\ \A v \in Viewer : RequestKept(view[v])

-----------------------------------------------------------------------------
(* What is found in a sequence.                                              *)

LEMMA LeastNat ==
    ASSUME NEW T, T \subseteq Nat, T # {}
    PROVE  \E n \in T : \A m \in T : n <= m
<1>1. PICK n \in T : \A m \in T : <<m, n>> \notin OpToRel(<, Nat)
  BY WFMin, NatLessThanWellFounded
<1>2. ASSUME NEW m \in T PROVE n <= m
  <2>1. m \in Nat /\ n \in Nat
    OBVIOUS
  <2>2. ~(m < n)
    BY <1>1, <2>1 DEF OpToRel
  <2>3. QED BY <2>1, <2>2
<1>3. QED BY <1>2

LEMMA LeastIndex ==
    ASSUME NEW I, I \subseteq Nat, I # {}
    PROVE  Min(I) \in I
BY LeastNat DEF Min

LEMMA PreferredUsable ==
    ASSUME NEW groups, NEW usable, Preferred(groups, usable) # Missing
    PROVE  Preferred(groups, usable) \in usable
<1>1. PICK I : I = {i \in 1..Len(groups) : groups[i] \in usable}
  OBVIOUS
<1>2. SelectInSeq(groups, LAMBDA g : g \in usable) = IF I # {} THEN Min(I) ELSE 0
  BY <1>1 DEF SelectInSeq
<1>3. I # {} /\ Preferred(groups, usable) = groups[Min(I)]
  BY <1>2 DEF Preferred
<1>4. I \subseteq Nat
  BY <1>1
<1>5. Min(I) \in I
  BY <1>3, <1>4, LeastIndex
<1>6. QED BY <1>1, <1>3, <1>5

-----------------------------------------------------------------------------
(* Options, step by step.                                                    *)

SamePointing(o, p) == p.ra = o.ra /\ p.dec = o.dec /\ p.scale = o.scale

SameHint(o, p) == SamePointing(o, p) /\ p.hint = o.hint

SameSite(o, p) == p.lat = o.lat /\ p.lon = o.lon /\ p.alt = o.alt /\ p.itrf = o.itrf

(* p has the site of o, or the image's.                                      *)
SiteFrom(o, p) ==
    \/ SameSite(o, p)
    \/ /\ ~ExplicitObserver(o)
       /\ {p.lat, p.lon, p.alt, p.itrf} \subseteq {o.lat, o.lon, o.alt, o.itrf, "image", "zero", "far"}

(* p has the time and exposure of o, or the image's where o has none.        *)
TimeFrom(o, p) ==
    /\ HasTime(o) => p.time = o.time
    /\ p.exposure = o.exposure \/ p.exposure = Shutter

(* Unless it stands for an exposure given without a time, an image's time    *)
(* is the opening of the shutter.                                            *)
TimeTrue(o, p) ==
    \/ HasTime(o)
    \/ p.time = NoNumber \/ p.time = 0
    \/ p.exposure = o.exposure /\ HasExposure(o)

LEMMA ExposureStep ==
    ASSUME NEW o, DOMAIN o = OptionFields, NEW image \in Image,
           NEW p, p = WithExposure(o, image)
    PROVE  /\ DOMAIN p = OptionFields /\ SameHint(o, p) /\ SameSite(o, p)
           /\ p.time = o.time /\ p.meta = o.meta
           /\ p.exposure = o.exposure \/ (~HasExposure(o) /\ p.exposure = Shutter)
<1>1. PICK beg, end : beg = FitsTime(image, "BEG") /\ end = FitsTime(image, "END")
  OBVIOUS
<1>2. {"BEG", "END"} \subseteq image.dates /\ end > beg => end - beg = Shutter
  <2>1. {"BEG", "END"} \subseteq image.dates => beg = 0 /\ (end = Shutter \/ end = -Shutter)
    BY <1>1 DEF FitsTime
  <2>2. QED BY <2>1, SolvePlanAssumptions
<1>3. CASE HasExposure(o)
  BY <1>3 DEF WithExposure, SameHint, SamePointing, SameSite
<1>4. CASE ~HasExposure(o) /\ image.duration
  <2>1. p = [o EXCEPT !.exposure = Shutter, !.keywords = @ \cup {"XPOSURE"}]
    BY <1>4 DEF WithExposure
  <2>2. QED BY <1>4, <2>1 DEF OptionFields, SameHint, SamePointing, SameSite
<1>5. CASE ~HasExposure(o) /\ ~image.duration /\ HasTime(o)
           /\ {"BEG", "END"} \subseteq image.dates /\ end > beg
  <2>1. p = [o EXCEPT !.exposure = Shutter, !.keywords = @ \cup {"BEG", "END"}]
    BY <1>1, <1>2, <1>5 DEF WithExposure
  <2>2. QED BY <1>5, <2>1 DEF OptionFields, SameHint, SamePointing, SameSite
<1>6. CASE ~HasExposure(o) /\ ~image.duration
           /\ ~(HasTime(o) /\ {"BEG", "END"} \subseteq image.dates /\ end > beg)
  <2>1. p = o
    BY <1>1, <1>6 DEF WithExposure
  <2>2. QED BY <2>1 DEF SameHint, SamePointing, SameSite
<1>7. QED BY <1>3, <1>4, <1>5, <1>6

(* What the dates of a header say, given an exposure.                        *)
LEMMA ResolvedStart ==
    ASSUME NEW image \in Image, NEW seconds,
           NEW r, r = Resolved(image, seconds), r # NoInterval
    PROVE  \/ r.time = 0 /\ r.exposure = Shutter
           \/ r.exposure = seconds /\ seconds # NoNumber /\ (Truthful(image) => r.time = 0 \/ seconds # Shutter)
<1>1. PICK beg, end : beg = FitsTime(image, "BEG") /\ end = FitsTime(image, "END")
  OBVIOUS
<1>2. PICK keyword : keyword = Preferred(<<"AVG", "OBS", "BEG", "END">>, image.dates)
  OBVIOUS
<1>3. PICK opening : opening = Opening(image, keyword, seconds)
  OBVIOUS
<1>4. Shutter \in Nat \ {0} /\ Shutter \div 2 \in Nat \ {0} /\ Shutter # NoNumber
  BY SolvePlanAssumptions DEF NoNumber
<1>5. CASE {"BEG", "END"} \subseteq image.dates
  <2>1. beg = 0 /\ (end = Shutter \/ end = -Shutter)
    BY <1>1, <1>5 DEF FitsTime
  <2>2. end > beg /\ r = Interval(beg, end - beg, {"BEG", "END"})
    BY <1>1, <1>5 DEF Resolved
  <2>3. end - beg = Shutter
    BY <1>4, <2>1, <2>2
  <2>4. QED BY <2>1, <2>2, <2>3 DEF Interval
<1>6. CASE ~({"BEG", "END"} \subseteq image.dates)
  <2>1. /\ keyword # Missing /\ seconds # NoNumber /\ opening # NoNumber
        /\ r = Interval(opening, seconds, {keyword})
    BY <1>2, <1>3, <1>6 DEF Resolved
  <2>2. keyword \in image.dates
    BY <1>2, <2>1, PreferredUsable
  <2>3. keyword \in {"AVG", "OBS", "BEG", "END"} /\ (Truthful(image) => ~image.reversed)
    BY <1>6, <2>2 DEF Image, Truthful
  <2>4. ASSUME Truthful(image), seconds = Shutter PROVE opening = 0
    <3>1. CASE keyword = "AVG"
      <4>1. opening = Minus(Shutter \div 2, seconds \div 2)
        BY <1>3, <2>2, <3>1 DEF Opening, FitsTime
      <4>2. QED BY <1>4, <2>4, <4>1 DEF Minus
    <3>2. CASE keyword = "END"
      <4>1. opening = Minus(Shutter, seconds)
        BY <1>3, <2>2, <2>3, <2>4, <3>2 DEF Opening, FitsTime
      <4>2. QED BY <1>4, <2>4, <4>1 DEF Minus
    <3>3. CASE keyword \in {"OBS", "BEG"}
      BY <1>3, <2>2, <3>3 DEF Opening, FitsTime
    <3>4. QED BY <2>3, <3>1, <3>2, <3>3
  <2>5. QED BY <2>1, <2>4 DEF Interval
<1>7. QED BY <1>5, <1>6

LEMMA TimeStep ==
    ASSUME NEW o, DOMAIN o = OptionFields, NEW image \in Image,
           NEW p, p = WithTime(o, image)
    PROVE  /\ DOMAIN p = OptionFields /\ SameHint(o, p) /\ SameSite(o, p) /\ p.meta = o.meta
           /\ HasTime(o) => p.time = o.time /\ p.exposure = o.exposure
           /\ p.exposure = o.exposure \/ p.exposure = Shutter
           /\ Truthful(image) =>
                \/ HasTime(o) \/ p.time = NoNumber \/ p.time = 0
                \/ p.exposure = o.exposure /\ HasExposure(o) /\ o.exposure # Shutter
<1>1. PICK r : r = Resolved(image, o.exposure)
  OBVIOUS
<1>2. CASE HasTime(o) \/ ~image.utc
  <2>1. p = o
    BY <1>2 DEF WithTime
  <2>2. QED BY <1>2, <2>1 DEF SameHint, SamePointing, SameSite, HasTime
<1>3. CASE ~HasTime(o) /\ image.utc /\ r # NoInterval
  <2>1. p = [o EXCEPT !.time = r.time, !.exposure = r.exposure, !.keywords = @ \cup r.keywords]
    BY <1>1, <1>3 DEF WithTime
  <2>2. /\ DOMAIN p = OptionFields /\ SameHint(o, p) /\ SameSite(o, p) /\ p.meta = o.meta
        /\ p.time = r.time /\ p.exposure = r.exposure
    BY <2>1 DEF OptionFields, SameHint, SamePointing, SameSite
  <2>3. \/ r.time = 0 /\ r.exposure = Shutter
        \/ /\ r.exposure = o.exposure /\ o.exposure # NoNumber
           /\ Truthful(image) => r.time = 0 \/ o.exposure # Shutter
    BY <1>1, <1>3, ResolvedStart
  <2>4. QED BY <1>3, <2>2, <2>3 DEF HasExposure
<1>4. CASE ~HasTime(o) /\ image.utc /\ r = NoInterval /\ "OBS" \in image.dates
  <2>1. p = [o EXCEPT !.time = FitsTime(image, "OBS"), !.keywords = @ \cup {"OBS"}]
    BY <1>1, <1>4 DEF WithTime
  <2>2. /\ DOMAIN p = OptionFields /\ SameHint(o, p) /\ SameSite(o, p) /\ p.meta = o.meta
        /\ p.time = FitsTime(image, "OBS") /\ p.exposure = o.exposure
    BY <2>1 DEF OptionFields, SameHint, SamePointing, SameSite
  <2>3. FitsTime(image, "OBS") = 0
    BY <1>4 DEF FitsTime
  <2>4. QED BY <1>4, <2>2, <2>3
<1>5. CASE ~HasTime(o) /\ image.utc /\ r = NoInterval /\ "OBS" \notin image.dates
  <2>1. p = o
    BY <1>1, <1>5 DEF WithTime
  <2>2. QED BY <1>5, <2>1 DEF SameHint, SamePointing, SameSite, HasTime
<1>6. QED BY <1>2, <1>3, <1>4, <1>5

LEMMA SiteStep ==
    ASSUME NEW o, DOMAIN o = OptionFields, NEW image \in Image, NEW p, p = WithSite(o, image)
    PROVE  /\ DOMAIN p = OptionFields /\ SameHint(o, p) /\ p.meta = o.meta
           /\ p.time = o.time /\ p.exposure = o.exposure
           /\ SiteFrom(o, p)
<1>1. CASE ExplicitObserver(o) \/ image.site = "none"
  <2>1. p = o
    BY <1>1 DEF WithSite
  <2>2. QED BY <2>1 DEF SameHint, SamePointing, SiteFrom, SameSite
<1>2. CASE ~(ExplicitObserver(o) \/ image.site = "none")
  <2>1. PICK found : found = [o EXCEPT !.keywords = @ \cup {"SITE"}]
    OBVIOUS
  <2>2. /\ DOMAIN found = OptionFields /\ SameHint(o, found) /\ SameSite(o, found)
        /\ found.meta = o.meta /\ found.time = o.time /\ found.exposure = o.exposure
    BY <2>1 DEF OptionFields, SameHint, SamePointing, SameSite
  <2>3. \/ \E v \in {"image", "zero"} : p = [found EXCEPT !.itrf = v]
        \/ \E v \in {"image", "far"} :
             p = [found EXCEPT !.lat = v, !.lon = "image", !.alt = "image"]
    BY <1>2, <2>1 DEF WithSite
  <2>4. CASE \E v \in {"image", "zero"} : p = [found EXCEPT !.itrf = v]
    <3>1. PICK v \in {"image", "zero"} : p = [found EXCEPT !.itrf = v]
      BY <2>4
    <3>2. /\ DOMAIN p = OptionFields /\ SameHint(found, p) /\ p.meta = found.meta
          /\ p.time = found.time /\ p.exposure = found.exposure
          /\ p.lat = found.lat /\ p.lon = found.lon /\ p.alt = found.alt /\ p.itrf = v
      BY <2>2, <3>1 DEF OptionFields, SameHint, SamePointing
    <3>3. QED BY <1>2, <2>2, <3>2 DEF SameHint, SamePointing, SiteFrom, SameSite
  <2>5. CASE \E v \in {"image", "far"} :
               p = [found EXCEPT !.lat = v, !.lon = "image", !.alt = "image"]
    <3>1. PICK v \in {"image", "far"} :
                 p = [found EXCEPT !.lat = v, !.lon = "image", !.alt = "image"]
      BY <2>5
    <3>2. /\ DOMAIN p = OptionFields /\ SameHint(found, p) /\ p.meta = found.meta
          /\ p.time = found.time /\ p.exposure = found.exposure
          /\ p.lat = v /\ p.lon = "image" /\ p.alt = "image" /\ p.itrf = found.itrf
      BY <2>2, <3>1 DEF OptionFields, SameHint, SamePointing
    <3>3. QED BY <1>2, <2>2, <3>2 DEF SameHint, SamePointing, SiteFrom, SameSite
  <2>6. QED BY <2>3, <2>4, <2>5
<1>3. QED BY <1>1, <1>2

(* Only the provenance is set, to explicit wherever a client gave a part.    *)
LEMMA ProvenanceStep ==
    ASSUME NEW o, DOMAIN o = OptionFields, NEW before, NEW source,
           NEW p, p = WithProvenance(o, before, source)
    PROVE  /\ DOMAIN p = OptionFields /\ SameHint(o, p) /\ SameSite(o, p)
           /\ p.time = o.time /\ p.exposure = o.exposure
           /\ \/ p.meta = o.meta
              \/ p.meta = IF MetadataPresent(before) THEN "explicit" ELSE source
<1>1. CASE o.keywords = {}
  BY <1>1 DEF WithProvenance, SameHint, SamePointing, SameSite
<1>2. CASE o.keywords # {}
  <2>1. PICK m : m = IF MetadataPresent(before) THEN "explicit" ELSE source
    OBVIOUS
  <2>2. p = [o EXCEPT !.meta = m]
    BY <1>2, <2>1 DEF WithProvenance
  <2>3. QED BY <2>1, <2>2 DEF OptionFields, SameHint, SamePointing, SameSite
<1>3. QED BY <1>1, <1>2

LEMMA ClearedStep ==
    ASSUME NEW o, DOMAIN o = OptionFields, NEW p, p = Cleared(o)
    PROVE  /\ DOMAIN p = OptionFields /\ SamePointing(o, p) /\ SameSite(o, p)
           /\ p.time = o.time /\ p.exposure = o.exposure
           /\ p.hint = IF CompleteHint(o) THEN "explicit" ELSE Missing
           /\ p.meta = IF MetadataPresent(o) THEN "explicit" ELSE Missing
<1>1. PICK h, m : h = (IF CompleteHint(o) THEN "explicit" ELSE Missing)
                  /\ m = (IF MetadataPresent(o) THEN "explicit" ELSE Missing)
  OBVIOUS
<1>2. p = [o EXCEPT !.hint = h, !.meta = m, !.keywords = {}]
  BY <1>1 DEF Cleared
<1>3. /\ DOMAIN p = OptionFields /\ SamePointing(o, p) /\ SameSite(o, p)
      /\ p.time = o.time /\ p.exposure = o.exposure /\ p.hint = h /\ p.meta = m
  BY <1>2 DEF OptionFields, SamePointing, SameSite
<1>4. QED BY <1>1, <1>3

(* What the options of an upload become.                                     *)
Prepared(image, o, p) ==
    /\ DOMAIN p = OptionFields
    /\ PartialHint(o) => SamePointing(o, p)
    /\ CompleteHint(o) => p.hint = "explicit"
    /\ ~CompleteHint(o) /\ CompleteHint(p) => p.hint \in {"fits", "xisf"}
    /\ TimeFrom(o, p) /\ SiteFrom(o, p)
    /\ Truthful(image) => TimeTrue(o, p)
    /\ MetadataPresent(o) => p.meta = "explicit"

LEMMA SamePresence ==
    ASSUME NEW o, NEW p, SameSite(o, p), p.time = o.time, p.exposure = o.exposure
    PROVE  MetadataPresent(o) <=> MetadataPresent(p)
BY DEF SameSite, MetadataPresent, HasTime, HasExposure

LEMMA PreparedHeader ==
    ASSUME NEW o, DOMAIN o = OptionFields,
           NEW image \in Image, Astronomy(image)
    PROVE  Prepared(image, o, WithHeaderHint(PrepareSatelliteMetadata(Cleared(o), image), image))
<1>1. PICK c : c = Cleared(o)
  OBVIOUS
<1>2. PICK e : e = WithExposure(c, image)
  OBVIOUS
<1>3. PICK t : t = WithTime(e, image)
  OBVIOUS
<1>4. PICK s : s = WithSite(t, image)
  OBVIOUS
<1>5. PICK m : m = WithProvenance(s, c, image.kind)
  OBVIOUS
<1>6. PICK p : p = WithHeaderHint(m, image)
  OBVIOUS
<1>7. m = PrepareSatelliteMetadata(Cleared(o), image)
  BY <1>1, <1>2, <1>3, <1>4, <1>5 DEF PrepareSatelliteMetadata
<1>8. /\ DOMAIN c = OptionFields /\ SamePointing(o, c) /\ SameSite(o, c)
      /\ c.time = o.time /\ c.exposure = o.exposure
      /\ c.hint = IF CompleteHint(o) THEN "explicit" ELSE Missing
      /\ c.meta = IF MetadataPresent(o) THEN "explicit" ELSE Missing
  BY <1>1, ClearedStep
<1>9. /\ DOMAIN e = OptionFields /\ SameHint(c, e) /\ SameSite(c, e)
      /\ e.time = c.time /\ e.meta = c.meta
      /\ e.exposure = c.exposure \/ (~HasExposure(c) /\ e.exposure = Shutter)
  BY <1>2, <1>8, ExposureStep
<1>10. /\ DOMAIN t = OptionFields /\ SameHint(e, t) /\ SameSite(e, t) /\ t.meta = e.meta
       /\ HasTime(e) => t.time = e.time /\ t.exposure = e.exposure
       /\ t.exposure = e.exposure \/ t.exposure = Shutter
       /\ Truthful(image) =>
            \/ HasTime(e) \/ t.time = NoNumber \/ t.time = 0
            \/ t.exposure = e.exposure /\ HasExposure(e) /\ e.exposure # Shutter
  BY <1>3, <1>9, TimeStep
<1>11. /\ DOMAIN s = OptionFields /\ SameHint(t, s) /\ s.meta = t.meta
       /\ s.time = t.time /\ s.exposure = t.exposure
       /\ SiteFrom(t, s)
  BY <1>4, <1>10, SiteStep
<1>12. /\ DOMAIN m = OptionFields /\ SameHint(s, m) /\ SameSite(s, m)
       /\ m.time = s.time /\ m.exposure = s.exposure
       /\ m.meta = s.meta \/ m.meta = IF MetadataPresent(c) THEN "explicit" ELSE image.kind
  BY <1>5, <1>11, ProvenanceStep
<1>13. TimeFrom(o, m) /\ (Truthful(image) => TimeTrue(o, m))
  BY <1>8, <1>9, <1>10, <1>11, <1>12 DEF TimeFrom, TimeTrue, HasTime, HasExposure
<1>14. SiteFrom(o, m)
  BY <1>8, <1>9, <1>10, <1>11, <1>12 DEF SiteFrom, SameSite, ExplicitObserver
<1>15. MetadataPresent(o) => m.meta = "explicit"
  <2>1. MetadataPresent(o) <=> MetadataPresent(c)
    BY <1>8, SamePresence
  <2>2. QED BY <1>8, <1>9, <1>10, <1>11, <1>12, <2>1
<1>16. SamePointing(o, m) /\ m.hint = IF CompleteHint(o) THEN "explicit" ELSE Missing
  BY <1>8, <1>9, <1>10, <1>11, <1>12 DEF SameHint, SamePointing
<1>17. /\ PartialHint(m) <=> PartialHint(o)
       /\ CompleteHint(m) <=> CompleteHint(o)
       /\ CompleteHint(o) => PartialHint(o)
  BY <1>16 DEF SamePointing, PartialHint, CompleteHint
<1>18. CASE p = m
  <2>1. Prepared(image, o, m)
    BY <1>12, <1>13, <1>14, <1>15, <1>16, <1>17 DEF Prepared
  <2>2. QED BY <1>6, <1>7, <1>18, <2>1
<1>19. CASE p # m
  <2>1. PICK a, b, k : a = FitsCenter(image) /\ b = FitsPixelScale(image) /\ k = image.kind
    OBVIOUS
  <2>2. ~PartialHint(m) /\ p = [m EXCEPT !.ra = a, !.dec = a, !.scale = b, !.hint = k]
    BY <1>6, <1>19, <2>1 DEF WithHeaderHint
  <2>3. /\ DOMAIN p = OptionFields /\ SameSite(m, p) /\ p.time = m.time /\ p.exposure = m.exposure
        /\ p.meta = m.meta /\ p.hint = k
    BY <1>12, <2>2 DEF OptionFields, SameSite
  <2>4. k \in {"fits", "xisf"}
    BY <2>1 DEF Astronomy
  <2>5. TimeFrom(o, p) /\ (Truthful(image) => TimeTrue(o, p))
    BY <1>13, <2>3 DEF TimeFrom, TimeTrue, HasTime, HasExposure
  <2>6. SiteFrom(o, p)
    BY <1>14, <2>3 DEF SiteFrom, SameSite
  <2>7. Prepared(image, o, p)
    BY <1>15, <1>17, <2>2, <2>3, <2>4, <2>5, <2>6 DEF Prepared
  <2>8. QED BY <1>6, <1>7, <2>7
<1>20. QED BY <1>18, <1>19

LEMMA PreparedPhoto ==
    ASSUME NEW o, DOMAIN o = OptionFields, NEW image \in Image
    PROVE  Prepared(image, o, PrepareExifMetadata(Cleared(o), image))
<1>1. PICK c : c = Cleared(o)
  OBVIOUS
<1>2. PICK t : t = IF ~HasTime(c) /\ image.exifTime
                     THEN [c EXCEPT !.time = 0, !.keywords = @ \cup {"EXIF"}] ELSE c
  OBVIOUS
<1>3. PICK s : s = IF ~ExplicitObserver(c) /\ image.gps
                     THEN [t EXCEPT !.lat = "image", !.lon = "image", !.keywords = @ \cup {"EXIF"}]
                     ELSE t
  OBVIOUS
<1>4. PICK m : m = WithProvenance(s, c, "exif")
  OBVIOUS
<1>5. m = PrepareExifMetadata(Cleared(o), image)
  BY <1>1, <1>2, <1>3, <1>4 DEF PrepareExifMetadata
<1>6. /\ DOMAIN c = OptionFields /\ SamePointing(o, c) /\ SameSite(o, c)
      /\ c.time = o.time /\ c.exposure = o.exposure
      /\ c.hint = IF CompleteHint(o) THEN "explicit" ELSE Missing
      /\ c.meta = IF MetadataPresent(o) THEN "explicit" ELSE Missing
  BY <1>1, ClearedStep
<1>7. /\ DOMAIN t = OptionFields /\ SameHint(c, t) /\ SameSite(c, t)
      /\ t.exposure = c.exposure /\ t.meta = c.meta
      /\ t.time = c.time \/ (~HasTime(c) /\ t.time = 0)
  BY <1>2, <1>6 DEF OptionFields, SameHint, SamePointing, SameSite
<1>8. /\ DOMAIN s = OptionFields /\ SameHint(t, s) /\ s.meta = t.meta
      /\ s.time = t.time /\ s.exposure = t.exposure
      /\ SiteFrom(t, s)
  <2>1. CASE ~ExplicitObserver(c) /\ image.gps
    <3>1. s = [t EXCEPT !.lat = "image", !.lon = "image", !.keywords = @ \cup {"EXIF"}]
      BY <1>3, <2>1
    <3>2. /\ DOMAIN s = OptionFields /\ SameHint(t, s) /\ s.meta = t.meta
          /\ s.time = t.time /\ s.exposure = t.exposure
          /\ s.lat = "image" /\ s.lon = "image" /\ s.alt = t.alt /\ s.itrf = t.itrf
      BY <1>7, <3>1 DEF OptionFields, SameHint, SamePointing
    <3>3. ~ExplicitObserver(t)
      BY <1>7, <2>1 DEF ExplicitObserver, SameSite
    <3>4. QED BY <3>2, <3>3 DEF SiteFrom
  <2>2. CASE ~(~ExplicitObserver(c) /\ image.gps)
    <3>1. s = t
      BY <1>3, <2>2
    <3>2. QED BY <1>7, <3>1 DEF SiteFrom, SameSite, SameHint, SamePointing
  <2>3. QED BY <2>1, <2>2
<1>9. /\ DOMAIN m = OptionFields /\ SameHint(s, m) /\ SameSite(s, m)
      /\ m.time = s.time /\ m.exposure = s.exposure
      /\ m.meta = s.meta \/ m.meta = IF MetadataPresent(c) THEN "explicit" ELSE "exif"
  BY <1>4, <1>8, ProvenanceStep
<1>10. TimeFrom(o, m) /\ TimeTrue(o, m)
  BY <1>6, <1>7, <1>8, <1>9 DEF TimeFrom, TimeTrue, HasTime, HasExposure
<1>11. SiteFrom(o, m)
  BY <1>6, <1>7, <1>8, <1>9 DEF SiteFrom, SameSite, ExplicitObserver
<1>12. MetadataPresent(o) => m.meta = "explicit"
  <2>1. MetadataPresent(o) <=> MetadataPresent(c)
    BY <1>6, SamePresence
  <2>2. QED BY <1>6, <1>7, <1>8, <1>9, <2>1
<1>13. SamePointing(o, m) /\ m.hint = IF CompleteHint(o) THEN "explicit" ELSE Missing
  BY <1>6, <1>7, <1>8, <1>9 DEF SameHint, SamePointing
<1>14. CompleteHint(m) <=> CompleteHint(o)
  BY <1>13 DEF SamePointing, CompleteHint
<1>15. Prepared(image, o, m)
  BY <1>9, <1>10, <1>11, <1>12, <1>13, <1>14 DEF Prepared
<1>16. QED BY <1>5, <1>15

LEMMA PreparedUpload ==
    ASSUME NEW o, DOMAIN o = OptionFields,
           NEW image \in Image
    PROVE  Prepared(image, o, PrepareSolveOptions(o, image))
<1>1. CASE ~Astronomy(image)
  BY <1>1, PreparedPhoto DEF PrepareSolveOptions
<1>2. CASE Astronomy(image) /\ ReadableHeader(image)
  BY <1>2, PreparedHeader DEF PrepareSolveOptions
<1>3. CASE Astronomy(image) /\ ~ReadableHeader(image)
  <2>1. PICK c : c = Cleared(o)
    OBVIOUS
  <2>2. /\ DOMAIN c = OptionFields /\ SamePointing(o, c) /\ SameSite(o, c)
        /\ c.time = o.time /\ c.exposure = o.exposure
        /\ c.hint = IF CompleteHint(o) THEN "explicit" ELSE Missing
        /\ c.meta = IF MetadataPresent(o) THEN "explicit" ELSE Missing
    BY <2>1, ClearedStep
  <2>3. CompleteHint(c) <=> CompleteHint(o)
    BY <2>2 DEF SamePointing, CompleteHint
  <2>4. TimeFrom(o, c) /\ TimeTrue(o, c) /\ SiteFrom(o, c)
    BY <2>2 DEF TimeFrom, TimeTrue, SiteFrom, HasTime, HasExposure
  <2>5. Prepared(image, o, c)
    BY <2>2, <2>3, <2>4 DEF Prepared
  <2>6. QED BY <1>3, <2>1, <2>5 DEF PrepareSolveOptions
<1>4. QED BY <1>1, <1>2, <1>3

(* What the options of a re-solve become.                                    *)
LEMMA InheritedStep ==
    ASSUME NEW o, DOMAIN o = OptionFields, NEW previous, NEW p, p = Inherited(o, previous)
    PROVE  /\ DOMAIN p = OptionFields /\ SamePointing(o, p)
           /\ p.hint = IF CompleteHint(o) THEN "explicit" ELSE Missing
           /\ p.time = IF HasTime(o) THEN o.time ELSE previous.time
           /\ p.exposure = IF HasExposure(o) THEN o.exposure ELSE previous.exposure
           /\ \/ p.meta \in {Missing, "explicit"}
              \/ /\ p.meta = previous.meta /\ p.time = previous.time
                 /\ p.exposure = previous.exposure /\ SameSite(previous, p)
<1>1. PICK b : b = IF ExplicitObserver(o) \/ o.alt # Missing THEN o
                   ELSE [o EXCEPT !.lat = previous.lat, !.lon = previous.lon,
                                  !.alt = previous.alt, !.itrf = previous.itrf]
  OBVIOUS
<1>2. PICK x, y : x = (IF HasTime(o) THEN o.time ELSE previous.time)
                  /\ y = (IF HasExposure(o) THEN o.exposure ELSE previous.exposure)
  OBVIOUS
<1>3. PICK m : m = [b EXCEPT !.time = x, !.exposure = y]
  OBVIOUS
<1>4. DOMAIN b = OptionFields /\ SamePointing(o, b) /\ b.time = o.time /\ b.exposure = o.exposure
  BY <1>1 DEF OptionFields, SamePointing
<1>5. DOMAIN m = OptionFields /\ SamePointing(o, m) /\ m.time = x /\ m.exposure = y
  BY <1>3, <1>4 DEF OptionFields, SamePointing
<1>6. m = Merged(o, previous)
  <2>1. x = (IF HasTime(o) THEN b.time ELSE previous.time)
        /\ y = (IF HasExposure(o) THEN b.exposure ELSE previous.exposure)
    BY <1>2, <1>4
  <2>2. QED BY <1>1, <1>3, <2>1 DEF Merged
<1>7. PICK c : c = Cleared(m)
  OBVIOUS
<1>8. /\ DOMAIN c = OptionFields /\ SamePointing(m, c) /\ SameSite(m, c)
      /\ c.time = m.time /\ c.exposure = m.exposure
      /\ c.hint = IF CompleteHint(m) THEN "explicit" ELSE Missing
      /\ c.meta = IF MetadataPresent(m) THEN "explicit" ELSE Missing
  BY <1>5, <1>7, ClearedStep
<1>9. CompleteHint(m) <=> CompleteHint(o)
  BY <1>5 DEF SamePointing, CompleteHint
<1>10. CASE Overrides(m, previous)
  <2>1. p = c
    BY <1>6, <1>7, <1>10 DEF Inherited
  <2>2. QED BY <1>2, <1>5, <1>8, <1>9, <2>1 DEF SamePointing
<1>11. CASE ~Overrides(m, previous)
  <2>1. PICK s, k : s = previous.meta /\ k = previous.keywords
    OBVIOUS
  <2>2. p = [c EXCEPT !.meta = s, !.keywords = k]
    BY <1>6, <1>7, <1>11, <2>1 DEF Inherited
  <2>3. /\ DOMAIN p = OptionFields /\ SamePointing(c, p) /\ SameSite(c, p) /\ p.hint = c.hint
        /\ p.time = c.time /\ p.exposure = c.exposure /\ p.meta = s
    BY <1>8, <2>2 DEF OptionFields, SamePointing, SameSite
  <2>4. m.time = previous.time /\ m.exposure = previous.exposure /\ SameSite(previous, m)
    BY <1>11 DEF Overrides, SameSite
  <2>5. SamePointing(o, p) /\ SameSite(previous, p)
    BY <1>5, <1>8, <2>3, <2>4 DEF SamePointing, SameSite
  <2>6. QED BY <1>2, <1>5, <1>8, <1>9, <2>1, <2>3, <2>4, <2>5
<1>12. QED BY <1>10, <1>11

-----------------------------------------------------------------------------
(* Submissions.                                                              *)

LEMMA CaseFacts ==
    ASSUME case \in AllCases
    PROVE  /\ DOMAIN case.ask = OptionFields /\ DOMAIN case.again = OptionFields
           /\ case.image \in Image
<1>1. case \in Case
  BY SolvePlanAssumptions DEF AllCases
<1>2. case.ask \in Options /\ case.again \in Options /\ case.image \in Image
  BY <1>1 DEF Case
<1>3. QED BY <1>2 DEF Options, OptionFields

LEMMA AcceptStep ==
    ASSUME NEW j \in PlanJob, DOMAIN job = PlanJob, NEW o, Accept(j, o)
    PROVE  /\ DOMAIN job' = PlanJob /\ \A k \in PlanJob \ {j} : job'[k] = job[k]
           /\ DOMAIN job'[j] = JobFields
           /\ \/ job'[j].status = "refused"
              \/ job'[j].status = "queued" /\ job'[j].options = o /\ job'[j].why = Missing
<1>1. PICK w : w = IF Valid(o) THEN [NoJob EXCEPT !.status = "queued", !.options = o]
                   ELSE [NoJob EXCEPT !.status = "refused"]
  OBVIOUS
<1>2. job' = [job EXCEPT ![j] = w]
  BY <1>1 DEF Accept
<1>3. /\ DOMAIN w = JobFields
      /\ w.status = "refused" \/ (w.status = "queued" /\ w.options = o /\ w.why = Missing)
  BY <1>1 DEF NoJob, JobFields
<1>4. QED BY <1>2, <1>3

LEMMA PreparedKept ==
    ASSUME NEW c, NEW p, Prepared(c.image, c.ask, p)
    PROVE  HintKept(c.ask, p) /\ (Truthful(c.image) => ObservationKept(c, p))
<1>1. HintKept(c.ask, p)
  BY DEF Prepared, HintKept, SamePointing
<1>2. Truthful(c.image) => TimeNormal(c, p)
  BY DEF Prepared, TimeFrom, TimeTrue, TimeNormal, HasTime, HasExposure
<1>3. ASSUME Truthful(c.image), p.meta \in {"fits", "xisf", "exif"} PROVE FromImage(p)
  <2>1. ~MetadataPresent(c.ask)
    BY <1>3 DEF Prepared
  <2>2. /\ ~HasTime(c.ask) /\ ~HasExposure(c.ask)
        /\ c.ask.lat = Missing /\ c.ask.lon = Missing /\ c.ask.alt = Missing /\ c.ask.itrf = Missing
    BY <2>1 DEF MetadataPresent
  <2>3. p.time \in {NoNumber, 0} /\ p.exposure \in {NoNumber, Shutter}
    BY <1>3, <2>2 DEF Prepared, TimeFrom, TimeTrue, HasExposure
  <2>4. {p.lat, p.lon, p.alt, p.itrf} \subseteq {Missing, "image", "zero", "far"}
    BY <2>2 DEF Prepared, SiteFrom, SameSite
  <2>5. QED BY <2>3, <2>4 DEF FromImage
<1>4. QED BY <1>1, <1>2, <1>3 DEF ObservationKept

(* Job j is stored or refused, with options that are right for it.           *)
LEMMA StoredKept ==
    ASSUME PlanInv, NEW j \in PlanJob, job[j].status = "none", NEW o, Accept(j, o),
           case' = case, tried' = tried,
           DOMAIN o = OptionFields, HintKept(Wanted(case, j), o),
           Truthful(case.image) => ObservationKept(case, o)
    PROVE  PlanInv'
<1>1. /\ DOMAIN job' = PlanJob /\ \A k \in PlanJob \ {j} : job'[k] = job[k]
      /\ DOMAIN job'[j] = JobFields
      /\ \/ job'[j].status = "refused"
         \/ job'[j].status = "queued" /\ job'[j].options = o /\ job'[j].why = Missing
  BY AcceptStep DEF PlanInv
<1>2. tried[j] = <<>> /\ tried[j] \in Seq(STRING)
  BY DEF PlanInv, JobKept
<1>3. JobKept(case, j, job'[j], tried[j])
  <2>1. CASE job'[j].status = "refused"
    BY <1>1, <1>2, <2>1 DEF JobKept
  <2>2. CASE job'[j].status = "queued" /\ job'[j].options = o /\ job'[j].why = Missing
    <3>1. SearchesInOrder(case, Wanted(case, j), job'[j], tried[j])
      BY <1>2, <2>2 DEF SearchesInOrder, Terminal
    <3>2. QED BY <1>1, <1>2, <2>2, <3>1 DEF JobKept
  <2>3. QED BY <1>1, <2>1, <2>2
<1>4. \A k \in PlanJob : JobKept(case, k, job'[k], tried[k])
  BY <1>1, <1>3 DEF PlanInv
<1>5. QED BY <1>1, <1>4 DEF PlanInv

LEMMA SubmitKept ==
    ASSUME PlanInv, SubmitImage \/ SubmitAstrometry
    PROVE  PlanInv'
<1>1. PICK o : o = PrepareSolveOptions(case.ask, case.image)
  OBVIOUS
<1>2. case \in AllCases /\ 1 \in PlanJob /\ Wanted(case, 1) = case.ask
  BY DEF PlanInv, PlanJob, Wanted
<1>3. Prepared(case.image, case.ask, o)
  BY <1>1, <1>2, CaseFacts, PreparedUpload
<1>4. /\ DOMAIN o = OptionFields /\ HintKept(case.ask, o)
      /\ Truthful(case.image) => ObservationKept(case, o)
  BY <1>3, PreparedKept DEF Prepared
<1>5. CASE Accept(1, o)
  <2>1. job[1].status = "none" /\ case' = case /\ tried' = tried
    BY DEF SubmitImage, SubmitAstrometry
  <2>2. QED BY <1>2, <1>4, <1>5, <2>1, StoredKept
<1>6. CASE job' = [job EXCEPT ![1].status = "refused"] /\ case' = case /\ tried' = tried
  <2>1. DOMAIN job = PlanJob /\ DOMAIN job[1] = JobFields
    BY <1>2 DEF PlanInv, JobKept
  <2>2. /\ DOMAIN job' = PlanJob /\ DOMAIN job'[1] = JobFields /\ job'[1].status = "refused"
        /\ \A k \in PlanJob \ {1} : job'[k] = job[k]
    BY <1>2, <1>6, <2>1 DEF JobFields
  <2>3. JobKept(case, 1, job'[1], tried[1])
    BY <1>2, <2>2 DEF PlanInv, JobKept
  <2>4. \A k \in PlanJob : JobKept(case, k, job'[k], tried[k])
    BY <2>2, <2>3 DEF PlanInv
  <2>5. QED BY <1>6, <2>2, <2>4 DEF PlanInv
<1>7. QED BY <1>1, <1>5, <1>6 DEF SubmitImage, SubmitAstrometry

LEMMA ResolveKept ==
    ASSUME PlanInv, SubmitResolve
    PROVE  PlanInv'
<1>1. PICK o, previous : o = Inherited(case.again, job[1].options) /\ previous = job[1].options
  OBVIOUS
<1>2. /\ 1 \in PlanJob /\ 2 \in PlanJob /\ Wanted(case, 2) = case.again /\ case \in AllCases
      /\ job[1].status \in Terminal /\ job[2].status = "none" /\ Accept(2, o)
      /\ case' = case /\ tried' = tried
  BY <1>1 DEF PlanInv, PlanJob, Wanted, SubmitResolve
<1>3. Truthful(case.image) => ObservationKept(case, previous)
  BY <1>1, <1>2 DEF PlanInv, JobKept, Terminal
<1>4. /\ DOMAIN o = OptionFields /\ SamePointing(case.again, o)
      /\ o.hint = IF CompleteHint(case.again) THEN "explicit" ELSE Missing
      /\ o.time = IF HasTime(case.again) THEN case.again.time ELSE previous.time
      /\ o.exposure = IF HasExposure(case.again) THEN case.again.exposure ELSE previous.exposure
      /\ \/ o.meta \in {Missing, "explicit"}
         \/ /\ o.meta = previous.meta /\ o.time = previous.time
            /\ o.exposure = previous.exposure /\ SameSite(previous, o)
  BY <1>1, <1>2, CaseFacts, InheritedStep
<1>5. HintKept(case.again, o)
  BY <1>4 DEF HintKept, SamePointing, CompleteHint
<1>6. ASSUME ObservationKept(case, previous) PROVE ObservationKept(case, o)
  <2>1. TimeNormal(case, o)
    BY <1>4, <1>6 DEF ObservationKept, TimeNormal, HasTime, HasExposure
  <2>2. o.meta \in {"fits", "xisf", "exif"} => FromImage(o)
    BY <1>4, <1>6 DEF ObservationKept, FromImage, SameSite, Missing
  <2>3. QED BY <2>1, <2>2 DEF ObservationKept
<1>7. QED BY <1>2, <1>3, <1>4, <1>5, <1>6, StoredKept

-----------------------------------------------------------------------------
(* Searches.                                                                 *)

LEMMA EndStep ==
    ASSUME NEW j \in PlanJob, DOMAIN job = PlanJob, DOMAIN job[j] = JobFields,
           NEW x, NEW mode, NEW why, EndWith(j, x, mode, why)
    PROVE  /\ DOMAIN job' = PlanJob /\ \A k \in PlanJob \ {j} : job'[k] = job[k]
           /\ DOMAIN job'[j] = JobFields
           /\ job'[j].status = x /\ job'[j].why = why
           /\ job'[j].options = job[j].options /\ job'[j].ranges = job[j].ranges
BY DEF EndWith, JobFields

(* A step of job j that leaves its options alone.                            *)
LEMMA SearchKept ==
    ASSUME PlanInv, NEW j \in PlanJob, case' = case,
           DOMAIN job' = PlanJob, \A k \in PlanJob \ {j} : job'[k] = job[k],
           DOMAIN tried' = PlanJob, \A k \in PlanJob \ {j} : tried'[k] = tried[k],
           job[j].status \in {"queued", "fallback", "searching"},
           DOMAIN job'[j] = JobFields, job'[j].options = job[j].options,
           job'[j].status \in {"fallback", "searching"} \cup Terminal,
           tried'[j] \in Seq(Searches),
           SearchesInOrder(case, Wanted(case, j), job'[j], tried'[j])
    PROVE  PlanInv'
<1>1. JobKept(case, j, job'[j], tried'[j])
  BY DEF PlanInv, JobKept, Terminal
<1>2. \A k \in PlanJob : JobKept(case, k, job'[k], tried'[k])
  BY <1>1 DEF PlanInv
<1>3. QED BY <1>2 DEF PlanInv

LEMMA FailEarlyKept ==
    ASSUME PlanInv, NEW j \in PlanJob, FailEarly(j)
    PROVE  PlanInv'
<1>1. /\ job[j].status = "queued" /\ EndWith(j, "failed", Missing, "error")
      /\ case' = case /\ tried' = tried
  BY DEF FailEarly
<1>2. /\ DOMAIN job = PlanJob /\ DOMAIN job[j] = JobFields /\ DOMAIN tried = PlanJob
      /\ tried[j] = <<>> /\ tried[j] \in Seq(Searches)
  BY <1>1 DEF PlanInv, JobKept, SearchesInOrder
<1>3. /\ DOMAIN job' = PlanJob /\ \A k \in PlanJob \ {j} : job'[k] = job[k]
      /\ DOMAIN job'[j] = JobFields
      /\ job'[j].status = "failed" /\ job'[j].why = "error"
      /\ job'[j].options = job[j].options
  BY <1>1, <1>2, EndStep
<1>4. SearchesInOrder(case, Wanted(case, j), job'[j], tried'[j])
  BY <1>1, <1>2, <1>3 DEF SearchesInOrder, Terminal
<1>5. QED BY <1>1, <1>2, <1>3, <1>4, SearchKept DEF Terminal

LEMMA SolveHintedKept ==
    ASSUME PlanInv, NEW j \in PlanJob, SolveHinted(j)
    PROVE  PlanInv'
<1>1. /\ job[j].status = "queued" /\ CompleteHint(job[j].options) /\ case' = case
      /\ tried' = [tried EXCEPT ![j] = Append(@, "hint")]
      /\ \/ EndWith(j, "succeeded", "hinted", Missing)
         \/ /\ AllowsBlindFallback(job[j].options.hint)
            /\ job' = [job EXCEPT ![j].status = "fallback"]
         \/ /\ ~AllowsBlindFallback(job[j].options.hint)
            /\ EndWith(j, "failed", Missing, "nothing found")
  BY DEF SolveHinted
<1>2. /\ DOMAIN job = PlanJob /\ DOMAIN job[j] = JobFields /\ DOMAIN tried = PlanJob
      /\ tried[j] = <<>> /\ job[j].why = Missing
      /\ HintKept(Wanted(case, j), job[j].options)
  BY <1>1 DEF PlanInv, JobKept, SearchesInOrder, Terminal
<1>3. /\ DOMAIN tried' = PlanJob /\ \A k \in PlanJob \ {j} : tried'[k] = tried[k]
      /\ tried'[j] = <<"hint">>
  <2>1. tried' = [tried EXCEPT ![j] = Append(tried[j], "hint")]
    BY <1>1
  <2>2. Append(tried[j], "hint") = <<"hint">>
    BY <1>2
  <2>3. QED BY <1>2, <2>1, <2>2
<1>4. tried'[j] \in Seq(Searches)
  <2>1. PICK S : S = Searches
    OBVIOUS
  <2>2. "hint" \in S
    BY <2>1 DEF Searches
  <2>3. <<"hint">> \in Seq(S)
    BY <2>2
  <2>4. QED BY <1>3, <2>1, <2>3
<1>5. CASE EndWith(j, "succeeded", "hinted", Missing)
  <2>1. /\ DOMAIN job' = PlanJob /\ \A k \in PlanJob \ {j} : job'[k] = job[k]
        /\ DOMAIN job'[j] = JobFields
        /\ job'[j].status = "succeeded" /\ job'[j].why = Missing
        /\ job'[j].options = job[j].options
    BY <1>2, <1>5, EndStep
  <2>2. SearchesInOrder(case, Wanted(case, j), job'[j], tried'[j])
    BY <1>3, <2>1 DEF SearchesInOrder, Terminal, Missing
  <2>3. QED BY <1>1, <1>3, <1>4, <2>1, <2>2, SearchKept DEF Terminal
<1>6. CASE AllowsBlindFallback(job[j].options.hint) /\ job' = [job EXCEPT ![j].status = "fallback"]
  <2>1. /\ DOMAIN job' = PlanJob /\ \A k \in PlanJob \ {j} : job'[k] = job[k]
        /\ DOMAIN job'[j] = JobFields
        /\ job'[j].status = "fallback" /\ job'[j].why = Missing
        /\ job'[j].options = job[j].options
    BY <1>2, <1>6 DEF JobFields
  <2>2. ~CompleteHint(Wanted(case, j))
    BY <1>2, <1>6 DEF HintKept, AllowsBlindFallback
  <2>3. SearchesInOrder(case, Wanted(case, j), job'[j], tried'[j])
    BY <1>1, <1>3, <2>1, <2>2 DEF SearchesInOrder, Terminal
  <2>4. QED BY <1>1, <1>3, <1>4, <2>1, <2>3, SearchKept
<1>7. CASE ~AllowsBlindFallback(job[j].options.hint) /\ EndWith(j, "failed", Missing, "nothing found")
  <2>1. /\ DOMAIN job' = PlanJob /\ \A k \in PlanJob \ {j} : job'[k] = job[k]
        /\ DOMAIN job'[j] = JobFields
        /\ job'[j].status = "failed" /\ job'[j].options = job[j].options
    BY <1>2, <1>7, EndStep
  <2>2. CompleteHint(Wanted(case, j))
    BY <1>1, <1>2, <1>7 DEF HintKept, AllowsBlindFallback
  <2>3. SearchesInOrder(case, Wanted(case, j), job'[j], tried'[j])
    BY <1>3, <2>1, <2>2 DEF SearchesInOrder, Terminal
  <2>4. QED BY <1>1, <1>3, <1>4, <2>1, <2>3, SearchKept DEF Terminal
<1>8. QED BY <1>1, <1>5, <1>6, <1>7

LEMMA RangesAreNames ==
    ASSUME NEW bounds, NEW focal
    PROVE  BlindScaleSearch(bounds, focal) \in Seq(Searches)
<1>1. PICK S : S = Searches
  OBVIOUS
<1>2. BlindScaleSearch(bounds, focal) \in {<<"client">>, <<"exif", "wide">>, <<>>, <<"default">>}
  BY DEF BlindScaleSearch
<1>3. "client" \in S /\ "exif" \in S /\ "wide" \in S /\ "default" \in S
  BY <1>1 DEF Searches
<1>4. <<"client">> \in Seq(S) /\ <<"exif", "wide">> \in Seq(S) /\ <<>> \in Seq(S) /\ <<"default">> \in Seq(S)
  BY <1>3
<1>5. QED BY <1>1, <1>2, <1>4

LEMMA StartBlindKept ==
    ASSUME PlanInv, NEW j \in PlanJob, StartBlind(j)
    PROVE  PlanInv'
<1>1. PICK ranges : ranges = BlindScaleSearch(job[j].options.bounds, Focal)
  OBVIOUS
<1>2. /\ case' = case /\ tried' = tried
      /\ \/ job[j].status = "fallback"
         \/ job[j].status = "queued" /\ ~CompleteHint(job[j].options)
      /\ \/ ranges = <<>> /\ EndWith(j, "failed", Missing, "error")
         \/ ranges # <<>> /\ job' = [job EXCEPT ![j].status = "searching", ![j].ranges = ranges]
  BY <1>1 DEF StartBlind
<1>3. /\ DOMAIN job = PlanJob /\ DOMAIN job[j] = JobFields /\ DOMAIN tried = PlanJob
      /\ tried[j] \in Seq(Searches) /\ job[j].why = Missing
      /\ HintKept(Wanted(case, j), job[j].options)
      /\ SearchesInOrder(case, Wanted(case, j), job[j], tried[j])
  BY <1>2 DEF PlanInv, JobKept, SearchesInOrder, Terminal
<1>4. ~CompleteHint(Wanted(case, j))
  <2>1. CompleteHint(Wanted(case, j)) => CompleteHint(job[j].options)
    BY <1>3 DEF HintKept, CompleteHint, PartialHint
  <2>2. QED BY <1>2, <1>3, <2>1 DEF SearchesInOrder
<1>5. ranges \in Seq(Searches) /\ tried[j] \o ranges = PlannedSearches(case, job[j].options)
  <2>1. ranges \in Seq(Searches)
    BY <1>1, RangesAreNames
  <2>2. PlannedSearches(case, job[j].options)
          = IF CompleteHint(job[j].options) THEN <<"hint">> \o ranges ELSE ranges
    BY <1>1 DEF PlannedSearches, Focal
  <2>3. tried[j] = IF CompleteHint(job[j].options) THEN <<"hint">> ELSE <<>>
    BY <1>2, <1>3 DEF SearchesInOrder
  <2>4. <<>> \o ranges = ranges
    BY <2>1
  <2>5. QED BY <2>1, <2>2, <2>3, <2>4
<1>6. CASE ranges = <<>> /\ EndWith(j, "failed", Missing, "error")
  <2>1. /\ DOMAIN job' = PlanJob /\ \A k \in PlanJob \ {j} : job'[k] = job[k]
        /\ DOMAIN job'[j] = JobFields
        /\ job'[j].status = "failed" /\ job'[j].why = "error"
        /\ job'[j].options = job[j].options
    BY <1>3, <1>6, EndStep
  <2>2. SearchesInOrder(case, Wanted(case, j), job'[j], tried'[j])
    BY <1>2, <1>4, <2>1 DEF SearchesInOrder, Terminal
  <2>3. QED BY <1>2, <1>3, <2>1, <2>2, SearchKept DEF Terminal
<1>7. CASE ranges # <<>> /\ job' = [job EXCEPT ![j].status = "searching", ![j].ranges = ranges]
  <2>1. /\ DOMAIN job' = PlanJob /\ \A k \in PlanJob \ {j} : job'[k] = job[k]
        /\ DOMAIN job'[j] = JobFields
        /\ job'[j].status = "searching" /\ job'[j].ranges = ranges /\ job'[j].why = Missing
        /\ job'[j].options = job[j].options
    BY <1>3, <1>7 DEF JobFields
  <2>2. SearchesInOrder(case, Wanted(case, j), job'[j], tried'[j])
    BY <1>2, <1>4, <1>5, <1>7, <2>1 DEF SearchesInOrder, Terminal
  <2>3. QED BY <1>2, <1>3, <2>1, <2>2, SearchKept
<1>8. QED BY <1>2, <1>6, <1>7

LEMMA HeadThenTail ==
    ASSUME NEW S, NEW s \in Seq(S), NEW t \in Seq(S), t # <<>>
    PROVE  /\ Append(s, Head(t)) \in Seq(S) /\ Tail(t) \in Seq(S)
           /\ Append(s, Head(t)) \o Tail(t) = s \o t
           /\ Len(t) = 1 => Append(s, Head(t)) = s \o t
           /\ Len(t) # 1 => Tail(t) # <<>>
<1>1. Append(s, Head(t)) \in Seq(S) /\ Tail(t) \in Seq(S)
  OBVIOUS
<1>2. PICK a, b : a = Append(s, Head(t)) \o Tail(t) /\ b = s \o t
  OBVIOUS
<1>3. a \in Seq(S) /\ b \in Seq(S) /\ Len(a) = Len(b)
  BY <1>1, <1>2
<1>4. ASSUME NEW i \in 1..Len(b) PROVE a[i] = b[i]
  <2>1. CASE i <= Len(s)
    BY <1>1, <1>2, <1>4, <2>1
  <2>2. CASE i = Len(s) + 1
    BY <1>1, <1>2, <1>4, <2>2
  <2>3. CASE i > Len(s) + 1
    BY <1>1, <1>2, <1>4, <2>3
  <2>4. QED BY <1>3, <1>4, <2>1, <2>2, <2>3
<1>5. a = b
  BY <1>3, <1>4
<1>6. Len(t) = 1 => Append(s, Head(t)) = b
  <2>1. SUFFICES ASSUME Len(t) = 1 PROVE Append(s, Head(t)) = b
    OBVIOUS
  <2>2. PICK d : d = Append(s, Head(t))
    OBVIOUS
  <2>3. d \in Seq(S) /\ Len(d) = Len(s) + 1 /\ Len(b) = Len(s) + 1
    <3>1. d \in Seq(S) /\ Len(d) = Len(s) + 1
      BY <2>2
    <3>2. Len(b) = Len(s) + Len(t)
      BY <1>2
    <3>3. QED BY <2>1, <3>1, <3>2
  <2>4. \A i \in 1..Len(b) : d[i] = b[i]
    BY <1>2, <2>1, <2>2, <2>3
  <2>5. QED BY <1>3, <2>2, <2>3, <2>4
<1>7. Len(t) # 1 => Tail(t) # <<>>
  <2>1. Len(Tail(t)) = Len(t) - 1 /\ Len(t) \in Nat \ {0}
    OBVIOUS
  <2>2. PICK n : n = Len(t)
    OBVIOUS
  <2>3. n # 1 => Len(Tail(t)) # 0
    BY <2>1, <2>2
  <2>4. Len(<<>>) = 0
    OBVIOUS
  <2>5. QED BY <2>2, <2>3, <2>4
<1>8. QED BY <1>1, <1>2, <1>5, <1>6, <1>7

LEMMA SearchRangeKept ==
    ASSUME PlanInv, NEW j \in PlanJob, SearchRange(j)
    PROVE  PlanInv'
<1>1. PICK ranges, done : ranges = job[j].ranges /\ done = Append(tried[j], Head(ranges))
  OBVIOUS
<1>2. /\ job[j].status = "searching" /\ case' = case
      /\ tried' = [tried EXCEPT ![j] = done]
      /\ \/ EndWith(j, "succeeded", "blind", Missing)
         \/ EndWith(j, "failed", Missing, "error")
         \/ Len(ranges) = 1 /\ EndWith(j, "failed", Missing, "nothing found")
         \/ Len(ranges) # 1 /\ job' = [job EXCEPT ![j].ranges = Tail(ranges)]
  BY <1>1 DEF SearchRange
<1>3. /\ DOMAIN job = PlanJob /\ DOMAIN job[j] = JobFields /\ DOMAIN tried = PlanJob
      /\ tried[j] \in Seq(Searches) /\ job[j].why = Missing
      /\ ~CompleteHint(Wanted(case, j))
      /\ ranges \in Seq(Searches) /\ ranges # <<>>
      /\ tried[j] \o ranges = PlannedSearches(case, job[j].options)
  BY <1>1, <1>2 DEF PlanInv, JobKept, SearchesInOrder, Terminal
<1>4. /\ done \in Seq(Searches) /\ Tail(ranges) \in Seq(Searches)
      /\ done \o Tail(ranges) = PlannedSearches(case, job[j].options)
      /\ Len(ranges) = 1 => done = PlannedSearches(case, job[j].options)
      /\ Len(ranges) # 1 => Tail(ranges) # <<>>
  <2>1. PICK S : S = Searches
    OBVIOUS
  <2>2. tried[j] \in Seq(S) /\ ranges \in Seq(S) /\ ranges # <<>>
    BY <1>3, <2>1
  <2>3. /\ Append(tried[j], Head(ranges)) \in Seq(S) /\ Tail(ranges) \in Seq(S)
        /\ Append(tried[j], Head(ranges)) \o Tail(ranges) = tried[j] \o ranges
        /\ Len(ranges) = 1 => Append(tried[j], Head(ranges)) = tried[j] \o ranges
        /\ Len(ranges) # 1 => Tail(ranges) # <<>>
    BY <2>2, HeadThenTail
  <2>4. QED BY <1>1, <1>3, <2>1, <2>3
<1>5. /\ DOMAIN tried' = PlanJob /\ \A k \in PlanJob \ {j} : tried'[k] = tried[k]
      /\ tried'[j] = done
  BY <1>2, <1>3
<1>6. ASSUME NEW x \in Terminal, NEW mode, NEW why, EndWith(j, x, mode, why),
             why = "nothing found" => Len(ranges) = 1
      PROVE  PlanInv'
  <2>1. /\ DOMAIN job' = PlanJob /\ \A k \in PlanJob \ {j} : job'[k] = job[k]
        /\ DOMAIN job'[j] = JobFields
        /\ job'[j].status = x /\ job'[j].why = why
        /\ job'[j].options = job[j].options
    BY <1>3, <1>6, EndStep
  <2>2. SearchesInOrder(case, Wanted(case, j), job'[j], tried'[j])
    BY <1>3, <1>4, <1>5, <1>6, <2>1 DEF SearchesInOrder, Terminal
  <2>3. QED BY <1>2, <1>4, <1>5, <2>1, <2>2, SearchKept
<1>7. CASE Len(ranges) # 1 /\ job' = [job EXCEPT ![j].ranges = Tail(ranges)]
  <2>1. /\ DOMAIN job' = PlanJob /\ \A k \in PlanJob \ {j} : job'[k] = job[k]
        /\ DOMAIN job'[j] = JobFields
        /\ job'[j].status = "searching" /\ job'[j].ranges = Tail(ranges) /\ job'[j].why = Missing
        /\ job'[j].options = job[j].options
    BY <1>2, <1>3, <1>7 DEF JobFields
  <2>2. SearchesInOrder(case, Wanted(case, j), job'[j], tried'[j])
    BY <1>3, <1>4, <1>5, <1>7, <2>1 DEF SearchesInOrder, Terminal
  <2>3. QED BY <1>2, <1>4, <1>5, <2>1, <2>2, SearchKept
<1>8. QED BY <1>2, <1>6, <1>7 DEF Terminal, Missing

LEMMA PlanStep ==
    ASSUME PlanInv, [TracksNext]_tracksVars
    PROVE  PlanInv'
<1>1. CASE UNCHANGED planVars
  BY <1>1 DEF PlanInv, planVars
<1>2. ASSUME NEW j \in PlanJob, FailEarly(j) \/ SolveHinted(j) \/ StartBlind(j) \/ SearchRange(j)
      PROVE  PlanInv'
  BY <1>2, FailEarlyKept, SolveHintedKept, StartBlindKept, SearchRangeKept
<1>3. CASE ImageExpires \/ RefreshElements \/ \E v \in Viewer, j \in PlanJob : Ask(v, j)
  <2>1. ASSUME NEW v \in Viewer, NEW j \in PlanJob, Ask(v, j) PROVE UNCHANGED planVars
    BY <2>1, Zenon DEF Ask
  <2>2. ASSUME ImageExpires \/ RefreshElements PROVE UNCHANGED planVars
    BY <2>2 DEF ImageExpires, RefreshElements
  <2>3. QED BY <1>1, <1>3, <2>1, <2>2
<1>4. ASSUME NEW v \in Viewer,
             StartLookup(v) \/ LookupTimesOut(v) \/ LookupFails(v)
      PROVE  PlanInv'
  BY <1>1, <1>4 DEF StartLookup, LookupTimesOut, LookupFails
<1>5. ASSUME NEW v \in Viewer, LookupHits(v) \/ LookupMisses(v) \/ HitUnderLock(v)
      PROVE  PlanInv'
  BY <1>1, <1>5 DEF LookupHits, LookupMisses, HitUnderLock
<1>6. ASSUME NEW v \in Viewer, StartPrediction(v) \/ Predict(v) \/ PredictionFails(v)
      PROVE  PlanInv'
  BY <1>1, <1>6 DEF StartPrediction, Predict, PredictionFails
<1>7. CASE UNCHANGED tracksVars
  BY <1>1, <1>7 DEF tracksVars
<1>8. QED BY <1>2, <1>3, <1>4, <1>5, <1>6, <1>7, SubmitKept, ResolveKept DEF TracksNext

(* For any image, any options a client may send, and whatever searches find: *)
(* what is stored was asked for or read from the image, and searches are     *)
(* made in the order planned.                                                *)
THEOREM PlanInvHolds ==
    TracksSpec => []PlanInv
<1>1. InitTracks => PlanInv
  <2>1. SUFFICES ASSUME PlanInit PROVE PlanInv
    BY DEF InitTracks
  <2>2. DOMAIN NoJob = JobFields /\ NoJob.status = "none" /\ <<>> \in Seq(Searches)
    BY DEF NoJob, JobFields
  <2>3. \A j \in PlanJob : JobKept(case, j, NoJob, <<>>)
    BY <2>2 DEF JobKept
  <2>4. /\ job = [j \in PlanJob |-> NoJob] /\ tried = [j \in PlanJob |-> <<>>]
        /\ case \in AllCases
    BY <2>1 DEF PlanInit, AllCases
  <2>5. QED BY <2>3, <2>4 DEF PlanInv
<1>2. PlanInv /\ [TracksNext]_tracksVars => PlanInv'
  BY PlanStep
<1>3. QED BY <1>1, <1>2, PTL DEF TracksSpec

LEMMA StoredFacts ==
    ASSUME PlanInv, NEW j \in Accepted
    PROVE  /\ j \in PlanJob /\ JobKept(case, j, job[j], tried[j]) /\ Asked(j) = Wanted(case, j)
           /\ HintKept(Wanted(case, j), job[j].options)
           /\ SearchesInOrder(case, Wanted(case, j), job[j], tried[j])
           /\ job[j].status \in {"queued", "fallback", "searching"} \cup Terminal
           /\ Truthful(case.image) => ObservationKept(case, job[j].options)
<1>1. j \in PlanJob /\ job[j].status \notin {"none", "refused"}
  BY DEF Accepted
<1>2. JobKept(case, j, job[j], tried[j])
  BY <1>1 DEF PlanInv
<1>3. Asked(j) = Wanted(case, j)
  BY DEF Asked, Wanted
<1>4. QED BY <1>1, <1>2, <1>3 DEF JobKept

(* User supplied hints always win, and a hint from a header is no more than  *)
(* a hint: for any image and options, and any findings of the searches.      *)
THEOREM HintsAreHonouredHolds ==
    TracksSpec => []HintsAreHonoured
<1>1. ASSUME PlanInv PROVE HintsAreHonoured
  <2>1. SUFFICES ASSUME NEW j \in Accepted
                 PROVE  LET o == job[j].options
                            blind == BlindScaleSearch(o.bounds, Focal)
                        IN  /\ PartialHint(Asked(j)) =>
                                 <<o.ra, o.dec, o.scale>> = <<Asked(j).ra, Asked(j).dec, Asked(j).scale>>
                            /\ CompleteHint(Asked(j)) => tried[j] \in {<<>>, <<"hint">>}
                            /\ job[j].why = "nothing found" /\ ~CompleteHint(Asked(j)) =>
                                 tried[j] = IF CompleteHint(o) THEN <<"hint">> \o blind ELSE blind
    BY DEF HintsAreHonoured
  <2>2. PICK o, a : o = job[j].options /\ a = Asked(j)
    OBVIOUS
  <2>3. /\ HintKept(a, o) /\ SearchesInOrder(case, a, job[j], tried[j])
        /\ job[j].status \in {"queued", "fallback", "searching"} \cup Terminal
    BY <1>1, <2>2, StoredFacts
  <2>4. PartialHint(a) => <<o.ra, o.dec, o.scale>> = <<a.ra, a.dec, a.scale>>
    BY <2>3 DEF HintKept
  <2>5. CompleteHint(a) => tried[j] \in {<<>>, <<"hint">>}
    BY <2>3 DEF SearchesInOrder, Terminal
  <2>6. job[j].why = "nothing found" => job[j].status \in Terminal
    BY <2>3 DEF SearchesInOrder, Missing
  <2>7. job[j].why = "nothing found" /\ ~CompleteHint(a) => tried[j] = PlannedSearches(case, o)
    BY <2>2, <2>3, <2>6 DEF SearchesInOrder
  <2>8. PlannedSearches(case, o)
          = IF CompleteHint(o) THEN <<"hint">> \o BlindScaleSearch(o.bounds, Focal)
                               ELSE BlindScaleSearch(o.bounds, Focal)
    BY DEF PlannedSearches, Focal
  <2>9. QED BY <2>2, <2>4, <2>5, <2>7, <2>8
<1>2. QED BY <1>1, PlanInvHolds, PTL

(* An exposure that is wholly the image's starts when the shutter opened and *)
(* lasts as long as it was open, whichever dates a truthful header has.      *)
THEOREM ExposureIsNormalisedHolds ==
    ASSUME \A c \in AllCases : Truthful(c.image)
    PROVE  TracksSpec => []ExposureIsNormalised
<1>1. ASSUME PlanInv PROVE ExposureIsNormalised
  <2>1. \A j \in Accepted : TimeNormal(case, job[j].options)
    BY <1>1, StoredFacts DEF ObservationKept, PlanInv
  <2>2. QED BY <2>1 DEF ExposureIsNormalised, TimeNormal
<1>2. QED BY <1>1, PlanInvHolds, PTL

(* A client's values can be told from what the image says.                   *)
Recognisable(o) ==
    /\ o.time # 0 /\ o.exposure # Shutter
    /\ {o.lat, o.lon, o.alt, o.itrf} \subseteq {Missing, "client"}

(* An observation that is said to come from the image holds no value of a    *)
(* client's, neither of the upload nor of the re-solve.                      *)
THEOREM ProvenanceIsTrueHolds ==
    ASSUME \A c \in AllCases : Truthful(c.image),
           \A c \in AllCases : Recognisable(c.ask) /\ Recognisable(c.again)
    PROVE  TracksSpec => []ProvenanceIsTrue
<1>1. ASSUME PlanInv PROVE ProvenanceIsTrue
  <2>1. SUFFICES ASSUME NEW j \in Accepted, job[j].options.meta \in {"fits", "xisf", "exif"}
                 PROVE  /\ job[j].options.time \notin {case.ask.time, case.again.time} \ {NoNumber}
                        /\ job[j].options.exposure
                             \notin {case.ask.exposure, case.again.exposure} \ {NoNumber}
                        /\ "client" \notin {job[j].options.lat, job[j].options.lon,
                                            job[j].options.alt, job[j].options.itrf}
    BY DEF ProvenanceIsTrue
  <2>2. PICK o : o = job[j].options
    OBVIOUS
  <2>3. FromImage(o)
    BY <1>1, <2>1, <2>2, StoredFacts DEF ObservationKept, PlanInv
  <2>4. Recognisable(case.ask) /\ Recognisable(case.again)
    BY <1>1 DEF PlanInv
  <2>5. QED BY <2>2, <2>3, <2>4 DEF FromImage, Recognisable, Missing
<1>2. QED BY <1>1, PlanInvHolds, PTL

-----------------------------------------------------------------------------
(* The cache and the requests for tracks.                                    *)

LEMMA CacheFinds ==
    ASSUME TracksInv, NEW key, Cached(key)
    PROVE  Entry(key) \in Entries /\ Entry(key).key = key
<1>1. PICK I : I = {i \in 1..Len(cache) : cache[i].key = key}
  OBVIOUS
<1>2. cache \in Seq(Entries)
  BY DEF TracksInv
<1>3. SelectInSeq(cache, LAMBDA e : e.key = key) = IF I # {} THEN Min(I) ELSE 0
  BY <1>1 DEF SelectInSeq
<1>4. I # {} /\ I \subseteq Nat
  BY <1>1, <1>2 DEF Cached
<1>5. PICK n : n = Min(I)
  OBVIOUS
<1>6. n \in I
  BY <1>4, <1>5, LeastIndex
<1>7. Entry(key) = cache[n]
  BY <1>3, <1>4, <1>5 DEF Entry
<1>8. QED BY <1>1, <1>2, <1>6, <1>7

LEMMA CacheRenewed ==
    ASSUME TracksInv, NEW e \in Entries
    PROVE  Renewed(e) \in Seq(Entries)
<1>1. cache \in Seq(Entries)
  BY DEF TracksInv
<1>2. PICK n : n = SelectInSeq(cache, LAMBDA x : x.key = e.key)
  OBVIOUS
<1>3. PICK rest : rest = RemoveFirstMatch(cache, LAMBDA x : x.key = e.key)
  OBVIOUS
<1>4. rest \in Seq(Entries)
  <2>1. CASE \E i \in 1..Len(cache) : cache[i].key = e.key
    <3>1. PICK I : I = {i \in 1..Len(cache) : cache[i].key = e.key}
      OBVIOUS
    <3>2. n = IF I # {} THEN Min(I) ELSE 0
      BY <1>2, <3>1 DEF SelectInSeq
    <3>3. I # {} /\ I \subseteq Nat
      BY <2>1, <3>1
    <3>4. n \in 1..Len(cache)
      BY <3>1, <3>2, <3>3, LeastIndex
    <3>5. rest = SubSeq(cache, 1, n - 1) \o SubSeq(cache, n + 1, Len(cache))
      BY <1>2, <1>3, <2>1 DEF RemoveFirstMatch, RemoveAt
    <3>6. PICK before, after : before = SubSeq(cache, 1, n - 1) /\ after = SubSeq(cache, n + 1, Len(cache))
      OBVIOUS
    <3>7. before \in Seq(Entries) /\ after \in Seq(Entries)
      BY <1>1, <3>4, <3>6
    <3>8. QED BY <3>5, <3>6, <3>7
  <2>2. CASE ~\E i \in 1..Len(cache) : cache[i].key = e.key
    <3>1. rest = cache
      BY <1>3, <2>2 DEF RemoveFirstMatch
    <3>2. QED BY <1>1, <3>1
  <2>3. QED BY <2>1, <2>2
<1>5. Renewed(e) = Append(rest, e)
  BY <1>3 DEF Renewed
<1>6. QED BY <1>4, <1>5

LEMMA CacheInserted ==
    ASSUME TracksInv, NEW e \in Entries
    PROVE  Inserted(e) \in Seq(Entries)
<1>1. PICK all : all = Renewed(e)
  OBVIOUS
<1>2. all \in Seq(Entries) /\ Len(all) > 0
  <2>1. all \in Seq(Entries)
    BY <1>1, CacheRenewed
  <2>2. PICK rest : all = Append(rest, e)
    BY <1>1 DEF Renewed
  <2>3. all # <<>>
    BY <2>2
  <2>4. QED BY <2>1, <2>3
<1>3. Tail(all) \in Seq(Entries)
  BY <1>2
<1>4. QED BY <1>1, <1>2, <1>3 DEF Inserted

(* One request moves.                                                        *)
LEMMA ViewStep ==
    ASSUME TracksInv, NEW v \in Viewer, NEW w, view' = [view EXCEPT ![v] = w],
           RequestKept(w), elements' = elements, cache' \in Seq(Entries)
    PROVE  TracksInv'
<1>1. DOMAIN view' = Viewer /\ \A u \in Viewer : view'[u] = IF u = v THEN w ELSE view[u]
  BY DEF TracksInv
<1>2. \A u \in Viewer : RequestKept(view'[u])
  BY <1>1 DEF TracksInv
<1>3. QED BY <1>1, <1>2 DEF TracksInv

LEMMA UnavailableKept ==
    RequestKept([NotAsked EXCEPT !.pc = "unavailable"])
<1>1. PICK w : w = [NotAsked EXCEPT !.pc = "unavailable"]
  OBVIOUS
<1>2. /\ DOMAIN w = ViewFields /\ w.job \in PlanJob /\ w.fingerprint \in Nat /\ w.pixels \in BOOLEAN
      /\ w.error \in Reasons /\ w.pc = "unavailable"
  BY <1>1 DEF NotAsked, ViewFields, PlanJob, Reasons
<1>3. RequestKept(w)
  BY <1>2 DEF RequestKept
<1>4. QED BY <1>1, <1>3

LEMMA HitAnswers ==
    ASSUME TracksInv, NEW w, RequestKept(w), NEW key, Cached(key),
           key = <<w.job, w.fingerprint, w.pixels>>
    PROVE  RequestKept(Answer(w, Entry(key).result))
<1>1. PICK e : e = Entry(key)
  OBVIOUS
<1>2. e \in Entries /\ e.key = key
  BY <1>1, CacheFinds
<1>3. /\ e.result \in Predictions
      /\ e.result.job = w.job /\ e.result.fingerprint = w.fingerprint /\ e.result.given = w.pixels
  BY <1>2 DEF Entries
<1>4. PICK a, r : r = e.result /\ a = [w EXCEPT !.pc = "answered", !.answer = r]
  OBVIOUS
<1>5. /\ DOMAIN a = ViewFields /\ a.job = w.job /\ a.fingerprint = w.fingerprint
      /\ a.pixels = w.pixels /\ a.error = w.error /\ a.pc = "answered" /\ a.answer = r
  BY <1>4 DEF RequestKept, ViewFields
<1>6. RequestKept(a)
  BY <1>3, <1>4, <1>5 DEF RequestKept
<1>7. QED BY <1>1, <1>4, <1>6 DEF Answer

LEMMA PredictionFits ==
    ASSUME NEW w, RequestKept(w), w.pc = "predicting", NEW r \in Results(w)
    PROVE  /\ [key |-> <<w.job, w.fingerprint, w.pixels>>, result |-> r] \in Entries
           /\ RequestKept(Answer(w, r))
<1>1. /\ DOMAIN w = ViewFields /\ w.job \in PlanJob /\ w.fingerprint \in Nat /\ w.pixels \in BOOLEAN
      /\ w.error \in Reasons /\ (~w.pixels => w.error # Missing)
  BY DEF RequestKept
<1>2. PICK a \in IF w.pixels THEN BOOLEAN ELSE {FALSE} :
        r = [job |-> w.job, fingerprint |-> w.fingerprint, given |-> w.pixels,
             attempted |-> a, error |-> IF a \/ ~w.pixels THEN w.error ELSE "no alignment"]
  BY DEF Results
<1>3. PICK why : why = IF a \/ ~w.pixels THEN w.error ELSE "no alignment"
  OBVIOUS
<1>4. a \in BOOLEAN /\ why \in Reasons /\ (~a => why # Missing)
  BY <1>1, <1>2, <1>3 DEF Reasons, Missing
<1>5. r \in [job : PlanJob, fingerprint : Nat, given : BOOLEAN, attempted : BOOLEAN, error : Reasons]
  BY <1>1, <1>2, <1>3, <1>4
<1>6. /\ r.job = w.job /\ r.fingerprint = w.fingerprint /\ r.given = w.pixels
      /\ r.attempted = a /\ r.error = why
  BY <1>2, <1>3
<1>7. r \in Predictions
  BY <1>4, <1>5, <1>6 DEF Predictions
<1>8. [key |-> <<w.job, w.fingerprint, w.pixels>>, result |-> r] \in Entries
  BY <1>1, <1>6, <1>7 DEF Entries
<1>9. PICK b : b = [w EXCEPT !.pc = "answered", !.answer = r]
  OBVIOUS
<1>10. /\ DOMAIN b = ViewFields /\ b.job = w.job /\ b.fingerprint = w.fingerprint
       /\ b.pixels = w.pixels /\ b.error = w.error /\ b.pc = "answered" /\ b.answer = r
  BY <1>1, <1>9 DEF ViewFields
<1>11. RequestKept(b)
  BY <1>1, <1>6, <1>7, <1>10 DEF RequestKept
<1>12. QED BY <1>8, <1>9, <1>11 DEF Answer

LEMMA AskKept ==
    ASSUME TracksInv, NEW v \in Viewer, NEW j \in PlanJob, Ask(v, j)
    PROVE  TracksInv'
<1>1. PICK got \in IF retained THEN BOOLEAN ELSE {FALSE} :
        IF ~case.tracks \/ ~SingleExposure(job[j].options) THEN Unavailable(v)
        ELSE view' = [view EXCEPT ![v] = [NotAsked EXCEPT
               !.pc = "lookup", !.job = j, !.pixels = got,
               !.error = CASE got -> Missing [] retained -> "not loaded" [] OTHER -> "expired"]]
  BY Zenon DEF Ask
<1>2. UNCHANGED <<elements, cache>>
  BY Zenon DEF Ask
<1>3. cache' \in Seq(Entries) /\ elements' = elements
  BY <1>2 DEF TracksInv
<1>4. CASE Unavailable(v)
  BY <1>3, <1>4, UnavailableKept, ViewStep DEF Unavailable
<1>5. CASE ~Unavailable(v)
  <2>1. got \in BOOLEAN
    BY <1>1
  <2>2. PICK why : why = (CASE got -> Missing [] retained -> "not loaded" [] OTHER -> "expired")
    OBVIOUS
  <2>3. why \in Reasons /\ (~got => why # Missing)
    BY <2>1, <2>2 DEF Reasons, Missing
  <2>4. PICK w : w = [NotAsked EXCEPT !.pc = "lookup", !.job = j, !.pixels = got, !.error = why]
    OBVIOUS
  <2>5. view' = [view EXCEPT ![v] = w]
    BY <1>1, <1>5, <2>2, <2>4
  <2>6. /\ DOMAIN w = ViewFields /\ w.job = j /\ w.fingerprint = 0 /\ w.pixels = got
        /\ w.error = why /\ w.pc = "lookup"
    BY <2>4 DEF NotAsked, ViewFields
  <2>7. RequestKept(w)
    BY <2>1, <2>3, <2>6 DEF RequestKept
  <2>8. QED BY <1>3, <2>5, <2>7, ViewStep
<1>6. QED BY <1>4, <1>5

LEMMA LookupKept ==
    ASSUME TracksInv, NEW v \in Viewer,
           StartLookup(v) \/ LookupTimesOut(v) \/ LookupFails(v) \/ LookupMisses(v)
             \/ StartPrediction(v) \/ PredictionFails(v)
    PROVE  TracksInv'
<1>1. elements' = elements /\ cache' = cache
  BY DEF StartLookup, LookupTimesOut, LookupFails, LookupMisses, StartPrediction, PredictionFails
<1>2. cache' \in Seq(Entries) /\ elements \in Nat /\ RequestKept(view[v])
  BY <1>1 DEF TracksInv
<1>3. CASE Unavailable(v)
  BY <1>1, <1>2, <1>3, UnavailableKept, ViewStep DEF Unavailable
<1>4. CASE StartLookup(v) \/ StartPrediction(v)
  <2>1. PICK pc \in {"resolving", "predicting"} :
          view' = [view EXCEPT ![v].pc = pc] /\ view[v].pc \in {"lookup", "waiting"}
    BY <1>4 DEF StartLookup, StartPrediction
  <2>2. PICK w : w = [view[v] EXCEPT !.pc = pc]
    OBVIOUS
  <2>3. view' = [view EXCEPT ![v] = w]
    BY <2>1, <2>2 DEF TracksInv
  <2>4. /\ DOMAIN w = ViewFields /\ w.job = view[v].job /\ w.fingerprint = view[v].fingerprint
        /\ w.pixels = view[v].pixels /\ w.error = view[v].error /\ w.pc = pc
    BY <1>2, <2>2 DEF RequestKept, ViewFields
  <2>5. RequestKept(w)
    BY <1>2, <2>1, <2>4 DEF RequestKept
  <2>6. QED BY <1>1, <1>2, <2>3, <2>5, ViewStep
<1>5. CASE LookupMisses(v)
  <2>1. view' = [view EXCEPT ![v].pc = "waiting", ![v].fingerprint = elements] /\ view[v].pc = "resolving"
    BY <1>5 DEF LookupMisses
  <2>2. PICK w : w = [view[v] EXCEPT !.pc = "waiting", !.fingerprint = elements]
    OBVIOUS
  <2>3. view' = [view EXCEPT ![v] = w]
    BY <2>1, <2>2 DEF TracksInv
  <2>4. /\ DOMAIN w = ViewFields /\ w.job = view[v].job /\ w.fingerprint = elements
        /\ w.pixels = view[v].pixels /\ w.error = view[v].error /\ w.pc = "waiting"
    BY <1>2, <2>2 DEF RequestKept, ViewFields
  <2>5. RequestKept(w)
    BY <1>2, <2>1, <2>4 DEF RequestKept
  <2>6. QED BY <1>1, <1>2, <2>3, <2>5, ViewStep
<1>6. QED BY <1>3, <1>4, <1>5 DEF LookupTimesOut, LookupFails, PredictionFails

LEMMA AnsweredKept ==
    ASSUME TracksInv, NEW v \in Viewer, LookupHits(v) \/ HitUnderLock(v) \/ Predict(v)
    PROVE  TracksInv'
<1>1. elements' = elements /\ elements \in Nat /\ RequestKept(view[v])
  BY DEF LookupHits, HitUnderLock, Predict, TracksInv
<1>2. CASE LookupHits(v)
  <2>1. PICK key : key = PredictionKey(view[v], elements)
    OBVIOUS
  <2>2. PICK w : w = [view[v] EXCEPT !.fingerprint = elements]
    OBVIOUS
  <2>3. /\ view[v].pc = "resolving" /\ Cached(key) /\ cache' = Renewed(Entry(key))
        /\ view' = [view EXCEPT ![v] = Answer(w, Entry(key).result)]
    BY <1>2, <2>1, <2>2 DEF LookupHits
  <2>4. /\ DOMAIN w = ViewFields /\ w.job = view[v].job /\ w.fingerprint = elements
        /\ w.pixels = view[v].pixels /\ w.error = view[v].error /\ w.pc = view[v].pc
    BY <1>1, <2>2 DEF RequestKept, ViewFields
  <2>5. RequestKept(w)
    BY <1>1, <2>3, <2>4 DEF RequestKept
  <2>6. key = <<w.job, w.fingerprint, w.pixels>>
    BY <2>1, <2>4 DEF PredictionKey
  <2>7. RequestKept(Answer(w, Entry(key).result))
    BY <2>3, <2>5, <2>6, HitAnswers
  <2>8. cache' \in Seq(Entries)
    BY <2>3, CacheFinds, CacheRenewed
  <2>9. QED BY <1>1, <2>3, <2>7, <2>8, ViewStep
<1>3. CASE HitUnderLock(v)
  <2>1. PICK key : key = PredictionKey(view[v], view[v].fingerprint)
    OBVIOUS
  <2>2. PICK w : w = view[v]
    OBVIOUS
  <2>3. /\ Cached(key) /\ cache' = Renewed(Entry(key))
        /\ view' = [view EXCEPT ![v] = Answer(w, Entry(key).result)]
    BY <1>3, <2>1, <2>2 DEF HitUnderLock
  <2>4. key = <<w.job, w.fingerprint, w.pixels>> /\ RequestKept(w)
    BY <1>1, <2>1, <2>2 DEF PredictionKey
  <2>5. RequestKept(Answer(w, Entry(key).result))
    BY <2>3, <2>4, HitAnswers
  <2>6. cache' \in Seq(Entries)
    BY <2>3, CacheFinds, CacheRenewed
  <2>7. QED BY <1>1, <2>3, <2>5, <2>6, ViewStep
<1>4. CASE Predict(v)
  <2>1. PICK w : w = view[v]
    OBVIOUS
  <2>2. w.pc = "predicting" /\ RequestKept(w)
    BY <1>1, <1>4, <2>1 DEF Predict
  <2>3. PICK r \in Results(w) :
          /\ cache' = Inserted([key |-> PredictionKey(w, w.fingerprint), result |-> r])
          /\ view' = [view EXCEPT ![v] = Answer(w, r)]
    BY <1>4, <2>1 DEF Predict
  <2>4. PredictionKey(w, w.fingerprint) = <<w.job, w.fingerprint, w.pixels>>
    BY DEF PredictionKey
  <2>5. /\ [key |-> PredictionKey(w, w.fingerprint), result |-> r] \in Entries
        /\ RequestKept(Answer(w, r))
    BY <2>2, <2>4, PredictionFits
  <2>6. cache' \in Seq(Entries)
    BY <2>3, <2>5, CacheInserted
  <2>7. QED BY <1>1, <2>3, <2>5, <2>6, ViewStep
<1>5. QED BY <1>2, <1>3, <1>4

LEMMA TracksStep ==
    ASSUME TracksInv, [TracksNext]_tracksVars
    PROVE  TracksInv'
<1>1. CASE UNCHANGED viewVars
  BY <1>1 DEF TracksInv, viewVars
<1>2. CASE ImageExpires
  BY <1>2 DEF ImageExpires, TracksInv
<1>3. CASE RefreshElements
  BY <1>3 DEF RefreshElements, TracksInv
<1>4. CASE UNCHANGED tracksVars
  BY <1>1, <1>4 DEF tracksVars
<1>5. QED BY <1>1, <1>2, <1>3, <1>4, AskKept, LookupKept, AnsweredKept DEF TracksNext

(* The cache holds what was predicted for its keys, whoever asked, and every *)
(* request that lacks the pixels knows why.                                  *)
THEOREM TracksInvHolds == TracksSpec => []TracksInv
<1>1. InitTracks => TracksInv
  <2>1. SUFFICES ASSUME InitTracks PROVE TracksInv
    OBVIOUS
  <2>2. elements = 1 /\ cache = <<>> /\ view = [v \in Viewer |-> NotAsked]
    BY <2>1 DEF InitTracks
  <2>3. RequestKept(NotAsked)
    BY DEF RequestKept, NotAsked, ViewFields, PlanJob, Reasons
  <2>4. <<>> \in Seq(Entries)
    OBVIOUS
  <2>5. QED BY <2>2, <2>3, <2>4 DEF TracksInv
<1>2. TracksInv /\ [TracksNext]_tracksVars => TracksInv'
  BY TracksStep
<1>3. QED BY <1>1, <1>2, PTL DEF TracksSpec

(* A request is answered with the tracks of its own job, from the elements   *)
(* it looked up and with its image's pixels exactly if it has them, even if  *)
(* another request computed them; missing pixel evidence is explained.       *)
THEOREM AnswerFitsRequestHolds == TracksSpec => []AnswerFitsRequest
<1>1. ASSUME TracksInv PROVE AnswerFitsRequest
  <2>1. SUFFICES ASSUME NEW v \in Viewer, view[v].pc = "answered"
                 PROVE  /\ <<view[v].answer.job, view[v].answer.fingerprint, view[v].answer.given>>
                             = <<view[v].job, view[v].fingerprint, view[v].pixels>>
                        /\ ~view[v].answer.attempted => view[v].answer.error # Missing
    BY DEF AnswerFitsRequest
  <2>2. RequestKept(view[v])
    BY <1>1 DEF TracksInv
  <2>3. QED BY <2>1, <2>2 DEF RequestKept, Predictions
<1>2. QED BY <1>1, TracksInvHolds, PTL
=============================================================================
