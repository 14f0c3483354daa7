--------------------------- MODULE ResumableUpload --------------------------
(***************************************************************************)
(* TUS uploads from their first byte to their queued job: the handlers of    *)
(* src/src/api/tus.rs, the manifest and its chunks (uploads.rs), the object  *)
(* store they live in (storage.rs) and finalize_resumable (api.rs).          *)
(*                                                                         *)
(*  - A request is a sequence of store operations; it can be dropped between *)
(*    any two of them (the client disconnects, the process dies, a call      *)
(*    fails).  PATCH, DELETE and GET result hold the upload's lock, which    *)
(*    exists per API process; POST of a final upload holds no lock.          *)
(*  - The local store writes and removes files on a pool of threads that a   *)
(*    dropped request does not stop: what it was waiting for happens later,  *)
(*    after its lock is free again, or is cut short.                         *)
(*  - A byte is <<upload, position>>: clients send the bytes of their file   *)
(*    at the position they declare, cut into chunks as they like.            *)
(*  - A job row and its object are named by the upload whose object_key they *)
(*    carry, so that enqueueing the same upload twice is one job.            *)
(***************************************************************************)
EXTENDS Naturals, FiniteSets, Sequences, SequencesExt

CONSTANTS
    Plain,          \* uploads of one file
    PartList,       \* a sequence: the partial uploads that make up one file
    Final,          \* attempts to concatenate them; each gets its own id
    Size,           \* Upload-Length of each plain and partial upload
    Request,        \* requests that may be in progress at the same time
    Scenarios,      \* the deployments and uploads to consider
    NoUpload

Partial == Range(PartList)
Upload == Plain \cup Partial \cup Final

(* A scenario: the uploads that clients make, the sizes of the bodies they   *)
(* send, the API processes, the object store (on "s3", composition is by     *)
(* multipart copies), and the bound on requests dropped half way.            *)
Scenario(s) ==
    /\ s.uploads \subseteq Upload /\ s.chunks \subseteq Nat \ {0}
    /\ s.store \in {"local", "s3"} /\ s.drops \in Nat

(* Ids are unique; a list of parts is neither empty nor repeats one          *)
(* (parse_concat_part_ids).                                                  *)
ASSUME ResumableUploadAssumptions ==
    /\ PartList \in Seq(Partial) /\ PartList # <<>> /\ IsInjective(PartList)
    /\ Plain \cap Partial = {} /\ (Plain \cup Partial) \cap Final = {}
    /\ Size \in [Plain \cup Partial -> Nat \ {0}]
    /\ \A s \in Scenarios : Scenario(s)
    /\ NoUpload \notin Upload

VARIABLES
    scenario,       \* the scenario of this behaviour
    manifest,       \* Upload -> the stored manifest, or Missing
    stored,         \* chunk key -> size of the stored chunk, 0 if there is none
    object,         \* Upload -> the bytes under its object_key
    jobs,           \* uploads whose job row exists
    req,            \* Request -> what it is doing
    terminated,     \* history: uploads somebody began to delete
    drops,          \* number of requests dropped half way
    spoiled         \* history: uploads whose lock did not protect them

vars == <<scenario, manifest, stored, object, jobs, req, terminated, drops, spoiled>>

MaxDrops == scenario.drops

Missing == [offset |-> 0, length |-> 0, chunks |-> <<>>, committed |-> FALSE]
ChunkKey == UNION {{u} \X (0..(Size[u] - 1)) : u \in Plain \cup Partial}

Idle == [pc |-> "idle", replica |-> NoUpload, locked |-> FALSE, up |-> NoUpload,
         offset |-> 0, size |-> 0, man |-> Missing, k |-> 1, out |-> <<>>]

Init ==
    /\ scenario \in Scenarios
    /\ manifest = [u \in Upload |-> Missing]
    /\ stored = [c \in ChunkKey |-> 0]
    /\ object = [u \in Upload |-> <<>>]
    /\ jobs = {}
    /\ req = [r \in Request |-> Idle]
    /\ terminated = {}
    /\ drops = 0
    /\ spoiled = {}

-----------------------------------------------------------------------------
(* Manifests, chunks and locks.                                            *)

Exists(u) == manifest[u] # Missing
Complete(m) == m.offset = m.length

(* Variant for the mutation runs: no lock at all.                           *)
NoLock(p, u) == TRUE

(* upload_lock: free unless a request of the same process holds it.         *)
LockFree(p, u) ==
    \A r \in Request : ~(req[r].locked /\ req[r].replica = p /\ req[r].up = u)

(* What a dropped request of upload u was writing may still be under way.    *)
Gone(r) == req[r].pc # "idle" /\ ~req[r].locked /\ req[r].up \notin Final

(* The lock does not keep a request of process p apart from one of another   *)
(* process, or from the write that a dropped request left behind.            *)
Unprotected(p, u) ==
    \E r \in Request : req[r].up = u /\ ~(req[r].locked /\ req[r].replica = p)

(* The file of upload u is the input of a queued job.                       *)
Delivered(u) == IF u \in Plain THEN u \in jobs ELSE jobs \cap Final # {}

(* lock, load, and go on as `request' says.                                 *)
Start(r, p, u, request) ==
    /\ req[r] = Idle
    /\ LockFree(p, u)
    /\ Exists(u)
    /\ req' = [req EXCEPT ![r] = [request EXCEPT !.replica = p, !.locked = TRUE,
                                                 !.up = u, !.man = manifest[u]]]
    /\ spoiled' = IF Unprotected(p, u) THEN spoiled \cup {u} ELSE spoiled

(* The next chunk of the manifest a request works on.                       *)
Chunk(r) == req[r].man.chunks[req[r].k]
MoreChunks(r) == req[r].k <= Len(req[r].man.chunks)

ChunkBytes(key, size) == [i \in 1..size |-> <<key[1], key[2] + i - 1>>]

(* Local compose, and the buffered fallback on S3, compare the length of a  *)
(* chunk with the manifest; a multipart copy takes what is there.            *)
Copyable(chunk) ==
    /\ stored[chunk.key] # 0
    /\ scenario.store = "local" => stored[chunk.key] = chunk.size

-----------------------------------------------------------------------------
(* POST of a plain or a partial upload: one save of an empty manifest.      *)
Create(u) ==
    /\ u \in scenario.uploads
    /\ ~Exists(u) /\ u \notin terminated \cup spoiled /\ ~Delivered(u)
    /\ manifest' = [manifest EXCEPT ![u] = [Missing EXCEPT !.length = Size[u]]]
    /\ UNCHANGED <<scenario, stored, object, jobs, req, terminated, drops, spoiled>>

(* PATCH, as far as the checks of append.  A body whose offset is not the   *)
(* manifest's, that is too long or comes after completion is refused.        *)
Appendable(m, offset, size) ==
    /\ ~m.committed
    /\ offset = m.offset
    /\ offset + size <= m.length

StartPatch(r, p, u, offset, size) ==
    /\ Start(r, p, u, [Idle EXCEPT !.pc = "put", !.offset = offset, !.size = size])
    /\ Appendable(manifest[u], offset, size)
    /\ UNCHANGED <<scenario, manifest, stored, object, jobs, terminated, drops>>

PutChunk(r) ==
    /\ req[r].pc = "put"
    /\ stored' = [stored EXCEPT ![<<req[r].up, req[r].offset>>] = req[r].size]
    /\ req' = [req EXCEPT ![r].pc = "append"]
    /\ UNCHANGED <<scenario, manifest, object, jobs, terminated, drops, spoiled>>

(* The manifest with the chunk that request r put.                          *)
WithChunk(r) ==
    [req[r].man EXCEPT
        !.offset = req[r].offset + req[r].size,
        !.chunks = Append(@, [key |-> <<req[r].up, req[r].offset>>, size |-> req[r].size])]

(* append's save; the last chunk of a plain upload goes on to finalize.     *)
SaveAppend(r) ==
    LET u == req[r].up
        new == WithChunk(r)
    IN  /\ req[r].pc = "append"
        /\ manifest' = [manifest EXCEPT ![u] = new]
        /\ req' = [req EXCEPT ![r] =
                IF Complete(new) /\ u \in Plain
                  THEN [@ EXCEPT !.pc = "compose", !.man = new] ELSE Idle]
        /\ UNCHANGED <<scenario, stored, object, jobs, terminated, drops, spoiled>>

(* Variant for the mutation runs: only the last PATCH finalizes.             *)
ResultReadsOnly(r, p, u) ==
    /\ Start(r, p, u, [Idle EXCEPT !.pc = "compose"])
    /\ manifest[u].committed
    /\ UNCHANGED <<scenario, manifest, stored, object, jobs, terminated, drops>>

(* GET result of a complete upload that has no job yet.  (With a job it only *)
(* reads; for a partial upload compose fails on its empty object_key.)       *)
StartResult(r, p, u) ==
    /\ Start(r, p, u, [Idle EXCEPT !.pc = "compose"])
    /\ Complete(manifest[u])
    /\ ~manifest[u].committed
    /\ UNCHANGED <<scenario, manifest, stored, object, jobs, terminated, drops>>

-----------------------------------------------------------------------------
(* finalize_resumable.                                                     *)

(* read_prefix and compose, chunk by chunk, into a temporary object.        *)
ComposeChunk(r) ==
    /\ req[r].pc = "compose"
    /\ MoreChunks(r)
    /\ Copyable(Chunk(r))
    /\ req' = [req EXCEPT ![r].out = @ \o ChunkBytes(Chunk(r).key, stored[Chunk(r).key]),
                          ![r].k = @ + 1]
    /\ UNCHANGED <<scenario, manifest, stored, object, jobs, terminated, drops, spoiled>>

(* A chunk is gone or has the wrong length: the request fails.              *)
ComposeFails(r) ==
    /\ req[r].pc = "compose"
    /\ MoreChunks(r)
    /\ ~Copyable(Chunk(r))
    /\ req' = [req EXCEPT ![r] = Idle]
    /\ UNCHANGED <<scenario, manifest, stored, object, jobs, terminated, drops, spoiled>>

(* Variants for the mutation runs: the job id is saved, or the chunks are    *)
(* deleted, before the job is queued.                                        *)
CommitBeforeEnqueue(r) ==
    /\ req[r].pc = "compose"
    /\ ~MoreChunks(r)
    /\ object' = [object EXCEPT ![req[r].up] = req[r].out]
    /\ req' = [req EXCEPT ![r].pc = "commit", ![r].out = <<>>]
    /\ UNCHANGED <<scenario, manifest, stored, jobs, terminated, drops, spoiled>>

CleanupBeforeEnqueue(r) ==
    /\ req[r].pc = "compose"
    /\ ~MoreChunks(r)
    /\ object' = [object EXCEPT ![req[r].up] = req[r].out]
    /\ req' = [req EXCEPT ![r].pc = "cleanup", ![r].out = <<>>]
    /\ UNCHANGED <<scenario, manifest, stored, jobs, terminated, drops, spoiled>>

(* The temporary object becomes the object (rename, multipart completion).  *)
FinishCompose(r) ==
    /\ req[r].pc = "compose"
    /\ ~MoreChunks(r)
    /\ object' = [object EXCEPT ![req[r].up] = req[r].out]
    /\ req' = [req EXCEPT ![r].pc = "enqueue", ![r].out = <<>>]
    /\ UNCHANGED <<scenario, manifest, stored, jobs, terminated, drops, spoiled>>

(* enqueue_stored: find_by_object_key, or a new row.                        *)
EnqueueStored(r) ==
    /\ req[r].pc = "enqueue"
    /\ jobs' = jobs \cup {req[r].up}
    /\ req' = [req EXCEPT ![r].pc = "commit"]
    /\ UNCHANGED <<scenario, manifest, stored, object, terminated, drops, spoiled>>

(* The job id is saved in the manifest before any chunk is deleted.         *)
Commit(r) ==
    LET new == [req[r].man EXCEPT !.committed = TRUE]
    IN  /\ req[r].pc = "commit"
        /\ manifest' = [manifest EXCEPT ![req[r].up] = new]
        /\ req' = [req EXCEPT ![r].pc = "cleanup", ![r].man = new, ![r].k = 1]
        /\ UNCHANGED <<scenario, stored, object, jobs, terminated, drops, spoiled>>

(* cleanup_chunks runs its deletes concurrently.                            *)
CleanupChunk(r, key) ==
    /\ req[r].pc = "cleanup"
    /\ \E i \in DOMAIN req[r].man.chunks : req[r].man.chunks[i].key = key
    /\ stored[key] # 0
    /\ stored' = [stored EXCEPT ![key] = 0]
    /\ UNCHANGED <<scenario, manifest, object, jobs, req, terminated, drops, spoiled>>

(* Every delete has been answered (one that failed is only logged): the      *)
(* manifest is saved without chunks.  A final upload goes on to its parts.   *)
Compact(r) ==
    LET u == req[r].up
        new == [req[r].man EXCEPT !.chunks = <<>>]
    IN  /\ req[r].pc = "cleanup"
        /\ \/ /\ \A i \in DOMAIN req[r].man.chunks :
                    stored[req[r].man.chunks[i].key] = 0
              /\ UNCHANGED drops
           \/ drops < MaxDrops /\ drops' = drops + 1
        /\ manifest' = [manifest EXCEPT ![u] = new]
        /\ req' = [req EXCEPT ![r] =
                IF u \in Final THEN [@ EXCEPT !.pc = "parts", !.man = new] ELSE Idle]
        /\ UNCHANGED <<scenario, stored, object, jobs, terminated, spoiled>>

-----------------------------------------------------------------------------
(* POST of a final upload: a fresh id and object_key, no lock.  The client   *)
(* learns the id from the response, after finalize_resumable.                *)
StartFinal(r, p, f) ==
    /\ req[r] = Idle
    /\ f \in scenario.uploads
    /\ ~Exists(f) /\ \A q \in Request : req[q].up # f
    /\ req' = [req EXCEPT ![r] = [Idle EXCEPT !.pc = "load", !.replica = p, !.up = f]]
    /\ UNCHANGED <<scenario, manifest, stored, object, jobs, terminated, drops, spoiled>>

(* The manifest of a final upload with one more part.                       *)
Joined(m, part) ==
    [m EXCEPT !.length = @ + part.length, !.offset = @ + part.length,
              !.chunks = @ \o part.chunks]

(* Variant for the mutation runs: parts that are still incomplete are taken. *)
LoadAnyPart(r) ==
    LET part == manifest[PartList[req[r].k]]
    IN  /\ req[r].pc = "load"
        /\ req[r].k <= Len(PartList)
        /\ req' = [req EXCEPT ![r] =
                IF part # Missing
                  THEN [@ EXCEPT !.k = req[r].k + 1, !.man = Joined(req[r].man, part)]
                  ELSE Idle]
        /\ UNCHANGED <<scenario, manifest, stored, object, jobs, terminated, drops, spoiled>>

(* Load the next part; it must exist and be complete.                       *)
LoadPart(r) ==
    LET part == manifest[PartList[req[r].k]]
    IN  /\ req[r].pc = "load"
        /\ req[r].k <= Len(PartList)
        /\ req' = [req EXCEPT ![r] =
                IF part # Missing /\ Complete(part)
                  THEN [@ EXCEPT !.k = req[r].k + 1, !.man = Joined(req[r].man, part)]
                  ELSE Idle]
        /\ UNCHANGED <<scenario, manifest, stored, object, jobs, terminated, drops, spoiled>>

SaveFinal(r) ==
    /\ req[r].pc = "load"
    /\ req[r].k > Len(PartList)
    /\ manifest' = [manifest EXCEPT ![req[r].up] = req[r].man]
    /\ req' = [req EXCEPT ![r].pc = "compose", ![r].k = 1]
    /\ UNCHANGED <<scenario, stored, object, jobs, terminated, drops, spoiled>>

(* After finalize: load each part and delete its manifest; a part that is   *)
(* already gone ends the request with an error.                             *)
DropPart(r) ==
    LET part == PartList[req[r].k]
        last == req[r].k = Len(PartList)
    IN  /\ req[r].pc = "parts"
        /\ manifest' = [manifest EXCEPT ![part] = Missing]
        /\ req' = [req EXCEPT ![r] =
                IF Exists(part) /\ ~last THEN [@ EXCEPT !.k = req[r].k + 1] ELSE Idle]
        /\ UNCHANGED <<scenario, stored, object, jobs, terminated, drops, spoiled>>

-----------------------------------------------------------------------------
(* DELETE: the chunks in order, then the manifest; refused once committed.   *)
StartDelete(r, p, u) ==
    /\ Start(r, p, u, [Idle EXCEPT !.pc = "delete"])
    /\ ~manifest[u].committed
    /\ terminated' = terminated \cup {u}
    /\ UNCHANGED <<scenario, manifest, stored, object, jobs, drops>>

DeleteChunk(r) ==
    /\ req[r].pc = "delete"
    /\ MoreChunks(r)
    /\ stored' = [stored EXCEPT ![Chunk(r).key] = 0]
    /\ req' = [req EXCEPT ![r].k = @ + 1]
    /\ UNCHANGED <<scenario, manifest, object, jobs, terminated, drops, spoiled>>

DeleteState(r) ==
    /\ req[r].pc = "delete"
    /\ ~MoreChunks(r)
    /\ manifest' = [manifest EXCEPT ![req[r].up] = Missing]
    /\ req' = [req EXCEPT ![r] = Idle]
    /\ UNCHANGED <<scenario, stored, object, jobs, terminated, drops, spoiled>>

(* The request is dropped at an await point, and what it was waiting for is  *)
(* not done.                                                                 *)
Drop(r) ==
    /\ req[r] # Idle
    /\ drops < MaxDrops
    /\ drops' = drops + 1
    /\ req' = [req EXCEPT ![r] = Idle]
    /\ UNCHANGED <<scenario, manifest, stored, object, jobs, terminated, spoiled>>

(* The request is dropped, which frees its lock, while the local store still *)
(* writes or removes a file for it.  (After Commit nobody writes the upload   *)
(* any more, and a final upload has no lock to lose: there a write that is   *)
(* done later is that of a request dropped later.)                           *)
Abandon(r) ==
    /\ scenario.store = "local"
    /\ req[r].locked /\ req[r].pc \in {"put", "append", "commit", "delete"}
    /\ drops < MaxDrops
    /\ drops' = drops + 1
    /\ req' = [req EXCEPT ![r].locked = FALSE]
    /\ UNCHANGED <<scenario, manifest, stored, object, jobs, terminated, spoiled>>

(* The file is written or removed in the end.                               *)
Land(r) ==
    LET u == req[r].up
    IN  /\ Gone(r)
        /\ \/ /\ req[r].pc = "put"
              /\ stored' = [stored EXCEPT ![<<u, req[r].offset>>] = req[r].size]
              /\ UNCHANGED manifest
           \/ /\ req[r].pc = "append"
              /\ manifest' = [manifest EXCEPT ![u] = WithChunk(r)]
              /\ UNCHANGED stored
           \/ /\ req[r].pc = "commit"
              /\ manifest' = [manifest EXCEPT ![u] = [req[r].man EXCEPT !.committed = TRUE]]
              /\ UNCHANGED stored
           \/ /\ req[r].pc = "delete" /\ MoreChunks(r)
              /\ stored' = [stored EXCEPT ![Chunk(r).key] = 0]
              /\ UNCHANGED manifest
           \/ /\ req[r].pc = "delete" /\ ~MoreChunks(r)
              /\ manifest' = [manifest EXCEPT ![u] = Missing]
              /\ UNCHANGED stored
        /\ req' = [req EXCEPT ![r] = Idle]
        /\ UNCHANGED <<scenario, object, jobs, terminated, drops, spoiled>>

(* The file was opened, which empties it, and never written: the process     *)
(* dies or the disk is full.  Handlers refuse an unreadable manifest as they  *)
(* refuse a missing one; a chunk of the wrong length is as good as none.     *)
Tear(r) ==
    /\ Gone(r)
    /\ \/ /\ req[r].pc = "put"
          /\ stored' = [stored EXCEPT ![<<req[r].up, req[r].offset>>] = 0]
          /\ UNCHANGED <<manifest, spoiled>>
       \/ /\ req[r].pc \in {"append", "commit"}
          /\ manifest' = [manifest EXCEPT ![req[r].up] = Missing]
          /\ spoiled' = spoiled \cup {req[r].up}
          /\ UNCHANGED stored
    /\ req' = [req EXCEPT ![r] = Idle]
    /\ UNCHANGED <<scenario, object, jobs, terminated, drops>>

-----------------------------------------------------------------------------
Step(r) ==
    /\ ~Gone(r)
    /\ \/ PutChunk(r) \/ SaveAppend(r)
       \/ ComposeChunk(r) \/ ComposeFails(r) \/ FinishCompose(r)
       \/ EnqueueStored(r) \/ Commit(r)
       \/ \E key \in ChunkKey : CleanupChunk(r, key)
       \/ Compact(r)
       \/ LoadPart(r) \/ SaveFinal(r) \/ DropPart(r)
       \/ DeleteChunk(r) \/ DeleteState(r)

Interrupted(r) == Drop(r) \/ Abandon(r) \/ Land(r) \/ Tear(r)

Next ==
    \/ \E u \in Plain \cup Partial : Create(u)
    \/ \E r \in Request, p \in scenario.replicas :
         \/ \E u \in Plain : StartResult(r, p, u)
         \/ \E u \in Plain \cup Partial : StartDelete(r, p, u)
         \/ \E key \in ChunkKey, size \in scenario.chunks :
              StartPatch(r, p, key[1], key[2], size)
         \/ \E f \in Final : StartFinal(r, p, f)
    \/ \E r \in Request : Step(r) \/ Interrupted(r)

Spec == Init /\ [][Next]_vars

(* A request that is not dropped goes on, and the threads of the store do    *)
(* what they were given; the client of a complete upload keeps asking for    *)
(* the result, and the lock (a fair mutex) lets it in.                       *)
FairSpec ==
    /\ Spec
    /\ \A r \in Request : WF_vars(Step(r)) /\ WF_vars(Land(r) \/ Tear(r))
    /\ \A u \in Plain : SF_vars(\E r \in Request, p \in scenario.replicas : StartResult(r, p, u))

-----------------------------------------------------------------------------
(* Properties.                                                             *)

(* The bytes of the file an upload stands for.                              *)
FileBytes(u) ==
    LET bytes(v) == [i \in 1..Size[v] |-> <<v, i - 1>>]
    IN  IF u \in Final THEN FlattenSeq([k \in DOMAIN PartList |-> bytes(PartList[k])])
                       ELSE bytes(u)

(* The input of a queued job is the client's file, whole and in order,       *)
(* however its requests were retried, raced, dropped or overtaken by a       *)
(* delete.                                                                   *)
ObjectIsWhole == \A u \in jobs : object[u] = FileBytes(u)

(* A manifest that names a job names one that exists ("completed upload job  *)
(* is missing" never happens).                                               *)
CommittedHasJob == \A u \in Upload : manifest[u].committed => u \in jobs

Intact(m) == \A i \in DOMAIN m.chunks : stored[m.chunks[i].key] = m.chunks[i].size

(* What the server acknowledged is never lost: as long as nobody deletes the *)
(* upload, the chunks of its manifest are stored as the manifest says, or    *)
(* its job is recorded (for a partial upload: queued).  The exceptions are   *)
(* the two cases in which the lock does not help: two processes work on the  *)
(* upload at once, or a write of a dropped request on the local store is cut *)
(* short or still under way when the next request takes the lock.            *)
AcknowledgedBytesSurvive ==
    \A u \in (Plain \cup Partial) \ (terminated \cup spoiled) :
        \/ Intact(manifest[u])
        \/ manifest[u].committed
        \/ u \in Partial /\ Delivered(u)

(* Once an upload's job is recorded, its result stays available: no request  *)
(* writes an older manifest back or deletes it, one that was dropped on its  *)
(* way included (with the same two exceptions).                              *)
ResultStaysAvailable ==
    [][\A u \in Upload \ spoiled : manifest[u].committed => manifest'[u].committed]_vars

(* "A lost completion response reuses that row rather than queueing the image *)
(* twice" (docs/architecture.md): the file of the partial uploads is queued   *)
(* at most once.                                                             *)
OneSolvePerImage == Cardinality(jobs \cap Final) <= 1

(* A completely received upload is queued and its result becomes available,  *)
(* although requests are dropped at any point of its finalization (unless a  *)
(* stale or torn write takes the manifest back, as above).                   *)
CompleteUploadIsQueued ==
    \A u \in Plain :
        (Exists(u) /\ Complete(manifest[u]))
            ~> (manifest[u].committed \/ u \in terminated \cup spoiled)
=============================================================================
