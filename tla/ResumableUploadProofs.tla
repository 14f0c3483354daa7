------------------------ MODULE ResumableUploadProofs -----------------------
(***************************************************************************)
(* Proofs about uploads, for any uploads, sizes, chunks, parts, requests,    *)
(* API processes and dropped requests.  What needs the lock of an upload is  *)
(* proved of the uploads that it protects (those not in `spoiled'); what the *)
(* object store checks by itself, of all of them.                            *)
(***************************************************************************)
EXTENDS ResumableUpload, WellFoundedInduction, TLAPS

-----------------------------------------------------------------------------
(* Types.                                                                    *)

Single == Plain \cup Partial

ChunkRecord == [key : ChunkKey, size : Nat \ {0}]
Manifest == [offset : Nat, length : Nat, chunks : Seq(ChunkRecord), committed : BOOLEAN]
Byte == Single \X Nat

Pcs == {"idle", "put", "append", "compose", "enqueue", "commit", "cleanup", "load", "parts",
        "delete"}

Process == UNION {s.replicas : s \in Scenarios}
Replica == Process \cup {NoUpload}

RequestState ==
    [pc : Pcs, replica : Replica, locked : BOOLEAN, up : Upload \cup {NoUpload},
     offset : Nat, size : Nat, man : Manifest, k : Nat \ {0}, out : Seq(Byte)]

(* What a request has in hand at each of its steps; partial uploads are      *)
(* never finalized.                                                          *)
Finalizing == {"compose", "enqueue", "commit", "cleanup"}
Carries(x) ==
    /\ x.pc = "idle" => x = Idle
    /\ x.pc # "idle" => x.up \in Upload /\ x.replica \in scenario.replicas
    /\ x.pc \in {"put", "append", "delete"} => x.up \in Single
    /\ x.pc \in {"put", "append"} => <<x.up, x.offset>> \in ChunkKey /\ x.size \in Nat \ {0}
    /\ x.pc \in Finalizing => x.up \in Plain \cup Final
    /\ x.pc \in {"load", "parts"} => x.up \in Final
    /\ x.pc \in {"put", "append"} => x.k = 1
    /\ x.pc \in {"put", "append", "load"} => x.out = <<>>
    /\ x.pc = "load" => x.k <= Len(PartList) + 1
    /\ x.pc = "compose" => x.k <= Len(x.man.chunks) + 1
    /\ x.pc = "cleanup" => x.k = 1
    /\ x.pc = "parts" => x.k <= Len(PartList)

RequestTypes == req \in [Request -> RequestState] /\ \A r \in Request : Carries(req[r])

(* Types of the variables that the code has.                                 *)
TypeOK ==
    /\ scenario \in Scenarios
    /\ manifest \in [Upload -> Manifest]
    /\ stored \in [ChunkKey -> Nat]
    /\ object \in [Upload -> Seq(Byte)]
    /\ jobs \subseteq Upload /\ terminated \subseteq Upload
    /\ drops \in Nat
    /\ RequestTypes

-----------------------------------------------------------------------------
(* The invariants.                                                           *)

Busy(r) == req[r].pc # "idle"

(* A job is stored before any manifest says so.                              *)
KnowsJob(x) ==
    /\ x.man.committed => x.up \in jobs
    /\ x.pc \in {"commit", "cleanup", "parts"} => x.up \in jobs

JobsLead == CommittedHasJob /\ \A r \in Request : KnowsJob(req[r])

(* Chunks of one upload follow each other; where one part ends, the next one *)
(* begins.                                                                   *)
PartEnds(u, n, d) ==
    \E j \in 1..(Len(PartList) - 1) :
        u = PartList[j] /\ n = Size[u] /\ d = <<PartList[j + 1], 0>>
NextTo(c, d) == d.key = <<c.key[1], c.key[2] + c.size>> \/ PartEnds(c.key[1], c.key[2] + c.size, d.key)
Linked(chunks) == \A i \in 1..(Len(chunks) - 1) : NextTo(chunks[i], chunks[i + 1])

Owns(u, m) ==
    \A i \in 1..Len(m.chunks) : m.chunks[i].key[1] = u /\ m.chunks[i].key[2] + m.chunks[i].size <= m.offset

(* The manifest of an upload that has no job yet: its chunks cover the bytes *)
(* up to its offset, and it owns no others.                                  *)
Shaped(u, m) ==
    /\ m.length = Size[u] /\ m.offset <= m.length
    /\ m.chunks = <<>> => m.offset = 0
    /\ m.chunks # <<>> =>
         LET n == Len(m.chunks)
         IN  m.chunks[1].key = <<u, 0>> /\ m.chunks[n].key[2] + m.chunks[n].size = m.offset
    /\ Linked(m.chunks)

(* The chunks of a final upload, when n of its parts have been loaded.       *)
Gathered(m, n) ==
    /\ \A i \in 1..Len(m.chunks) : m.chunks[i].key[1] \in Partial
    /\ n = 0 <=> m.chunks = <<>>
    /\ n > 0 =>
         LET l == m.chunks[Len(m.chunks)]
         IN  /\ m.chunks[1].key = <<PartList[1], 0>>
             /\ l.key[1] = PartList[n] /\ l.key[2] + l.size = Size[PartList[n]]
    /\ Linked(m.chunks)

(* What the manifest that a request works on looks like.                     *)
Fits(x) ==
    /\ x.pc # "idle" /\ x.up \in Single => Owns(x.up, x.man)
    /\ x.pc \in {"put", "append"} =>
         /\ ~x.man.committed /\ Shaped(x.up, x.man)
         /\ x.offset = x.man.offset /\ x.offset + x.size <= x.man.length
    /\ x.pc \in {"compose", "enqueue", "commit"} /\ x.up \in Plain =>
         Shaped(x.up, x.man) /\ Complete(x.man) /\ ~x.man.committed
    /\ x.pc = "delete" => ~x.man.committed
    /\ x.pc = "load" => Gathered(x.man, x.k - 1) /\ ~x.man.committed
    /\ x.pc \in {"compose", "enqueue", "commit"} /\ x.up \in Final =>
         Gathered(x.man, Len(PartList)) /\ ~x.man.committed
    /\ x.pc = "cleanup" => x.man.committed
    /\ x.pc = "cleanup" /\ x.up \in Final =>
         \A i \in 1..Len(x.man.chunks) : x.man.chunks[i].key[1] \in Partial
    /\ x.pc = "parts" => x.man.committed /\ x.man.chunks = <<>>

(* What a stored manifest looks like.                                        *)
Storable(u, m) ==
    /\ Owns(u, m)
    /\ m # Missing /\ ~m.committed => Shaped(u, m)
    /\ u \in Partial => ~m.committed

ManifestsFit ==
    /\ \A u \in Single : Storable(u, manifest[u])
    /\ \A r \in Request : Fits(req[r])

Base == TypeOK /\ JobsLead /\ ManifestsFit

-----------------------------------------------------------------------------
(* What the lock adds, for the uploads that it protects.                     *)

OneHolder ==
    \A q, r \in Request :
        Busy(q) /\ Busy(r) /\ req[q].up = req[r].up /\ req[q].up \notin spoiled => q = r

(* A complete part stays complete until it is deleted for good.              *)
Closed(u) ==
    u \notin spoiled =>
        /\ Complete(manifest[u])
        /\ manifest[u] = Missing => u \in terminated \/ jobs \cap Final # {}

(* What a request loaded or saved is still what is stored, and the chunk it  *)
(* put is there; the parts it has loaded are closed; a deletion is on record. *)
UpToDate(x) ==
    x.up \notin spoiled =>
        /\ x.pc \in {"put", "append", "compose", "enqueue", "commit", "cleanup", "parts"}
             => x.man = manifest[x.up]
        /\ x.pc = "delete" /\ x.up \in Plain => x.man = manifest[x.up]
        /\ x.pc = "load" => manifest[x.up] = Missing
        /\ x.pc = "append" => stored[<<x.up, x.offset>>] = x.size
PartsClosed(x) ==
    x.pc # "idle" /\ x.up \in Final =>
        /\ \A i \in 1..Len(PartList) : (x.pc = "load" => i < x.k) => Closed(PartList[i])
        /\ \A i \in 1..Len(x.man.chunks) : Closed(x.man.chunks[i].key[1])
Current(x) ==
    /\ UpToDate(x) /\ PartsClosed(x)
    /\ x.pc = "delete" => x.up \in terminated

(* A stored chunk has the size that the manifests say.                       *)
SizesAgree(m) ==
    \A i \in 1..Len(m.chunks) :
        m.chunks[i].key[1] \notin spoiled => stored[m.chunks[i].key] \in {0, m.chunks[i].size}
AllAgree ==
    /\ \A u \in Single : SizesAgree(manifest[u])
    /\ \A r \in Request : Busy(r) /\ req[r].up \in Final => SizesAgree(req[r].man)

LockInv ==
    /\ OneHolder /\ AllAgree
    /\ \A r \in Request : Current(req[r])
    /\ AcknowledgedBytesSurvive

-----------------------------------------------------------------------------
(* The order of the bytes.                                                   *)

FirstByte(u) == <<IF u \in Final THEN PartList[1] ELSE u, 0>>
LastByte(u) ==
    LET v == IF u \in Final THEN PartList[Len(PartList)] ELSE u IN <<v, Size[v] - 1>>

(* Byte c comes after byte b.                                                *)
Follows(b, c) == c = <<b[1], b[2] + 1>> \/ PartEnds(b[1], b[2] + 1, c)

Ordered(u, s) ==
    /\ s \in Seq(ChunkKey) /\ s # <<>> /\ s[1] = FirstByte(u)
    /\ \A i \in 1..(Len(s) - 1) : Follows(s[i], s[i + 1])

(* s is the file that upload u stands for, first byte to last.               *)
InOrder(u, s) == Ordered(u, s) /\ s[Len(s)] = LastByte(u)

(* The bytes of a multipart copy are those that the manifest names: the      *)
(* local store compares the sizes, and the locks keep them.                  *)
Trusted == scenario.store = "local" \/ spoiled = {}

(* What has been composed so far ends where the last chunk taken ends.       *)
ComposedSoFar(x) ==
    /\ x.k = 1 => x.out = <<>>
    /\ x.k > 1 =>
         LET c == x.man.chunks[x.k - 1]
         IN  /\ Ordered(x.up, x.out)
             /\ x.out[Len(x.out)] = <<c.key[1], c.key[2] + c.size - 1>>

(* No stored chunk reaches beyond its upload.                                *)
StoreFits == \A c \in ChunkKey : c[2] + stored[c] <= Size[c[1]]

ObjectInv ==
    /\ StoreFits
    /\ \A u \in Upload : object[u] # <<>> => InOrder(u, object[u])
    /\ \A u \in jobs : u \in Plain \cup Final /\ object[u] # <<>>
    /\ \A r \in Request :
         /\ req[r].pc = "compose" => ComposedSoFar(req[r])
         /\ req[r].pc = "enqueue" => object[req[r].up] # <<>>

-----------------------------------------------------------------------------
(* Constants.                                                                *)

LEMMA Lists ==
    /\ PartList \in Seq(Partial) /\ Len(PartList) \in Nat \ {0}
    /\ \A i \in 1..Len(PartList) : PartList[i] \in Partial
BY ResumableUploadAssumptions

LEMMA Kinds ==
    /\ \A u \in Single : u \in Upload /\ u \notin Final /\ Size[u] \in Nat \ {0}
    /\ \A u \in Final : u \in Upload /\ u \notin Single
    /\ \A u \in Upload : u \in Plain \/ u \in Partial \/ u \in Final
    /\ \A u \in Plain : u \in Single /\ u \notin Partial
    /\ \A u \in Partial : u \in Single /\ u \notin Plain
    /\ NoUpload \notin Upload
BY ResumableUploadAssumptions DEF Single, Upload

LEMMA Keys ==
    /\ \A c \in ChunkKey : c = <<c[1], c[2]>> /\ c[1] \in Single /\ c[2] \in Nat /\ c[2] < Size[c[1]]
    /\ \A u \in Single, n \in Nat : n < Size[u] => <<u, n>> \in ChunkKey
<1>1. ASSUME NEW c \in ChunkKey
      PROVE  c = <<c[1], c[2]>> /\ c[1] \in Single /\ c[2] \in Nat /\ c[2] < Size[c[1]]
  <2>1. PICK u \in Single : c \in {u} \X (0..(Size[u] - 1))
    BY DEF ChunkKey, Single
  <2>2. c = <<c[1], c[2]>> /\ c[1] = u /\ c[2] \in 0..(Size[u] - 1)
    BY <2>1
  <2>3. QED BY <2>2, Kinds
<1>2. ASSUME NEW u \in Single, NEW n \in Nat, n < Size[u]
      PROVE  <<u, n>> \in ChunkKey
  <2>1. n \in 0..(Size[u] - 1)
    BY <1>2, Kinds
  <2>2. <<u, n>> \in {u} \X (0..(Size[u] - 1))
    BY <2>1
  <2>3. QED BY <2>2 DEF ChunkKey, Single
<1>3. QED BY <1>1, <1>2

LEMMA MissingFacts ==
    /\ Missing \in Manifest /\ Missing.offset = 0 /\ Missing.length = 0 /\ Missing.chunks = <<>>
    /\ Missing.committed = FALSE
BY DEF Missing, Manifest

LEMMA IdleFacts ==
    /\ Idle \in RequestState /\ Idle.pc = "idle" /\ Idle.replica = NoUpload /\ Idle.locked = FALSE
    /\ Idle.up = NoUpload /\ Idle.offset = 0 /\ Idle.size = 0 /\ Idle.man = Missing
    /\ Idle.k = 1 /\ Idle.out = <<>>
<1>1. NoUpload \in Replica
  BY DEF Replica
<1>2. <<>> \in Seq(Byte)
  OBVIOUS
<1>3. QED BY <1>1, <1>2, MissingFacts DEF Idle, RequestState, Pcs

-----------------------------------------------------------------------------
(* What the steps do, field by field.                                        *)

Moves(r, x) == x \in RequestState /\ req' = [req EXCEPT ![r] = x]

(* x is the request y, further on.                                           *)
Same(x, y) ==
    /\ x.replica = y.replica /\ x.locked = y.locked /\ x.up = y.up
    /\ x.offset = y.offset /\ x.size = y.size

(* The request is over.                                                      *)
Over(r) == Moves(r, Idle)

Writes(u, m) == m \in Manifest /\ manifest' = [manifest EXCEPT ![u] = m]

LEMMA Moved ==
    ASSUME TypeOK, NEW r \in Request, NEW x, Moves(r, x)
    PROVE  /\ req' \in [Request -> RequestState] /\ req'[r] = x
           /\ \A q \in Request : q # r => req'[q] = req[q]
BY DEF TypeOK, RequestTypes, Moves

LEMMA Written ==
    ASSUME TypeOK, NEW u \in Upload, NEW m, Writes(u, m)
    PROVE  /\ manifest' \in [Upload -> Manifest] /\ manifest'[u] = m
           /\ \A v \in Upload : v # u => manifest'[v] = manifest[v]
BY DEF TypeOK, Writes

Begins(r, p, u, pc, offset, size) ==
    \E x : /\ Moves(r, x) /\ x.pc = pc /\ x.replica = p /\ x.locked = TRUE /\ x.up = u
           /\ x.offset = offset /\ x.size = size /\ x.man = manifest[u] /\ x.k = 1 /\ x.out = <<>>

LEMMA StartBegins ==
    ASSUME TypeOK, NEW r \in Request, NEW p \in scenario.replicas, NEW u \in Upload,
           NEW y \in RequestState, Start(r, p, u, y), y.k = 1, y.out = <<>>
    PROVE  Begins(r, p, u, y.pc, y.offset, y.size)
<1>1. PICK x : x = [y EXCEPT !.replica = p, !.locked = TRUE, !.up = u, !.man = manifest[u]]
  OBVIOUS
<1>2. p \in Replica /\ manifest[u] \in Manifest
  BY DEF TypeOK, Replica, Process
<1>3. /\ x \in RequestState /\ x.pc = y.pc /\ x.replica = p /\ x.locked = TRUE /\ x.up = u
      /\ x.offset = y.offset /\ x.size = y.size /\ x.man = manifest[u] /\ x.k = 1 /\ x.out = <<>>
  BY <1>1, <1>2 DEF RequestState
<1>4. req' = [req EXCEPT ![r] = x]
  BY <1>1 DEF Start
<1>5. QED BY <1>3, <1>4 DEF Begins, Moves

LEMMA PatchBegins ==
    ASSUME TypeOK, NEW r \in Request, NEW p \in scenario.replicas, NEW c \in ChunkKey,
           NEW size \in scenario.chunks, StartPatch(r, p, c[1], c[2], size)
    PROVE  /\ c[1] \in Single /\ c[2] \in Nat /\ size \in Nat \ {0}
           /\ Begins(r, p, c[1], "put", c[2], size)
<1>1. c[1] \in Single /\ c[1] \in Upload /\ c[2] \in Nat
  BY Keys, Kinds
<1>2. size \in Nat \ {0}
  BY ResumableUploadAssumptions DEF TypeOK, Scenario
<1>3. PICK y : y = [Idle EXCEPT !.pc = "put", !.offset = c[2], !.size = size]
  OBVIOUS
<1>4. /\ y \in RequestState /\ y.pc = "put" /\ y.offset = c[2] /\ y.size = size
      /\ y.k = 1 /\ y.out = <<>>
  BY <1>1, <1>2, <1>3, IdleFacts DEF RequestState, Pcs
<1>5. Start(r, p, c[1], y)
  BY <1>3 DEF StartPatch
<1>6. Begins(r, p, c[1], y.pc, y.offset, y.size)
  BY <1>1, <1>4, <1>5, StartBegins
<1>7. QED BY <1>1, <1>2, <1>4, <1>6

LEMMA OtherBegins ==
    ASSUME TypeOK, NEW r \in Request, NEW p \in scenario.replicas, NEW u \in Upload,
           NEW pc \in Pcs, Start(r, p, u, [Idle EXCEPT !.pc = pc])
    PROVE  Begins(r, p, u, pc, 0, 0)
<1>1. PICK y : y = [Idle EXCEPT !.pc = pc]
  OBVIOUS
<1>2. y \in RequestState /\ y.pc = pc /\ y.offset = 0 /\ y.size = 0 /\ y.k = 1 /\ y.out = <<>>
  BY <1>1, IdleFacts DEF RequestState
<1>3. Begins(r, p, u, y.pc, y.offset, y.size)
  BY <1>1, <1>2, StartBegins
<1>4. QED BY <1>2, <1>3

(* The request goes on at pc with this manifest, position and output.        *)
Goes(r, pc, m, k, out) ==
    \E x : /\ Moves(r, x) /\ x.pc = pc /\ Same(x, req[r])
           /\ x.man = m /\ x.k = k /\ x.out = out

LEMMA ReqFields ==
    ASSUME TypeOK, NEW r \in Request
    PROVE  /\ req \in [Request -> RequestState] /\ req[r] \in RequestState /\ Carries(req[r])
           /\ req[r].man \in Manifest /\ req[r].man.chunks \in Seq(ChunkRecord)
           /\ req[r].k \in Nat \ {0} /\ req[r].out \in Seq(Byte)
           /\ req[r].offset \in Nat /\ req[r].size \in Nat
           /\ req[r].man.offset \in Nat /\ req[r].man.length \in Nat
           /\ req[r].man.committed \in BOOLEAN
<1>1. req \in [Request -> RequestState] /\ req[r] \in RequestState /\ Carries(req[r])
  BY DEF TypeOK, RequestTypes
<1>2. /\ req[r].man \in Manifest /\ req[r].k \in Nat \ {0} /\ req[r].out \in Seq(Byte)
      /\ req[r].offset \in Nat /\ req[r].size \in Nat
  BY <1>1 DEF RequestState
<1>3. QED BY <1>1, <1>2 DEF Manifest

LEMMA GoesPc ==
    ASSUME TypeOK, NEW r \in Request, NEW pc \in Pcs, req' = [req EXCEPT ![r].pc = pc]
    PROVE  Goes(r, pc, req[r].man, req[r].k, req[r].out)
<1>1. PICK x : x = [req[r] EXCEPT !.pc = pc]
  OBVIOUS
<1>2. /\ x \in RequestState /\ x.pc = pc /\ Same(x, req[r]) /\ x.man = req[r].man
      /\ x.k = req[r].k /\ x.out = req[r].out
  BY <1>1, ReqFields DEF RequestState, Same
<1>3. req' = [req EXCEPT ![r] = x]
  BY <1>1, ReqFields
<1>4. QED BY <1>2, <1>3 DEF Goes, Moves

LEMMA GoesK ==
    ASSUME TypeOK, NEW r \in Request, req' = [req EXCEPT ![r].k = @ + 1]
    PROVE  Goes(r, req[r].pc, req[r].man, req[r].k + 1, req[r].out)
<1>1. PICK x : x = [req[r] EXCEPT !.k = @ + 1]
  OBVIOUS
<1>2. req[r] \in RequestState /\ req[r].k + 1 \in Nat \ {0}
  BY ReqFields
<1>3. /\ x \in RequestState /\ x.pc = req[r].pc /\ Same(x, req[r]) /\ x.man = req[r].man
      /\ x.k = req[r].k + 1 /\ x.out = req[r].out
  BY <1>1, <1>2 DEF RequestState, Same
<1>4. req' = [req EXCEPT ![r] = x]
  BY <1>1, ReqFields
<1>5. QED BY <1>3, <1>4 DEF Goes, Moves

LEMMA PutEffect ==
    ASSUME TypeOK, NEW r \in Request, PutChunk(r)
    PROVE  /\ req[r].pc = "put" /\ <<req[r].up, req[r].offset>> \in ChunkKey
           /\ Goes(r, "append", req[r].man, req[r].k, req[r].out)
           /\ stored' = [stored EXCEPT ![<<req[r].up, req[r].offset>>] = req[r].size]
           /\ UNCHANGED <<scenario, manifest, object, jobs, terminated, drops>>
BY GoesPc, ReqFields DEF PutChunk, Pcs, Carries

(* append's save of the manifest with one more chunk.                        *)
Appended(m, y, c) ==
    /\ c \in ChunkRecord /\ c.key = <<y.up, y.offset>> /\ c.size = y.size
    /\ m \in Manifest /\ m.offset = y.offset + y.size /\ m.length = y.man.length
    /\ m.committed = y.man.committed /\ m.chunks = Append(y.man.chunks, c)

LEMMA WithOneMore ==
    ASSUME TypeOK, NEW r \in Request, req[r].pc = "append",
           NEW c, c = [key |-> <<req[r].up, req[r].offset>>, size |-> req[r].size],
           NEW m, m = [req[r].man EXCEPT !.offset = req[r].offset + req[r].size, !.chunks = Append(@, c)]
    PROVE  Appended(m, req[r], c)
<1>1. /\ req[r].up \in Single /\ <<req[r].up, req[r].offset>> \in ChunkKey
      /\ req[r].size \in Nat \ {0}
  BY ReqFields DEF Carries
<1>2. c \in ChunkRecord /\ c.key = <<req[r].up, req[r].offset>> /\ c.size = req[r].size
  BY <1>1 DEF ChunkRecord
<1>3. /\ Append(req[r].man.chunks, c) \in Seq(ChunkRecord)
      /\ req[r].offset + req[r].size \in Nat /\ req[r].man \in Manifest
  BY <1>2, ReqFields
<1>4. QED BY <1>2, <1>3 DEF Manifest, Appended

LEMMA AppendEffect ==
    ASSUME TypeOK, NEW r \in Request, SaveAppend(r)
    PROVE  /\ req[r].pc = "append" /\ req[r].up \in Single
           /\ \E m, c : /\ Appended(m, req[r], c) /\ Writes(req[r].up, m)
                        /\ \/ /\ Complete(m) /\ req[r].up \in Plain
                              /\ Goes(r, "compose", m, req[r].k, req[r].out)
                           \/ ~(Complete(m) /\ req[r].up \in Plain) /\ Over(r)
           /\ UNCHANGED <<scenario, stored, object, jobs, terminated, drops>>
<1>1. req[r].pc = "append" /\ UNCHANGED <<scenario, stored, object, jobs, terminated, drops>>
  BY DEF SaveAppend
<1>2. /\ req[r].up \in Single /\ <<req[r].up, req[r].offset>> \in ChunkKey
      /\ req[r].size \in Nat \ {0}
  BY <1>1, ReqFields DEF Carries
<1>3. PICK c : c = [key |-> <<req[r].up, req[r].offset>>, size |-> req[r].size]
  OBVIOUS
<1>5. PICK m : m = [req[r].man EXCEPT !.offset = req[r].offset + req[r].size, !.chunks = Append(@, c)]
  OBVIOUS
<1>7. Appended(m, req[r], c)
  BY <1>1, <1>3, <1>5, WithOneMore
<1>8. manifest' = [manifest EXCEPT ![req[r].up] = m]
  BY <1>3, <1>5 DEF SaveAppend, WithChunk
<1>9. Writes(req[r].up, m)
  BY <1>7, <1>8 DEF Writes, Appended
<1>10. req' = [req EXCEPT ![r] = IF Complete(m) /\ req[r].up \in Plain
                                   THEN [req[r] EXCEPT !.pc = "compose", !.man = m] ELSE Idle]
  BY <1>3, <1>5, ReqFields DEF SaveAppend, WithChunk
<1>11. CASE Complete(m) /\ req[r].up \in Plain
  <2>1. PICK x : x = [req[r] EXCEPT !.pc = "compose", !.man = m]
    OBVIOUS
  <2>2. /\ x \in RequestState /\ x.pc = "compose" /\ Same(x, req[r]) /\ x.man = m
        /\ x.k = req[r].k /\ x.out = req[r].out
    BY <1>7, <2>1, ReqFields DEF RequestState, Same, Pcs, Appended
  <2>3. req' = [req EXCEPT ![r] = x]
    BY <1>10, <1>11, <2>1
  <2>4. Goes(r, "compose", m, req[r].k, req[r].out)
    BY <2>2, <2>3 DEF Goes, Moves
  <2>5. QED BY <1>1, <1>2, <1>7, <1>9, <1>11, <2>4
<1>12. CASE ~(Complete(m) /\ req[r].up \in Plain)
  <2>1. Over(r)
    BY <1>10, <1>12, IdleFacts DEF Over, Moves
  <2>2. QED BY <1>1, <1>2, <1>7, <1>9, <1>12, <2>1
<1>13. QED BY <1>11, <1>12

LEMMA ChunkBytesFacts ==
    ASSUME NEW c \in ChunkKey, NEW n \in Nat
    PROVE  /\ ChunkBytes(c, n) \in Seq(Byte) /\ Len(ChunkBytes(c, n)) = n
           /\ \A i \in 1..n : ChunkBytes(c, n)[i] = <<c[1], c[2] + i - 1>>
<1>1. \A i \in 1..n : <<c[1], c[2] + i - 1>> \in Byte
  BY Keys DEF Byte
<1>2. ChunkBytes(c, n) \in [1..n -> Byte]
  BY <1>1 DEF ChunkBytes
<1>3. QED BY <1>2 DEF ChunkBytes

LEMMA ComposeEffect ==
    ASSUME TypeOK, NEW r \in Request, ComposeChunk(r)
    PROVE  /\ req[r].pc = "compose" /\ req[r].k <= Len(req[r].man.chunks) /\ Copyable(Chunk(r))
           /\ Chunk(r) \in ChunkRecord
           /\ Goes(r, "compose", req[r].man, req[r].k + 1,
                   req[r].out \o ChunkBytes(Chunk(r).key, stored[Chunk(r).key]))
           /\ UNCHANGED <<scenario, manifest, stored, object, jobs, terminated, drops>>
<1>1. /\ req[r].pc = "compose" /\ req[r].k <= Len(req[r].man.chunks) /\ Copyable(Chunk(r))
      /\ UNCHANGED <<scenario, manifest, stored, object, jobs, terminated, drops>>
  BY DEF ComposeChunk, MoreChunks
<1>2. Chunk(r) \in ChunkRecord
  BY <1>1, ReqFields DEF Chunk
<1>3. Chunk(r).key \in ChunkKey /\ stored[Chunk(r).key] \in Nat
  BY <1>2 DEF ChunkRecord, TypeOK
<1>4. PICK b : b = ChunkBytes(Chunk(r).key, stored[Chunk(r).key])
  OBVIOUS
<1>5. /\ req[r] \in RequestState /\ req[r].k + 1 \in Nat \ {0}
      /\ req[r].out \o b \in Seq(Byte)
  <2>1. b \in Seq(Byte) /\ req[r].out \in Seq(Byte)
    BY <1>3, <1>4, ChunkBytesFacts, ReqFields
  <2>2. req[r].out \o b \in Seq(Byte)
    BY <2>1
  <2>3. QED BY <2>2, ReqFields
<1>6. PICK x : x = [req[r] EXCEPT !.out = @ \o b, !.k = @ + 1]
  OBVIOUS
<1>7. /\ x \in RequestState /\ x.pc = "compose" /\ Same(x, req[r]) /\ x.man = req[r].man
      /\ x.k = req[r].k + 1 /\ x.out = req[r].out \o b
  BY <1>1, <1>5, <1>6 DEF RequestState, Same
<1>8. req' = [req EXCEPT ![r].out = @ \o b, ![r].k = @ + 1]
  BY <1>4 DEF ComposeChunk
<1>9. req' = [req EXCEPT ![r] = x]
  BY <1>6, <1>8, ReqFields
<1>10. QED BY <1>1, <1>2, <1>4, <1>7, <1>9 DEF Goes, Moves

LEMMA FinishEffect ==
    ASSUME TypeOK, NEW r \in Request, FinishCompose(r)
    PROVE  /\ req[r].pc = "compose" /\ req[r].k > Len(req[r].man.chunks) /\ req[r].up \in Upload
           /\ Goes(r, "enqueue", req[r].man, req[r].k, <<>>)
           /\ object' = [object EXCEPT ![req[r].up] = req[r].out]
           /\ UNCHANGED <<scenario, manifest, stored, jobs, terminated, drops>>
<1>1. /\ req[r].pc = "compose" /\ ~(req[r].k <= Len(req[r].man.chunks))
      /\ object' = [object EXCEPT ![req[r].up] = req[r].out]
      /\ UNCHANGED <<scenario, manifest, stored, jobs, terminated, drops>>
      /\ req' = [req EXCEPT ![r].pc = "enqueue", ![r].out = <<>>]
  BY DEF FinishCompose, MoreChunks
<1>2. PICK x : x = [req[r] EXCEPT !.pc = "enqueue", !.out = <<>>]
  OBVIOUS
<1>3. <<>> \in Seq(Byte) /\ req[r] \in RequestState
  BY ReqFields
<1>4. /\ x \in RequestState /\ x.pc = "enqueue" /\ Same(x, req[r]) /\ x.man = req[r].man
      /\ x.k = req[r].k /\ x.out = <<>>
  BY <1>2, <1>3 DEF RequestState, Same, Pcs
<1>5. req' = [req EXCEPT ![r] = x]
  BY <1>1, <1>2, ReqFields
<1>6. req[r].k > Len(req[r].man.chunks) /\ req[r].up \in Upload
  <2>1. req[r].k \in Nat /\ Len(req[r].man.chunks) \in Nat
    BY ReqFields
  <2>2. req[r].up \in Upload
    BY <1>1, ReqFields DEF Carries
  <2>3. QED BY <1>1, <2>1, <2>2
<1>7. QED BY <1>1, <1>4, <1>5, <1>6 DEF Goes, Moves

LEMMA EnqueueEffect ==
    ASSUME TypeOK, NEW r \in Request, EnqueueStored(r)
    PROVE  /\ req[r].pc = "enqueue" /\ req[r].up \in Upload
           /\ Goes(r, "commit", req[r].man, req[r].k, req[r].out)
           /\ jobs' = jobs \cup {req[r].up}
           /\ UNCHANGED <<scenario, manifest, stored, object, terminated, drops>>
BY GoesPc, ReqFields DEF EnqueueStored, Pcs, Carries

(* m is the manifest n, with these chunks and this mark.                     *)
Remade(m, n, chunks, mark) ==
    /\ m \in Manifest /\ m.offset = n.offset /\ m.length = n.length
    /\ m.chunks = chunks /\ m.committed = mark

LEMMA CommitEffect ==
    ASSUME TypeOK, NEW r \in Request, Commit(r)
    PROVE  /\ req[r].pc = "commit" /\ req[r].up \in Upload
           /\ \E m : /\ Remade(m, req[r].man, req[r].man.chunks, TRUE) /\ Writes(req[r].up, m)
                     /\ Goes(r, "cleanup", m, 1, req[r].out)
           /\ UNCHANGED <<scenario, stored, object, jobs, terminated, drops>>
<1>1. PICK m : m = [req[r].man EXCEPT !.committed = TRUE]
  OBVIOUS
<1>2. Remade(m, req[r].man, req[r].man.chunks, TRUE)
  BY <1>1, ReqFields DEF Remade, Manifest
<1>3. /\ req[r].pc = "commit" /\ manifest' = [manifest EXCEPT ![req[r].up] = m]
      /\ req' = [req EXCEPT ![r].pc = "cleanup", ![r].man = m, ![r].k = 1]
      /\ UNCHANGED <<scenario, stored, object, jobs, terminated, drops>>
  BY <1>1 DEF Commit
<1>4. PICK x : x = [req[r] EXCEPT !.pc = "cleanup", !.man = m, !.k = 1]
  OBVIOUS
<1>5. m \in Manifest /\ req[r] \in RequestState /\ req[r].up \in Upload
  BY <1>2, <1>3, ReqFields DEF Remade, Carries
<1>6. /\ x \in RequestState /\ x.pc = "cleanup" /\ Same(x, req[r]) /\ x.man = m
      /\ x.k = 1 /\ x.out = req[r].out
  <2>1. 1 \in Nat \ {0}
    OBVIOUS
  <2>2. QED BY <1>4, <1>5, <2>1 DEF RequestState, Same, Pcs
<1>7. req' = [req EXCEPT ![r] = x]
  BY <1>3, <1>4, ReqFields
<1>8. Goes(r, "cleanup", m, 1, req[r].out)
  BY <1>6, <1>7 DEF Goes, Moves
<1>9. Writes(req[r].up, m)
  BY <1>3, <1>5 DEF Writes
<1>10. QED BY <1>2, <1>3, <1>5, <1>8, <1>9

LEMMA CompactEffect ==
    ASSUME TypeOK, NEW r \in Request, Compact(r)
    PROVE  /\ req[r].pc = "cleanup" /\ req[r].up \in Upload
           /\ \E m : /\ Remade(m, req[r].man, <<>>, req[r].man.committed) /\ Writes(req[r].up, m)
                     /\ \/ req[r].up \in Final /\ Goes(r, "parts", m, req[r].k, req[r].out)
                        \/ req[r].up \notin Final /\ Over(r)
           /\ drops' \in Nat
           /\ UNCHANGED <<scenario, stored, object, jobs, terminated>>
<1>1. PICK m : m = [req[r].man EXCEPT !.chunks = <<>>]
  OBVIOUS
<1>2. <<>> \in Seq(ChunkRecord) /\ req[r].man \in Manifest /\ req[r] \in RequestState
  BY ReqFields
<1>3. Remade(m, req[r].man, <<>>, req[r].man.committed)
  BY <1>1, <1>2 DEF Remade, Manifest
<1>4. /\ req[r].pc = "cleanup" /\ manifest' = [manifest EXCEPT ![req[r].up] = m]
      /\ req' = [req EXCEPT ![r] = IF req[r].up \in Final
                                     THEN [req[r] EXCEPT !.pc = "parts", !.man = m] ELSE Idle]
      /\ UNCHANGED <<scenario, stored, object, jobs, terminated>>
  BY <1>1, ReqFields DEF Compact
<1>5. drops' \in Nat
  BY DEF Compact, TypeOK
<1>6. m \in Manifest /\ req[r].up \in Upload
  BY <1>3, <1>4, ReqFields DEF Remade, Carries
<1>7. Writes(req[r].up, m)
  BY <1>4, <1>6 DEF Writes
<1>8. CASE req[r].up \in Final
  <2>1. PICK x : x = [req[r] EXCEPT !.pc = "parts", !.man = m]
    OBVIOUS
  <2>2. /\ x \in RequestState /\ x.pc = "parts" /\ Same(x, req[r]) /\ x.man = m
        /\ x.k = req[r].k /\ x.out = req[r].out
    BY <1>2, <1>6, <2>1 DEF RequestState, Same, Pcs
  <2>3. req' = [req EXCEPT ![r] = x]
    BY <1>4, <1>8, <2>1
  <2>4. Goes(r, "parts", m, req[r].k, req[r].out)
    BY <2>2, <2>3 DEF Goes, Moves
  <2>5. QED BY <1>3, <1>4, <1>5, <1>6, <1>7, <1>8, <2>4
<1>9. CASE req[r].up \notin Final
  <2>1. Over(r)
    BY <1>4, <1>9, IdleFacts DEF Over, Moves
  <2>2. QED BY <1>3, <1>4, <1>5, <1>6, <1>7, <1>9, <2>1
<1>10. QED BY <1>8, <1>9

BeginsFinal(r, p, f) ==
    \E x : /\ Moves(r, x) /\ x.pc = "load" /\ x.replica = p /\ x.locked = FALSE
           /\ x.up = f /\ x.man = Missing /\ x.k = 1 /\ x.out = <<>>

LEMMA FinalBegins ==
    ASSUME TypeOK, NEW r \in Request, NEW p \in scenario.replicas, NEW f \in Final,
           StartFinal(r, p, f)
    PROVE  BeginsFinal(r, p, f)
<1>1. PICK x : x = [Idle EXCEPT !.pc = "load", !.replica = p, !.up = f]
  OBVIOUS
<1>2. p \in Replica
  BY DEF TypeOK, Replica, Process
<1>3. f \in Upload
  BY Kinds
<1>4. /\ x \in RequestState /\ x.pc = "load" /\ x.replica = p /\ x.locked = FALSE
      /\ x.up = f /\ x.man = Missing /\ x.k = 1 /\ x.out = <<>>
  BY <1>1, <1>2, <1>3, IdleFacts DEF RequestState, Pcs
<1>5. req' = [req EXCEPT ![r] = x]
  BY <1>1 DEF StartFinal
<1>6. QED BY <1>4, <1>5 DEF Moves, BeginsFinal

LEMMA LoadEffect ==
    ASSUME TypeOK, NEW r \in Request, LoadPart(r)
    PROVE  /\ req[r].pc = "load" /\ req[r].k <= Len(PartList) /\ PartList[req[r].k] \in Partial
           /\ \/ Over(r)
              \/ LET part == manifest[PartList[req[r].k]]
                 IN  /\ part # Missing /\ Complete(part)
                     /\ \E m : /\ m \in Manifest /\ m.committed = req[r].man.committed
                               /\ m.chunks = req[r].man.chunks \o part.chunks
                               /\ Goes(r, "load", m, req[r].k + 1, req[r].out)
           /\ UNCHANGED <<scenario, manifest, stored, object, jobs, terminated, drops>>
<1>1. /\ req[r].pc = "load" /\ req[r].k <= Len(PartList)
      /\ UNCHANGED <<scenario, manifest, stored, object, jobs, terminated, drops>>
  BY DEF LoadPart
<1>2. PartList[req[r].k] \in Partial /\ PartList[req[r].k] \in Upload
  BY <1>1, ReqFields, Lists, Kinds
<1>3. PICK part : part = manifest[PartList[req[r].k]]
  OBVIOUS
<1>4. part \in Manifest
  BY <1>2, <1>3 DEF TypeOK
<1>5. PICK m : m = Joined(req[r].man, part)
  OBVIOUS
<1>6. PICK x : x = [req[r] EXCEPT !.k = req[r].k + 1, !.man = m]
  OBVIOUS
<1>7. req' = [req EXCEPT ![r] = IF part # Missing /\ Complete(part) THEN x ELSE Idle]
  BY <1>3, <1>5, <1>6, ReqFields DEF LoadPart
<1>8. /\ req[r].man.length + part.length \in Nat /\ req[r].man.offset + part.length \in Nat
      /\ req[r].man.chunks \o part.chunks \in Seq(ChunkRecord) /\ req[r].man \in Manifest
  BY <1>4, ReqFields DEF Manifest
<1>9. /\ m \in Manifest /\ m.committed = req[r].man.committed
      /\ m.chunks = req[r].man.chunks \o part.chunks
  BY <1>5, <1>8 DEF Manifest, Joined
<1>11. req[r] \in RequestState /\ req[r].k + 1 \in Nat \ {0}
  BY ReqFields
<1>12. /\ x \in RequestState /\ x.pc = "load" /\ Same(x, req[r]) /\ x.man = m
       /\ x.k = req[r].k + 1 /\ x.out = req[r].out
  BY <1>1, <1>6, <1>9, <1>11 DEF RequestState, Same
<1>13. CASE part # Missing /\ Complete(part)
  <2>1. Goes(r, "load", m, req[r].k + 1, req[r].out)
    BY <1>7, <1>12, <1>13 DEF Goes, Moves
  <2>2. QED BY <1>1, <1>2, <1>3, <1>9, <1>13, <2>1
<1>14. CASE ~(part # Missing /\ Complete(part))
  <2>1. Over(r)
    BY <1>7, <1>14, IdleFacts DEF Over, Moves
  <2>2. QED BY <1>1, <1>2, <2>1
<1>15. QED BY <1>13, <1>14

LEMMA SaveFinalEffect ==
    ASSUME TypeOK, NEW r \in Request, SaveFinal(r)
    PROVE  /\ req[r].pc = "load" /\ req[r].k > Len(PartList) /\ req[r].up \in Final
           /\ Writes(req[r].up, req[r].man)
           /\ Goes(r, "compose", req[r].man, 1, req[r].out)
           /\ UNCHANGED <<scenario, stored, object, jobs, terminated, drops>>
<1>1. /\ req[r].pc = "load" /\ req[r].k > Len(PartList)
      /\ req' = [req EXCEPT ![r].pc = "compose", ![r].k = 1]
      /\ UNCHANGED <<scenario, stored, object, jobs, terminated, drops>>
  BY DEF SaveFinal
<1>2. Writes(req[r].up, req[r].man)
  BY ReqFields DEF SaveFinal, Writes
<1>3. PICK x : x = [req[r] EXCEPT !.pc = "compose", !.k = 1]
  OBVIOUS
<1>4. /\ x \in RequestState /\ x.pc = "compose" /\ Same(x, req[r]) /\ x.man = req[r].man
      /\ x.k = 1 /\ x.out = req[r].out
  <2>1. req[r] \in RequestState /\ 1 \in Nat \ {0}
    BY ReqFields
  <2>2. QED BY <1>3, <2>1 DEF RequestState, Same, Pcs
<1>5. req' = [req EXCEPT ![r] = x]
  BY <1>1, <1>3, ReqFields
<1>6. req[r].up \in Final
  BY <1>1, ReqFields DEF Carries
<1>7. QED BY <1>1, <1>2, <1>4, <1>5, <1>6 DEF Goes, Moves

LEMMA DropPartEffect ==
    ASSUME TypeOK, NEW r \in Request, DropPart(r)
    PROVE  /\ req[r].pc = "parts" /\ PartList[req[r].k] \in Partial /\ req[r].k <= Len(PartList)
           /\ Writes(PartList[req[r].k], Missing)
           /\ \/ Over(r)
              \/ /\ req[r].k < Len(PartList)
                 /\ Goes(r, "parts", req[r].man, req[r].k + 1, req[r].out)
           /\ UNCHANGED <<scenario, stored, object, jobs, terminated, drops>>
<1>1. /\ req[r].pc = "parts" /\ manifest' = [manifest EXCEPT ![PartList[req[r].k]] = Missing]
      /\ UNCHANGED <<scenario, stored, object, jobs, terminated, drops>>
  BY DEF DropPart
<1>2. PartList[req[r].k] \in Partial /\ req[r].k <= Len(PartList)
  <2>1. req[r].k \in Nat \ {0} /\ req[r].k <= Len(PartList)
    BY <1>1, ReqFields DEF Carries
  <2>2. req[r].k \in 1..Len(PartList)
    BY <2>1, Lists
  <2>3. QED BY <2>1, <2>2, Lists
<1>3. Writes(PartList[req[r].k], Missing)
  BY <1>1, MissingFacts DEF Writes
<1>4. CASE Exists(PartList[req[r].k]) /\ ~(req[r].k = Len(PartList))
  <2>1. PICK x : x = [req[r] EXCEPT !.k = req[r].k + 1]
    OBVIOUS
  <2>2. req[r] \in RequestState /\ req[r].k + 1 \in Nat \ {0}
    BY ReqFields
  <2>3. /\ x \in RequestState /\ x.pc = "parts" /\ Same(x, req[r]) /\ x.man = req[r].man
        /\ x.k = req[r].k + 1 /\ x.out = req[r].out
    BY <1>1, <2>1, <2>2 DEF RequestState, Same
  <2>4. req' = [req EXCEPT ![r] = x]
    <3>1. req' = [req EXCEPT ![r] = IF Exists(PartList[req[r].k]) /\ ~(req[r].k = Len(PartList))
                                      THEN [req[r] EXCEPT !.k = req[r].k + 1] ELSE Idle]
      BY ReqFields DEF DropPart
    <3>2. QED BY <1>4, <2>1, <3>1
  <2>5. req[r].k < Len(PartList)
    BY <1>2, <1>4, ReqFields, Lists
  <2>6. Goes(r, "parts", req[r].man, req[r].k + 1, req[r].out)
    BY <2>3, <2>4 DEF Goes, Moves
  <2>7. QED BY <1>1, <1>2, <1>3, <2>5, <2>6
<1>5. CASE ~(Exists(PartList[req[r].k]) /\ ~(req[r].k = Len(PartList)))
  <2>1. Over(r)
    BY <1>5, IdleFacts, ReqFields DEF DropPart, Over, Moves
  <2>2. QED BY <1>1, <1>2, <1>3, <2>1
<1>6. QED BY <1>4, <1>5

LEMMA DeleteChunkEffect ==
    ASSUME TypeOK, NEW r \in Request, DeleteChunk(r)
    PROVE  /\ req[r].pc = "delete" /\ req[r].k <= Len(req[r].man.chunks)
           /\ Chunk(r) \in ChunkRecord /\ Chunk(r).key \in ChunkKey
           /\ stored' = [stored EXCEPT ![Chunk(r).key] = 0]
           /\ Goes(r, "delete", req[r].man, req[r].k + 1, req[r].out)
           /\ UNCHANGED <<scenario, manifest, object, jobs, terminated, drops>>
<1>1. /\ req[r].pc = "delete" /\ req[r].k <= Len(req[r].man.chunks)
      /\ stored' = [stored EXCEPT ![Chunk(r).key] = 0]
      /\ req' = [req EXCEPT ![r].k = @ + 1]
      /\ UNCHANGED <<scenario, manifest, object, jobs, terminated, drops>>
  BY DEF DeleteChunk, MoreChunks
<1>2. Chunk(r) \in ChunkRecord
  BY <1>1, ReqFields DEF Chunk
<1>3. Chunk(r).key \in ChunkKey
  BY <1>2 DEF ChunkRecord
<1>4. QED BY <1>1, <1>2, <1>3, GoesK

LEMMA DeleteStateEffect ==
    ASSUME TypeOK, NEW r \in Request, DeleteState(r)
    PROVE  /\ req[r].pc = "delete" /\ req[r].up \in Single
           /\ Writes(req[r].up, Missing) /\ Over(r)
           /\ UNCHANGED <<scenario, stored, object, jobs, terminated, drops>>
BY IdleFacts, MissingFacts, ReqFields DEF DeleteState, Writes, Over, Moves, Carries

LEMMA CreateEffect ==
    ASSUME TypeOK, NEW u \in Single, Create(u)
    PROVE  /\ manifest[u] = Missing /\ u \notin terminated /\ ~Delivered(u)
           /\ \E m : /\ m \in Manifest /\ m.offset = 0 /\ m.length = Size[u] /\ m.chunks = <<>>
                     /\ m.committed = FALSE /\ Writes(u, m)
           /\ UNCHANGED <<scenario, stored, object, jobs, req, terminated, drops>>
<1>1. PICK m : m = [Missing EXCEPT !.length = Size[u]]
  OBVIOUS
<1>2. /\ m \in Manifest /\ m.offset = 0 /\ m.length = Size[u] /\ m.chunks = <<>>
      /\ m.committed = FALSE
  BY <1>1, MissingFacts, Kinds DEF Manifest
<1>3. Writes(u, m)
  BY <1>1, <1>2 DEF Create, Writes
<1>4. QED BY <1>2, <1>3 DEF Create, Exists

LEMMA CleanupEffect ==
    ASSUME TypeOK, NEW r \in Request, NEW c \in ChunkKey, CleanupChunk(r, c)
    PROVE  /\ req[r].pc = "cleanup" /\ stored' = [stored EXCEPT ![c] = 0]
           /\ \E i \in 1..Len(req[r].man.chunks) : req[r].man.chunks[i].key = c
           /\ UNCHANGED <<scenario, manifest, object, jobs, req, terminated, drops>>
<1>1. DOMAIN req[r].man.chunks = 1..Len(req[r].man.chunks)
  BY ReqFields
<1>2. QED BY <1>1 DEF CleanupChunk

LEMMA QuitEffect ==
    ASSUME TypeOK, NEW r \in Request, ComposeFails(r) \/ Drop(r)
    PROVE  /\ Over(r) /\ drops' \in Nat
           /\ UNCHANGED <<scenario, manifest, stored, object, jobs, terminated>>
BY IdleFacts DEF ComposeFails, Drop, Over, Moves, TypeOK

(* A request that is dropped keeps all but its lock while the store writes.  *)
LEMMA AbandonEffect ==
    ASSUME TypeOK, NEW r \in Request, Abandon(r)
    PROVE  /\ req[r].pc \in {"put", "append", "commit", "delete"} /\ drops' \in Nat
           /\ \E x : /\ Moves(r, x) /\ x.pc = req[r].pc /\ x.replica = req[r].replica
                     /\ x.up = req[r].up /\ x.offset = req[r].offset /\ x.size = req[r].size
                     /\ x.man = req[r].man /\ x.k = req[r].k /\ x.out = req[r].out
           /\ UNCHANGED <<scenario, manifest, stored, object, jobs, terminated, spoiled>>
<1>1. PICK x : x = [req[r] EXCEPT !.locked = FALSE]
  OBVIOUS
<1>2. req[r] \in RequestState
  BY ReqFields
<1>3. /\ x \in RequestState /\ x.pc = req[r].pc /\ x.replica = req[r].replica
      /\ x.up = req[r].up /\ x.offset = req[r].offset /\ x.size = req[r].size
      /\ x.man = req[r].man /\ x.k = req[r].k /\ x.out = req[r].out
  BY <1>1, <1>2 DEF RequestState
<1>4. req' = [req EXCEPT ![r] = x]
  BY <1>1, ReqFields DEF Abandon
<1>5. drops' \in Nat
  BY DEF Abandon, TypeOK
<1>6. /\ req[r].pc \in {"put", "append", "commit", "delete"}
      /\ UNCHANGED <<scenario, manifest, stored, object, jobs, terminated, spoiled>>
  BY DEF Abandon
<1>7. QED BY <1>3, <1>4, <1>5, <1>6 DEF Moves

(* What is written or removed after all.                                     *)
LEMMA LandEffect ==
    ASSUME TypeOK, NEW r \in Request, Land(r)
    PROVE  /\ Over(r) /\ req[r].up \notin Final
           /\ UNCHANGED <<scenario, object, jobs, terminated, drops, spoiled>>
           /\ \/ /\ req[r].pc = "put" /\ <<req[r].up, req[r].offset>> \in ChunkKey
                 /\ stored' = [stored EXCEPT ![<<req[r].up, req[r].offset>>] = req[r].size]
                 /\ UNCHANGED manifest
              \/ /\ req[r].pc = "append" /\ UNCHANGED stored
                 /\ \E m, c : Appended(m, req[r], c) /\ Writes(req[r].up, m)
              \/ /\ req[r].pc = "commit" /\ UNCHANGED stored
                 /\ \E m : Remade(m, req[r].man, req[r].man.chunks, TRUE) /\ Writes(req[r].up, m)
              \/ /\ req[r].pc = "delete" /\ UNCHANGED manifest
                 /\ req[r].k \in 1..Len(req[r].man.chunks) /\ Chunk(r).key \in ChunkKey
                 /\ stored' = [stored EXCEPT ![Chunk(r).key] = 0]
              \/ DeleteState(r)
<1>1. /\ Over(r) /\ req[r].up \notin Final
      /\ UNCHANGED <<scenario, object, jobs, terminated, drops, spoiled>>
  BY IdleFacts DEF Land, Gone, Over, Moves
<1>2. Carries(req[r])
  BY ReqFields
<1>3. CASE /\ req[r].pc = "put"
           /\ stored' = [stored EXCEPT ![<<req[r].up, req[r].offset>>] = req[r].size]
           /\ UNCHANGED manifest
  BY <1>1, <1>2, <1>3 DEF Carries
<1>4. CASE /\ req[r].pc = "append" /\ UNCHANGED stored
           /\ manifest' = [manifest EXCEPT ![req[r].up] = WithChunk(r)]
  <2>1. PICK c : c = [key |-> <<req[r].up, req[r].offset>>, size |-> req[r].size]
    OBVIOUS
  <2>2. PICK m : m = [req[r].man EXCEPT !.offset = req[r].offset + req[r].size, !.chunks = Append(@, c)]
    OBVIOUS
  <2>3. Appended(m, req[r], c) /\ m = WithChunk(r)
    BY <1>4, <2>1, <2>2, WithOneMore DEF WithChunk
  <2>4. Writes(req[r].up, m)
    BY <1>4, <2>3 DEF Writes, Appended
  <2>5. QED BY <1>1, <1>4, <2>3, <2>4
<1>5. CASE /\ req[r].pc = "commit" /\ UNCHANGED stored
           /\ manifest' = [manifest EXCEPT ![req[r].up] = [req[r].man EXCEPT !.committed = TRUE]]
  <2>1. PICK m : m = [req[r].man EXCEPT !.committed = TRUE]
    OBVIOUS
  <2>2. Remade(m, req[r].man, req[r].man.chunks, TRUE)
    BY <2>1, ReqFields DEF Remade, Manifest
  <2>3. Writes(req[r].up, m)
    BY <1>5, <2>1, <2>2 DEF Writes, Remade
  <2>4. QED BY <1>1, <1>5, <2>2, <2>3
<1>6. CASE /\ req[r].pc = "delete" /\ MoreChunks(r)
           /\ stored' = [stored EXCEPT ![Chunk(r).key] = 0]
           /\ UNCHANGED manifest
  <2>1. req[r].k \in 1..Len(req[r].man.chunks)
    <3>1. req[r].k \in Nat \ {0} /\ Len(req[r].man.chunks) \in Nat
      BY ReqFields
    <3>2. QED BY <1>6, <3>1 DEF MoreChunks
  <2>2. Chunk(r) \in ChunkRecord
    BY <2>1, ReqFields DEF Chunk
  <2>3. Chunk(r).key \in ChunkKey
    BY <2>2 DEF ChunkRecord
  <2>4. QED BY <1>1, <1>6, <2>1, <2>3
<1>7. CASE /\ req[r].pc = "delete" /\ ~MoreChunks(r) /\ UNCHANGED stored
           /\ manifest' = [manifest EXCEPT ![req[r].up] = Missing]
  <2>1. req' = [req EXCEPT ![r] = Idle] /\ UNCHANGED <<scenario, object, jobs, terminated, drops, spoiled>>
    BY DEF Land
  <2>2. DeleteState(r)
    BY <1>7, <2>1 DEF DeleteState
  <2>3. QED BY <1>1, <2>2
<1>8. QED BY <1>3, <1>4, <1>5, <1>6, <1>7, Zenon DEF Land

(* What is cut short.                                                        *)
LEMMA TearEffect ==
    ASSUME TypeOK, NEW r \in Request, Tear(r)
    PROVE  /\ Over(r) /\ UNCHANGED <<scenario, object, jobs, terminated, drops>>
           /\ \/ /\ req[r].pc = "put" /\ <<req[r].up, req[r].offset>> \in ChunkKey
                 /\ stored' = [stored EXCEPT ![<<req[r].up, req[r].offset>>] = 0]
                 /\ UNCHANGED <<manifest, spoiled>>
              \/ /\ req[r].pc \in {"append", "commit"} /\ req[r].up \in Single
                 /\ Writes(req[r].up, Missing)
                 /\ spoiled' = spoiled \cup {req[r].up} /\ UNCHANGED stored
<1>1. Over(r) /\ UNCHANGED <<scenario, object, jobs, terminated, drops>>
  BY IdleFacts DEF Tear, Over, Moves
<1>2. Carries(req[r]) /\ req[r].up \notin Final
  BY ReqFields DEF Tear, Gone
<1>3. CASE /\ req[r].pc = "put"
           /\ stored' = [stored EXCEPT ![<<req[r].up, req[r].offset>>] = 0]
           /\ UNCHANGED <<manifest, spoiled>>
  BY <1>1, <1>2, <1>3 DEF Carries
<1>4. CASE /\ req[r].pc \in {"append", "commit"}
           /\ manifest' = [manifest EXCEPT ![req[r].up] = Missing]
           /\ spoiled' = spoiled \cup {req[r].up} /\ UNCHANGED stored
  <2>1. req[r].up \in Single
    BY <1>2, <1>4, Kinds DEF Carries, Finalizing
  <2>2. Writes(req[r].up, Missing)
    BY <1>4, MissingFacts DEF Writes
  <2>3. QED BY <1>1, <1>4, <2>1, <2>2
<1>5. QED BY <1>3, <1>4, Zenon DEF Tear

-----------------------------------------------------------------------------
(* Types, jobs and the shape of manifests.                                   *)

(* A request that moves to x, while jobs are at most added.                  *)
LEMMA BaseMoves ==
    ASSUME Base, NEW r \in Request, NEW x, Moves(r, x), scenario' = scenario, jobs \subseteq jobs',
           Carries(x), Fits(x), KnowsJob(x)'
    PROVE  RequestTypes' /\ (\A q \in Request : Fits(req'[q])) /\ (\A q \in Request : KnowsJob(req[q]))'
<1>1. TypeOK
  BY DEF Base
<1>2. /\ req' \in [Request -> RequestState] /\ req'[r] = x
      /\ \A q \in Request : q # r => req'[q] = req[q]
  BY <1>1, Moved
<1>3. ASSUME NEW q \in Request PROVE Carries(req[q])' /\ Fits(req'[q]) /\ KnowsJob(req[q])'
  <2>1. CASE q = r
    BY <1>2, <2>1 DEF Carries, KnowsJob
  <2>2. CASE q # r
    <3>1. Carries(req[q]) /\ Fits(req[q]) /\ KnowsJob(req[q])
      BY DEF Base, TypeOK, RequestTypes, ManifestsFit, JobsLead
    <3>2. req'[q] = req[q]
      BY <1>2, <2>2
    <3>3. Carries(req[q])'
      BY <3>1, <3>2 DEF Carries
    <3>4. KnowsJob(req[q])'
      BY <3>1, <3>2 DEF KnowsJob
    <3>5. QED BY <3>1, <3>2, <3>3, <3>4
  <2>3. QED BY <2>1, <2>2
<1>4. QED BY <1>2, <1>3 DEF RequestTypes

LEMMA BaseStays ==
    ASSUME Base, UNCHANGED <<scenario, req>>, jobs \subseteq jobs'
    PROVE  RequestTypes' /\ (\A q \in Request : Fits(req'[q])) /\ (\A q \in Request : KnowsJob(req[q]))'
<1>1. RequestTypes'
  BY DEF Base, TypeOK, RequestTypes, Carries
<1>2. \A q \in Request : Fits(req'[q])
  BY DEF Base, ManifestsFit
<1>3. (\A q \in Request : KnowsJob(req[q]))'
  BY DEF Base, JobsLead, KnowsJob
<1>4. QED BY <1>1, <1>2, <1>3

LEMMA BaseEnds ==
    ASSUME Base, NEW r \in Request, Over(r), scenario' = scenario, jobs \subseteq jobs'
    PROVE  RequestTypes' /\ (\A q \in Request : Fits(req'[q])) /\ (\A q \in Request : KnowsJob(req[q]))'
<1>1. Carries(Idle)
  BY IdleFacts DEF Carries, Finalizing
<1>2. Fits(Idle)
  BY IdleFacts DEF Fits
<1>3. KnowsJob(Idle)'
  BY IdleFacts, MissingFacts DEF KnowsJob
<1>4. QED BY <1>1, <1>2, <1>3, BaseMoves DEF Over

(* A manifest is saved.                                                      *)
LEMMA BaseWrites ==
    ASSUME Base, NEW u \in Upload, NEW m, Writes(u, m), jobs \subseteq jobs', m.committed => u \in jobs,
           u \in Single => Storable(u, m)
    PROVE  /\ manifest' \in [Upload -> Manifest] /\ CommittedHasJob'
           /\ \A v \in Single : Storable(v, manifest'[v])
<1>1. /\ manifest' \in [Upload -> Manifest] /\ manifest'[u] = m
      /\ \A v \in Upload : v # u => manifest'[v] = manifest[v]
  BY Written DEF Base
<1>2. CommittedHasJob'
  BY <1>1 DEF Base, JobsLead, CommittedHasJob
<1>3. \A v \in Single : Storable(v, manifest'[v])
  BY <1>1, Kinds DEF Base, ManifestsFit
<1>4. QED BY <1>1, <1>2, <1>3

LEMMA BaseKeepsManifests ==
    ASSUME Base, manifest' = manifest, jobs \subseteq jobs'
    PROVE  /\ manifest' \in [Upload -> Manifest] /\ CommittedHasJob'
           /\ \A v \in Single : Storable(v, manifest'[v])
BY DEF Base, TypeOK, JobsLead, CommittedHasJob, ManifestsFit

(* The parts make up the whole.                                              *)
LEMMA BaseMade ==
    ASSUME scenario' \in Scenarios, stored' \in [ChunkKey -> Nat], object' \in [Upload -> Seq(Byte)],
           jobs' \subseteq Upload, terminated' \subseteq Upload, drops' \in Nat,
           manifest' \in [Upload -> Manifest], CommittedHasJob', \A v \in Single : Storable(v, manifest'[v]),
           RequestTypes', \A q \in Request : Fits(req'[q]), (\A q \in Request : KnowsJob(req[q]))'
    PROVE  Base'
BY DEF Base, TypeOK, JobsLead, ManifestsFit

LEMMA BaseFacts ==
    ASSUME Base, NEW r \in Request
    PROVE  /\ TypeOK /\ Carries(req[r]) /\ Fits(req[r]) /\ KnowsJob(req[r])
           /\ scenario \in Scenarios /\ stored \in [ChunkKey -> Nat] /\ object \in [Upload -> Seq(Byte)]
           /\ jobs \subseteq Upload /\ terminated \subseteq Upload /\ drops \in Nat
           /\ manifest \in [Upload -> Manifest]
BY DEF Base, TypeOK, RequestTypes, ManifestsFit, JobsLead

LEMMA OwnsNothing ==
    ASSUME NEW u, NEW m, m.chunks = <<>>
    PROVE  Owns(u, m) /\ Linked(m.chunks)
BY DEF Owns, Linked

LEMMA MissingStorable ==
    ASSUME NEW u \in Single
    PROVE  Storable(u, Missing)
BY MissingFacts, OwnsNothing DEF Storable

LEMMA BaseCreate ==
    ASSUME Base, NEW u \in Single, Create(u)
    PROVE  Base'
<1>1. TypeOK /\ UNCHANGED <<scenario, stored, object, jobs, req, terminated, drops>>
  BY DEF Base, Create
<1>2. PICK m : /\ m \in Manifest /\ m.offset = 0 /\ m.length = Size[u] /\ m.chunks = <<>>
               /\ m.committed = FALSE /\ Writes(u, m)
  BY <1>1, CreateEffect
<1>3. Storable(u, m)
  <2>1. Owns(u, m) /\ Linked(m.chunks)
    BY <1>2, OwnsNothing
  <2>2. Size[u] \in Nat
    BY Kinds
  <2>3. Shaped(u, m)
    BY <1>2, <2>1, <2>2 DEF Shaped
  <2>4. QED BY <1>2, <2>1, <2>3 DEF Storable
<1>4. /\ manifest' \in [Upload -> Manifest] /\ CommittedHasJob'
      /\ \A v \in Single : Storable(v, manifest'[v])
  BY <1>1, <1>2, <1>3, BaseWrites, Kinds
<1>5. RequestTypes' /\ (\A q \in Request : Fits(req'[q])) /\ (\A q \in Request : KnowsJob(req[q]))'
  BY <1>1, BaseStays
<1>6. QED BY <1>1, <1>4, <1>5, BaseMade DEF TypeOK

(* What a request finds when it loads an upload without a job.               *)
LEMMA Loaded ==
    ASSUME Base, NEW u \in Single, manifest[u] # Missing, ~manifest[u].committed
    PROVE  Owns(u, manifest[u]) /\ Shaped(u, manifest[u])
BY DEF Base, ManifestsFit, Storable

(* A step that only moves request r.                                         *)
LEMMA BaseOnlyMoves ==
    ASSUME Base, NEW r \in Request, NEW x, Moves(r, x),
           UNCHANGED <<scenario, manifest, stored, object, jobs, drops>>, terminated' \subseteq Upload,
           Carries(x), Fits(x), KnowsJob(x)
    PROVE  Base'
<1>1. KnowsJob(x)'
  BY DEF KnowsJob
<1>2. RequestTypes' /\ (\A q \in Request : Fits(req'[q])) /\ (\A q \in Request : KnowsJob(req[q]))'
  BY <1>1, BaseMoves
<1>3. /\ manifest' \in [Upload -> Manifest] /\ CommittedHasJob'
      /\ \A v \in Single : Storable(v, manifest'[v])
  BY BaseKeepsManifests
<1>4. QED BY <1>2, <1>3, BaseMade, BaseFacts

LEMMA BasePatch ==
    ASSUME Base, NEW r \in Request, NEW p \in scenario.replicas, NEW c \in ChunkKey,
           NEW size \in scenario.chunks, StartPatch(r, p, c[1], c[2], size)
    PROVE  Base'
<1>1. /\ TypeOK /\ terminated \subseteq Upload
      /\ UNCHANGED <<scenario, manifest, stored, object, jobs, terminated, drops>>
      /\ Exists(c[1]) /\ Appendable(manifest[c[1]], c[2], size)
  BY BaseFacts DEF StartPatch, Start
<1>2. PICK u, n : u = c[1] /\ n = c[2]
  OBVIOUS
<1>3. u \in Single /\ n \in Nat /\ size \in Nat \ {0} /\ Begins(r, p, u, "put", n, size)
  BY <1>1, <1>2, PatchBegins
<1>4. PICK x : /\ Moves(r, x) /\ x.pc = "put" /\ x.replica = p /\ x.locked = TRUE /\ x.up = u
               /\ x.offset = n /\ x.size = size /\ x.man = manifest[u] /\ x.k = 1 /\ x.out = <<>>
  BY <1>3 DEF Begins
<1>5. /\ ~manifest[u].committed /\ n = manifest[u].offset /\ n + size <= manifest[u].length
      /\ manifest[u] # Missing
  BY <1>1, <1>2 DEF Appendable, Exists
<1>6. Owns(u, manifest[u]) /\ Shaped(u, manifest[u])
  BY <1>3, <1>5, Loaded
<1>7. Carries(x)
  <2>1. <<u, n>> \in ChunkKey
    BY <1>2, Keys
  <2>2. QED BY <1>3, <1>4, <2>1, Kinds DEF Carries, Finalizing
<1>8. Fits(x)
  BY <1>4, <1>5, <1>6 DEF Fits
<1>9. KnowsJob(x)
  BY <1>4, <1>5 DEF KnowsJob
<1>10. QED BY <1>1, <1>4, <1>7, <1>8, <1>9, BaseOnlyMoves

LEMMA BaseResult ==
    ASSUME Base, NEW r \in Request, NEW p \in scenario.replicas, NEW u \in Plain, StartResult(r, p, u)
    PROVE  Base'
<1>1. /\ TypeOK /\ terminated \subseteq Upload /\ u \in Single /\ u \in Upload /\ u \notin Final
      /\ UNCHANGED <<scenario, manifest, stored, object, jobs, terminated, drops>>
      /\ manifest[u] # Missing /\ Complete(manifest[u]) /\ ~manifest[u].committed
  BY BaseFacts, Kinds DEF StartResult, Start, Exists
<1>2. Begins(r, p, u, "compose", 0, 0)
  BY <1>1, OtherBegins DEF StartResult, Pcs
<1>3. PICK x : /\ Moves(r, x) /\ x.pc = "compose" /\ x.replica = p /\ x.locked = TRUE /\ x.up = u
               /\ x.man = manifest[u] /\ x.k = 1 /\ x.out = <<>>
  BY <1>2 DEF Begins
<1>4. Owns(u, manifest[u]) /\ Shaped(u, manifest[u])
  BY <1>1, Loaded
<1>5. Carries(x)
  <2>1. Len(manifest[u].chunks) \in Nat
    BY <1>1 DEF TypeOK, Manifest
  <2>2. x.k <= Len(x.man.chunks) + 1
    BY <1>3, <2>1
  <2>3. QED BY <1>1, <1>3, <2>2 DEF Carries, Finalizing
<1>6. Fits(x)
  BY <1>1, <1>3, <1>4 DEF Fits
<1>7. KnowsJob(x)
  BY <1>1, <1>3 DEF KnowsJob
<1>8. QED BY <1>1, <1>3, <1>5, <1>6, <1>7, BaseOnlyMoves

LEMMA BaseDelete ==
    ASSUME Base, NEW r \in Request, NEW p \in scenario.replicas, NEW u \in Single, StartDelete(r, p, u)
    PROVE  Base'
<1>1. /\ TypeOK /\ terminated' \subseteq Upload /\ u \in Upload /\ u \notin Final
      /\ UNCHANGED <<scenario, manifest, stored, object, jobs, drops>>
      /\ manifest[u] # Missing /\ ~manifest[u].committed
  BY BaseFacts, Kinds DEF StartDelete, Start, Exists
<1>2. Begins(r, p, u, "delete", 0, 0)
  BY <1>1, OtherBegins DEF StartDelete, Pcs
<1>3. PICK x : /\ Moves(r, x) /\ x.pc = "delete" /\ x.replica = p /\ x.locked = TRUE /\ x.up = u
               /\ x.man = manifest[u]
  BY <1>2 DEF Begins
<1>4. Owns(u, manifest[u]) /\ Shaped(u, manifest[u])
  BY <1>1, Loaded
<1>5. Carries(x)
  BY <1>1, <1>3 DEF Carries, Finalizing
<1>6. Fits(x)
  BY <1>1, <1>3, <1>4 DEF Fits
<1>7. KnowsJob(x)
  BY <1>1, <1>3 DEF KnowsJob
<1>8. QED BY <1>1, <1>3, <1>5, <1>6, <1>7, BaseOnlyMoves

LEMMA BaseFinal ==
    ASSUME Base, NEW r \in Request, NEW p \in scenario.replicas, NEW f \in Final, StartFinal(r, p, f)
    PROVE  Base'
<1>1. /\ TypeOK /\ terminated \subseteq Upload /\ f \in Upload /\ f \notin Single
      /\ UNCHANGED <<scenario, manifest, stored, object, jobs, terminated, drops>>
  BY BaseFacts, Kinds DEF StartFinal
<1>2. PICK x : /\ Moves(r, x) /\ x.pc = "load" /\ x.replica = p /\ x.locked = FALSE
               /\ x.up = f /\ x.man = Missing /\ x.k = 1 /\ x.out = <<>>
  <2>1. BeginsFinal(r, p, f)
    BY <1>1, FinalBegins
  <2>2. QED BY <2>1 DEF BeginsFinal
<1>3. Carries(x)
  BY <1>1, <1>2, Lists DEF Carries, Finalizing
<1>4. Fits(x)
  <2>1. Gathered(Missing, 0)
    BY MissingFacts, OwnsNothing DEF Gathered
  <2>2. QED BY <1>1, <1>2, <2>1, MissingFacts DEF Fits
<1>5. KnowsJob(x)
  BY <1>2, MissingFacts DEF KnowsJob
<1>6. QED BY <1>1, <1>2, <1>3, <1>4, <1>5, BaseOnlyMoves

LEMMA BasePut ==
    ASSUME Base, NEW r \in Request, PutChunk(r)
    PROVE  Base'
<1>1. TypeOK /\ Carries(req[r]) /\ Fits(req[r]) /\ KnowsJob(req[r])
  BY BaseFacts
<1>2. /\ req[r].pc = "put" /\ <<req[r].up, req[r].offset>> \in ChunkKey
      /\ stored' = [stored EXCEPT ![<<req[r].up, req[r].offset>>] = req[r].size]
      /\ UNCHANGED <<scenario, manifest, object, jobs, terminated, drops>>
      /\ Goes(r, "append", req[r].man, req[r].k, req[r].out)
  BY <1>1, PutEffect
<1>3. PICK x : /\ Moves(r, x) /\ x.pc = "append" /\ Same(x, req[r])
               /\ x.man = req[r].man /\ x.k = req[r].k /\ x.out = req[r].out
  BY <1>2 DEF Goes
<1>4. Carries(x)
  BY <1>1, <1>2, <1>3 DEF Carries, Same, Finalizing
<1>5. Fits(x)
  BY <1>1, <1>2, <1>3 DEF Fits, Same
<1>6. KnowsJob(x)'
  BY <1>1, <1>2, <1>3 DEF KnowsJob, Same
<1>7. RequestTypes' /\ (\A q \in Request : Fits(req'[q])) /\ (\A q \in Request : KnowsJob(req[q]))'
  BY <1>2, <1>3, <1>4, <1>5, <1>6, BaseMoves
<1>8. /\ manifest' \in [Upload -> Manifest] /\ CommittedHasJob'
      /\ \A v \in Single : Storable(v, manifest'[v])
  BY <1>2, BaseKeepsManifests
<1>9. stored' \in [ChunkKey -> Nat]
  BY <1>1, <1>2, ReqFields DEF TypeOK
<1>10. QED BY <1>1, <1>2, <1>7, <1>8, <1>9, BaseMade DEF TypeOK

(* One more chunk keeps the shape of a manifest.                             *)
LEMMA ShapedAppend ==
    ASSUME NEW u \in Single, NEW n \in Manifest, NEW m \in Manifest, NEW c \in ChunkRecord,
           Owns(u, n), Shaped(u, n), c.key = <<u, n.offset>>, n.offset + c.size <= n.length,
           m.offset = n.offset + c.size, m.length = n.length, m.chunks = Append(n.chunks, c)
    PROVE  Owns(u, m) /\ Shaped(u, m)
<1> DEFINE l == Len(n.chunks)
<1>1. n.chunks \in Seq(ChunkRecord) /\ n.offset \in Nat /\ n.length \in Nat /\ c.size \in Nat \ {0}
  BY DEF Manifest, ChunkRecord
<1>2. /\ l \in Nat /\ Len(m.chunks) = l + 1 /\ m.chunks[l + 1] = c /\ m.chunks # <<>>
      /\ \A i \in 1..l : m.chunks[i] = n.chunks[i] /\ n.chunks[i] \in ChunkRecord
  BY <1>1
<1>3. \A i \in 1..l : /\ n.chunks[i].key[1] = u /\ n.chunks[i].key[2] \in Nat /\ n.chunks[i].size \in Nat
                      /\ n.chunks[i].key[2] + n.chunks[i].size <= n.offset
  BY <1>2, Keys DEF Owns, ChunkRecord
<1>4. Owns(u, m)
  <2>1. SUFFICES ASSUME NEW i \in 1..(l + 1)
                 PROVE  m.chunks[i].key[1] = u /\ m.chunks[i].key[2] + m.chunks[i].size <= m.offset
    BY <1>2 DEF Owns
  <2>2. CASE i \in 1..l
    <3>1. /\ m.chunks[i] = n.chunks[i] /\ n.chunks[i].key[1] = u
          /\ n.chunks[i].key[2] \in Nat /\ n.chunks[i].size \in Nat
          /\ n.chunks[i].key[2] + n.chunks[i].size <= n.offset
      BY <1>2, <1>3, <2>2
    <3>2. n.offset <= m.offset
      BY <1>1
    <3>3. m.offset \in Nat
      BY <1>1
    <3>4. \A x, y \in Nat : x + y <= n.offset => x + y <= m.offset
      BY <1>1, <3>2, <3>3
    <3>5. QED BY <3>1, <3>4
  <2>3. CASE i = l + 1
    <3>1. m.chunks[i].key[1] = u /\ m.chunks[i].key[2] = n.offset /\ m.chunks[i].size = c.size
      BY <1>2, <2>3
    <3>2. QED BY <1>1, <3>1
  <2>4. QED BY <1>2, <2>1, <2>2, <2>3
<1>5. Linked(m.chunks)
  <2>0. Len(m.chunks) - 1 = l
    BY <1>2
  <2>1. SUFFICES ASSUME NEW i \in 1..l PROVE NextTo(m.chunks[i], m.chunks[i + 1])
    BY <2>0 DEF Linked
  <2>2. CASE i < l
    <3>1. i \in 1..(l - 1) /\ i + 1 \in 1..l
      BY <1>2, <2>2
    <3>2. NextTo(n.chunks[i], n.chunks[i + 1])
      BY <3>1 DEF Shaped, Linked
    <3>3. QED BY <1>2, <3>1, <3>2
  <2>3. CASE i = l
    <3>1. n.chunks # <<>> /\ n.chunks[l].key[1] = u
      BY <1>1, <1>2, <1>3, <2>3
    <3>2. n.chunks[l].key[2] + n.chunks[l].size = n.offset
      BY <3>1 DEF Shaped
    <3>3. QED BY <1>2, <2>3, <3>1, <3>2 DEF NextTo
  <2>4. QED BY <1>2, <2>2, <2>3
<1>6. m.chunks[1].key = <<u, 0>>
  <2>1. CASE l = 0
    BY <1>1, <1>2, <2>1 DEF Shaped
  <2>2. CASE l > 0
    BY <1>1, <1>2, <2>2 DEF Shaped
  <2>3. QED BY <1>2, <2>1, <2>2
<1>7. m.length = Size[u] /\ m.offset <= m.length
  BY DEF Shaped
<1>8. m.chunks[l + 1].key[2] + m.chunks[l + 1].size = m.offset
  BY <1>2
<1>9. QED BY <1>2, <1>4, <1>5, <1>6, <1>7, <1>8 DEF Shaped

LEMMA AppendFits ==
    ASSUME Base, NEW r \in Request, req[r].pc = "append", NEW m, NEW c, Appended(m, req[r], c)
    PROVE  /\ req[r].up \in Single /\ Owns(req[r].up, m) /\ Shaped(req[r].up, m) /\ ~m.committed
           /\ Storable(req[r].up, m)
<1>1. PICK u : u = req[r].up
  OBVIOUS
<1>2. TypeOK /\ u \in Single /\ Fits(req[r])
  BY <1>1, BaseFacts DEF Carries
<1>3. /\ Owns(u, req[r].man) /\ Shaped(u, req[r].man) /\ ~req[r].man.committed
      /\ req[r].offset = req[r].man.offset /\ req[r].offset + req[r].size <= req[r].man.length
  BY <1>1, <1>2 DEF Fits
<1>4. /\ c \in ChunkRecord /\ m \in Manifest /\ c.key = <<u, req[r].man.offset>> /\ c.size = req[r].size
      /\ m.offset = req[r].man.offset + c.size /\ m.length = req[r].man.length
      /\ m.committed = req[r].man.committed /\ m.chunks = Append(req[r].man.chunks, c)
  BY <1>1, <1>3 DEF Appended
<1>5. req[r].man \in Manifest /\ req[r].man.offset + c.size <= req[r].man.length
  BY <1>2, <1>3, <1>4, ReqFields
<1>6. Owns(u, m) /\ Shaped(u, m)
  BY <1>2, <1>3, <1>4, <1>5, ShapedAppend
<1>7. QED BY <1>1, <1>2, <1>3, <1>4, <1>6 DEF Storable

LEMMA BaseAppend ==
    ASSUME Base, NEW r \in Request, SaveAppend(r)
    PROVE  Base'
<1>1. TypeOK /\ Carries(req[r]) /\ Fits(req[r]) /\ KnowsJob(req[r])
  BY BaseFacts
<1>2. PICK u : u = req[r].up
  OBVIOUS
<1>3. /\ req[r].pc = "append" /\ u \in Single /\ u \in Upload /\ u \notin Final
      /\ UNCHANGED <<scenario, stored, object, jobs, terminated, drops>>
  BY <1>1, <1>2, AppendEffect, Kinds
<1>4. PICK m, c : /\ Appended(m, req[r], c) /\ Writes(u, m)
                  /\ \/ /\ Complete(m) /\ u \in Plain
                        /\ Goes(r, "compose", m, req[r].k, req[r].out)
                     \/ Over(r)
  BY <1>1, <1>2, AppendEffect
<1>6. m \in Manifest
  BY <1>4 DEF Appended
<1>7. Owns(u, m) /\ Shaped(u, m) /\ ~m.committed /\ Storable(u, m)
  BY <1>2, <1>3, <1>4, AppendFits
<1>9. /\ manifest' \in [Upload -> Manifest] /\ CommittedHasJob'
      /\ \A v \in Single : Storable(v, manifest'[v])
  BY <1>3, <1>4, <1>7, BaseWrites
<1>10. RequestTypes' /\ (\A q \in Request : Fits(req'[q])) /\ (\A q \in Request : KnowsJob(req[q]))'
  <2>1. CASE Over(r)
    BY <1>3, <2>1, BaseEnds
  <2>2. CASE Complete(m) /\ u \in Plain /\ Goes(r, "compose", m, req[r].k, req[r].out)
    <3>1. PICK x : /\ Moves(r, x) /\ x.pc = "compose" /\ Same(x, req[r])
                   /\ x.man = m /\ x.k = req[r].k /\ x.out = req[r].out
      BY <2>2 DEF Goes
    <3>2. Carries(x)
      <4>1. Len(m.chunks) \in Nat
        BY <1>6 DEF Manifest
      <4>2. x.k = 1 /\ x.k <= Len(x.man.chunks) + 1
        BY <1>1, <1>3, <3>1, <4>1 DEF Carries
      <4>3. QED BY <1>1, <1>2, <1>3, <2>2, <3>1, <4>2 DEF Carries, Same, Finalizing
    <3>3. Fits(x)
      BY <1>2, <1>3, <1>7, <2>2, <3>1 DEF Fits, Same
    <3>4. KnowsJob(x)'
      BY <1>7, <3>1 DEF KnowsJob
    <3>5. QED BY <1>3, <3>1, <3>2, <3>3, <3>4, BaseMoves
  <2>3. QED BY <1>4, <2>1, <2>2
<1>11. QED BY <1>1, <1>3, <1>9, <1>10, BaseMade DEF TypeOK

LEMMA BaseCompose ==
    ASSUME Base, NEW r \in Request, ComposeChunk(r)
    PROVE  Base'
<1>1. TypeOK /\ Carries(req[r]) /\ Fits(req[r]) /\ KnowsJob(req[r]) /\ terminated \subseteq Upload
  BY BaseFacts
<1>2. PICK out : out = req[r].out \o ChunkBytes(Chunk(r).key, stored[Chunk(r).key])
  OBVIOUS
<1>3. /\ req[r].pc = "compose" /\ req[r].k <= Len(req[r].man.chunks)
      /\ Goes(r, "compose", req[r].man, req[r].k + 1, out)
      /\ UNCHANGED <<scenario, manifest, stored, object, jobs, terminated, drops>>
  BY <1>1, <1>2, ComposeEffect
<1>4. PICK x : /\ Moves(r, x) /\ x.pc = "compose" /\ Same(x, req[r])
               /\ x.man = req[r].man /\ x.k = req[r].k + 1
  BY <1>3 DEF Goes
<1>5. Carries(x)
  <2>1. req[r].k \in Nat /\ Len(req[r].man.chunks) \in Nat
    BY <1>1, ReqFields
  <2>2. x.k <= Len(x.man.chunks) + 1
    BY <1>3, <1>4, <2>1
  <2>3. QED BY <1>1, <1>3, <1>4, <2>2 DEF Carries, Same, Finalizing
<1>6. Fits(x)
  BY <1>1, <1>3, <1>4 DEF Fits, Same
<1>7. KnowsJob(x)
  BY <1>1, <1>3, <1>4 DEF KnowsJob, Same
<1>8. QED BY <1>1, <1>3, <1>4, <1>5, <1>6, <1>7, BaseOnlyMoves

LEMMA BaseFinish ==
    ASSUME Base, NEW r \in Request, FinishCompose(r)
    PROVE  Base'
<1>1. TypeOK /\ Carries(req[r]) /\ Fits(req[r]) /\ KnowsJob(req[r])
  BY BaseFacts
<1>2. /\ req[r].pc = "compose" /\ req[r].up \in Upload
      /\ Goes(r, "enqueue", req[r].man, req[r].k, <<>>)
      /\ object' = [object EXCEPT ![req[r].up] = req[r].out]
      /\ UNCHANGED <<scenario, manifest, stored, jobs, terminated, drops>>
  BY <1>1, FinishEffect
<1>3. PICK x : /\ Moves(r, x) /\ x.pc = "enqueue" /\ Same(x, req[r])
               /\ x.man = req[r].man /\ x.k = req[r].k
  BY <1>2 DEF Goes
<1>4. Carries(x)
  BY <1>1, <1>2, <1>3 DEF Carries, Same, Finalizing
<1>5. Fits(x)
  BY <1>1, <1>2, <1>3 DEF Fits, Same
<1>6. KnowsJob(x)'
  BY <1>1, <1>2, <1>3 DEF KnowsJob, Same
<1>7. RequestTypes' /\ (\A q \in Request : Fits(req'[q])) /\ (\A q \in Request : KnowsJob(req[q]))'
  BY <1>2, <1>3, <1>4, <1>5, <1>6, BaseMoves
<1>8. /\ manifest' \in [Upload -> Manifest] /\ CommittedHasJob'
      /\ \A v \in Single : Storable(v, manifest'[v])
  BY <1>2, BaseKeepsManifests
<1>9. object' \in [Upload -> Seq(Byte)]
  BY <1>1, <1>2, ReqFields DEF TypeOK
<1>10. QED BY <1>1, <1>2, <1>7, <1>8, <1>9, BaseMade DEF TypeOK

LEMMA BaseEnqueue ==
    ASSUME Base, NEW r \in Request, EnqueueStored(r)
    PROVE  Base'
<1>1. TypeOK /\ Carries(req[r]) /\ Fits(req[r]) /\ KnowsJob(req[r])
  BY BaseFacts
<1>2. /\ req[r].pc = "enqueue" /\ req[r].up \in Upload
      /\ Goes(r, "commit", req[r].man, req[r].k, req[r].out)
      /\ jobs' = jobs \cup {req[r].up}
      /\ UNCHANGED <<scenario, manifest, stored, object, terminated, drops>>
  BY <1>1, EnqueueEffect
<1>3. PICK x : /\ Moves(r, x) /\ x.pc = "commit" /\ Same(x, req[r])
               /\ x.man = req[r].man /\ x.k = req[r].k
  BY <1>2 DEF Goes
<1>4. Carries(x)
  BY <1>1, <1>2, <1>3 DEF Carries, Same, Finalizing
<1>5. Fits(x)
  BY <1>1, <1>2, <1>3 DEF Fits, Same
<1>6. KnowsJob(x)'
  BY <1>1, <1>2, <1>3 DEF KnowsJob, Same
<1>7. RequestTypes' /\ (\A q \in Request : Fits(req'[q])) /\ (\A q \in Request : KnowsJob(req[q]))'
  BY <1>2, <1>3, <1>4, <1>5, <1>6, BaseMoves
<1>8. /\ manifest' \in [Upload -> Manifest] /\ CommittedHasJob'
      /\ \A v \in Single : Storable(v, manifest'[v])
  BY <1>2, BaseKeepsManifests
<1>9. QED BY <1>1, <1>2, <1>7, <1>8, BaseMade DEF TypeOK

LEMMA CommitFits ==
    ASSUME Base, NEW r \in Request, req[r].pc = "commit", NEW m,
           Remade(m, req[r].man, req[r].man.chunks, TRUE)
    PROVE  /\ req[r].up \in Upload /\ req[r].up \in Plain \cup Final /\ req[r].up \in jobs
           /\ m.committed = TRUE /\ m.chunks = req[r].man.chunks
           /\ req[r].up \in Single => Owns(req[r].up, m) /\ Storable(req[r].up, m)
<1>1. PICK u : u = req[r].up
  OBVIOUS
<1>2. /\ u \in Upload /\ u \in Plain \cup Final /\ u \in jobs /\ Fits(req[r])
      /\ m.committed = TRUE /\ m.chunks = req[r].man.chunks /\ m.offset = req[r].man.offset
  BY <1>1, BaseFacts DEF KnowsJob, Remade, Carries, Finalizing
<1>3. u \in Single => Owns(u, m)
  BY <1>1, <1>2 DEF Fits, Owns
<1>4. u \in Single => Storable(u, m)
  BY <1>2, <1>3, Kinds DEF Storable
<1>5. QED BY <1>1, <1>2, <1>3, <1>4

LEMMA BaseCommit ==
    ASSUME Base, NEW r \in Request, Commit(r)
    PROVE  Base'
<1>1. TypeOK /\ Carries(req[r]) /\ Fits(req[r]) /\ KnowsJob(req[r])
  BY BaseFacts
<1>2. PICK u : u = req[r].up
  OBVIOUS
<1>3. /\ req[r].pc = "commit" /\ u \in Upload /\ u \in Plain \cup Final
      /\ UNCHANGED <<scenario, stored, object, jobs, terminated, drops>>
  BY <1>1, <1>2, CommitEffect DEF Carries, Finalizing
<1>4. PICK m : /\ Remade(m, req[r].man, req[r].man.chunks, TRUE) /\ Writes(u, m)
               /\ Goes(r, "cleanup", m, 1, req[r].out)
  BY <1>1, <1>2, CommitEffect
<1>5. PICK x : /\ Moves(r, x) /\ x.pc = "cleanup" /\ Same(x, req[r]) /\ x.man = m /\ x.k = 1
  BY <1>4 DEF Goes
<1>6. /\ u \in jobs /\ m.committed = TRUE /\ m.chunks = req[r].man.chunks
      /\ u \in Single => Owns(u, m) /\ Storable(u, m)
  BY <1>2, <1>3, <1>4, CommitFits
<1>9. /\ manifest' \in [Upload -> Manifest] /\ CommittedHasJob'
      /\ \A v \in Single : Storable(v, manifest'[v])
  BY <1>3, <1>4, <1>6, BaseWrites
<1>10. Carries(x)
  BY <1>1, <1>3, <1>5 DEF Carries, Same, Finalizing
<1>11. Fits(x)
  <2>1. u \in Final => \A i \in 1..Len(m.chunks) : m.chunks[i].key[1] \in Partial
    BY <1>1, <1>2, <1>3, <1>6 DEF Fits, Gathered
  <2>2. x.up = u
    BY <1>2, <1>5 DEF Same
  <2>3. QED BY <1>5, <1>6, <2>1, <2>2 DEF Fits
<1>12. KnowsJob(x)'
  BY <1>2, <1>3, <1>5, <1>6 DEF KnowsJob, Same
<1>13. RequestTypes' /\ (\A q \in Request : Fits(req'[q])) /\ (\A q \in Request : KnowsJob(req[q]))'
  BY <1>3, <1>5, <1>10, <1>11, <1>12, BaseMoves
<1>14. QED BY <1>1, <1>3, <1>9, <1>13, BaseMade DEF TypeOK

LEMMA BaseCleanup ==
    ASSUME Base, NEW r \in Request, NEW c \in ChunkKey, CleanupChunk(r, c)
    PROVE  Base'
<1>1. TypeOK
  BY BaseFacts
<1>2. /\ stored' = [stored EXCEPT ![c] = 0]
      /\ UNCHANGED <<scenario, manifest, object, jobs, req, terminated, drops>>
  BY <1>1, CleanupEffect
<1>3. stored' \in [ChunkKey -> Nat]
  BY <1>1, <1>2 DEF TypeOK
<1>4. RequestTypes' /\ (\A q \in Request : Fits(req'[q])) /\ (\A q \in Request : KnowsJob(req[q]))'
  BY <1>2, BaseStays
<1>5. /\ manifest' \in [Upload -> Manifest] /\ CommittedHasJob'
      /\ \A v \in Single : Storable(v, manifest'[v])
  BY <1>2, BaseKeepsManifests
<1>6. QED BY <1>1, <1>2, <1>3, <1>4, <1>5, BaseMade DEF TypeOK

LEMMA BaseCompact ==
    ASSUME Base, NEW r \in Request, Compact(r)
    PROVE  Base'
<1>1. TypeOK /\ Carries(req[r]) /\ Fits(req[r]) /\ KnowsJob(req[r])
  BY BaseFacts
<1>2. PICK u : u = req[r].up
  OBVIOUS
<1>3. /\ req[r].pc = "cleanup" /\ u \in Upload /\ u \in Plain \cup Final /\ drops' \in Nat
      /\ UNCHANGED <<scenario, stored, object, jobs, terminated>>
  BY <1>1, <1>2, CompactEffect DEF Carries, Finalizing
<1>4. PICK m : /\ Remade(m, req[r].man, <<>>, req[r].man.committed) /\ Writes(u, m)
               /\ \/ u \in Final /\ Goes(r, "parts", m, req[r].k, req[r].out)
                  \/ Over(r)
  BY <1>1, <1>2, CompactEffect
<1>5. u \in jobs /\ m.committed /\ m.chunks = <<>>
  BY <1>1, <1>2, <1>3, <1>4 DEF KnowsJob, Remade, Fits
<1>6. u \in Single => Storable(u, m)
  BY <1>3, <1>5, OwnsNothing, Kinds DEF Storable
<1>7. /\ manifest' \in [Upload -> Manifest] /\ CommittedHasJob'
      /\ \A v \in Single : Storable(v, manifest'[v])
  BY <1>3, <1>4, <1>5, <1>6, BaseWrites
<1>8. RequestTypes' /\ (\A q \in Request : Fits(req'[q])) /\ (\A q \in Request : KnowsJob(req[q]))'
  <2>1. CASE Over(r)
    BY <1>3, <2>1, BaseEnds
  <2>2. CASE u \in Final /\ Goes(r, "parts", m, req[r].k, req[r].out)
    <3>1. PICK x : /\ Moves(r, x) /\ x.pc = "parts" /\ Same(x, req[r]) /\ x.man = m /\ x.k = req[r].k
      BY <2>2 DEF Goes
    <3>2. x.up = u /\ x.replica = req[r].replica /\ x.locked = req[r].locked
      BY <1>2, <3>1 DEF Same
    <3>3. Carries(x)
      <4>1. x.k <= Len(PartList)
        BY <1>1, <1>3, <3>1, Lists DEF Carries
      <4>2. QED BY <1>1, <1>2, <1>3, <2>2, <3>1, <3>2, <4>1 DEF Carries, Finalizing
    <3>4. Fits(x)
      BY <1>5, <2>2, <3>1, <3>2, Kinds DEF Fits
    <3>5. KnowsJob(x)'
      BY <1>3, <1>5, <3>1, <3>2 DEF KnowsJob
    <3>6. QED BY <1>3, <3>1, <3>3, <3>4, <3>5, BaseMoves
  <2>3. QED BY <1>4, <2>1, <2>2
<1>9. QED BY <1>1, <1>3, <1>7, <1>8, BaseMade DEF TypeOK

LEMMA ConcatFacts ==
    ASSUME NEW S, NEW a \in Seq(S), NEW b \in Seq(S)
    PROVE  /\ a \o b \in Seq(S)
           /\ Len(a) \in Nat /\ Len(b) \in Nat /\ Len(a \o b) = Len(a) + Len(b)
           /\ \A i \in 1..Len(a) : (a \o b)[i] = a[i]
           /\ \A i \in 1..Len(b) : (a \o b)[Len(a) + i] = b[i]
           /\ \A i \in 1..(Len(a) + Len(b)) :
                i \in 1..Len(a) \/ \E j \in 1..Len(b) : i = Len(a) + j
<1>1. /\ a \o b \in Seq(S)
      /\ Len(a) \in Nat /\ Len(b) \in Nat /\ Len(a \o b) = Len(a) + Len(b)
      /\ \A i \in 1..Len(a) : (a \o b)[i] = a[i]
      /\ \A i \in 1..Len(b) : (a \o b)[Len(a) + i] = b[i]
  OBVIOUS
<1>2. ASSUME NEW i \in 1..(Len(a) + Len(b)), i \notin 1..Len(a)
      PROVE  \E j \in 1..Len(b) : i = Len(a) + j
  <2>1. i - Len(a) \in 1..Len(b) /\ i = Len(a) + (i - Len(a))
    BY <1>1, <1>2
  <2>2. QED BY <2>1
<1>3. QED BY <1>1, <1>2

LEMMA LinkedConcat ==
    ASSUME NEW a \in Seq(ChunkRecord), NEW b \in Seq(ChunkRecord), Linked(a), Linked(b),
           a # <<>> /\ b # <<>> => NextTo(a[Len(a)], b[1])
    PROVE  Linked(a \o b)
<1>1. /\ Len(a) \in Nat /\ Len(b) \in Nat /\ Len(a \o b) = Len(a) + Len(b)
      /\ \A i \in 1..Len(a) : (a \o b)[i] = a[i]
      /\ \A i \in 1..Len(b) : (a \o b)[Len(a) + i] = b[i]
  OBVIOUS
<1>2. SUFFICES ASSUME NEW i \in 1..(Len(a \o b) - 1) PROVE NextTo((a \o b)[i], (a \o b)[i + 1])
  BY DEF Linked
<1>3. i \in Nat /\ 1 <= i /\ i < Len(a) + Len(b)
  BY <1>1, <1>2
<1>4. CASE i < Len(a)
  <2>1. i \in 1..(Len(a) - 1) /\ i \in 1..Len(a) /\ i + 1 \in 1..Len(a)
    BY <1>1, <1>3, <1>4
  <2>2. NextTo(a[i], a[i + 1])
    BY <2>1 DEF Linked
  <2>3. QED BY <1>1, <2>1, <2>2
<1>5. CASE i = Len(a)
  <2>1. i \in 1..Len(a) /\ 1 \in 1..Len(b) /\ a # <<>> /\ b # <<>>
    BY <1>1, <1>3, <1>5
  <2>2. (a \o b)[i] = a[Len(a)] /\ (a \o b)[i + 1] = b[1]
    BY <1>1, <1>5, <2>1
  <2>3. QED BY <2>1, <2>2
<1>6. CASE i > Len(a)
  <2>1. PICK j : j = i - Len(a)
    OBVIOUS
  <2>2. j \in 1..(Len(b) - 1) /\ j \in 1..Len(b) /\ j + 1 \in 1..Len(b)
    BY <1>1, <1>3, <1>6, <2>1
  <2>3. i = Len(a) + j /\ i + 1 = Len(a) + (j + 1)
    BY <1>1, <1>3, <2>1
  <2>4. (a \o b)[i] = b[j] /\ (a \o b)[i + 1] = b[j + 1]
    BY <1>1, <2>2, <2>3
  <2>5. NextTo(b[j], b[j + 1])
    BY <2>2 DEF Linked
  <2>6. QED BY <2>4, <2>5
<1>7. QED BY <1>1, <1>3, <1>4, <1>5, <1>6

(* One more complete part.                                                   *)
LEMMA GatheredMore ==
    ASSUME NEW k \in 1..Len(PartList), NEW n \in Manifest, NEW part \in Manifest, NEW m \in Manifest,
           Gathered(n, k - 1), Owns(PartList[k], part), Shaped(PartList[k], part), Complete(part),
           m.chunks = n.chunks \o part.chunks
    PROVE  Gathered(m, k)
<1>0. PICK a, b, s, u : a = n.chunks /\ b = part.chunks /\ s = m.chunks /\ u = PartList[k]
  OBVIOUS
<1>1. u \in Partial /\ u \in Single /\ Size[u] \in Nat \ {0} /\ k \in Nat /\ Len(PartList) \in Nat
  BY <1>0, Lists, Kinds
<1>2. a \in Seq(ChunkRecord) /\ b \in Seq(ChunkRecord) /\ s = a \o b
  BY <1>0 DEF Manifest
<1>3. /\ Len(a) \in Nat /\ Len(b) \in Nat /\ Len(s) = Len(a) + Len(b)
      /\ \A i \in 1..Len(a) : s[i] = a[i]
      /\ \A i \in 1..Len(b) : s[Len(a) + i] = b[i]
      /\ \A i \in 1..Len(s) : i \in 1..Len(a) \/ \E j \in 1..Len(b) : i = Len(a) + j
  BY <1>2, ConcatFacts
<1>4. /\ b # <<>> /\ b[1].key = <<u, 0>> /\ b[Len(b)].key[2] + b[Len(b)].size = Size[u]
  BY <1>0, <1>1 DEF Shaped, Complete
<1>5. Len(b) > 0 /\ Len(b) \in 1..Len(b) /\ 1 \in 1..Len(b) /\ \A i \in 1..Len(b) : b[i].key[1] = u
  <2>1. Len(b) > 0
    BY <1>2, <1>4
  <2>2. QED BY <1>0, <1>3, <2>1 DEF Owns
<1>6. \A i \in 1..Len(a) : a[i].key[1] \in Partial
  BY <1>0 DEF Gathered
<1>7. \A i \in 1..Len(s) : s[i].key[1] \in Partial
  <2>1. SUFFICES ASSUME NEW i \in 1..Len(s) PROVE s[i].key[1] \in Partial
    OBVIOUS
  <2>2. CASE i \in 1..Len(a)
    BY <1>3, <1>6, <2>2
  <2>3. CASE \E j \in 1..Len(b) : i = Len(a) + j
    <3>1. PICK j \in 1..Len(b) : i = Len(a) + j
      BY <2>3
    <3>2. s[i] = b[j]
      BY <1>3, <3>1
    <3>3. QED BY <1>1, <1>5, <3>2
  <2>4. QED BY <1>3, <2>2, <2>3
<1>8. s # <<>> /\ s[Len(s)] = b[Len(b)]
  <2>1. Len(s) > 0
    BY <1>3, <1>5
  <2>2. s[Len(s)] = b[Len(b)]
    BY <1>3, <1>5
  <2>3. QED BY <1>2, <2>1, <2>2
<1>9. s[1].key = <<PartList[1], 0>>
  <2>1. CASE k = 1
    <3>1. a = <<>>
      BY <1>0, <2>1 DEF Gathered
    <3>2. Len(a) = 0
      BY <3>1
    <3>3. s[Len(a) + 1] = b[1]
      BY <1>3, <1>5
    <3>4. s[1] = b[1]
      BY <3>2, <3>3
    <3>5. QED BY <1>0, <1>4, <2>1, <3>4
  <2>2. CASE k > 1
    <3>1. k - 1 > 0
      BY <1>1, <2>2
    <3>2. a # <<>> /\ a[1].key = <<PartList[1], 0>>
      BY <1>0, <3>1 DEF Gathered
    <3>3. 1 \in 1..Len(a)
      BY <1>2, <3>2
    <3>4. QED BY <1>3, <3>2, <3>3
  <2>3. k = 1 \/ k > 1
    BY <1>1
  <2>4. QED BY <2>1, <2>2, <2>3
<1>10. Linked(s)
  <2>1. ASSUME a # <<>> PROVE NextTo(a[Len(a)], b[1])
    <3>1. k - 1 # 0
      BY <1>0, <2>1 DEF Gathered
    <3>2. k - 1 > 0 /\ k - 1 \in 1..(Len(PartList) - 1) /\ (k - 1) + 1 = k
      BY <1>1, <3>1
    <3>3. PICK l : l = a[Len(a)]
      OBVIOUS
    <3>4. l.key[1] = PartList[k - 1] /\ l.key[2] + l.size = Size[PartList[k - 1]]
      BY <1>0, <3>2, <3>3 DEF Gathered
    <3>5. PartEnds(l.key[1], l.key[2] + l.size, b[1].key)
      BY <1>0, <1>4, <3>2, <3>4 DEF PartEnds
    <3>6. QED BY <3>3, <3>5 DEF NextTo
  <2>2. Linked(a) /\ Linked(b)
    BY <1>0 DEF Gathered, Shaped
  <2>3. QED BY <1>2, <2>1, <2>2, LinkedConcat
<1>11. s[Len(s)].key[1] = PartList[k] /\ s[Len(s)].key[2] + s[Len(s)].size = Size[PartList[k]]
  BY <1>0, <1>4, <1>5, <1>8
<1>12. k # 0
  OBVIOUS
<1>13. QED BY <1>0, <1>7, <1>8, <1>9, <1>10, <1>11, <1>12 DEF Gathered

LEMMA BaseLoad ==
    ASSUME Base, NEW r \in Request, LoadPart(r)
    PROVE  Base'
<1>1. TypeOK /\ Carries(req[r]) /\ Fits(req[r]) /\ KnowsJob(req[r]) /\ terminated \subseteq Upload
  BY BaseFacts
<1>2. PICK k, u, part, n : k = req[r].k /\ u = PartList[k] /\ part = manifest[u] /\ n = req[r].man
  OBVIOUS
<1>3. /\ req[r].pc = "load" /\ k <= Len(PartList) /\ u \in Partial
      /\ UNCHANGED <<scenario, manifest, stored, object, jobs, terminated, drops>>
  BY <1>1, <1>2, LoadEffect
<1>4. k \in 1..Len(PartList) /\ u \in Single /\ u \in Upload /\ part \in Manifest /\ n \in Manifest
  <2>1. k \in Nat \ {0} /\ n \in Manifest
    BY <1>1, <1>2, ReqFields
  <2>2. u \in Single /\ u \in Upload
    BY <1>3, Kinds
  <2>3. QED BY <1>1, <1>2, <1>3, <2>1, <2>2, Lists DEF TypeOK
<1>5. CASE Over(r)
  <2>1. Carries(Idle)
    BY IdleFacts DEF Carries, Finalizing
  <2>2. Fits(Idle)
    BY IdleFacts DEF Fits
  <2>3. KnowsJob(Idle)
    BY IdleFacts, MissingFacts DEF KnowsJob
  <2>4. QED BY <1>1, <1>3, <1>5, <2>1, <2>2, <2>3, BaseOnlyMoves DEF Over
<1>6. CASE ~Over(r)
  <2>1. part # Missing /\ Complete(part)
    BY <1>1, <1>2, <1>6, LoadEffect
  <2>2. PICK m : /\ m \in Manifest /\ m.committed = n.committed /\ m.chunks = n.chunks \o part.chunks
                 /\ Goes(r, "load", m, k + 1, req[r].out)
    BY <1>1, <1>2, <1>6, LoadEffect
  <2>3. PICK x : /\ Moves(r, x) /\ x.pc = "load" /\ Same(x, req[r])
                 /\ x.man = m /\ x.k = k + 1 /\ x.out = req[r].out
    BY <2>2 DEF Goes
  <2>4. Owns(u, part) /\ Shaped(u, part)
    BY <1>2, <1>3, <1>4, <2>1 DEF Base, ManifestsFit, Storable
  <2>5. Gathered(n, k - 1) /\ ~n.committed
    BY <1>1, <1>2, <1>3 DEF Fits
  <2>6. Gathered(m, k)
    BY <1>2, <1>4, <2>1, <2>2, <2>4, <2>5, GatheredMore
  <2>7. (k + 1) - 1 = k /\ k + 1 <= Len(PartList) + 1
    BY <1>4, Lists
  <2>8. Carries(x)
    BY <1>1, <1>3, <2>3, <2>7 DEF Carries, Same, Finalizing
  <2>9. x.up \in Final /\ x.up \notin Single
    BY <2>3, <2>8, Kinds DEF Carries
  <2>10. Gathered(x.man, x.k - 1)
    BY <2>3, <2>6, <2>7
  <2>11. Fits(x)
    BY <2>2, <2>3, <2>5, <2>9, <2>10 DEF Fits
  <2>12. KnowsJob(x)
    BY <2>2, <2>3, <2>5 DEF KnowsJob
  <2>13. QED BY <1>1, <1>3, <2>3, <2>8, <2>11, <2>12, BaseOnlyMoves
<1>7. QED BY <1>5, <1>6

LEMMA BaseSaveFinal ==
    ASSUME Base, NEW r \in Request, SaveFinal(r)
    PROVE  Base'
<1>1. TypeOK /\ Carries(req[r]) /\ Fits(req[r]) /\ KnowsJob(req[r])
  BY BaseFacts
<1>2. /\ req[r].pc = "load" /\ req[r].k > Len(PartList) /\ req[r].up \in Final
      /\ Writes(req[r].up, req[r].man)
      /\ Goes(r, "compose", req[r].man, 1, req[r].out)
      /\ UNCHANGED <<scenario, stored, object, jobs, terminated, drops>>
  BY <1>1, SaveFinalEffect
<1>3. PICK x : /\ Moves(r, x) /\ x.pc = "compose" /\ Same(x, req[r]) /\ x.man = req[r].man /\ x.k = 1
  BY <1>2 DEF Goes
<1>4. req[r].k - 1 = Len(PartList)
  <2>1. req[r].k \in Nat /\ req[r].k <= Len(PartList) + 1
    BY <1>1, <1>2, ReqFields DEF Carries
  <2>2. QED BY <1>2, <2>1, Lists
<1>5. Gathered(req[r].man, Len(PartList)) /\ ~req[r].man.committed
  BY <1>1, <1>2, <1>4 DEF Fits
<1>6. req[r].up \in Upload /\ req[r].up \notin Single /\ req[r].up \notin Plain
  BY <1>2, Kinds
<1>7. Carries(x)
  <2>1. Len(req[r].man.chunks) \in Nat
    BY <1>1, ReqFields
  <2>2. x.k <= Len(x.man.chunks) + 1
    BY <1>3, <2>1
  <2>3. QED BY <1>1, <1>2, <1>3, <2>2 DEF Carries, Same, Finalizing
<1>8. Fits(x)
  BY <1>2, <1>3, <1>5, <1>6 DEF Fits, Same
<1>9. KnowsJob(x)'
  BY <1>3, <1>5 DEF KnowsJob
<1>10. RequestTypes' /\ (\A q \in Request : Fits(req'[q])) /\ (\A q \in Request : KnowsJob(req[q]))'
  BY <1>2, <1>3, <1>7, <1>8, <1>9, BaseMoves
<1>11. /\ manifest' \in [Upload -> Manifest] /\ CommittedHasJob'
       /\ \A v \in Single : Storable(v, manifest'[v])
  BY <1>2, <1>5, <1>6, BaseWrites
<1>12. QED BY <1>1, <1>2, <1>10, <1>11, BaseMade DEF TypeOK

LEMMA BaseDropPart ==
    ASSUME Base, NEW r \in Request, DropPart(r)
    PROVE  Base'
<1>1. TypeOK /\ Carries(req[r]) /\ Fits(req[r]) /\ KnowsJob(req[r])
  BY BaseFacts
<1>2. PICK u : u = PartList[req[r].k]
  OBVIOUS
<1>3. /\ req[r].pc = "parts" /\ u \in Partial /\ u \in Single /\ u \in Upload /\ Writes(u, Missing)
      /\ \/ Over(r)
         \/ /\ req[r].k < Len(PartList)
            /\ Goes(r, "parts", req[r].man, req[r].k + 1, req[r].out)
      /\ UNCHANGED <<scenario, stored, object, jobs, terminated, drops>>
  BY <1>1, <1>2, DropPartEffect, Kinds
<1>4. /\ manifest' \in [Upload -> Manifest] /\ CommittedHasJob'
      /\ \A v \in Single : Storable(v, manifest'[v])
  <2>1. Storable(u, Missing) /\ ~Missing.committed
    BY <1>3, MissingStorable, MissingFacts
  <2>2. QED BY <1>3, <2>1, BaseWrites
<1>5. RequestTypes' /\ (\A q \in Request : Fits(req'[q])) /\ (\A q \in Request : KnowsJob(req[q]))'
  <2>1. CASE Over(r)
    BY <1>3, <2>1, BaseEnds
  <2>2. CASE ~Over(r)
    <3>1. req[r].k < Len(PartList) /\ Goes(r, "parts", req[r].man, req[r].k + 1, req[r].out)
      BY <1>3, <2>2
    <3>2. PICK x : /\ Moves(r, x) /\ x.pc = "parts" /\ Same(x, req[r])
                   /\ x.man = req[r].man /\ x.k = req[r].k + 1
      BY <3>1 DEF Goes
    <3>3. x.k <= Len(PartList)
      BY <1>1, <3>1, <3>2, ReqFields, Lists
    <3>4. Carries(x)
      BY <1>1, <1>3, <3>2, <3>3 DEF Carries, Same, Finalizing
    <3>5. Fits(x)
      BY <1>1, <1>3, <3>2 DEF Fits, Same
    <3>6. KnowsJob(x)'
      BY <1>1, <1>3, <3>2 DEF KnowsJob, Same
    <3>7. QED BY <1>3, <3>2, <3>4, <3>5, <3>6, BaseMoves
  <2>3. QED BY <2>1, <2>2
<1>6. QED BY <1>1, <1>3, <1>4, <1>5, BaseMade DEF TypeOK

LEMMA BaseDeleteChunk ==
    ASSUME Base, NEW r \in Request, DeleteChunk(r)
    PROVE  Base'
<1>1. TypeOK /\ Carries(req[r]) /\ Fits(req[r]) /\ KnowsJob(req[r])
  BY BaseFacts
<1>2. PICK c : c = Chunk(r).key
  OBVIOUS
<1>3. /\ req[r].pc = "delete" /\ c \in ChunkKey /\ stored' = [stored EXCEPT ![c] = 0]
      /\ Goes(r, "delete", req[r].man, req[r].k + 1, req[r].out)
      /\ UNCHANGED <<scenario, manifest, object, jobs, terminated, drops>>
  BY <1>1, <1>2, DeleteChunkEffect
<1>4. PICK x : /\ Moves(r, x) /\ x.pc = "delete" /\ Same(x, req[r]) /\ x.man = req[r].man
  BY <1>3 DEF Goes
<1>5. Carries(x)
  BY <1>1, <1>3, <1>4 DEF Carries, Same, Finalizing
<1>6. Fits(x)
  BY <1>1, <1>3, <1>4 DEF Fits, Same
<1>7. KnowsJob(x)'
  BY <1>1, <1>3, <1>4 DEF KnowsJob, Same
<1>8. RequestTypes' /\ (\A q \in Request : Fits(req'[q])) /\ (\A q \in Request : KnowsJob(req[q]))'
  BY <1>3, <1>4, <1>5, <1>6, <1>7, BaseMoves
<1>9. /\ manifest' \in [Upload -> Manifest] /\ CommittedHasJob'
      /\ \A v \in Single : Storable(v, manifest'[v])
  BY <1>3, BaseKeepsManifests
<1>10. stored' \in [ChunkKey -> Nat]
  BY <1>1, <1>3 DEF TypeOK
<1>11. QED BY <1>1, <1>3, <1>8, <1>9, <1>10, BaseMade DEF TypeOK

LEMMA BaseDeleteState ==
    ASSUME Base, NEW r \in Request, DeleteState(r)
    PROVE  Base'
<1>1. TypeOK
  BY BaseFacts
<1>2. PICK u : u = req[r].up
  OBVIOUS
<1>3. /\ u \in Single /\ u \in Upload /\ Writes(u, Missing) /\ Over(r)
      /\ UNCHANGED <<scenario, stored, object, jobs, terminated, drops>>
  BY <1>1, <1>2, DeleteStateEffect, Kinds
<1>4. Storable(u, Missing) /\ ~Missing.committed
  BY <1>3, MissingStorable, MissingFacts
<1>5. /\ manifest' \in [Upload -> Manifest] /\ CommittedHasJob'
      /\ \A v \in Single : Storable(v, manifest'[v])
  BY <1>3, <1>4, BaseWrites
<1>6. RequestTypes' /\ (\A q \in Request : Fits(req'[q])) /\ (\A q \in Request : KnowsJob(req[q]))'
  BY <1>3, BaseEnds
<1>7. QED BY <1>1, <1>3, <1>5, <1>6, BaseMade DEF TypeOK

LEMMA BaseQuit ==
    ASSUME Base, NEW r \in Request, ComposeFails(r) \/ Drop(r)
    PROVE  Base'
<1>1. TypeOK
  BY BaseFacts
<1>2. /\ Over(r) /\ drops' \in Nat
      /\ UNCHANGED <<scenario, manifest, stored, object, jobs, terminated>>
  BY <1>1, QuitEffect
<1>3. RequestTypes' /\ (\A q \in Request : Fits(req'[q])) /\ (\A q \in Request : KnowsJob(req[q]))'
  BY <1>2, BaseEnds
<1>4. /\ manifest' \in [Upload -> Manifest] /\ CommittedHasJob'
      /\ \A v \in Single : Storable(v, manifest'[v])
  BY <1>2, BaseKeepsManifests
<1>5. QED BY <1>1, <1>2, <1>3, <1>4, BaseMade DEF TypeOK

LEMMA BaseAbandon ==
    ASSUME Base, NEW r \in Request, Abandon(r)
    PROVE  Base'
<1>1. TypeOK /\ Carries(req[r]) /\ Fits(req[r]) /\ KnowsJob(req[r])
  BY BaseFacts
<1>2. /\ drops' \in Nat /\ UNCHANGED <<scenario, manifest, stored, object, jobs, terminated>>
      /\ \E x : /\ Moves(r, x) /\ x.pc = req[r].pc /\ x.replica = req[r].replica
                /\ x.up = req[r].up /\ x.offset = req[r].offset /\ x.size = req[r].size
                /\ x.man = req[r].man /\ x.k = req[r].k /\ x.out = req[r].out
  BY <1>1, AbandonEffect
<1>3. /\ req[r].pc \in {"put", "append", "commit", "delete"}
  BY <1>1, AbandonEffect
<1>4. PICK x : /\ Moves(r, x) /\ x.pc = req[r].pc /\ x.replica = req[r].replica
               /\ x.up = req[r].up /\ x.offset = req[r].offset /\ x.size = req[r].size
               /\ x.man = req[r].man /\ x.k = req[r].k /\ x.out = req[r].out
  BY <1>2
<1>5. Carries(x)
  BY <1>1, <1>3, <1>4 DEF Carries, Finalizing
<1>6. Fits(x)
  BY <1>1, <1>3, <1>4 DEF Fits
<1>7. KnowsJob(x)'
  BY <1>1, <1>2, <1>4 DEF KnowsJob
<1>8. RequestTypes' /\ (\A q \in Request : Fits(req'[q])) /\ (\A q \in Request : KnowsJob(req[q]))'
  BY <1>2, <1>4, <1>5, <1>6, <1>7, BaseMoves
<1>9. /\ manifest' \in [Upload -> Manifest] /\ CommittedHasJob'
      /\ \A v \in Single : Storable(v, manifest'[v])
  BY <1>2, BaseKeepsManifests
<1>10. QED BY <1>1, <1>2, <1>8, <1>9, BaseMade DEF TypeOK

LEMMA BaseLand ==
    ASSUME Base, NEW r \in Request, Land(r)
    PROVE  Base'
<1>1. TypeOK
  BY BaseFacts
<1>2. Over(r) /\ UNCHANGED <<scenario, object, jobs, terminated, drops>>
  BY <1>1, LandEffect
<1>3. RequestTypes' /\ (\A q \in Request : Fits(req'[q])) /\ (\A q \in Request : KnowsJob(req[q]))'
  BY <1>2, BaseEnds
<1>4. ASSUME NEW c \in ChunkKey, NEW n \in Nat, stored' = [stored EXCEPT ![c] = n], UNCHANGED manifest
      PROVE  Base'
  <2>1. /\ manifest' \in [Upload -> Manifest] /\ CommittedHasJob'
        /\ \A v \in Single : Storable(v, manifest'[v])
    BY <1>2, <1>4, BaseKeepsManifests
  <2>2. stored' \in [ChunkKey -> Nat]
    BY <1>1, <1>4 DEF TypeOK
  <2>3. QED BY <1>1, <1>2, <1>3, <2>1, <2>2, BaseMade DEF TypeOK
<1>5. ASSUME NEW u \in Single, NEW m, Writes(u, m), UNCHANGED stored, Storable(u, m),
             m.committed => u \in jobs
      PROVE  Base'
  <2>1. /\ manifest' \in [Upload -> Manifest] /\ CommittedHasJob'
        /\ \A v \in Single : Storable(v, manifest'[v])
    BY <1>2, <1>5, BaseWrites, Kinds
  <2>2. QED BY <1>1, <1>2, <1>3, <1>5, <2>1, BaseMade DEF TypeOK
<1>6. CASE req[r].pc = "put"
  <2>1. /\ <<req[r].up, req[r].offset>> \in ChunkKey /\ UNCHANGED manifest
        /\ stored' = [stored EXCEPT ![<<req[r].up, req[r].offset>>] = req[r].size]
    BY <1>1, <1>6, LandEffect DEF DeleteState
  <2>2. req[r].size \in Nat
    BY <1>1, ReqFields
  <2>3. QED BY <1>4, <2>1, <2>2
<1>7. CASE req[r].pc = "append"
  <2>1. /\ UNCHANGED stored
        /\ \E m, c : Appended(m, req[r], c) /\ Writes(req[r].up, m)
    BY <1>1, <1>7, LandEffect DEF DeleteState
  <2>2. PICK m, c : Appended(m, req[r], c) /\ Writes(req[r].up, m)
    BY <2>1
  <2>3. req[r].up \in Single /\ ~m.committed /\ Storable(req[r].up, m)
    BY <1>7, <2>2, AppendFits
  <2>4. QED BY <1>5, <2>1, <2>2, <2>3
<1>8. CASE req[r].pc = "commit"
  <2>1. /\ UNCHANGED stored /\ req[r].up \notin Final
        /\ \E m : Remade(m, req[r].man, req[r].man.chunks, TRUE) /\ Writes(req[r].up, m)
    BY <1>1, <1>8, LandEffect DEF DeleteState
  <2>2. PICK m : Remade(m, req[r].man, req[r].man.chunks, TRUE) /\ Writes(req[r].up, m)
    BY <2>1
  <2>3. req[r].up \in Single /\ req[r].up \in jobs /\ Storable(req[r].up, m)
    BY <1>8, <2>1, <2>2, CommitFits, Kinds
  <2>4. QED BY <1>5, <2>1, <2>2, <2>3
<1>9. CASE req[r].pc = "delete" /\ ~DeleteState(r)
  <2>1. /\ Chunk(r).key \in ChunkKey /\ UNCHANGED manifest
        /\ stored' = [stored EXCEPT ![Chunk(r).key] = 0]
    BY <1>1, <1>9, LandEffect
  <2>2. QED BY <1>4, <2>1
<1>10. CASE DeleteState(r)
  BY <1>10, BaseDeleteState
<1>11. QED BY <1>1, <1>6, <1>7, <1>8, <1>9, <1>10, LandEffect

LEMMA BaseTear ==
    ASSUME Base, NEW r \in Request, Tear(r)
    PROVE  Base'
<1>1. TypeOK
  BY BaseFacts
<1>2. Over(r) /\ UNCHANGED <<scenario, object, jobs, terminated, drops>>
  BY <1>1, TearEffect
<1>3. RequestTypes' /\ (\A q \in Request : Fits(req'[q])) /\ (\A q \in Request : KnowsJob(req[q]))'
  BY <1>2, BaseEnds
<1>4. CASE req[r].pc = "put"
  <2>1. /\ <<req[r].up, req[r].offset>> \in ChunkKey /\ UNCHANGED manifest
        /\ stored' = [stored EXCEPT ![<<req[r].up, req[r].offset>>] = 0]
    BY <1>1, <1>4, TearEffect
  <2>2. /\ manifest' \in [Upload -> Manifest] /\ CommittedHasJob'
        /\ \A v \in Single : Storable(v, manifest'[v])
    BY <1>2, <2>1, BaseKeepsManifests
  <2>3. stored' \in [ChunkKey -> Nat]
    BY <1>1, <2>1 DEF TypeOK
  <2>4. QED BY <1>1, <1>2, <1>3, <2>2, <2>3, BaseMade DEF TypeOK
<1>5. CASE req[r].pc # "put"
  <2>1. req[r].up \in Single /\ Writes(req[r].up, Missing) /\ UNCHANGED stored
    BY <1>1, <1>5, TearEffect
  <2>2. Storable(req[r].up, Missing) /\ ~Missing.committed
    BY <2>1, MissingStorable, MissingFacts
  <2>3. /\ manifest' \in [Upload -> Manifest] /\ CommittedHasJob'
        /\ \A v \in Single : Storable(v, manifest'[v])
    BY <1>2, <2>1, <2>2, BaseWrites, Kinds
  <2>4. QED BY <1>1, <1>2, <1>3, <2>1, <2>3, BaseMade DEF TypeOK
<1>6. QED BY <1>4, <1>5

LEMMA BaseIdle ==
    ASSUME Base, UNCHANGED vars
    PROVE  Base'
<1>1. UNCHANGED <<scenario, manifest, stored, object, jobs, req, terminated, drops>>
  BY DEF vars
<1>2. RequestTypes' /\ (\A q \in Request : Fits(req'[q])) /\ (\A q \in Request : KnowsJob(req[q]))'
  BY <1>1, BaseStays
<1>3. /\ manifest' \in [Upload -> Manifest] /\ CommittedHasJob'
      /\ \A v \in Single : Storable(v, manifest'[v])
  BY <1>1, BaseKeepsManifests
<1>4. QED BY <1>1, <1>2, <1>3, BaseMade DEF Base, TypeOK

LEMMA BaseStep ==
    ASSUME Base, [Next]_vars
    PROVE  Base'
<1>1. CASE \E u \in Plain \cup Partial : Create(u)
  BY <1>1, BaseCreate DEF Single
<1>2. CASE \E r \in Request, p \in scenario.replicas : \E u \in Plain : StartResult(r, p, u)
  BY <1>2, BaseResult
<1>3. CASE \E r \in Request, p \in scenario.replicas : \E u \in Plain \cup Partial : StartDelete(r, p, u)
  BY <1>3, BaseDelete DEF Single
<1>4. CASE \E r \in Request, p \in scenario.replicas :
             \E c \in ChunkKey, size \in scenario.chunks : StartPatch(r, p, c[1], c[2], size)
  BY <1>4, BasePatch
<1>5. CASE \E r \in Request, p \in scenario.replicas : \E f \in Final : StartFinal(r, p, f)
  BY <1>5, BaseFinal
<1>6. CASE \E r \in Request : Step(r) \/ Interrupted(r)
  <2>1. PICK r \in Request : Step(r) \/ Interrupted(r)
    BY <1>6
  <2>2. CASE PutChunk(r) \/ SaveAppend(r)
    BY <2>2, BasePut, BaseAppend
  <2>3. CASE ComposeChunk(r) \/ FinishCompose(r) \/ EnqueueStored(r) \/ Commit(r)
    BY <2>3, BaseCompose, BaseFinish, BaseEnqueue, BaseCommit
  <2>4. CASE (\E c \in ChunkKey : CleanupChunk(r, c)) \/ Compact(r)
    BY <2>4, BaseCleanup, BaseCompact
  <2>5. CASE LoadPart(r) \/ SaveFinal(r) \/ DropPart(r)
    BY <2>5, BaseLoad, BaseSaveFinal, BaseDropPart
  <2>6. CASE DeleteChunk(r) \/ DeleteState(r)
    BY <2>6, BaseDeleteChunk, BaseDeleteState
  <2>7. CASE ComposeFails(r) \/ Drop(r)
    BY <2>7, BaseQuit
  <2>8. CASE Abandon(r) \/ Land(r) \/ Tear(r)
    BY <2>8, BaseAbandon, BaseLand, BaseTear
  <2>9. QED BY <2>1, <2>2, <2>3, <2>4, <2>5, <2>6, <2>7, <2>8 DEF Step, Interrupted
<1>7. CASE UNCHANGED vars
  BY <1>7, BaseIdle
<1>8. QED BY <1>1, <1>2, <1>3, <1>4, <1>5, <1>6, <1>7, Zenon DEF Next

LEMMA BaseInit ==
    ASSUME Init
    PROVE  Base
<1>1. /\ scenario \in Scenarios /\ manifest = [u \in Upload |-> Missing]
      /\ stored = [c \in ChunkKey |-> 0] /\ object = [u \in Upload |-> <<>>]
      /\ jobs = {} /\ req = [r \in Request |-> Idle] /\ terminated = {} /\ drops = 0
  BY DEF Init
<1>2. <<>> \in Seq(Byte)
  OBVIOUS
<1>3. Carries(Idle) /\ Fits(Idle) /\ KnowsJob(Idle)
  BY IdleFacts, MissingFacts DEF Carries, Finalizing, Fits, KnowsJob
<1>4. TypeOK
  BY <1>1, <1>2, <1>3, IdleFacts, MissingFacts DEF TypeOK, RequestTypes
<1>5. JobsLead
  BY <1>1, <1>3, MissingFacts DEF JobsLead, CommittedHasJob
<1>6. ManifestsFit
  BY <1>1, <1>3, MissingStorable, Kinds DEF ManifestsFit
<1>7. QED BY <1>4, <1>5, <1>6 DEF Base

(* Types, the order of job and manifest, and the shape of every manifest:    *)
(* inductive on either store, for any number of API processes.               *)
THEOREM BaseHolds == Spec => []Base
<1>1. Init => Base
  BY BaseInit
<1>2. Base /\ [Next]_vars => Base'
  BY BaseStep
<1>3. QED BY <1>1, <1>2, PTL DEF Spec

(* The history of unprotected uploads only grows.                            *)
LEMMA SpoiledStarts ==
    ASSUME NEW r \in Request, NEW p, NEW u \in Single, NEW y, Start(r, p, u, y)
    PROVE  /\ spoiled \subseteq spoiled' /\ spoiled' \subseteq spoiled \cup Upload
           /\ Unprotected(p, u) => u \in spoiled'
BY Kinds DEF Start

LEMMA SpoiledStep ==
    ASSUME Base, [Next]_vars
    PROVE  spoiled \subseteq spoiled' /\ spoiled' \subseteq spoiled \cup Upload
<1>1. CASE \E r \in Request, p \in scenario.replicas : \E u \in Plain : StartResult(r, p, u)
  BY <1>1, SpoiledStarts, Kinds DEF StartResult
<1>2. CASE \E r \in Request, p \in scenario.replicas : \E u \in Plain \cup Partial : StartDelete(r, p, u)
  BY <1>2, SpoiledStarts DEF StartDelete, Single
<1>3. CASE \E r \in Request, p \in scenario.replicas :
             \E c \in ChunkKey, size \in scenario.chunks : StartPatch(r, p, c[1], c[2], size)
  BY <1>3, SpoiledStarts, Keys DEF StartPatch
<1>4. CASE \E r \in Request : Tear(r)
  <2>1. PICK r \in Request : Tear(r)
    BY <1>4
  <2>2. spoiled' = spoiled \/ (req[r].up \in Single /\ spoiled' = spoiled \cup {req[r].up})
    BY <2>1, TearEffect DEF Base
  <2>3. QED BY <2>2, Kinds
<1>5. CASE UNCHANGED spoiled
  BY <1>5
<1>6. \/ \E r \in Request, p \in scenario.replicas : \E u \in Plain : StartResult(r, p, u)
      \/ \E r \in Request, p \in scenario.replicas : \E u \in Plain \cup Partial : StartDelete(r, p, u)
      \/ \E r \in Request, p \in scenario.replicas :
           \E c \in ChunkKey, size \in scenario.chunks : StartPatch(r, p, c[1], c[2], size)
      \/ \E r \in Request : Tear(r)
      \/ UNCHANGED spoiled
  BY ZenonT(30) DEF Next, Step, Interrupted, vars, Create, StartFinal, PutChunk, SaveAppend,
         ComposeChunk, ComposeFails, FinishCompose, EnqueueStored, Commit, CleanupChunk, Compact,
         LoadPart, SaveFinal, DropPart, DeleteChunk, DeleteState, Drop, Abandon, Land
<1>7. QED BY <1>1, <1>2, <1>3, <1>4, <1>5, <1>6

(* Every manifest, chunk, object and request keeps its type, and only        *)
(* uploads are on record as unprotected by their lock.                       *)
THEOREM TypeCorrect == Spec => [](TypeOK /\ spoiled \subseteq Upload)
<1>1. Init => Base /\ spoiled \subseteq Upload
  BY BaseInit DEF Init
<1>2. (Base /\ spoiled \subseteq Upload) /\ [Next]_vars => (Base /\ spoiled \subseteq Upload)'
  BY BaseStep, SpoiledStep
<1>3. (Base /\ spoiled \subseteq Upload) => (TypeOK /\ spoiled \subseteq Upload)
  BY DEF Base
<1>4. QED BY <1>1, <1>2, <1>3, PTL DEF Spec

(* "completed upload job is missing" never happens: whatever is dropped or   *)
(* overtaken in finalize_resumable, on however many replicas, a manifest     *)
(* that names a job names one that enqueue_stored has stored.                *)
THEOREM CommittedHasJobHolds == Spec => []CommittedHasJob
<1>1. Base => CommittedHasJob
  BY DEF Base, JobsLead
<1>2. QED BY <1>1, BaseHolds, PTL

-----------------------------------------------------------------------------
(* What the lock adds.                                                       *)

(* The bytes of u are safe.                                                  *)
Safe(u) ==
    Intact(manifest[u]) \/ manifest[u].committed \/ (u \in Partial /\ Delivered(u))

LEMMA SafeMeans ==
    AcknowledgedBytesSurvive
        <=> \A u \in Single : u \notin terminated /\ u \notin spoiled => Safe(u)
BY DEF AcknowledgedBytesSurvive, Single, Safe

LEMMA DeliveredPart ==
    ASSUME NEW u \in Partial
    PROVE  Delivered(u) <=> jobs \cap Final # {}
BY Kinds DEF Delivered

LEMMA DeliveredStays ==
    ASSUME NEW u \in Partial, Delivered(u), jobs \subseteq jobs'
    PROVE  Delivered(u)'
BY Kinds DEF Delivered

LEMMA IntactMeans ==
    ASSUME NEW m \in Manifest
    PROVE  /\ DOMAIN m.chunks = 1..Len(m.chunks)
           /\ \A i \in 1..Len(m.chunks) : m.chunks[i] \in ChunkRecord /\ m.chunks[i].key \in ChunkKey
           /\ \A i \in 1..Len(m.chunks) : m.chunks[i].size \in Nat \ {0}
<1>1. m.chunks \in Seq(ChunkRecord)
  BY DEF Manifest
<1>2. DOMAIN m.chunks = 1..Len(m.chunks) /\ \A i \in 1..Len(m.chunks) : m.chunks[i] \in ChunkRecord
  BY <1>1
<1>3. QED BY <1>2 DEF ChunkRecord

(* Chunks disappear, but none changes its size.                              *)
ChunksFade == \A c \in ChunkKey : stored'[c] = stored[c] \/ stored'[c] = 0

LEMMA AgreeFades ==
    ASSUME NEW m \in Manifest, SizesAgree(m), ChunksFade, spoiled \subseteq spoiled'
    PROVE  SizesAgree(m)'
<1>1. \A i \in 1..Len(m.chunks) : m.chunks[i].key \in ChunkKey
  BY IntactMeans
<1>2. QED BY <1>1 DEF SizesAgree, ChunksFade

(* Locks: who is busy with an upload.                                        *)
LEMMA HolderGoes ==
    ASSUME Base, OneHolder, NEW r \in Request, NEW x, Moves(r, x), spoiled \subseteq spoiled',
           x.pc # "idle" => Busy(r) /\ x.up = req[r].up
    PROVE  OneHolder'
<1>1. /\ req'[r] = x /\ \A q \in Request : q # r => req'[q] = req[q]
  BY Moved DEF Base
<1>2. QED BY <1>1 DEF OneHolder, Busy

LEMMA HolderBegins ==
    ASSUME Base, OneHolder, NEW r \in Request, NEW x, Moves(r, x), spoiled \subseteq spoiled',
           \A q \in Request : q # r /\ Busy(q) => req[q].up # x.up \/ x.up \in spoiled'
    PROVE  OneHolder'
<1>1. /\ req'[r] = x /\ \A q \in Request : q # r => req'[q] = req[q]
  BY Moved DEF Base
<1>2. QED BY <1>1 DEF OneHolder, Busy

LEMMA LockExcludes ==
    ASSUME NEW p, NEW u, LockFree(p, u), ~Unprotected(p, u)
    PROVE  \A q \in Request : req[q].up # u
BY DEF LockFree, Unprotected

(* What the other requests rely on.                                          *)
ClosedKept == \A v \in Partial : Closed(v) => Closed(v)'

ManifestKept(q) ==
    Busy(q) /\ req[q].up \notin spoiled' =>
        \/ manifest'[req[q].up] = manifest[req[q].up]
        \/ req[q].pc = "delete" /\ req[q].up \in Partial

ChunkKept(q) ==
    req[q].pc = "append" /\ req[q].up \notin spoiled' =>
        stored'[<<req[q].up, req[q].offset>>] = stored[<<req[q].up, req[q].offset>>]

Undisturbed(q) == ManifestKept(q) /\ ChunkKept(q)

LEMMA FinalKeys ==
    ASSUME NEW x \in RequestState, x.pc # "idle", x.up \in Final, Carries(x), Fits(x)
    PROVE  \A i \in 1..Len(x.man.chunks) : x.man.chunks[i].key[1] \in Partial
<1>1. x.pc \in {"compose", "enqueue", "commit", "cleanup", "load", "parts"}
  BY Kinds DEF Carries, Pcs, RequestState
<1>2. CASE x.pc \in {"compose", "enqueue", "commit"}
  BY <1>2 DEF Fits, Gathered
<1>3. CASE x.pc = "load"
  BY <1>3 DEF Fits, Gathered
<1>4. CASE x.pc = "cleanup"
  BY <1>4 DEF Fits
<1>5. CASE x.pc = "parts"
  BY <1>5 DEF Fits
<1>6. QED BY <1>1, <1>2, <1>3, <1>4, <1>5

LEMMA PartsStayClosed ==
    ASSUME NEW x \in RequestState, Carries(x), Fits(x), PartsClosed(x), ClosedKept
    PROVE  PartsClosed(x)'
<1>1. SUFFICES ASSUME x.pc # "idle", x.up \in Final
               PROVE  /\ \A i \in 1..Len(PartList) : (x.pc = "load" => i < x.k) => Closed(PartList[i])'
                      /\ \A i \in 1..Len(x.man.chunks) : Closed(x.man.chunks[i].key[1])'
  BY DEF PartsClosed
<1>2. \A i \in 1..Len(PartList) : (x.pc = "load" => i < x.k) => Closed(PartList[i])'
  BY <1>1, Lists DEF PartsClosed, ClosedKept
<1>3. \A i \in 1..Len(x.man.chunks) : x.man.chunks[i].key[1] \in Partial
  BY <1>1, FinalKeys
<1>4. \A i \in 1..Len(x.man.chunks) : Closed(x.man.chunks[i].key[1])'
  BY <1>1, <1>3 DEF PartsClosed, ClosedKept
<1>5. QED BY <1>2, <1>4

LEMMA OtherStaysCurrent ==
    ASSUME Base, NEW q \in Request, Current(req[q]), req'[q] = req[q],
           ClosedKept, Undisturbed(q), terminated \subseteq terminated', spoiled \subseteq spoiled'
    PROVE  Current(req[q])'
<1>1. PICK y : y = req[q]
  OBVIOUS
<1>2. y \in RequestState /\ Carries(y) /\ Fits(y) /\ Current(y) /\ req'[q] = y
  <2>1. req[q] \in RequestState /\ Carries(req[q]) /\ Fits(req[q])
    BY DEF Base, TypeOK, RequestTypes, ManifestsFit
  <2>2. QED BY <1>1, <2>1
<1>3. UpToDate(y) /\ PartsClosed(y)
  BY <1>2 DEF Current
<1>4. PartsClosed(y)'
  BY <1>2, <1>3, PartsStayClosed
<1>5. y.pc # "idle" /\ y.up \notin spoiled' =>
        manifest'[y.up] = manifest[y.up] \/ (y.pc = "delete" /\ y.up \in Partial)
  BY <1>1 DEF Undisturbed, ManifestKept, Busy
<1>6. y.up \in Partial => y.up \notin Plain
  BY Kinds
<1>7. y.pc = "append" /\ y.up \notin spoiled' =>
        stored'[<<y.up, y.offset>>] = stored[<<y.up, y.offset>>]
  BY <1>1 DEF Undisturbed, ChunkKept
<1>8. UpToDate(y)'
  BY <1>3, <1>5, <1>6, <1>7 DEF UpToDate
<1>9. y.pc = "delete" => y.up \in terminated'
  BY <1>2 DEF Current
<1>10. Current(y)'
  BY <1>4, <1>8, <1>9 DEF Current
<1>11. QED BY <1>2, <1>10 DEF Current, UpToDate, PartsClosed

LEMMA AllCurrent ==
    ASSUME Base, LockInv, NEW r \in Request, NEW x, Moves(r, x), Current(x)', ClosedKept,
           \A q \in Request : q # r => Undisturbed(q), terminated \subseteq terminated', spoiled \subseteq spoiled'
    PROVE  (\A q \in Request : Current(req[q]))'
<1>1. /\ req'[r] = x /\ \A q \in Request : q # r => req'[q] = req[q]
  BY Moved DEF Base
<1>2. SUFFICES ASSUME NEW q \in Request PROVE Current(req[q])'
  OBVIOUS
<1>3. CASE q = r
  BY <1>1, <1>3 DEF Current, UpToDate, PartsClosed
<1>4. CASE q # r
  BY <1>1, <1>4, OtherStaysCurrent DEF LockInv
<1>5. QED BY <1>3, <1>4

LEMMA IdleCurrent == Current(Idle)'
BY IdleFacts DEF Current, UpToDate, PartsClosed

(* A request that works on final uploads names chunks of the right size.     *)
LEMMA FinalsAgree ==
    ASSUME Base, AllAgree, NEW r \in Request, NEW x, Moves(r, x), ChunksFade, spoiled \subseteq spoiled',
           x.pc # "idle" /\ x.up \in Final => SizesAgree(x.man)'
    PROVE  (\A q \in Request : Busy(q) /\ req[q].up \in Final => SizesAgree(req[q].man))'
<1>1. /\ req'[r] = x /\ \A q \in Request : q # r => req'[q] = req[q]
  BY Moved DEF Base
<1>2. SUFFICES ASSUME NEW q \in Request, Busy(q)', req[q].up' \in Final
               PROVE  SizesAgree(req[q].man)'
  BY DEF SizesAgree
<1>3. CASE q = r
  BY <1>1, <1>2, <1>3 DEF Busy, SizesAgree
<1>4. CASE q # r
  <2>1. PICK m : m = req[q].man
    OBVIOUS
  <2>2. m \in Manifest
    BY <2>1, ReqFields DEF Base
  <2>3. SizesAgree(m)
    BY <1>1, <1>2, <1>4, <2>1 DEF AllAgree, Busy
  <2>4. SizesAgree(m)'
    BY <2>2, <2>3, AgreeFades
  <2>5. req[q].man' = m
    BY <1>1, <1>4, <2>1
  <2>6. QED BY <2>4, <2>5 DEF SizesAgree
<1>5. QED BY <1>3, <1>4

LEMMA LockFacts ==
    ASSUME LockInv, NEW q \in Request
    PROVE  /\ OneHolder /\ AllAgree /\ Current(req[q]) /\ UpToDate(req[q]) /\ PartsClosed(req[q])
           /\ \A u \in Single : SizesAgree(manifest[u])
           /\ Busy(q) /\ req[q].up \in Final => SizesAgree(req[q].man)
BY DEF LockInv, Current, AllAgree

LEMMA LockMade ==
    ASSUME OneHolder', (\A u \in Single : SizesAgree(manifest[u]))',
           (\A q \in Request : Busy(q) /\ req[q].up \in Final => SizesAgree(req[q].man))',
           (\A q \in Request : Current(req[q]))', \A u \in Single : u \notin terminated' /\ u \notin spoiled' => Safe(u)'
    PROVE  LockInv'
<1>1. AcknowledgedBytesSurvive'
  BY DEF AcknowledgedBytesSurvive, Single, Safe
<1>2. QED BY <1>1 DEF LockInv, AllAgree

(* A request moves, and nothing is stored but jobs.                          *)
LEMMA QuietMove ==
    ASSUME Base, LockInv, NEW r \in Request, NEW x, Moves(r, x), OneHolder', spoiled \subseteq spoiled',
           UNCHANGED <<manifest, stored>>, jobs \subseteq jobs', terminated \subseteq terminated',
           Current(x)', x.pc # "idle" /\ x.up \in Final => SizesAgree(x.man)'
    PROVE  LockInv'
<1>1. ChunksFade
  BY DEF ChunksFade
<1>2. ClosedKept
  BY DEF ClosedKept, Closed
<1>3. \A q \in Request : q # r => Undisturbed(q)
  BY DEF Undisturbed, ManifestKept, ChunkKept
<1>4. (\A q \in Request : Current(req[q]))'
  BY <1>2, <1>3, AllCurrent
<1>5. AllAgree /\ AcknowledgedBytesSurvive
  BY DEF LockInv
<1>6. (\A q \in Request : Busy(q) /\ req[q].up \in Final => SizesAgree(req[q].man))'
  BY <1>1, <1>5, FinalsAgree
<1>7. (\A u \in Single : SizesAgree(manifest[u]))'
  BY <1>5 DEF AllAgree, SizesAgree
<1>8. ASSUME NEW u \in Single, u \notin terminated', u \notin spoiled' PROVE Safe(u)'
  <2>1. Safe(u)
    BY <1>5, <1>8, SafeMeans
  <2>2. u \in Partial /\ Delivered(u) => Delivered(u)'
    BY DeliveredStays
  <2>3. QED BY <2>1, <2>2 DEF Safe, Intact
<1>9. QED BY <1>4, <1>6, <1>7, <1>8, LockMade

(* A request moves and saves a manifest.                                     *)
LEMMA SavingMove ==
    ASSUME Base, LockInv, NEW r \in Request, NEW x, Moves(r, x), OneHolder', spoiled \subseteq spoiled',
           NEW u \in Upload, NEW m, Writes(u, m), UNCHANGED <<stored, jobs, terminated>>,
           Current(x)', x.pc # "idle" /\ x.up \in Final => SizesAgree(x.man)',
           u \in Single => SizesAgree(m)',
           u \in Partial /\ Closed(u) => Closed(u)',
           u \in Single /\ u \notin terminated /\ u \notin spoiled' => Safe(u)',
           \A q \in Request : q # r /\ Busy(q) /\ req[q].up = u /\ u \notin spoiled'
                             => req[q].pc = "delete" /\ u \in Partial
    PROVE  LockInv'
<1>1. /\ manifest' \in [Upload -> Manifest] /\ manifest'[u] = m
      /\ \A v \in Upload : v # u => manifest'[v] = manifest[v]
  BY Written DEF Base
<1>2. ChunksFade
  BY DEF ChunksFade
<1>3. ClosedKept
  <2>1. \A v \in Partial : v # u => (Closed(v) => Closed(v)')
    BY <1>1, Kinds DEF Closed
  <2>2. QED BY <2>1 DEF ClosedKept
<1>4. \A q \in Request : q # r => Undisturbed(q)
  <2>1. \A q \in Request : Busy(q) => req[q].up \in Upload
    BY BaseFacts DEF Carries, Busy
  <2>2. \A q \in Request : q # r => ManifestKept(q)
    BY <1>1, <2>1 DEF ManifestKept
  <2>3. QED BY <2>2 DEF Undisturbed, ChunkKept
<1>5. (\A q \in Request : Current(req[q]))'
  BY <1>3, <1>4, AllCurrent
<1>6. AllAgree /\ AcknowledgedBytesSurvive
  BY DEF LockInv
<1>7. (\A q \in Request : Busy(q) /\ req[q].up \in Final => SizesAgree(req[q].man))'
  BY <1>2, <1>6, FinalsAgree
<1>8. (\A v \in Single : SizesAgree(manifest[v]))'
  <2>1. ASSUME NEW v \in Single PROVE SizesAgree(manifest[v])'
    <3>1. CASE v = u
      BY <1>1, <3>1 DEF SizesAgree
    <3>2. CASE v # u
      <4>1. manifest'[v] = manifest[v]
        BY <1>1, <3>2, Kinds
      <4>2. SizesAgree(manifest[v])
        BY <1>6 DEF AllAgree
      <4>3. QED BY <1>1, <4>1, <4>2 DEF SizesAgree
    <3>3. QED BY <3>1, <3>2
  <2>2. QED BY <2>1
<1>9. ASSUME NEW v \in Single, v \notin terminated', v \notin spoiled' PROVE Safe(v)'
  <2>1. CASE v = u
    BY <1>9, <2>1
  <2>2. CASE v # u
    <3>1. Safe(v) /\ manifest'[v] = manifest[v]
      BY <1>1, <1>6, <1>9, <2>2, SafeMeans, Kinds
    <3>2. v \in Partial /\ Delivered(v) => Delivered(v)'
      BY DeliveredStays
    <3>3. QED BY <3>1, <3>2 DEF Safe, Intact
  <2>3. QED BY <2>1, <2>2
<1>10. QED BY <1>5, <1>7, <1>8, <1>9, LockMade

(* The holder of the upload saves its manifest.                              *)
LEMMA HolderSaves ==
    ASSUME Base, LockInv, NEW r \in Request, NEW x, Moves(r, x), Busy(r), spoiled \subseteq spoiled',
           x.pc # "idle" => x.up = req[r].up,
           NEW u, u = req[r].up, NEW m, Writes(u, m), UNCHANGED <<stored, jobs, terminated>>,
           Current(x)', x.pc # "idle" /\ x.up \in Final => SizesAgree(x.man)',
           u \in Single => SizesAgree(m)',
           u \in Partial /\ Closed(u) => Closed(u)',
           u \in Single /\ u \notin terminated /\ u \notin spoiled' => Safe(u)'
    PROVE  LockInv'
<1>1. u \in Upload
  BY BaseFacts DEF Carries, Busy
<1>2. OneHolder
  BY DEF LockInv
<1>3. OneHolder'
  BY <1>2, HolderGoes
<1>4. \A q \in Request : ~(q # r /\ Busy(q) /\ req[q].up = u /\ u \notin spoiled')
  BY <1>2 DEF OneHolder
<1>5. QED BY <1>1, <1>3, <1>4, SavingMove

LEMMA LockQuit ==
    ASSUME Base, LockInv, spoiled \subseteq spoiled', NEW r \in Request, ComposeFails(r) \/ Drop(r)
    PROVE  LockInv'
<1>1. Over(r) /\ UNCHANGED <<manifest, stored, jobs, terminated>>
  BY QuitEffect DEF Base
<1>2. OneHolder'
  BY <1>1, HolderGoes, IdleFacts DEF Over, LockInv
<1>3. QED BY <1>1, <1>2, QuietMove, IdleCurrent, IdleFacts DEF Over

(* The requests that take the lock.                                          *)
LEMMA LockBegins ==
    ASSUME Base, LockInv, spoiled \subseteq spoiled', NEW r \in Request, NEW p \in scenario.replicas, NEW u \in Single,
           LockFree(p, u), Unprotected(p, u) => u \in spoiled',
           NEW pc \in {"put", "compose", "delete"}, NEW n, NEW l, Begins(r, p, u, pc, n, l),
           UNCHANGED <<manifest, stored>>, jobs \subseteq jobs', terminated \subseteq terminated',
           pc = "delete" => u \in terminated'
    PROVE  LockInv'
<1>1. PICK x : /\ Moves(r, x) /\ x.pc = pc /\ x.up = u /\ x.man = manifest[u]
  BY DEF Begins
<1>2. OneHolder'
  <2>1. \A q \in Request : req[q].up # u \/ u \in spoiled'
    BY LockExcludes
  <2>2. QED BY <1>1, <2>1, HolderBegins DEF LockInv
<1>3. u \notin Final
  BY Kinds
<1>4. Current(x)'
  BY <1>1, <1>3 DEF Current, UpToDate, PartsClosed
<1>5. QED BY <1>1, <1>2, <1>3, <1>4, QuietMove

LEMMA LockPatch ==
    ASSUME Base, LockInv, NEW r \in Request, NEW p \in scenario.replicas, NEW c \in ChunkKey,
           NEW size \in scenario.chunks, StartPatch(r, p, c[1], c[2], size)
    PROVE  LockInv'
<1>1. c[1] \in Single /\ Begins(r, p, c[1], "put", c[2], size)
  BY PatchBegins DEF Base
<1>2. LockFree(p, c[1]) /\ UNCHANGED <<manifest, stored, jobs, terminated>>
  BY DEF StartPatch, Start
<1>3. spoiled \subseteq spoiled' /\ (Unprotected(p, c[1]) => c[1] \in spoiled')
  BY <1>1, SpoiledStarts DEF StartPatch
<1>4. QED BY <1>1, <1>2, <1>3, LockBegins

LEMMA LockResult ==
    ASSUME Base, LockInv, NEW r \in Request, NEW p \in scenario.replicas, NEW u \in Plain,
           StartResult(r, p, u)
    PROVE  LockInv'
<1>1. u \in Single /\ u \in Upload
  BY Kinds
<1>2. /\ Start(r, p, u, [Idle EXCEPT !.pc = "compose"])
      /\ LockFree(p, u) /\ UNCHANGED <<manifest, stored, jobs, terminated>>
  BY DEF StartResult, Start
<1>3. Begins(r, p, u, "compose", 0, 0)
  BY <1>1, <1>2, OtherBegins DEF Base, Pcs
<1>4. spoiled \subseteq spoiled' /\ (Unprotected(p, u) => u \in spoiled')
  BY <1>1, <1>2, SpoiledStarts
<1>5. QED BY <1>1, <1>2, <1>3, <1>4, LockBegins

LEMMA LockDelete ==
    ASSUME Base, LockInv, NEW r \in Request, NEW p \in scenario.replicas, NEW u \in Single,
           StartDelete(r, p, u)
    PROVE  LockInv'
<1>1. u \in Upload
  BY Kinds
<1>2. /\ Start(r, p, u, [Idle EXCEPT !.pc = "delete"])
      /\ LockFree(p, u) /\ UNCHANGED <<manifest, stored, jobs>>
      /\ terminated' = terminated \cup {u}
  BY DEF StartDelete, Start
<1>3. Begins(r, p, u, "delete", 0, 0)
  BY <1>1, <1>2, OtherBegins DEF Base, Pcs
<1>4. spoiled \subseteq spoiled' /\ (Unprotected(p, u) => u \in spoiled')
  BY <1>2, SpoiledStarts
<1>5. QED BY <1>2, <1>3, <1>4, LockBegins

LEMMA LockFinal ==
    ASSUME Base, LockInv, spoiled \subseteq spoiled', NEW r \in Request, NEW p \in scenario.replicas, NEW f \in Final,
           StartFinal(r, p, f)
    PROVE  LockInv'
<1>0. BeginsFinal(r, p, f)
  BY FinalBegins DEF Base
<1>1. PICK x : Moves(r, x) /\ x.pc = "load" /\ x.up = f /\ x.man = Missing /\ x.k = 1
  BY <1>0 DEF BeginsFinal
<1>2. /\ manifest[f] = Missing /\ \A q \in Request : req[q].up # f
      /\ UNCHANGED <<manifest, stored, jobs, terminated>>
  BY DEF StartFinal, Exists
<1>3. OneHolder'
  BY <1>1, <1>2, HolderBegins DEF LockInv
<1>4. Len(Missing.chunks) = 0
  BY MissingFacts
<1>5. Current(x)'
  <2>1. UpToDate(x)'
    BY <1>1, <1>2 DEF UpToDate
  <2>2. \A i \in 1..Len(PartList) : ~(i < x.k)
    BY <1>1
  <2>3. PartsClosed(x)'
    BY <1>1, <1>4, <2>2 DEF PartsClosed
  <2>4. QED BY <1>1, <2>1, <2>3 DEF Current
<1>6. SizesAgree(x.man)'
  BY <1>1, <1>4 DEF SizesAgree
<1>7. QED BY <1>1, <1>2, <1>3, <1>5, <1>6, QuietMove

LEMMA LockCompose ==
    ASSUME Base, LockInv, spoiled \subseteq spoiled', NEW r \in Request, ComposeChunk(r)
    PROVE  LockInv'
<1>1. /\ req[r].pc = "compose" /\ \E k, out : Goes(r, "compose", req[r].man, k, out)
      /\ UNCHANGED <<manifest, stored, jobs, terminated>>
  BY ComposeEffect DEF Base
<1>2. PICK x : Moves(r, x) /\ x.pc = "compose" /\ x.up = req[r].up /\ x.man = req[r].man
  BY <1>1 DEF Goes, Same
<1>3. Busy(r) /\ UpToDate(req[r]) /\ PartsClosed(req[r])
  BY <1>1, LockFacts DEF Busy
<1>4. OneHolder'
  BY <1>2, <1>3, HolderGoes DEF LockInv
<1>5. Current(x)'
  BY <1>1, <1>2, <1>3 DEF Current, UpToDate, PartsClosed, Closed
<1>6. x.up \in Final => SizesAgree(x.man)'
  BY <1>1, <1>2, <1>3, LockFacts DEF SizesAgree
<1>7. QED BY <1>1, <1>2, <1>4, <1>5, <1>6, QuietMove

LEMMA LockFinish ==
    ASSUME Base, LockInv, spoiled \subseteq spoiled', NEW r \in Request, FinishCompose(r)
    PROVE  LockInv'
<1>1. /\ req[r].pc = "compose" /\ \E k, out : Goes(r, "enqueue", req[r].man, k, out)
      /\ UNCHANGED <<manifest, stored, jobs, terminated>>
  BY FinishEffect DEF Base
<1>2. PICK x : Moves(r, x) /\ x.pc = "enqueue" /\ x.up = req[r].up /\ x.man = req[r].man
  BY <1>1 DEF Goes, Same
<1>3. Busy(r) /\ UpToDate(req[r]) /\ PartsClosed(req[r])
  BY <1>1, LockFacts DEF Busy
<1>4. OneHolder'
  BY <1>2, <1>3, HolderGoes DEF LockInv
<1>5. Current(x)'
  BY <1>1, <1>2, <1>3 DEF Current, UpToDate, PartsClosed, Closed
<1>6. x.up \in Final => SizesAgree(x.man)'
  BY <1>1, <1>2, <1>3, LockFacts DEF SizesAgree
<1>7. QED BY <1>1, <1>2, <1>4, <1>5, <1>6, QuietMove

LEMMA LockEnqueue ==
    ASSUME Base, LockInv, spoiled \subseteq spoiled', NEW r \in Request, EnqueueStored(r)
    PROVE  LockInv'
<1>1. /\ req[r].pc = "enqueue" /\ \E k, out : Goes(r, "commit", req[r].man, k, out)
      /\ UNCHANGED <<manifest, stored, terminated>> /\ jobs \subseteq jobs'
  BY EnqueueEffect DEF Base
<1>2. PICK x : Moves(r, x) /\ x.pc = "commit" /\ x.up = req[r].up /\ x.man = req[r].man
  BY <1>1 DEF Goes, Same
<1>3. Busy(r) /\ UpToDate(req[r]) /\ PartsClosed(req[r])
  BY <1>1, LockFacts DEF Busy
<1>4. OneHolder'
  BY <1>2, <1>3, HolderGoes DEF LockInv
<1>5. Current(x)'
  <2>1. \A v : Closed(v) => Closed(v)'
    BY <1>1 DEF Closed
  <2>2. PartsClosed(x)'
    BY <1>1, <1>2, <1>3, <2>1 DEF PartsClosed
  <2>3. QED BY <1>1, <1>2, <1>3, <2>2 DEF Current, UpToDate
<1>6. x.up \in Final => SizesAgree(x.man)'
  BY <1>1, <1>2, <1>3, LockFacts DEF SizesAgree
<1>7. QED BY <1>1, <1>2, <1>4, <1>5, <1>6, QuietMove

(* The upload whose chunk has been put is still incomplete.                  *)
LEMMA StillOpen ==
    ASSUME Base, LockInv, NEW r \in Request, req[r].pc \in {"put", "append"}, req[r].up \notin spoiled
    PROVE  req[r].man = manifest[req[r].up] /\ ~req[r].man.committed /\ ~Closed(req[r].up)
<1>1. /\ req[r].size \in Nat \ {0} /\ Fits(req[r]) /\ UpToDate(req[r])
  BY BaseFacts, LockFacts DEF Carries
<1>2. /\ req[r].man = manifest[req[r].up] /\ ~req[r].man.committed
      /\ req[r].offset = req[r].man.offset /\ req[r].offset + req[r].size <= req[r].man.length
  BY <1>1 DEF UpToDate, Fits
<1>3. req[r].man.offset \in Nat /\ req[r].man.length \in Nat
  BY ReqFields DEF Base
<1>4. ~Complete(req[r].man)
  BY <1>1, <1>2, <1>3 DEF Complete
<1>5. QED BY <1>2, <1>4 DEF Closed

LEMMA ChunkSaved ==
    ASSUME Base, LockInv, spoiled \subseteq spoiled', NEW r \in Request, req[r].pc = "append",
           NEW m, NEW c, Appended(m, req[r], c), Writes(req[r].up, m),
           NEW x, Moves(r, x), x.pc # "idle" => x.pc = "compose" /\ x.up = req[r].up /\ x.man = m,
           UNCHANGED <<stored, jobs, terminated>>
    PROVE  LockInv'
<1>1. PICK u : u = req[r].up
  OBVIOUS
<1>2. u \in Single /\ u \in Upload /\ u \notin Final /\ Owns(u, m)
  BY <1>1, AppendFits, Kinds
<1>3. u \notin spoiled => req[r].man = manifest[u] /\ ~req[r].man.committed /\ ~Closed(u)
  BY <1>1, StillOpen
<1>4. manifest'[u] = m
  BY <1>1, <1>2, Written DEF Base
<1>5. Current(x)'
  BY <1>1, <1>2, <1>4 DEF Current, UpToDate, PartsClosed
<1>6. /\ m \in Manifest /\ m.chunks = Append(req[r].man.chunks, c) /\ c.size \in Nat \ {0}
      /\ c.key = <<u, req[r].offset>> /\ c.size = req[r].size
  BY <1>1 DEF Appended, ChunkRecord
<1>7. PICK l : l = Len(req[r].man.chunks)
  OBVIOUS
<1>8. /\ l \in Nat /\ Len(m.chunks) = l + 1 /\ m.chunks[l + 1] = c
      /\ \A i \in 1..l : m.chunks[i] = req[r].man.chunks[i]
      /\ \A i \in 1..(l + 1) : i \in 1..l \/ i = l + 1
  <2>1. req[r].man.chunks \in Seq(ChunkRecord)
    BY ReqFields DEF Base
  <2>2. c \in ChunkRecord /\ m.chunks = Append(req[r].man.chunks, c)
    BY DEF Appended
  <2>3. l \in Nat
    BY <1>7, <2>1
  <2>4. /\ Len(m.chunks) = l + 1 /\ m.chunks[l + 1] = c
        /\ \A i \in 1..l : m.chunks[i] = req[r].man.chunks[i]
    <3>1. PICK q : q = req[r].man.chunks
      OBVIOUS
    <3>2. q \in Seq(ChunkRecord) /\ m.chunks = Append(q, c) /\ l = Len(q)
      BY <1>7, <2>1, <2>2, <3>1
    <3>3. PICK t : t = Append(q, c)
      OBVIOUS
    <3>4. Len(t) = l + 1 /\ t[l + 1] = c /\ \A i \in 1..l : t[i] = q[i]
      BY <2>2, <3>2, <3>3
    <3>5. QED BY <3>1, <3>2, <3>3, <3>4
  <2>5. QED BY <2>3, <2>4
<1>9. u \notin spoiled => stored[c.key] = c.size
  BY <1>1, <1>6, LockFacts DEF UpToDate
<1>10. \A i \in 1..Len(m.chunks) : m.chunks[i].key[1] = u
  BY <1>2 DEF Owns
<1>11. SizesAgree(m)'
  <2>1. SUFFICES ASSUME u \notin spoiled' PROVE SizesAgree(m)'
    BY <1>10 DEF SizesAgree
  <2>2. u \notin spoiled /\ SizesAgree(req[r].man)
    BY <1>2, <1>3, <2>1, LockFacts
  <2>3. \A i \in 1..l : stored[m.chunks[i].key] \in {0, m.chunks[i].size}
    <3>1. SUFFICES ASSUME NEW i \in 1..l PROVE stored[m.chunks[i].key] \in {0, m.chunks[i].size}
      OBVIOUS
    <3>2. m.chunks[i] = req[r].man.chunks[i] /\ i \in 1..Len(m.chunks)
      BY <1>8
    <3>3. req[r].man.chunks[i].key[1] = u
      BY <1>10, <3>2
    <3>4. stored[req[r].man.chunks[i].key] \in {0, req[r].man.chunks[i].size}
      BY <1>7, <2>2, <3>3 DEF SizesAgree
    <3>5. QED BY <3>2, <3>4
  <2>4. QED BY <1>8, <1>9, <2>2, <2>3 DEF SizesAgree
<1>12. u \notin terminated /\ u \notin spoiled' => Safe(u)'
  <2>1. SUFFICES ASSUME u \notin terminated, u \notin spoiled' PROVE Safe(u)'
    OBVIOUS
  <2>2. Safe(u) /\ req[r].man = manifest[u] /\ ~req[r].man.committed /\ stored[c.key] = c.size
    BY <1>2, <1>3, <1>9, <2>1, SafeMeans DEF LockInv
  <2>3. CASE u \in Partial /\ Delivered(u)
    BY <2>3, DeliveredStays DEF Safe
  <2>4. CASE Intact(manifest[u])
    <3>1. \A i \in 1..l : stored[m.chunks[i].key] = m.chunks[i].size
      <4>1. DOMAIN req[r].man.chunks = 1..l
        BY <1>7, ReqFields, IntactMeans DEF Base
      <4>2. Intact(req[r].man)
        BY <2>2, <2>4
      <4>3. SUFFICES ASSUME NEW i \in 1..l PROVE stored[m.chunks[i].key] = m.chunks[i].size
        OBVIOUS
      <4>4. stored[req[r].man.chunks[i].key] = req[r].man.chunks[i].size
        BY <4>1, <4>2 DEF Intact
      <4>5. m.chunks[i] = req[r].man.chunks[i]
        BY <1>8
      <4>6. QED BY <4>4, <4>5
    <3>2. DOMAIN m.chunks = 1..(l + 1)
      BY <1>6, <1>8, IntactMeans
    <3>3. Intact(m)'
      BY <1>8, <2>2, <3>1, <3>2 DEF Intact
    <3>4. QED BY <1>4, <3>3 DEF Safe, Intact
  <2>5. QED BY <2>2, <2>3, <2>4 DEF Safe
<1>13. Busy(r)
  BY DEF Busy
<1>14. u \in Partial /\ Closed(u) => Closed(u)'
  BY <1>3 DEF Closed
<1>15. x.pc # "idle" => x.up = req[r].up /\ x.up \notin Final
  BY <1>1, <1>2
<1>16. QED BY <1>1, <1>5, <1>11, <1>12, <1>13, <1>14, <1>15, HolderSaves

LEMMA LockAppend ==
    ASSUME Base, LockInv, spoiled \subseteq spoiled', NEW r \in Request, SaveAppend(r)
    PROVE  LockInv'
<1>1. PICK m, c : /\ Appended(m, req[r], c) /\ Writes(req[r].up, m)
                  /\ \/ Goes(r, "compose", m, req[r].k, req[r].out)
                     \/ Over(r)
  BY AppendEffect DEF Base
<1>2. req[r].pc = "append" /\ UNCHANGED <<stored, jobs, terminated>>
  BY AppendEffect DEF Base
<1>3. PICK x : Moves(r, x) /\ (x.pc # "idle" => x.pc = "compose" /\ x.up = req[r].up /\ x.man = m)
  BY <1>1, IdleFacts DEF Over, Goes, Same
<1>4. QED BY <1>1, <1>2, <1>3, ChunkSaved

LEMMA JobSaved ==
    ASSUME Base, LockInv, spoiled \subseteq spoiled', NEW r \in Request, req[r].pc = "commit",
           NEW m, Remade(m, req[r].man, req[r].man.chunks, TRUE), Writes(req[r].up, m),
           NEW x, Moves(r, x), x.pc # "idle" => x.pc = "cleanup" /\ x.up = req[r].up /\ x.man = m,
           UNCHANGED <<stored, jobs, terminated>>
    PROVE  LockInv'
<1>1. PICK u : u = req[r].up
  OBVIOUS
<1>2. Busy(r) /\ u \in Upload /\ u \notin Partial /\ PartsClosed(req[r])
  BY <1>1, CommitFits, LockFacts, Kinds DEF Busy
<1>3. /\ manifest'[u] = m /\ m.chunks = req[r].man.chunks /\ m.committed
      /\ \A v \in Upload : v # u => manifest'[v] = manifest[v]
  BY <1>1, <1>2, Written DEF Base, Remade
<1>4. PartsClosed(x)'
  <2>1. SUFFICES ASSUME u \in Final, x.pc # "idle" PROVE PartsClosed(x)'
    BY <1>1 DEF PartsClosed
  <2>2. \A v \in Partial : Closed(v) => Closed(v)'
    BY <1>2, <1>3, Kinds DEF Closed
  <2>3. /\ \A i \in 1..Len(PartList) : Closed(PartList[i])
        /\ \A i \in 1..Len(m.chunks) : Closed(m.chunks[i].key[1])
    BY <1>1, <1>2, <1>3, <2>1 DEF PartsClosed
  <2>4. \A i \in 1..Len(m.chunks) : m.chunks[i].key[1] \in Partial
    BY <1>1, <1>3, <2>1, FinalKeys, BaseFacts, ReqFields
  <2>5. QED BY <2>1, <2>2, <2>3, <2>4, Lists DEF PartsClosed
<1>5. Current(x)'
  BY <1>1, <1>3, <1>4 DEF Current, UpToDate
<1>6. SizesAgree(m)'
  <2>1. CASE u \in Final
    <3>1. SizesAgree(req[r].man)
      BY <1>1, <1>2, <2>1, LockFacts
    <3>2. QED BY <1>3, <3>1 DEF SizesAgree
  <2>2. CASE u \in Plain
    <3>1. \A i \in 1..Len(m.chunks) : m.chunks[i].key[1] = u
      <4>1. u \in Single
        BY <2>2, Kinds
      <4>2. Owns(req[r].up, m)
        BY <1>1, <4>1, CommitFits
      <4>3. QED BY <1>1, <4>2 DEF Owns
    <3>2. SUFFICES ASSUME u \notin spoiled' PROVE SizesAgree(m)'
      BY <3>1 DEF SizesAgree
    <3>3. req[r].man = manifest[u] /\ SizesAgree(manifest[u])
      BY <1>1, <2>2, <3>2, LockFacts, Kinds DEF UpToDate
    <3>4. QED BY <1>3, <3>3 DEF SizesAgree
  <2>3. QED BY <1>2, <2>1, <2>2, Kinds
<1>7. Safe(u)'
  BY <1>3 DEF Safe
<1>8. QED BY <1>1, <1>2, <1>5, <1>6, <1>7, HolderSaves

LEMMA LockCommit ==
    ASSUME Base, LockInv, spoiled \subseteq spoiled', NEW r \in Request, Commit(r)
    PROVE  LockInv'
<1>1. PICK m : /\ Remade(m, req[r].man, req[r].man.chunks, TRUE) /\ Writes(req[r].up, m)
               /\ Goes(r, "cleanup", m, 1, req[r].out)
  BY CommitEffect DEF Base
<1>2. req[r].pc = "commit" /\ UNCHANGED <<stored, jobs, terminated>>
  BY CommitEffect DEF Base
<1>3. PICK x : Moves(r, x) /\ x.pc = "cleanup" /\ x.up = req[r].up /\ x.man = m
  BY <1>1 DEF Goes, Same
<1>4. QED BY <1>1, <1>2, <1>3, JobSaved

LEMMA LockCompact ==
    ASSUME Base, LockInv, spoiled \subseteq spoiled', NEW r \in Request, Compact(r)
    PROVE  LockInv'
<1>1. PICK u : u = req[r].up
  OBVIOUS
<1>2. PICK m : /\ Remade(m, req[r].man, <<>>, req[r].man.committed) /\ Writes(u, m)
               /\ \/ u \in Final /\ Goes(r, "parts", m, req[r].k, req[r].out)
                  \/ Over(r)
  BY <1>1, CompactEffect DEF Base
<1>3. req[r].pc = "cleanup" /\ Busy(r) /\ u \in Upload /\ UNCHANGED <<stored, jobs, terminated>>
  BY <1>1, CompactEffect DEF Base, Busy
<1>4. PICK x : Moves(r, x) /\ (x.pc # "idle" => x.pc = "parts" /\ x.up = u /\ u \in Final /\ x.man = m)
  BY <1>1, <1>2, IdleFacts DEF Over, Goes, Same
<1>5. u \notin Partial /\ req[r].man.committed /\ PartsClosed(req[r])
  BY <1>1, <1>3, BaseFacts, LockFacts, Kinds DEF Carries, Finalizing, Fits
<1>6. /\ manifest'[u] = m /\ m.committed /\ Len(m.chunks) = 0
      /\ \A v \in Upload : v # u => manifest'[v] = manifest[v]
  BY <1>2, <1>3, <1>5, Written DEF Base, Remade
<1>7. PartsClosed(x)'
  <2>1. SUFFICES ASSUME u \in Final, x.pc = "parts", x.man = m PROVE PartsClosed(x)'
    BY <1>4 DEF PartsClosed
  <2>2. \A v \in Partial : Closed(v) => Closed(v)'
    BY <1>3, <1>5, <1>6, Kinds DEF Closed
  <2>3. \A i \in 1..Len(PartList) : Closed(PartList[i])
    BY <1>1, <1>3, <1>5, <2>1 DEF PartsClosed
  <2>4. QED BY <1>6, <2>1, <2>2, <2>3, Lists DEF PartsClosed
<1>8. Current(x)'
  BY <1>4, <1>6, <1>7 DEF Current, UpToDate
<1>9. SizesAgree(m)'
  BY <1>6 DEF SizesAgree
<1>10. Safe(u)'
  BY <1>6 DEF Safe
<1>11. x.pc # "idle" => x.up = req[r].up /\ SizesAgree(x.man)'
  BY <1>1, <1>4, <1>9
<1>12. QED BY <1>1, <1>2, <1>3, <1>4, <1>5, <1>8, <1>9, <1>10, <1>11, HolderSaves

LEMMA LockLoad ==
    ASSUME Base, LockInv, spoiled \subseteq spoiled', NEW r \in Request, LoadPart(r)
    PROVE  LockInv'
<1>1. PICK k, u, part, n : k = req[r].k /\ u = PartList[k] /\ part = manifest[u] /\ n = req[r].man
  OBVIOUS
<1>2. /\ req[r].pc = "load" /\ Busy(r) /\ u \in Partial /\ k \in Nat
      /\ UNCHANGED <<manifest, stored, jobs, terminated>>
  BY <1>1, LoadEffect, ReqFields DEF Base, Busy
<1>3. /\ UpToDate(req[r]) /\ PartsClosed(req[r]) /\ req[r].up \in Final /\ SizesAgree(n)
      /\ n \in Manifest /\ u \in Single /\ part \in Manifest
  <2>1. req[r].up \in Final
    BY <1>2, BaseFacts DEF Carries
  <2>2. UpToDate(req[r]) /\ PartsClosed(req[r]) /\ SizesAgree(n)
    BY <1>1, <1>2, <2>1, LockFacts
  <2>3. n \in Manifest
    BY <1>1, ReqFields DEF Base
  <2>4. u \in Single /\ u \in Upload
    BY <1>2, Kinds
  <2>5. part \in Manifest
    BY <1>1, <2>4, BaseFacts
  <2>6. QED BY <2>1, <2>2, <2>3, <2>4, <2>5
<1>4. CASE Over(r)
  <2>1. OneHolder'
    BY <1>4, HolderGoes, IdleFacts DEF Over, LockInv
  <2>2. QED BY <1>2, <1>4, <2>1, QuietMove, IdleCurrent, IdleFacts DEF Over
<1>5. CASE ~Over(r)
  <2>1. part # Missing /\ Complete(part)
    BY <1>1, <1>5, LoadEffect DEF Base
  <2>2. PICK m : /\ m \in Manifest /\ m.chunks = n.chunks \o part.chunks
                 /\ Goes(r, "load", m, k + 1, req[r].out)
    BY <1>1, <1>5, LoadEffect DEF Base
  <2>3. PICK x : Moves(r, x) /\ x.pc = "load" /\ x.up = req[r].up /\ x.man = m /\ x.k = k + 1
    BY <2>2 DEF Goes, Same
  <2>4. PICK a, b : a = Len(n.chunks) /\ b = Len(part.chunks)
    OBVIOUS
  <2>5. /\ Len(m.chunks) = a + b
        /\ \A i \in 1..a : m.chunks[i] = n.chunks[i]
        /\ \A i \in 1..b : m.chunks[a + i] = part.chunks[i]
        /\ \A i \in 1..(a + b) : i \in 1..a \/ \E j \in 1..b : i = a + j
    <3>1. n.chunks \in Seq(ChunkRecord) /\ part.chunks \in Seq(ChunkRecord)
      BY <1>3 DEF Manifest
    <3>2. m.chunks = n.chunks \o part.chunks
      BY <2>2
    <3>3. PICK s, t : s = n.chunks /\ t = part.chunks
      OBVIOUS
    <3>4. s \in Seq(ChunkRecord) /\ t \in Seq(ChunkRecord) /\ m.chunks = s \o t
      BY <3>1, <3>2, <3>3
    <3>5. /\ Len(s \o t) = Len(s) + Len(t)
          /\ \A i \in 1..Len(s) : (s \o t)[i] = s[i]
          /\ \A i \in 1..Len(t) : (s \o t)[Len(s) + i] = t[i]
          /\ \A i \in 1..(Len(s) + Len(t)) :
               i \in 1..Len(s) \/ \E j \in 1..Len(t) : i = Len(s) + j
      BY <3>4, ConcatFacts
    <3>6. QED BY <2>4, <3>3, <3>4, <3>5, Zenon
  <2>6. Closed(u)
    BY <1>1, <2>1 DEF Closed
  <2>7. SizesAgree(part) /\ \A i \in 1..b : part.chunks[i].key[1] = u
    <3>1. SizesAgree(part)
      BY <1>1, <1>3, LockFacts
    <3>2. Owns(u, part)
      BY <1>1, <1>3 DEF Base, ManifestsFit, Storable
    <3>3. QED BY <2>4, <3>1, <3>2 DEF Owns
  <2> DEFINE ChunkAgrees(c) == c.key[1] \notin spoiled => stored[c.key] \in {0, c.size}
  <2>8. \A i \in 1..(a + b) : /\ Closed(m.chunks[i].key[1])
                              /\ ChunkAgrees(m.chunks[i])
    <3>1. \A i \in 1..a : /\ Closed(m.chunks[i].key[1])
                          /\ ChunkAgrees(m.chunks[i])
      BY <1>1, <1>2, <1>3, <2>4, <2>5 DEF PartsClosed, SizesAgree
    <3>2. \A i \in 1..b : /\ Closed(m.chunks[a + i].key[1])
                          /\ ChunkAgrees(m.chunks[a + i])
      BY <2>4, <2>5, <2>6, <2>7 DEF SizesAgree
    <3>3. SUFFICES ASSUME NEW i \in 1..(a + b)
                   PROVE  /\ Closed(m.chunks[i].key[1])
                          /\ ChunkAgrees(m.chunks[i])
      OBVIOUS
    <3>4. i \in 1..a \/ \E j \in 1..b : i = a + j
      BY <2>5
    <3>5. QED BY <3>1, <3>2, <3>4
  <2>9. \A i \in 1..Len(PartList) : i < k + 1 => Closed(PartList[i])
    <3>1. ASSUME NEW i \in 1..Len(PartList), i < k + 1 PROVE Closed(PartList[i])
      <4>1. i < k \/ i = k
        BY <1>2, <3>1, Lists
      <4>2. QED BY <1>1, <1>2, <1>3, <2>6, <4>1 DEF PartsClosed
    <3>2. QED BY <3>1
  <2>10. PartsClosed(x)'
    BY <1>2, <2>3, <2>5, <2>8, <2>9 DEF PartsClosed, Closed
  <2>11. Current(x)'
    BY <1>2, <1>3, <2>3, <2>10 DEF Current, UpToDate
  <2>12. SizesAgree(x.man)'
    BY <1>2, <2>3, <2>5, <2>8 DEF SizesAgree
  <2>13. OneHolder'
    BY <1>2, <2>3, HolderGoes DEF LockInv
  <2>14. QED BY <1>2, <2>3, <2>11, <2>12, <2>13, QuietMove
<1>6. QED BY <1>4, <1>5

LEMMA LockSaveFinal ==
    ASSUME Base, LockInv, spoiled \subseteq spoiled', NEW r \in Request, SaveFinal(r)
    PROVE  LockInv'
<1>1. PICK u, m : u = req[r].up /\ m = req[r].man
  OBVIOUS
<1>2. /\ req[r].pc = "load" /\ Busy(r) /\ u \in Final /\ u \in Upload /\ u \notin Single
      /\ req[r].k > Len(PartList) /\ Writes(u, m) /\ UNCHANGED <<stored, jobs, terminated>>
  BY <1>1, SaveFinalEffect, Kinds DEF Base, Busy
<1>3. PICK x : Moves(r, x) /\ x.pc = "compose" /\ x.up = u /\ x.man = m
  <2>1. Goes(r, "compose", m, 1, req[r].out)
    BY <1>1, SaveFinalEffect DEF Base
  <2>2. QED BY <1>1, <2>1 DEF Goes, Same
<1>4. UpToDate(req[r]) /\ PartsClosed(req[r]) /\ SizesAgree(m)
  BY <1>1, <1>2, LockFacts
<1>5. /\ manifest'[u] = m
      /\ \A v \in Upload : v # u => manifest'[v] = manifest[v]
  BY <1>2, Written DEF Base
<1>6. u \notin Partial
  BY <1>2 DEF Single
<1>7. \A v \in Partial : Closed(v) => Closed(v)'
  BY <1>2, <1>5, <1>6, Kinds DEF Closed
<1>8. PartsClosed(x)'
  <2>1. \A i \in 1..Len(PartList) : i < req[r].k
    BY <1>2, Lists, ReqFields DEF Base
  <2>2. /\ \A i \in 1..Len(PartList) : Closed(PartList[i])
        /\ \A i \in 1..Len(m.chunks) : Closed(m.chunks[i].key[1])
    BY <1>1, <1>2, <1>4, <2>1 DEF PartsClosed
  <2>3. \A i \in 1..Len(m.chunks) : m.chunks[i].key[1] \in Partial
    BY <1>1, <1>2, FinalKeys, BaseFacts, ReqFields
  <2>4. QED BY <1>3, <1>7, <2>2, <2>3, Lists DEF PartsClosed
<1>9. Current(x)'
  BY <1>3, <1>5, <1>8 DEF Current, UpToDate
<1>10. SizesAgree(x.man)'
  BY <1>2, <1>3, <1>4 DEF SizesAgree
<1>11. QED BY <1>1, <1>2, <1>3, <1>6, <1>9, <1>10, HolderSaves

LEMMA LockDropPart ==
    ASSUME Base, LockInv, spoiled \subseteq spoiled', NEW r \in Request, DropPart(r)
    PROVE  LockInv'
<1>1. PICK k, u : k = req[r].k /\ u = PartList[k]
  OBVIOUS
<1>2. /\ req[r].pc = "parts" /\ Busy(r) /\ u \in Partial /\ k \in 1..Len(PartList)
      /\ Writes(u, Missing) /\ UNCHANGED <<stored, jobs, terminated>>
  <2>1. /\ req[r].pc = "parts" /\ u \in Partial /\ k <= Len(PartList)
        /\ Writes(u, Missing) /\ UNCHANGED <<stored, jobs, terminated>>
    BY <1>1, DropPartEffect DEF Base
  <2>2. k \in Nat \ {0} /\ Len(PartList) \in Nat
    BY <1>1, ReqFields, Lists DEF Base
  <2>3. QED BY <2>1, <2>2 DEF Busy
<1>3. /\ u \in Single /\ u \in Upload /\ u \notin Final /\ u \notin Plain
      /\ req[r].up \in Final /\ req[r].up \in Upload /\ req[r].up \in jobs
      /\ UpToDate(req[r]) /\ PartsClosed(req[r]) /\ SizesAgree(req[r].man)
  BY <1>2, BaseFacts, LockFacts, Kinds DEF Carries, KnowsJob
<1>4. PICK x : Moves(r, x) /\ (x.pc # "idle" => x.pc = "parts" /\ x.up = req[r].up /\ x.man = req[r].man)
  BY DropPartEffect, IdleFacts DEF Base, Over, Goes, Same
<1>5. manifest'[u] = Missing /\ \A v \in Upload : v # u => manifest'[v] = manifest[v]
  BY <1>2, <1>3, Written DEF Base
<1>6. jobs \cap Final # {}
  BY <1>3
<1>7. Closed(u) /\ Closed(u)'
  BY <1>1, <1>2, <1>3, <1>5, <1>6, MissingFacts DEF PartsClosed, Closed, Complete
<1>8. \A v \in Partial : Closed(v) => Closed(v)'
  <2>1. \A v \in Partial : v # u => (Closed(v) => Closed(v)')
    BY <1>2, <1>5, Kinds DEF Closed
  <2>2. QED BY <1>7, <2>1
<1>9. PartsClosed(x)'
  <2>1. SUFFICES ASSUME x.pc = "parts", x.man = req[r].man PROVE PartsClosed(x)'
    BY <1>4 DEF PartsClosed
  <2>2. /\ \A i \in 1..Len(PartList) : Closed(PartList[i])
        /\ \A i \in 1..Len(x.man.chunks) : Closed(x.man.chunks[i].key[1])
    BY <1>2, <1>3, <2>1 DEF PartsClosed
  <2>3. \A i \in 1..Len(x.man.chunks) : x.man.chunks[i].key[1] \in Partial
    BY <1>2, <1>3, <2>1, FinalKeys, BaseFacts, ReqFields
  <2>4. QED BY <1>8, <2>2, <2>3, Lists DEF PartsClosed
<1>10. Current(x)'
  BY <1>2, <1>3, <1>4, <1>5, <1>9 DEF Current, UpToDate
<1>11. x.pc # "idle" => SizesAgree(x.man)'
  BY <1>2, <1>3, <1>4 DEF SizesAgree
<1>12. OneHolder'
  BY <1>2, <1>4, HolderGoes DEF LockInv
<1>13. SizesAgree(Missing)'
  <2>1. Len(Missing.chunks) = 0
    BY MissingFacts
  <2>2. QED BY <2>1 DEF SizesAgree
<1>14. Safe(u)'
  <2>1. Delivered(u)
    BY <1>2, <1>6, DeliveredPart
  <2>2. Delivered(u)'
    BY <1>2, <2>1, DeliveredStays
  <2>3. QED BY <1>2, <2>2 DEF Safe
<1>15. \A q \in Request : Busy(q) /\ req[q].up = u /\ u \notin spoiled' => req[q].pc = "delete"
  <2>1. SUFFICES ASSUME NEW q \in Request, Busy(q), req[q].up = u, u \notin spoiled',
                        req[q].pc # "delete"
                 PROVE  FALSE
    OBVIOUS
  <2>2. req[q].pc \in {"put", "append"}
    BY <1>3, <2>1, BaseFacts, ReqFields DEF Busy, Carries, Finalizing, RequestState, Pcs
  <2>3. QED BY <1>7, <2>1, <2>2, StillOpen
<1>16. QED BY <1>2, <1>3, <1>4, <1>7, <1>10, <1>11, <1>12, <1>13, <1>14, <1>15, SavingMove

LEMMA LockDeleteState ==
    ASSUME Base, LockInv, spoiled \subseteq spoiled', NEW r \in Request, DeleteState(r)
    PROVE  LockInv'
<1>1. PICK u : u = req[r].up
  OBVIOUS
<1>2. /\ req[r].pc = "delete" /\ Busy(r) /\ u \in Single /\ u \in Upload
      /\ Writes(u, Missing) /\ Over(r) /\ UNCHANGED <<stored, jobs, terminated>>
  BY <1>1, DeleteStateEffect, Kinds DEF Base, Busy
<1>3. u \in terminated
  BY <1>1, <1>2, LockFacts DEF Current
<1>4. manifest'[u] = Missing
  BY <1>2, Written DEF Base
<1>5. Closed(u)'
  BY <1>2, <1>3, <1>4, MissingFacts DEF Closed, Complete
<1>6. SizesAgree(Missing)'
  <2>1. Len(Missing.chunks) = 0
    BY MissingFacts
  <2>2. QED BY <2>1 DEF SizesAgree
<1>7. Moves(r, Idle)
  BY <1>2 DEF Over
<1>8. QED BY <1>1, <1>2, <1>3, <1>5, <1>6, <1>7, HolderSaves, IdleCurrent, IdleFacts

LEMMA LockCreate ==
    ASSUME Base, LockInv, spoiled \subseteq spoiled', NEW u \in Single, Create(u)
    PROVE  LockInv'
<1>1. /\ manifest[u] = Missing /\ u \notin terminated /\ ~Delivered(u) /\ u \notin spoiled
      /\ UNCHANGED <<stored, jobs, req, terminated>>
  BY CreateEffect DEF Base, Create
<1>2. PICK m : m \in Manifest /\ m.chunks = <<>> /\ Writes(u, m)
  BY CreateEffect DEF Base
<1>3. u \in Upload /\ u \notin Final
  BY Kinds
<1>4. manifest'[u] = m /\ \A v \in Upload : v # u => manifest'[v] = manifest[v]
  BY <1>2, <1>3, Written DEF Base
<1>5. ASSUME NEW q \in Request, Busy(q) PROVE req[q].up # u
  <2>1. SUFFICES ASSUME req[q].up = u PROVE FALSE
    OBVIOUS
  <2>2. /\ Carries(req[q]) /\ Fits(req[q]) /\ Current(req[q]) /\ UpToDate(req[q])
        /\ req[q].pc \in Pcs
    BY BaseFacts, LockFacts, ReqFields DEF RequestState
  <2>3. req[q].pc # "delete"
    BY <1>1, <2>1, <2>2 DEF Current
  <2>4. CASE req[q].pc \in {"put", "append"}
    <3>1. Shaped(u, Missing)
      BY <1>1, <2>1, <2>2, <2>4 DEF Fits, UpToDate
    <3>2. QED BY <3>1, MissingFacts, Kinds DEF Shaped
  <2>5. CASE req[q].pc \in {"compose", "enqueue", "commit"}
    <3>1. u \in Plain
      BY <1>3, <2>1, <2>2, <2>5 DEF Carries, Finalizing
    <3>2. Shaped(u, Missing)
      BY <1>1, <2>1, <2>2, <2>5, <3>1 DEF Fits, UpToDate
    <3>3. QED BY <3>2, MissingFacts, Kinds DEF Shaped
  <2>6. CASE req[q].pc = "cleanup"
    BY <1>1, <2>1, <2>2, <2>6, MissingFacts DEF Fits, UpToDate
  <2>7. CASE req[q].pc \in {"load", "parts"}
    BY <1>3, <2>1, <2>2, <2>7 DEF Carries
  <2>8. QED BY <1>5, <2>2, <2>3, <2>4, <2>5, <2>6, <2>7 DEF Busy, Pcs
<1>6. ClosedKept
  <2>1. ~Closed(u) \/ u \notin Partial
    BY <1>1, DeliveredPart DEF Closed
  <2>2. \A v \in Partial : v # u => (Closed(v) => Closed(v)')
    BY <1>1, <1>4, Kinds DEF Closed
  <2>3. QED BY <2>1, <2>2 DEF ClosedKept
<1>7. \A q \in Request : Undisturbed(q)
  <2>1. \A q \in Request : Busy(q) => req[q].up \in Upload
    BY BaseFacts DEF Carries, Busy
  <2>2. QED BY <1>1, <1>4, <1>5, <2>1 DEF Undisturbed, ManifestKept, ChunkKept
<1>8. (\A q \in Request : Current(req[q]))'
  <2>1. ASSUME NEW q \in Request PROVE Current(req[q])'
    <3>1. Current(req[q]) /\ req'[q] = req[q]
      BY <1>1, LockFacts
    <3>2. QED BY <1>1, <1>6, <1>7, <3>1, OtherStaysCurrent
  <2>2. QED BY <2>1
<1>9. OneHolder'
  BY <1>1 DEF LockInv, OneHolder, Busy
<1>10. AllAgree /\ AcknowledgedBytesSurvive
  BY DEF LockInv
<1>11. (\A q \in Request : Busy(q) /\ req[q].up \in Final => SizesAgree(req[q].man))'
  BY <1>1, <1>10 DEF AllAgree, Busy, SizesAgree
<1>12. Len(m.chunks) = 0 /\ DOMAIN m.chunks = {}
  BY <1>2
<1>13. (\A v \in Single : SizesAgree(manifest[v]))'
  <2>1. ASSUME NEW v \in Single PROVE SizesAgree(manifest[v])'
    <3>1. CASE v = u
      BY <1>4, <1>12, <3>1 DEF SizesAgree
    <3>2. CASE v # u
      BY <1>1, <1>4, <1>10, <3>2, Kinds DEF SizesAgree, AllAgree
    <3>3. QED BY <3>1, <3>2
  <2>2. QED BY <2>1
<1>14. ASSUME NEW v \in Single, v \notin terminated', v \notin spoiled' PROVE Safe(v)'
  <2>1. CASE v = u
    BY <1>4, <1>12, <2>1 DEF Safe, Intact
  <2>2. CASE v # u
    <3>1. Safe(v) /\ manifest'[v] = manifest[v]
      BY <1>1, <1>4, <1>10, <1>14, <2>2, SafeMeans, Kinds
    <3>2. v \in Partial /\ Delivered(v) => Delivered(v)'
      BY <1>1, DeliveredStays
    <3>3. QED BY <1>1, <3>1, <3>2 DEF Safe, Intact
  <2>3. QED BY <2>1, <2>2
<1>15. QED BY <1>8, <1>9, <1>11, <1>13, <1>14, LockMade

(* A chunk is deleted whose bytes are not needed any more.                   *)
LEMMA FadingMove ==
    ASSUME Base, LockInv, spoiled \subseteq spoiled', NEW r \in Request, NEW x, Moves(r, x), Busy(r),
           x.pc # "idle" => x.up = req[r].up /\ x.man = req[r].man, Current(x)', NEW c \in ChunkKey, stored' = [stored EXCEPT ![c] = 0],
           UNCHANGED <<manifest, jobs, terminated>>,
           \A q \in Request : q # r /\ req[q].pc = "append" /\ req[q].up \notin spoiled' => req[q].up # c[1],
           \/ c[1] \in spoiled' \/ c[1] \in terminated \/ manifest[c[1]].committed
           \/ c[1] \in Partial /\ Delivered(c[1])
    PROVE  LockInv'
<1>1. /\ stored'[c] = 0 /\ \A d \in ChunkKey : d # c => stored'[d] = stored[d]
  BY DEF Base, TypeOK
<1>2. ChunksFade
  BY <1>1 DEF ChunksFade
<1>3. ClosedKept
  BY DEF ClosedKept, Closed
<1>4. ASSUME NEW q \in Request, q # r PROVE Undisturbed(q)
  <2>1. req[q].pc = "append" /\ req[q].up \notin spoiled'
          => <<req[q].up, req[q].offset>> \in ChunkKey /\ req[q].up # c[1]
    BY <1>4, BaseFacts DEF Carries
  <2>2. req[q].pc = "append" /\ req[q].up \notin spoiled' => <<req[q].up, req[q].offset>> # c
    BY <2>1
  <2>3. QED BY <1>1, <2>1, <2>2 DEF Undisturbed, ManifestKept, ChunkKept
<1>5. (\A q \in Request : Current(req[q]))'
  BY <1>3, <1>4, AllCurrent
<1>6. OneHolder'
  BY HolderGoes DEF LockInv
<1>7. AllAgree /\ AcknowledgedBytesSurvive
  BY DEF LockInv
<1>8. x.pc # "idle" /\ x.up \in Final => SizesAgree(x.man)'
  <2>1. req[r].up \in Final => SizesAgree(req[r].man)
    BY <1>7 DEF AllAgree
  <2>2. QED BY <1>2, <2>1, AgreeFades, ReqFields DEF Base
<1>9. (\A q \in Request : Busy(q) /\ req[q].up \in Final => SizesAgree(req[q].man))'
  BY <1>2, <1>7, <1>8, FinalsAgree
<1>10. (\A v \in Single : SizesAgree(manifest[v]))'
  <2>1. ASSUME NEW v \in Single PROVE SizesAgree(manifest[v])'
    <3>1. manifest[v] \in Manifest /\ SizesAgree(manifest[v]) /\ manifest'[v] = manifest[v]
      BY <1>7, Kinds DEF Base, TypeOK, AllAgree
    <3>2. PICK m : m = manifest[v]
      OBVIOUS
    <3>3. SizesAgree(m)'
      BY <1>2, <3>1, <3>2, AgreeFades
    <3>4. QED BY <3>1, <3>2, <3>3 DEF SizesAgree
  <2>2. QED BY <2>1
<1>11. ASSUME NEW v \in Single, v \notin terminated', v \notin spoiled' PROVE Safe(v)'
  <2>1. Safe(v) /\ manifest[v] \in Manifest /\ Owns(v, manifest[v])
    BY <1>7, <1>11, SafeMeans, Kinds DEF Base, TypeOK, ManifestsFit, Storable
  <2>2. v \in Partial /\ Delivered(v) => Delivered(v)'
    BY DeliveredStays
  <2>3. CASE manifest[v].committed \/ (v \in Partial /\ Delivered(v))
    BY <2>2, <2>3 DEF Safe
  <2>4. CASE v # c[1] /\ Intact(manifest[v])
    <3>1. \A i \in DOMAIN manifest[v].chunks :
             manifest[v].chunks[i].key \in ChunkKey /\ manifest[v].chunks[i].key # c
      BY <2>1, <2>4, IntactMeans DEF Owns
    <3>2. Intact(manifest[v])'
      BY <1>1, <2>4, <3>1 DEF Intact
    <3>3. QED BY <3>2 DEF Safe
  <2>5. QED BY <1>11, <2>1, <2>3, <2>4 DEF Safe
<1>12. QED BY <1>5, <1>6, <1>9, <1>10, <1>11, LockMade

LEMMA LockCleanup ==
    ASSUME Base, LockInv, spoiled \subseteq spoiled', NEW r \in Request, NEW c \in ChunkKey, CleanupChunk(r, c)
    PROVE  LockInv'
<1>1. /\ req[r].pc = "cleanup" /\ Busy(r) /\ stored' = [stored EXCEPT ![c] = 0]
      /\ UNCHANGED <<manifest, jobs, req, terminated>>
  BY CleanupEffect DEF Base, Busy
<1>2. PICK i \in 1..Len(req[r].man.chunks) : req[r].man.chunks[i].key = c
  BY CleanupEffect DEF Base
<1>3. PICK x : x = req[r]
  OBVIOUS
<1>4. Moves(r, x)
  BY <1>1, <1>3, ReqFields DEF Moves, Base
<1>5. Current(x)'
  <2>1. Current(x)
    BY <1>3, LockFacts
  <2>2. QED BY <1>1, <1>3, <2>1 DEF Current, UpToDate, PartsClosed, Closed
<1>6. /\ Carries(req[r]) /\ Fits(req[r]) /\ KnowsJob(req[r]) /\ PartsClosed(req[r])
      /\ req[r].man.committed /\ (req[r].up \notin spoiled => req[r].man = manifest[req[r].up])
  BY <1>1, BaseFacts, LockFacts DEF Fits, UpToDate
<1>7. CASE req[r].up \in Plain
  <2>1. req[r].up \in Single /\ c[1] = req[r].up
    BY <1>1, <1>2, <1>6, <1>7, Kinds DEF Fits, Owns
  <2>2. \A q \in Request : q # r /\ req[q].pc = "append" /\ req[q].up \notin spoiled' => req[q].up # c[1]
    BY <1>1, <2>1 DEF LockInv, OneHolder, Busy
  <2>3. c[1] \in spoiled' \/ manifest[c[1]].committed
    BY <1>6, <2>1
  <2>4. QED BY <1>1, <1>3, <1>4, <1>5, <2>2, <2>3, FadingMove
<1>8. CASE req[r].up \in Final
  <2>1. c[1] \in Partial /\ Closed(c[1])
    BY <1>1, <1>2, <1>6, <1>8, FinalKeys, ReqFields DEF PartsClosed, Base
  <2>2. \A q \in Request : q # r /\ req[q].pc = "append" /\ req[q].up \notin spoiled' => req[q].up # c[1]
    BY <2>1, StillOpen
  <2>3. Delivered(c[1])
    BY <1>1, <1>6, <1>8, <2>1, DeliveredPart DEF KnowsJob
  <2>4. QED BY <1>1, <1>3, <1>4, <1>5, <1>6, <2>1, <2>2, <2>3, FadingMove
<1>9. QED BY <1>1, <1>6, <1>7, <1>8 DEF Carries, Finalizing

LEMMA ChunkDeleted ==
    ASSUME Base, LockInv, spoiled \subseteq spoiled', NEW r \in Request, req[r].pc = "delete",
           req[r].k \in 1..Len(req[r].man.chunks), Chunk(r).key \in ChunkKey,
           stored' = [stored EXCEPT ![Chunk(r).key] = 0], NEW x, Moves(r, x),
           x.pc # "idle" => x.pc = "delete" /\ x.up = req[r].up /\ x.man = req[r].man,
           UNCHANGED <<manifest, jobs, terminated>>
    PROVE  LockInv'
<1>1. PICK c : c = Chunk(r).key
  OBVIOUS
<1>2. /\ Busy(r) /\ stored' = [stored EXCEPT ![c] = 0] /\ c \in ChunkKey
  BY <1>1 DEF Busy
<1>3. Carries(req[r]) /\ Fits(req[r]) /\ Current(req[r]) /\ UpToDate(req[r])
  BY BaseFacts, LockFacts
<1>4. req[r].up \in Single /\ req[r].up \notin Final /\ c[1] = req[r].up /\ req[r].up \in terminated
  BY <1>1, <1>3, Kinds DEF Carries, Fits, Owns, Chunk, Current
<1>5. Current(x)'
  BY <1>3, <1>4 DEF Current, UpToDate, PartsClosed
<1>6. \A q \in Request : q # r /\ req[q].pc = "append" /\ req[q].up \notin spoiled' => req[q].up # c[1]
  BY <1>2, <1>4 DEF LockInv, OneHolder, Busy
<1>7. QED BY <1>2, <1>4, <1>5, <1>6, FadingMove

LEMMA LockDeleteChunk ==
    ASSUME Base, LockInv, spoiled \subseteq spoiled', NEW r \in Request, DeleteChunk(r)
    PROVE  LockInv'
<1>1. /\ req[r].pc = "delete" /\ stored' = [stored EXCEPT ![Chunk(r).key] = 0]
      /\ Chunk(r).key \in ChunkKey /\ req[r].k <= Len(req[r].man.chunks)
      /\ Goes(r, "delete", req[r].man, req[r].k + 1, req[r].out)
      /\ UNCHANGED <<manifest, jobs, terminated>>
  BY DeleteChunkEffect DEF Base
<1>2. PICK x : Moves(r, x) /\ x.pc = "delete" /\ x.up = req[r].up /\ x.man = req[r].man
  BY <1>1 DEF Goes, Same
<1>3. req[r].k \in 1..Len(req[r].man.chunks)
  <2>1. req[r].k \in Nat \ {0} /\ req[r].man.chunks \in Seq(ChunkRecord)
    BY ReqFields DEF Base
  <2>2. QED BY <1>1, <2>1
<1>4. QED BY <1>1, <1>2, <1>3, ChunkDeleted

(* A chunk is put behind those of the manifest: none of them is overwritten. *)
LEMMA PutBehind ==
    ASSUME Base, NEW r \in Request, req[r].pc = "put", NEW n,
           stored' = [stored EXCEPT ![<<req[r].up, req[r].offset>>] = n],
           NEW m \in Manifest, NEW v \in Single, Owns(v, m), v = req[r].up => m = req[r].man
    PROVE  \A i \in 1..Len(m.chunks) : stored'[m.chunks[i].key] = stored[m.chunks[i].key]
<1>1. req[r].offset = req[r].man.offset /\ req[r].offset \in Nat
  BY BaseFacts, ReqFields DEF Base, Fits
<1>2. SUFFICES ASSUME NEW i \in 1..Len(m.chunks)
               PROVE  stored'[m.chunks[i].key] = stored[m.chunks[i].key]
  OBVIOUS
<1>3. PICK d : d = m.chunks[i]
  OBVIOUS
<1>4. /\ d.key \in ChunkKey /\ d.size \in Nat \ {0} /\ d.key[1] = v
      /\ d.key[2] + d.size <= m.offset /\ d.key[2] \in Nat
  BY <1>3, IntactMeans, Keys DEF Owns
<1>5. d.key # <<req[r].up, req[r].offset>>
  <2>1. CASE v # req[r].up
    BY <1>4, <2>1
  <2>2. CASE v = req[r].up
    BY <1>1, <1>4, <2>2
  <2>3. QED BY <2>1, <2>2
<1>6. stored \in [ChunkKey -> Nat]
  BY DEF Base, TypeOK
<1>7. QED BY <1>3, <1>4, <1>5, <1>6

(* The chunk is written, whole or (n = 0) not, and the request goes on or    *)
(* not.                                                                      *)
LEMMA ChunkPut ==
    ASSUME Base, LockInv, spoiled \subseteq spoiled', NEW r \in Request, req[r].pc = "put",
           NEW n, stored' = [stored EXCEPT ![<<req[r].up, req[r].offset>>] = n],
           UNCHANGED <<manifest, jobs, terminated>>, NEW x, Moves(r, x),
           x.pc # "idle" => /\ x.pc = "append" /\ x.up = req[r].up /\ x.man = req[r].man
                            /\ x.offset = req[r].offset /\ x.size = n
    PROVE  LockInv'
<1>1. PICK u, c : u = req[r].up /\ c = <<req[r].up, req[r].offset>>
  OBVIOUS
<1>2. Busy(r) /\ c \in ChunkKey /\ u \in Single /\ u \notin Final /\ c[1] = u
  BY <1>1, BaseFacts, Kinds DEF Busy, Carries
<1>3. u \notin spoiled => req[r].man = manifest[u] /\ ~Closed(u)
  BY <1>1, StillOpen
<1>4. stored'[c] = n /\ \A d \in ChunkKey : d # c => stored'[d] = stored[d]
  BY <1>1, <1>2 DEF Base, TypeOK
<1>5. ClosedKept
  BY DEF ClosedKept, Closed
<1>6. OneHolder /\ AllAgree /\ AcknowledgedBytesSurvive
  BY DEF LockInv
<1>7. \A q \in Request : q # r => Undisturbed(q)
  <2>1. ASSUME NEW q \in Request, q # r, req[q].pc = "append", req[q].up \notin spoiled'
        PROVE  stored'[<<req[q].up, req[q].offset>>] = stored[<<req[q].up, req[q].offset>>]
    <3>1. <<req[q].up, req[q].offset>> \in ChunkKey
      BY <2>1, BaseFacts DEF Carries
    <3>2. req[q].up # u
      BY <1>1, <1>2, <1>6, <2>1 DEF OneHolder, Busy
    <3>3. <<req[q].up, req[q].offset>> # c
      BY <1>1, <3>2
    <3>4. QED BY <1>4, <3>1, <3>3
  <2>2. QED BY <2>1 DEF Undisturbed, ManifestKept, ChunkKept
<1>8. Current(x)'
  BY <1>1, <1>2, <1>3, <1>4 DEF Current, UpToDate, PartsClosed
<1>9. (\A q \in Request : Current(req[q]))'
  BY <1>5, <1>7, <1>8, AllCurrent
<1>10. OneHolder'
  BY <1>2, <1>6, HolderGoes
<1>11. ASSUME NEW v \in Single, v \notin spoiled'
       PROVE  \A i \in 1..Len(manifest[v].chunks) :
                 stored'[manifest[v].chunks[i].key] = stored[manifest[v].chunks[i].key]
  <2>1. manifest[v] \in Manifest /\ Owns(v, manifest[v])
    BY Kinds DEF Base, TypeOK, ManifestsFit, Storable
  <2>2. v = req[r].up => manifest[v] = req[r].man
    BY <1>1, <1>3, <1>11
  <2>3. QED BY <2>1, <2>2, PutBehind
<1>12. (\A v \in Single : SizesAgree(manifest[v]))'
  <2>1. ASSUME NEW v \in Single PROVE SizesAgree(manifest[v])'
    <3>1. SizesAgree(manifest[v]) /\ manifest'[v] = manifest[v] /\ Owns(v, manifest[v])
      BY <1>6, Kinds DEF AllAgree, Base, ManifestsFit, Storable
    <3>2. CASE v \in spoiled'
      BY <3>1, <3>2 DEF Owns, SizesAgree
    <3>3. CASE v \notin spoiled'
      BY <1>11, <3>1, <3>3 DEF SizesAgree
    <3>4. QED BY <3>2, <3>3
  <2>2. QED BY <2>1
<1>13. ASSUME NEW v \in Single, v \notin terminated', v \notin spoiled' PROVE Safe(v)'
  <2>1. Safe(v) /\ manifest[v] \in Manifest /\ manifest'[v] = manifest[v]
    BY <1>6, <1>13, SafeMeans, Kinds DEF Base, TypeOK
  <2>2. v \in Partial /\ Delivered(v) => Delivered(v)'
    BY DeliveredStays
  <2>3. CASE Intact(manifest[v])
    <3>1. DOMAIN manifest[v].chunks = 1..Len(manifest[v].chunks)
      BY <2>1, IntactMeans
    <3>2. \A i \in DOMAIN manifest[v].chunks : stored[manifest[v].chunks[i].key] = manifest[v].chunks[i].size
      BY <2>3 DEF Intact
    <3>3. \A i \in DOMAIN manifest[v].chunks : stored'[manifest[v].chunks[i].key] = manifest[v].chunks[i].size
      BY <1>11, <1>13, <3>1, <3>2
    <3>4. Intact(manifest[v])'
      BY <2>1, <3>3 DEF Intact
    <3>5. QED BY <3>4 DEF Safe
  <2>4. QED BY <2>1, <2>2, <2>3 DEF Safe
<1>14. (\A q \in Request : Busy(q) /\ req[q].up \in Final => SizesAgree(req[q].man))'
  <2>1. SUFFICES ASSUME NEW q \in Request, Busy(q)', req[q].up' \in Final
                 PROVE  SizesAgree(req[q].man)'
    OBVIOUS
  <2>2. q # r /\ req'[q] = req[q]
    BY <1>1, <1>2, <2>1, Moved DEF Base, Busy
  <2>3. PICK m : m = req[q].man
    OBVIOUS
  <2>4. /\ Busy(q) /\ req[q].up \in Final /\ m \in Manifest /\ SizesAgree(m)
        /\ PartsClosed(req[q])
    BY <1>6, <2>1, <2>2, <2>3, ReqFields, LockFacts DEF AllAgree, Busy, Base
  <2>5. \A i \in 1..Len(m.chunks) : m.chunks[i].key \in ChunkKey /\ Closed(m.chunks[i].key[1])
    BY <2>3, <2>4, IntactMeans DEF PartsClosed, Busy
  <2>6. \A i \in 1..Len(m.chunks) : m.chunks[i].key[1] \notin spoiled' => m.chunks[i].key # c
    BY <1>2, <1>3, <2>5
  <2>7. SizesAgree(m)'
    BY <1>4, <2>4, <2>5, <2>6 DEF SizesAgree
  <2>8. QED BY <2>2, <2>3, <2>7 DEF SizesAgree
<1>15. QED BY <1>9, <1>10, <1>12, <1>13, <1>14, LockMade

LEMMA LockPut ==
    ASSUME Base, LockInv, spoiled \subseteq spoiled', NEW r \in Request, PutChunk(r)
    PROVE  LockInv'
<1>1. /\ req[r].pc = "put" /\ stored' = [stored EXCEPT ![<<req[r].up, req[r].offset>>] = req[r].size]
      /\ Goes(r, "append", req[r].man, req[r].k, req[r].out)
      /\ UNCHANGED <<manifest, jobs, terminated>>
  BY PutEffect DEF Base
<1>2. PICK x : /\ Moves(r, x) /\ x.pc = "append" /\ x.up = req[r].up /\ x.man = req[r].man
               /\ x.offset = req[r].offset /\ x.size = req[r].size
  BY <1>1 DEF Goes, Same
<1>3. QED BY <1>1, <1>2, ChunkPut

LEMMA LockAbandon ==
    ASSUME Base, LockInv, spoiled \subseteq spoiled', NEW r \in Request, Abandon(r)
    PROVE  LockInv'
<1>1. /\ UNCHANGED <<manifest, stored, jobs, terminated>>
      /\ req[r].pc \in {"put", "append", "commit", "delete"}
  BY AbandonEffect DEF Base
<1>2. PICK x : /\ Moves(r, x) /\ x.pc = req[r].pc
               /\ x.up = req[r].up /\ x.offset = req[r].offset /\ x.size = req[r].size
               /\ x.man = req[r].man /\ x.k = req[r].k
  BY AbandonEffect DEF Base
<1>3. Busy(r) /\ UpToDate(req[r]) /\ PartsClosed(req[r]) /\ Current(req[r])
  BY <1>1, LockFacts DEF Busy
<1>4. OneHolder'
  BY <1>2, <1>3, HolderGoes DEF LockInv
<1>5. Current(x)'
  <2>1. UpToDate(x)'
    BY <1>1, <1>2, <1>3 DEF UpToDate
  <2>2. PartsClosed(x)'
    BY <1>1, <1>2, <1>3 DEF PartsClosed, Closed
  <2>3. QED BY <1>1, <1>2, <1>3, <2>1, <2>2 DEF Current
<1>6. x.up \in Final => SizesAgree(x.man)'
  BY <1>1, <1>2, <1>3, LockFacts DEF SizesAgree
<1>7. QED BY <1>1, <1>2, <1>4, <1>5, <1>6, QuietMove

LEMMA LockLand ==
    ASSUME Base, LockInv, spoiled \subseteq spoiled', NEW r \in Request, Land(r)
    PROVE  LockInv'
<1>1. Moves(r, Idle) /\ Idle.pc = "idle" /\ UNCHANGED <<jobs, terminated>>
  BY LandEffect, IdleFacts DEF Base, Over
<1>2. CASE req[r].pc = "put"
  <2>1. /\ UNCHANGED manifest
        /\ stored' = [stored EXCEPT ![<<req[r].up, req[r].offset>>] = req[r].size]
    BY <1>2, LandEffect DEF Base, DeleteState
  <2>2. QED BY <1>1, <1>2, <2>1, ChunkPut
<1>3. CASE req[r].pc = "append"
  <2>1. UNCHANGED stored /\ \E m, c : Appended(m, req[r], c) /\ Writes(req[r].up, m)
    BY <1>3, LandEffect DEF Base, DeleteState
  <2>2. QED BY <1>1, <1>3, <2>1, ChunkSaved
<1>4. CASE req[r].pc = "commit"
  <2>1. /\ UNCHANGED stored
        /\ \E m : Remade(m, req[r].man, req[r].man.chunks, TRUE) /\ Writes(req[r].up, m)
    BY <1>4, LandEffect DEF Base, DeleteState
  <2>2. QED BY <1>1, <1>4, <2>1, JobSaved
<1>5. CASE req[r].pc = "delete" /\ ~DeleteState(r)
  <2>1. /\ UNCHANGED manifest /\ req[r].k \in 1..Len(req[r].man.chunks) /\ Chunk(r).key \in ChunkKey
        /\ stored' = [stored EXCEPT ![Chunk(r).key] = 0]
    BY <1>5, LandEffect DEF Base
  <2>2. QED BY <1>1, <1>5, <2>1, ChunkDeleted
<1>6. CASE DeleteState(r)
  BY <1>6, LockDeleteState
<1>7. QED BY <1>2, <1>3, <1>4, <1>5, <1>6, LandEffect DEF Base

(* A manifest that was cut short: its upload is not protected any more.      *)
LEMMA LockTear ==
    ASSUME Base, LockInv, spoiled \subseteq spoiled', NEW r \in Request, Tear(r)
    PROVE  LockInv'
<1>1. Moves(r, Idle) /\ Idle.pc = "idle" /\ UNCHANGED <<jobs, terminated>>
  BY TearEffect, IdleFacts DEF Base, Over
<1>2. CASE req[r].pc = "put"
  <2>1. /\ UNCHANGED manifest
        /\ stored' = [stored EXCEPT ![<<req[r].up, req[r].offset>>] = 0]
    BY <1>2, TearEffect DEF Base
  <2>2. QED BY <1>1, <1>2, <2>1, ChunkPut
<1>3. CASE req[r].pc # "put"
  <2>1. PICK u : u = req[r].up
    OBVIOUS
  <2>2. u \in Single /\ u \in Upload /\ Writes(u, Missing) /\ u \in spoiled' /\ UNCHANGED stored
    BY <1>3, <2>1, TearEffect, Kinds DEF Base
  <2>3. OneHolder'
    BY <1>1, HolderGoes DEF LockInv
  <2>4. SizesAgree(Missing)'
    <3>1. Len(Missing.chunks) = 0
      BY MissingFacts
    <3>2. QED BY <3>1 DEF SizesAgree
  <2>5. Closed(u)'
    BY <2>2 DEF Closed
  <2>6. QED BY <1>1, <2>2, <2>3, <2>4, <2>5, SavingMove, IdleCurrent
<1>4. QED BY <1>2, <1>3

LEMMA LockIdle ==
    ASSUME LockInv, UNCHANGED vars
    PROVE  LockInv'
<1>1. UNCHANGED <<manifest, stored, jobs, req, terminated, spoiled>>
  BY DEF vars
<1>2. OneHolder' /\ AllAgree'
  BY <1>1 DEF LockInv, OneHolder, AllAgree, SizesAgree, Busy
<1>3. (\A q \in Request : Current(req[q]))'
  <2>1. SUFFICES ASSUME NEW q \in Request PROVE Current(req[q])'
    OBVIOUS
  <2>2. Current(req[q])
    BY DEF LockInv
  <2>3. \A v : Closed(v)' = Closed(v)
    BY <1>1 DEF Closed
  <2>4. UpToDate(req[q])'
    BY <1>1, <2>2 DEF Current, UpToDate
  <2>5. PartsClosed(req[q])'
    BY <1>1, <2>2, <2>3 DEF Current, PartsClosed
  <2>6. QED BY <1>1, <2>2, <2>4, <2>5 DEF Current
<1>4. AcknowledgedBytesSurvive'
  BY <1>1 DEF LockInv, AcknowledgedBytesSurvive, Intact, Delivered
<1>5. QED BY <1>2, <1>3, <1>4 DEF LockInv

LEMMA LockStep ==
    ASSUME Base, LockInv, [Next]_vars
    PROVE  LockInv'
<1>0. spoiled \subseteq spoiled'
  BY SpoiledStep
<1>1. CASE \E u \in Plain \cup Partial : Create(u)
  BY <1>0, <1>1, LockCreate DEF Single
<1>2. CASE \E r \in Request, p \in scenario.replicas : \E u \in Plain : StartResult(r, p, u)
  BY <1>2, LockResult
<1>3. CASE \E r \in Request, p \in scenario.replicas : \E u \in Plain \cup Partial : StartDelete(r, p, u)
  BY <1>3, LockDelete DEF Single
<1>4. CASE \E r \in Request, p \in scenario.replicas :
             \E c \in ChunkKey, size \in scenario.chunks : StartPatch(r, p, c[1], c[2], size)
  BY <1>4, LockPatch
<1>5. CASE \E r \in Request, p \in scenario.replicas : \E f \in Final : StartFinal(r, p, f)
  BY <1>0, <1>5, LockFinal
<1>6. CASE \E r \in Request : Step(r) \/ Interrupted(r)
  <2>1. PICK r \in Request : Step(r) \/ Interrupted(r)
    BY <1>6
  <2>2. CASE PutChunk(r) \/ SaveAppend(r)
    BY <1>0, <2>2, LockPut, LockAppend
  <2>3. CASE ComposeChunk(r) \/ FinishCompose(r) \/ EnqueueStored(r) \/ Commit(r)
    BY <1>0, <2>3, LockCompose, LockFinish, LockEnqueue, LockCommit
  <2>4. CASE (\E c \in ChunkKey : CleanupChunk(r, c)) \/ Compact(r)
    BY <1>0, <2>4, LockCleanup, LockCompact
  <2>5. CASE LoadPart(r) \/ SaveFinal(r) \/ DropPart(r)
    BY <1>0, <2>5, LockLoad, LockSaveFinal, LockDropPart
  <2>6. CASE DeleteChunk(r) \/ DeleteState(r)
    BY <1>0, <2>6, LockDeleteChunk, LockDeleteState
  <2>7. CASE ComposeFails(r) \/ Drop(r)
    BY <1>0, <2>7, LockQuit
  <2>8. CASE Abandon(r) \/ Land(r) \/ Tear(r)
    BY <1>0, <2>8, LockAbandon, LockLand, LockTear
  <2>9. QED BY <2>1, <2>2, <2>3, <2>4, <2>5, <2>6, <2>7, <2>8 DEF Step, Interrupted
<1>7. CASE UNCHANGED vars
  BY <1>7, LockIdle
<1>8. QED BY <1>1, <1>2, <1>3, <1>4, <1>5, <1>6, <1>7, Zenon DEF Next

LEMMA LockInit ==
    ASSUME Init
    PROVE  LockInv
<1>1. manifest = [u \in Upload |-> Missing] /\ req = [r \in Request |-> Idle]
  BY DEF Init
<1>2. Len(Missing.chunks) = 0 /\ DOMAIN Missing.chunks = {}
  BY MissingFacts
<1>3. \A r \in Request : req[r] = Idle /\ ~Busy(r)
  BY <1>1, IdleFacts DEF Busy
<1>4. \A u \in Single : manifest[u] = Missing
  BY <1>1, Kinds
<1>5. OneHolder /\ AllAgree
  BY <1>2, <1>3, <1>4 DEF OneHolder, AllAgree, SizesAgree
<1>6. \A r \in Request : Current(req[r])
  BY <1>3, IdleFacts DEF Current, UpToDate, PartsClosed
<1>7. \A u \in Single : Safe(u)
  BY <1>2, <1>4 DEF Safe, Intact
<1>8. QED BY <1>5, <1>6, <1>7, SafeMeans DEF LockInv

LEMMA ScenarioFixed == [Next]_vars => scenario' = scenario
BY ZenonT(30) DEF Next, Step, Interrupted, vars, Create, StartPatch, StartResult, StartDelete, StartFinal,
       PutChunk, SaveAppend, ComposeChunk, ComposeFails, FinishCompose, EnqueueStored, Commit,
       CleanupChunk, Compact, LoadPart, SaveFinal, DropPart, DeleteChunk, DeleteState, Drop,
       Abandon, Land, Tear

(* What the lock gives an upload that it protects: one request at a time     *)
(* works on it, with the manifest that is stored, and no chunk that a        *)
(* manifest names is overwritten with another size.                          *)
THEOREM LockInvHolds == Spec => []LockInv
<1> DEFINE Inv == Base /\ LockInv
<1>1. Init => Inv
  BY BaseInit, LockInit
<1>2. Inv /\ [Next]_vars => Inv'
  BY BaseStep, LockStep
<1>3. Inv => LockInv
  OBVIOUS
<1>4. QED BY <1>1, <1>2, <1>3, PTL DEF Spec

(* What the server acknowledged is never lost: requests that are dropped,    *)
(* retried or overtaken, and the writes they leave behind, keep every chunk  *)
(* that an uncommitted manifest names in the store, with the size it says,   *)
(* unless the lock did not protect that very upload.                         *)
THEOREM AcknowledgedBytesSurviveHolds == Spec => []AcknowledgedBytesSurvive
<1>1. LockInv => AcknowledgedBytesSurvive
  BY DEF LockInv
<1>2. QED BY <1>1, LockInvHolds, PTL

(* A manifest that names its job keeps naming it.                            *)
MarkStays(u) == u \notin spoiled /\ manifest[u].committed => manifest'[u].committed

LEMMA MarkOverwritten ==
    ASSUME Base, NEW u \in Upload, NEW m, Writes(u, m),
           u \notin spoiled /\ manifest[u].committed => m.committed
    PROVE  \A v \in Upload : MarkStays(v)
<1>1. /\ manifest'[u] = m
      /\ \A v \in Upload : v # u => manifest'[v] = manifest[v]
  BY Written DEF Base
<1>2. QED BY <1>1 DEF MarkStays

LEMMA HolderMarks ==
    ASSUME Base, LockInv, NEW r \in Request,
           \/ SaveAppend(r) \/ Commit(r) \/ Compact(r) \/ SaveFinal(r) \/ DropPart(r) \/ DeleteState(r)
           \/ Land(r) \/ Tear(r)
    PROVE  \A v \in Upload : MarkStays(v)
<1>1. PICK u : u = req[r].up
  OBVIOUS
<1>2. TypeOK /\ Carries(req[r]) /\ Fits(req[r]) /\ UpToDate(req[r])
  BY BaseFacts, LockFacts
<1>3. CASE SaveAppend(r)
  <2>1. PICK m, c : Appended(m, req[r], c) /\ Writes(u, m)
    BY <1>1, <1>2, <1>3, AppendEffect
  <2>2. u \in Upload /\ (u \notin spoiled => ~manifest[u].committed)
    BY <1>1, <1>2, <1>3, AppendEffect, StillOpen, Kinds
  <2>3. QED BY <2>1, <2>2, MarkOverwritten
<1>4. CASE Commit(r)
  <2>1. PICK m : Remade(m, req[r].man, req[r].man.chunks, TRUE) /\ Writes(u, m)
    BY <1>1, <1>2, <1>4, CommitEffect
  <2>2. u \in Upload /\ m.committed
    BY <1>1, <1>2, <1>4, <2>1, CommitEffect DEF Remade
  <2>3. QED BY <2>1, <2>2, MarkOverwritten
<1>5. CASE Compact(r)
  <2>1. PICK m : Remade(m, req[r].man, <<>>, req[r].man.committed) /\ Writes(u, m)
    BY <1>1, <1>2, <1>5, CompactEffect
  <2>2. u \in Upload /\ m.committed
    BY <1>1, <1>2, <1>5, <2>1, CompactEffect DEF Remade, Fits
  <2>3. QED BY <2>1, <2>2, MarkOverwritten
<1>6. CASE SaveFinal(r)
  <2>1. /\ Writes(u, req[r].man) /\ u \in Upload /\ req[r].pc = "load"
    BY <1>1, <1>2, <1>6, SaveFinalEffect, Kinds
  <2>2. u \notin spoiled => manifest[u] = Missing
    BY <1>1, <1>2, <2>1 DEF UpToDate
  <2>3. QED BY <2>1, <2>2, MissingFacts, MarkOverwritten
<1>7. CASE DropPart(r)
  <2>1. PICK p : p = PartList[req[r].k]
    OBVIOUS
  <2>2. p \in Partial /\ p \in Single /\ p \in Upload /\ Writes(p, Missing)
    BY <1>2, <1>7, <2>1, DropPartEffect, Kinds
  <2>3. ~manifest[p].committed
    BY <2>2 DEF Base, ManifestsFit, Storable
  <2>4. QED BY <2>2, <2>3, MarkOverwritten
<1>8. CASE DeleteState(r)
  <2>1. req[r].pc = "delete" /\ u \in Single /\ u \in Upload /\ Writes(u, Missing)
    BY <1>1, <1>2, <1>8, DeleteStateEffect, Kinds
  <2>2. u \notin spoiled => ~manifest[u].committed
    <3>1. CASE u \in Plain
      BY <1>1, <1>2, <2>1, <3>1 DEF Fits, UpToDate
    <3>2. CASE u \in Partial
      BY <2>1, <3>2 DEF Base, ManifestsFit, Storable
    <3>3. QED BY <2>1, <3>1, <3>2 DEF Single
  <2>3. QED BY <2>1, <2>2, MarkOverwritten
<1>9. CASE Land(r) \/ Tear(r)
  <2>1. CASE manifest' = manifest
    BY <2>1 DEF MarkStays
  <2>2. CASE req[r].pc \in {"append", "commit"}
    <3>1. u \in Upload
      BY <1>1, <1>2, <2>2, Kinds DEF Carries, Finalizing
    <3>2. PICK m : Writes(u, m)
      BY <1>1, <1>2, <1>9, <2>2, LandEffect, TearEffect DEF DeleteState
    <3>3. CASE req[r].pc = "append"
      <4>1. u \notin spoiled => ~manifest[u].committed
        BY <1>1, <3>3, StillOpen
      <4>2. QED BY <3>1, <3>2, <4>1, MarkOverwritten
    <3>4. CASE req[r].pc = "commit"
      <4>1. u \in Plain /\ u \in Single
        BY <1>1, <1>2, <1>9, <3>4, Kinds DEF Carries, Finalizing, Land, Tear, Gone
      <4>2. u \notin spoiled => ~manifest[u].committed
        BY <1>1, <1>2, <3>4, <4>1 DEF Fits, UpToDate
      <4>3. QED BY <3>1, <3>2, <4>2, MarkOverwritten
    <3>5. QED BY <2>2, <3>3, <3>4
  <2>3. \/ manifest' = manifest \/ req[r].pc \in {"append", "commit"} \/ DeleteState(r)
    BY <1>2, <1>9, LandEffect, TearEffect
  <2>4. QED BY <1>8, <2>1, <2>2, <2>3
<1>10. QED BY <1>3, <1>4, <1>5, <1>6, <1>7, <1>8, <1>9

LEMMA MarksStay ==
    ASSUME Base, LockInv, [Next]_vars
    PROVE  \A v \in Upload : MarkStays(v)
<1>1. CASE manifest' = manifest
  BY <1>1 DEF MarkStays
<1>2. CASE \E u \in Single : Create(u)
  <2>1. PICK u \in Single : Create(u)
    BY <1>2
  <2>2. manifest[u] = Missing /\ \E m : m \in Manifest /\ Writes(u, m)
    BY <2>1, CreateEffect DEF Base
  <2>3. QED BY <2>2, MissingFacts, Kinds, MarkOverwritten
<1>3. CASE \E r \in Request : \/ SaveAppend(r) \/ Commit(r) \/ Compact(r)
                              \/ SaveFinal(r) \/ DropPart(r) \/ DeleteState(r)
                              \/ Land(r) \/ Tear(r)
  BY <1>3, HolderMarks
<1>4. \/ manifest' = manifest
      \/ \E u \in Single : Create(u)
      \/ \E r \in Request : \/ SaveAppend(r) \/ Commit(r) \/ Compact(r)
                            \/ SaveFinal(r) \/ DropPart(r) \/ DeleteState(r)
                            \/ Land(r) \/ Tear(r)
  BY Zenon DEF Next, Step, Interrupted, Single, vars, StartPatch, StartResult, StartDelete, StartFinal,
         PutChunk, ComposeChunk, ComposeFails, FinishCompose, EnqueueStored, CleanupChunk, LoadPart,
         DeleteChunk, Drop, Abandon
<1>5. QED BY <1>1, <1>2, <1>3, <1>4

(* Once the job of an upload is recorded its result stays available: no      *)
(* request writes back a manifest it loaded before that, and none deletes it *)
(* (patch, delete and get result all hold the upload's lock), unless the     *)
(* lock did not protect that very upload.                                    *)
THEOREM ResultStaysAvailableHolds == Spec => ResultStaysAvailable
<1>1. Base /\ LockInv /\ [Next]_vars
        => [\A u \in Upload \ spoiled : manifest[u].committed => manifest'[u].committed]_vars
  BY MarksStay DEF MarkStays
<1>2. QED BY <1>1, BaseHolds, LockInvHolds, PTL DEF Spec, ResultStaysAvailable

-----------------------------------------------------------------------------
(* The order of the bytes determines them.                                   *)

LEMMA LeastNat ==
    ASSUME NEW T, T \subseteq Nat, T # {}
    PROVE  \E n \in T : \A m \in T : n <= m
<1>1. PICK n \in T : \A m \in T : <<m, n>> \notin OpToRel(<, Nat)
  BY WFMin, NatLessThanWellFounded
<1>2. ASSUME NEW m \in T PROVE n <= m
  <2>1. m \in Nat /\ n \in Nat
    OBVIOUS
  <2>2. ~(m < n)
    BY <1>1, <2>1 DEF OpToRel
  <2>3. QED BY <2>1, <2>2
<1>3. QED BY <1>2

LEMMA PartsDiffer ==
    /\ \A i, j \in 1..Len(PartList) : PartList[i] = PartList[j] => i = j
    /\ PartList[Len(PartList)] \in Partial /\ PartList[1] \in Partial
<1>1. DOMAIN PartList = 1..Len(PartList) /\ IsInjective(PartList)
  BY Lists, ResumableUploadAssumptions
<1>2. 1 \in 1..Len(PartList) /\ Len(PartList) \in 1..Len(PartList)
  BY Lists
<1>3. QED BY <1>1, <1>2, Lists DEF IsInjective

LEMMA BytesFollow ==
    ASSUME NEW c \in ChunkKey, NEW n \in Nat \ {0}, c[2] + n <= Size[c[1]]
    PROVE  /\ ChunkBytes(c, n) \in Seq(ChunkKey) /\ Len(ChunkBytes(c, n)) = n
           /\ ChunkBytes(c, n)[1] = c /\ ChunkBytes(c, n)[n] = <<c[1], c[2] + n - 1>>
           /\ \A i \in 1..(n - 1) : Follows(ChunkBytes(c, n)[i], ChunkBytes(c, n)[i + 1])
<1>1. c = <<c[1], c[2]>> /\ c[1] \in Single /\ c[2] \in Nat /\ Size[c[1]] \in Nat
  BY Keys, Kinds
<1>2. PICK b : b = ChunkBytes(c, n)
  OBVIOUS
<1>3. b = [i \in 1..n |-> <<c[1], c[2] + i - 1>>]
  BY <1>2 DEF ChunkBytes
<1>4. \A i \in 1..n : <<c[1], c[2] + i - 1>> \in ChunkKey
  <2>1. ASSUME NEW i \in 1..n PROVE <<c[1], c[2] + i - 1>> \in ChunkKey
    <3>1. c[2] + i - 1 \in Nat /\ c[2] + i - 1 < Size[c[1]]
      BY <1>1, <2>1
    <3>2. QED BY <1>1, <3>1, Keys
  <2>2. QED BY <2>1
<1>5. b \in Seq(ChunkKey) /\ Len(b) = n
  BY <1>3, <1>4
<1>6. b[1] = c /\ b[n] = <<c[1], c[2] + n - 1>>
  <2>1. 1 \in 1..n /\ n \in 1..n
    OBVIOUS
  <2>2. c[2] + 1 - 1 = c[2]
    BY <1>1
  <2>3. QED BY <1>1, <1>3, <2>1, <2>2
<1>7. ASSUME NEW i \in 1..(n - 1) PROVE Follows(b[i], b[i + 1])
  <2>1. i \in 1..n /\ i + 1 \in 1..n
    BY <1>7
  <2>2. b[i] = <<c[1], c[2] + i - 1>> /\ b[i + 1] = <<c[1], c[2] + (i + 1) - 1>>
    BY <1>3, <2>1
  <2>3. c[2] + (i + 1) - 1 = (c[2] + i - 1) + 1
    BY <1>1, <2>1
  <2>4. QED BY <2>2, <2>3 DEF Follows
<1>8. QED BY <1>2, <1>5, <1>6, <1>7

LEMMA OrderedConcat ==
    ASSUME NEW u, NEW a \in Seq(ChunkKey), NEW b \in Seq(ChunkKey), b # <<>>,
           a = <<>> => b[1] = FirstByte(u),
           a # <<>> => Ordered(u, a) /\ Follows(a[Len(a)], b[1]),
           \A i \in 1..(Len(b) - 1) : Follows(b[i], b[i + 1])
    PROVE  Ordered(u, a \o b) /\ (a \o b)[Len(a \o b)] = b[Len(b)]
<1>1. PICK l, n, s : l = Len(a) /\ n = Len(b) /\ s = a \o b
  OBVIOUS
<1>2. /\ l \in Nat /\ n \in Nat \ {0} /\ s \in Seq(ChunkKey) /\ Len(s) = l + n
      /\ \A i \in 1..l : s[i] = a[i]
      /\ \A i \in 1..n : s[l + i] = b[i]
  BY <1>1
<1>3. s # <<>> /\ n \in 1..n /\ 1 \in 1..n
  BY <1>2
<1>4. s[1] = FirstByte(u)
  <2>1. CASE l = 0
    <3>1. a = <<>> /\ s[0 + 1] = b[1]
      BY <1>1, <1>2, <1>3, <2>1
    <3>2. QED BY <3>1
  <2>2. CASE l > 0
    <3>1. a # <<>> /\ 1 \in 1..l
      BY <1>1, <1>2, <2>2
    <3>2. QED BY <1>2, <3>1 DEF Ordered
  <2>3. QED BY <1>2, <2>1, <2>2
<1>5. ASSUME NEW i \in 1..(Len(s) - 1) PROVE Follows(s[i], s[i + 1])
  <2>1. CASE i < l
    <3>1. i \in 1..(l - 1) /\ i \in 1..l /\ i + 1 \in 1..l /\ a # <<>>
      BY <1>1, <1>2, <1>5, <2>1
    <3>2. Follows(a[i], a[i + 1])
      BY <1>1, <3>1 DEF Ordered
    <3>3. QED BY <1>2, <3>1, <3>2
  <2>2. CASE i = l
    <3>1. a # <<>> /\ l \in 1..l /\ s[l] = a[l] /\ s[l + 1] = b[1]
      BY <1>1, <1>2, <1>3, <1>5, <2>2
    <3>2. QED BY <1>1, <2>2, <3>1
  <2>3. CASE i > l
    <3>1. PICK j : j = i - l
      OBVIOUS
    <3>2. j \in 1..(n - 1) /\ j \in 1..n /\ j + 1 \in 1..n /\ i = l + j /\ i + 1 = l + (j + 1)
      BY <1>2, <1>5, <2>3, <3>1
    <3>3. s[i] = b[j] /\ s[i + 1] = b[j + 1]
      BY <1>2, <3>2
    <3>4. QED BY <1>1, <3>2, <3>3
  <2>4. QED BY <1>2, <1>5, <2>1, <2>2, <2>3
<1>6. s[Len(s)] = b[n]
  BY <1>2, <1>3
<1>7. Ordered(u, s)
  BY <1>2, <1>3, <1>4, <1>5 DEF Ordered
<1>8. QED BY <1>1, <1>6, <1>7

(* A byte has one successor, and the last byte of a file has none.           *)
LEMMA OneSuccessor ==
    ASSUME NEW b \in ChunkKey, NEW c \in ChunkKey, NEW d \in ChunkKey, Follows(b, c), Follows(b, d)
    PROVE  c = d
<1>1. b[1] \in Single /\ b[2] \in Nat /\ Size[b[1]] \in Nat
  BY Keys, Kinds
<1>2. ASSUME NEW e \in ChunkKey, e = <<b[1], b[2] + 1>> PROVE b[2] + 1 < Size[b[1]]
  BY <1>2, Keys
<1>3. \A e : PartEnds(b[1], b[2] + 1, e) => b[2] + 1 = Size[b[1]]
  BY DEF PartEnds
<1>4. ASSUME NEW e, NEW f, PartEnds(b[1], b[2] + 1, e), PartEnds(b[1], b[2] + 1, f) PROVE e = f
  <2>1. PICK i \in 1..(Len(PartList) - 1) : b[1] = PartList[i] /\ e = <<PartList[i + 1], 0>>
    BY <1>4 DEF PartEnds
  <2>2. PICK j \in 1..(Len(PartList) - 1) : b[1] = PartList[j] /\ f = <<PartList[j + 1], 0>>
    BY <1>4 DEF PartEnds
  <2>3. i \in 1..Len(PartList) /\ j \in 1..Len(PartList)
    BY Lists
  <2>4. i = j
    BY <2>1, <2>2, <2>3, PartsDiffer
  <2>5. QED BY <2>1, <2>2, <2>4
<1>5. c = <<b[1], b[2] + 1>> \/ PartEnds(b[1], b[2] + 1, c)
  BY DEF Follows
<1>6. d = <<b[1], b[2] + 1>> \/ PartEnds(b[1], b[2] + 1, d)
  BY DEF Follows
<1>7. QED BY <1>1, <1>2, <1>3, <1>4, <1>5, <1>6

LEMMA NoSuccessor ==
    ASSUME NEW u \in Plain \cup Final, NEW c \in ChunkKey
    PROVE  ~Follows(LastByte(u), c)
<1>1. SUFFICES ASSUME Follows(LastByte(u), c) PROVE FALSE
  OBVIOUS
<1>2. PICK v : v = IF u \in Final THEN PartList[Len(PartList)] ELSE u
  OBVIOUS
<1>3. v \in Single /\ Size[v] \in Nat \ {0} /\ LastByte(u) = <<v, Size[v] - 1>>
  BY <1>2, Kinds, PartsDiffer DEF LastByte, Single
<1>4. (Size[v] - 1) + 1 = Size[v]
  BY <1>3
<1>5. c = <<v, Size[v]>> \/ PartEnds(v, Size[v], c)
  BY <1>1, <1>3, <1>4 DEF Follows
<1>6. c # <<v, Size[v]>>
  BY <1>3, Keys
<1>7. PICK j \in 1..(Len(PartList) - 1) : v = PartList[j]
  BY <1>5, <1>6 DEF PartEnds
<1>8. j \in 1..Len(PartList) /\ Len(PartList) \in 1..Len(PartList) /\ j # Len(PartList)
  BY <1>7, Lists
<1>9. u \in Final
  BY <1>2, <1>7, <1>8, Lists, Kinds
<1>10. QED BY <1>2, <1>7, <1>8, <1>9, PartsDiffer

(* Two files in order agree as far as both go, and they end together.        *)
LEMMA OrdersAgree ==
    ASSUME NEW u, NEW s, NEW t, Ordered(u, s), Ordered(u, t)
    PROVE  \A i \in 1..Len(s) : i \in 1..Len(t) => s[i] = t[i]
<1>1. s \in Seq(ChunkKey) /\ t \in Seq(ChunkKey) /\ s[1] = t[1]
  BY DEF Ordered
<1>2. PICK D : D = {i \in Nat : i \in 1..Len(s) /\ i \in 1..Len(t) /\ s[i] # t[i]}
  OBVIOUS
<1>3. SUFFICES ASSUME D # {} PROVE FALSE
  BY <1>1, <1>2
<1>4. PICK n \in D : \A m \in D : n <= m
  BY <1>2, <1>3, LeastNat
<1>5. n \in Nat /\ n \in 1..Len(s) /\ n \in 1..Len(t) /\ s[n] # t[n] /\ n # 1
  BY <1>1, <1>2, <1>4
<1>6. PICK m : m = n - 1
  OBVIOUS
<1>7. m \in Nat /\ m \in 1..(Len(s) - 1) /\ m \in 1..(Len(t) - 1) /\ n = m + 1 /\ ~(n <= m)
  BY <1>1, <1>5, <1>6
<1>8. m \in 1..Len(s) /\ m \in 1..Len(t)
  BY <1>1, <1>7
<1>9. s[m] = t[m]
  BY <1>2, <1>4, <1>7, <1>8
<1>10. Follows(s[m], s[m + 1]) /\ Follows(t[m], t[m + 1])
  BY <1>7 DEF Ordered
<1>11. s[m] \in ChunkKey /\ s[n] \in ChunkKey /\ t[n] \in ChunkKey
  BY <1>1, <1>5, <1>8
<1>12. QED BY <1>5, <1>7, <1>9, <1>10, <1>11, OneSuccessor

LEMMA NotLonger ==
    ASSUME NEW u \in Plain \cup Final, NEW s, NEW t, InOrder(u, s), InOrder(u, t)
    PROVE  Len(t) <= Len(s)
<1>1. /\ s \in Seq(ChunkKey) /\ t \in Seq(ChunkKey) /\ s # <<>> /\ Ordered(u, s) /\ Ordered(u, t)
      /\ s[Len(s)] = LastByte(u)
  BY DEF InOrder, Ordered
<1>2. SUFFICES ASSUME ~(Len(t) <= Len(s)) PROVE FALSE
  OBVIOUS
<1>3. PICK l : l = Len(s)
  OBVIOUS
<1>4. l \in 1..Len(s) /\ l \in 1..Len(t) /\ l \in 1..(Len(t) - 1) /\ l + 1 \in 1..Len(t)
  BY <1>1, <1>2, <1>3
<1>5. t[l] = LastByte(u)
  BY <1>1, <1>3, <1>4, OrdersAgree
<1>6. Follows(t[l], t[l + 1]) /\ t[l + 1] \in ChunkKey
  BY <1>1, <1>4 DEF Ordered
<1>7. QED BY <1>5, <1>6, NoSuccessor

LEMMA SameFile ==
    ASSUME NEW u \in Plain \cup Final, NEW s, NEW t, InOrder(u, s), InOrder(u, t)
    PROVE  s = t
<1>1. Ordered(u, s) /\ Ordered(u, t) /\ s \in Seq(ChunkKey) /\ t \in Seq(ChunkKey)
  BY DEF InOrder, Ordered
<1>2. Len(s) = Len(t)
  <2>1. Len(t) <= Len(s) /\ Len(s) <= Len(t)
    BY NotLonger
  <2>2. QED BY <1>1, <2>1
<1>3. \A i \in 1..Len(s) : s[i] = t[i]
  BY <1>1, <1>2, OrdersAgree
<1>4. QED BY <1>1, <1>2, <1>3

-----------------------------------------------------------------------------
(* FileBytes is in order: FlattenSeq, step by step.                          *)

Flattens(g, B, n) == g = [i \in 1..n |-> IF i = 1 THEN B[i] ELSE g[i - 1] \o B[i]]

LEMMA FlattenGrows ==
    ASSUME NEW B, NEW m \in Nat \ {0}, NEW g, Flattens(g, B, m)
    PROVE  \E h : Flattens(h, B, m + 1)
<1>1. PICK h : h = [i \in 1..(m + 1) |-> IF i = m + 1 THEN g[m] \o B[m + 1] ELSE g[i]]
  OBVIOUS
<1>2. ASSUME NEW i \in 1..(m + 1)
      PROVE  h[i] = IF i = 1 THEN B[i] ELSE h[i - 1] \o B[i]
  <2>1. CASE i = m + 1
    <3>1. i # 1 /\ i - 1 = m /\ m \in 1..(m + 1) /\ m # m + 1
      BY <2>1
    <3>2. h[i] = g[m] \o B[m + 1] /\ h[m] = g[m]
      BY <1>1, <2>1, <3>1
    <3>3. QED BY <2>1, <3>1, <3>2
  <2>2. CASE i # m + 1
    <3>1. i \in 1..m /\ h[i] = g[i]
      BY <1>1, <1>2, <2>2
    <3>2. g[i] = IF i = 1 THEN B[i] ELSE g[i - 1] \o B[i]
      BY <3>1 DEF Flattens
    <3>3. i # 1 => i - 1 \in 1..(m + 1) /\ i - 1 # m + 1
      BY <3>1
    <3>4. i # 1 => h[i - 1] = g[i - 1]
      BY <1>1, <3>3
    <3>5. QED BY <3>1, <3>2, <3>4
  <2>3. QED BY <2>1, <2>2
<1>3. h = [i \in 1..(m + 1) |-> IF i = 1 THEN B[i] ELSE h[i - 1] \o B[i]]
  BY <1>1, <1>2
<1>4. QED BY <1>3 DEF Flattens

LEMMA FlattenExists ==
    ASSUME NEW B
    PROVE  \A n \in Nat \ {0} : \E g : Flattens(g, B, n)
<1>1. PICK T : T = {n \in Nat \ {0} : ~ \E g : Flattens(g, B, n)}
  OBVIOUS
<1>2. SUFFICES ASSUME T # {} PROVE FALSE
  BY <1>1
<1>3. PICK n \in T : \A m \in T : n <= m
  BY <1>1, <1>2, LeastNat
<1>4. n \in Nat \ {0} /\ ~ \E g : Flattens(g, B, n)
  BY <1>1, <1>3
<1>5. CASE n = 1
  <2>1. PICK g : g = [i \in 1..1 |-> B[i]]
    OBVIOUS
  <2>2. g = [i \in 1..1 |-> IF i = 1 THEN B[i] ELSE g[i - 1] \o B[i]]
    BY <2>1
  <2>3. QED BY <1>4, <1>5, <2>2 DEF Flattens
<1>6. CASE n # 1
  <2>1. PICK m : m = n - 1
    OBVIOUS
  <2>2. m \in Nat \ {0} /\ n = m + 1 /\ ~(n <= m)
    BY <1>4, <1>6, <2>1
  <2>3. m \notin T
    BY <1>3, <2>2
  <2>4. \E g : Flattens(g, B, m)
    BY <1>1, <2>2, <2>3
  <2>5. QED BY <1>4, <2>2, <2>4, FlattenGrows
<1>7. QED BY <1>5, <1>6

LEMMA FlattenMeans ==
    ASSUME NEW B, Len(B) \in Nat \ {0}
    PROVE  \E g : Flattens(g, B, Len(B)) /\ FlattenSeq(B) = g[Len(B)]
<1>1. PICK g : g = CHOOSE f : f = [i \in 1..Len(B) |-> IF i = 1 THEN B[i] ELSE f[i - 1] \o B[i]]
  OBVIOUS
<1>2. \E f : f = [i \in 1..Len(B) |-> IF i = 1 THEN B[i] ELSE f[i - 1] \o B[i]]
  BY FlattenExists DEF Flattens
<1>3. g = [i \in 1..Len(B) |-> IF i = 1 THEN B[i] ELSE g[i - 1] \o B[i]]
  BY <1>1, <1>2
<1>4. FlattenSeq(B) = g[Len(B)]
  BY <1>1 DEF FlattenSeq
<1>5. QED BY <1>3, <1>4 DEF Flattens

(* The bytes of one part.                                                    *)
LEMMA WholePart ==
    ASSUME NEW v \in Single, NEW b, b = [i \in 1..Size[v] |-> <<v, i - 1>>]
    PROVE  /\ b \in Seq(ChunkKey) /\ b # <<>> /\ b[1] = <<v, 0>> /\ b[Len(b)] = <<v, Size[v] - 1>>
           /\ \A i \in 1..(Len(b) - 1) : Follows(b[i], b[i + 1])
<1>1. PICK c, n : c = <<v, 0>> /\ n = Size[v]
  OBVIOUS
<1>2. n \in Nat \ {0} /\ c[1] = v /\ c[2] = 0 /\ c[2] + n <= Size[c[1]]
  BY <1>1, Kinds
<1>3. c \in ChunkKey
  BY <1>1, <1>2, Keys
<1>4. ChunkBytes(c, n) = b
  <2>1. \A i \in 1..n : <<c[1], c[2] + i - 1>> = <<v, i - 1>>
    BY <1>2
  <2>2. QED BY <1>1, <2>1 DEF ChunkBytes
<1>5. /\ b \in Seq(ChunkKey) /\ Len(b) = n
      /\ b[1] = c /\ b[n] = <<c[1], c[2] + n - 1>>
      /\ \A i \in 1..(n - 1) : Follows(b[i], b[i + 1])
  <2>1. c[2] + n <= Size[c[1]] /\ n \in Nat \ {0}
    BY <1>2
  <2>2. /\ ChunkBytes(c, n) \in Seq(ChunkKey) /\ Len(ChunkBytes(c, n)) = n
        /\ ChunkBytes(c, n)[1] = c /\ ChunkBytes(c, n)[n] = <<c[1], c[2] + n - 1>>
        /\ \A i \in 1..(n - 1) : Follows(ChunkBytes(c, n)[i], ChunkBytes(c, n)[i + 1])
    BY <1>3, <2>1, BytesFollow
  <2>3. QED BY <1>4, <2>2, Zenon
<1>6. c[2] + n - 1 = Size[v] - 1
  BY <1>1, <1>2
<1>7. b # <<>>
  BY <1>2, <1>5
<1>8. QED BY <1>1, <1>2, <1>5, <1>6, <1>7

(* The parts up to the i-th, one after the other.                            *)
Joins(s, f, i) == Ordered(f, s) /\ s[Len(s)] = <<PartList[i], Size[PartList[i]] - 1>>

LEMMA PartsJoin ==
    ASSUME NEW f \in Final, NEW B, Len(B) = Len(PartList), NEW g, Flattens(g, B, Len(PartList)),
           \A k \in 1..Len(PartList) : B[k] = [i \in 1..Size[PartList[k]] |-> <<PartList[k], i - 1>>]
    PROVE  \A i \in 1..Len(PartList) : Joins(g[i], f, i)
<1>1. PICK T : T = {i \in Nat : i \in 1..Len(PartList) /\ ~Joins(g[i], f, i)}
  OBVIOUS
<1>2. SUFFICES ASSUME T # {} PROVE FALSE
  BY <1>1, Lists
<1>3. PICK n \in T : \A m \in T : n <= m
  BY <1>1, <1>2, LeastNat
<1>4. n \in Nat /\ n \in 1..Len(PartList) /\ ~Joins(g[n], f, n)
  BY <1>1, <1>3
<1>5. PICK b, v : v = PartList[n] /\ b = B[n]
  OBVIOUS
<1>6. v \in Single /\ b = [i \in 1..Size[v] |-> <<v, i - 1>>]
  BY <1>4, <1>5, Lists, Kinds
<1>7. /\ b \in Seq(ChunkKey) /\ b # <<>> /\ b[1] = <<v, 0>> /\ b[Len(b)] = <<v, Size[v] - 1>>
      /\ \A i \in 1..(Len(b) - 1) : Follows(b[i], b[i + 1])
  BY <1>6, WholePart
<1>8. g[n] = IF n = 1 THEN B[n] ELSE g[n - 1] \o B[n]
  BY <1>4 DEF Flattens
<1>9. CASE n = 1
  <2>1. g[n] = b
    BY <1>5, <1>8, <1>9
  <2>2. b[1] = FirstByte(f)
    BY <1>5, <1>7, <1>9 DEF FirstByte
  <2>3. QED BY <1>4, <1>5, <1>7, <2>1, <2>2 DEF Joins, Ordered
<1>10. CASE n # 1
  <2>1. PICK m, a : m = n - 1 /\ a = g[m]
    OBVIOUS
  <2>2. m \in Nat /\ m \in 1..(Len(PartList) - 1) /\ m \in 1..Len(PartList) /\ n = m + 1 /\ ~(n <= m)
    BY <1>4, <1>10, <2>1, Lists
  <2>3. Joins(a, f, m)
    BY <1>1, <1>3, <2>1, <2>2
  <2>4. g[n] = a \o b
    BY <1>5, <1>8, <1>10, <2>1
  <2>5. PICK w : w = PartList[m]
    OBVIOUS
  <2>6. /\ Ordered(f, a) /\ a \in Seq(ChunkKey) /\ a # <<>>
        /\ a[Len(a)] = <<w, Size[w] - 1>> /\ Size[w] \in Nat \ {0}
    BY <2>2, <2>3, <2>5, Lists, Kinds DEF Joins, Ordered
  <2>7. Follows(a[Len(a)], b[1])
    <3>1. (Size[w] - 1) + 1 = Size[w]
      BY <2>6
    <3>2. PartEnds(w, Size[w], <<v, 0>>)
      BY <1>5, <2>2, <2>5 DEF PartEnds
    <3>3. QED BY <1>7, <2>6, <3>1, <3>2 DEF Follows
  <2>8. Ordered(f, a \o b) /\ (a \o b)[Len(a \o b)] = b[Len(b)]
    BY <1>7, <2>6, <2>7, OrderedConcat
  <2>9. QED BY <1>4, <1>5, <1>7, <2>4, <2>8 DEF Joins
<1>11. QED BY <1>9, <1>10

LEMMA FileInOrder ==
    ASSUME NEW u \in Plain \cup Final
    PROVE  InOrder(u, FileBytes(u))
<1>1. CASE u \in Plain
  <2>1. u \in Single /\ u \notin Final
    BY <1>1, Kinds
  <2>2. PICK b : b = FileBytes(u)
    OBVIOUS
  <2>3. b = [i \in 1..Size[u] |-> <<u, i - 1>>]
    BY <2>1, <2>2 DEF FileBytes
  <2>4. /\ b \in Seq(ChunkKey) /\ b # <<>> /\ b[1] = <<u, 0>> /\ b[Len(b)] = <<u, Size[u] - 1>>
        /\ \A i \in 1..(Len(b) - 1) : Follows(b[i], b[i + 1])
    BY <2>1, <2>3, WholePart
  <2>5. FirstByte(u) = <<u, 0>> /\ LastByte(u) = <<u, Size[u] - 1>>
    BY <2>1 DEF FirstByte, LastByte
  <2>6. QED BY <2>2, <2>4, <2>5 DEF InOrder, Ordered
<1>2. CASE u \in Final
  <2>1. PICK B : B = [k \in DOMAIN PartList |-> [i \in 1..Size[PartList[k]] |-> <<PartList[k], i - 1>>]]
    OBVIOUS
  <2>2. FileBytes(u) = FlattenSeq(B)
    BY <1>2, <2>1 DEF FileBytes
  <2>3. DOMAIN PartList = 1..Len(PartList) /\ Len(PartList) \in Nat \ {0}
    BY Lists
  <2>4. /\ Len(B) = Len(PartList)
        /\ \A k \in 1..Len(PartList) : B[k] = [i \in 1..Size[PartList[k]] |-> <<PartList[k], i - 1>>]
    BY <2>1, <2>3
  <2>5. PICK g : Flattens(g, B, Len(B)) /\ FlattenSeq(B) = g[Len(B)]
    BY <2>3, <2>4, FlattenMeans
  <2>6. Joins(g[Len(PartList)], u, Len(PartList))
    <3>1. Len(PartList) \in 1..Len(PartList) /\ Flattens(g, B, Len(PartList))
      BY <2>3, <2>4, <2>5
    <3>2. QED BY <1>2, <2>4, <3>1, PartsJoin
  <2>7. LastByte(u) = <<PartList[Len(PartList)], Size[PartList[Len(PartList)]] - 1>>
    BY <1>2 DEF LastByte
  <2>8. QED BY <2>2, <2>4, <2>5, <2>6, <2>7 DEF InOrder, Joins
<1>3. QED BY <1>1, <1>2

-----------------------------------------------------------------------------
(* Objects.                                                                  *)

(* The manifest of a finalization: its chunks are the file.                  *)
LEMMA ChunksCover ==
    ASSUME NEW x \in RequestState, Carries(x), Fits(x), x.pc = "compose"
    PROVE  LET cs == x.man.chunks
               l == cs[Len(cs)]
           IN  /\ cs \in Seq(ChunkRecord) /\ cs # <<>> /\ cs[1].key = FirstByte(x.up) /\ Linked(cs)
               /\ <<l.key[1], l.key[2] + l.size - 1>> = LastByte(x.up)
<1>1. PICK cs, l : cs = x.man.chunks /\ l = cs[Len(cs)]
  OBVIOUS
<1>2. x.man \in Manifest /\ cs \in Seq(ChunkRecord) /\ x.up \in Plain \cup Final
  BY <1>1 DEF RequestState, Manifest, Carries, Finalizing
<1>3. cs # <<>> => l.key[2] \in Nat /\ l.size \in Nat
  <2>1. cs # <<>> => l \in ChunkRecord
    BY <1>1, <1>2
  <2>2. cs # <<>> => l.key \in ChunkKey /\ l.size \in Nat
    BY <2>1 DEF ChunkRecord
  <2>3. QED BY <2>2, Keys
<1>4. CASE x.up \in Plain
  <2>1. x.up \in Single /\ x.up \notin Final /\ Size[x.up] \in Nat \ {0}
    BY <1>4, Kinds
  <2>2. Shaped(x.up, x.man) /\ Complete(x.man) /\ Owns(x.up, x.man)
    BY <1>4, <2>1 DEF Fits
  <2>3. cs # <<>>
    BY <1>1, <1>2, <2>1, <2>2 DEF Shaped, Complete
  <2>4. /\ cs[1].key = <<x.up, 0>> /\ l.key[2] + l.size = Size[x.up] /\ Linked(cs)
    BY <1>1, <2>2, <2>3 DEF Shaped, Complete
  <2>5. l.key[1] = x.up
    <3>1. Len(cs) \in 1..Len(cs)
      BY <1>2, <2>3
    <3>2. QED BY <1>1, <2>2, <3>1 DEF Owns
  <2>6. FirstByte(x.up) = <<x.up, 0>> /\ LastByte(x.up) = <<x.up, Size[x.up] - 1>>
    BY <2>1 DEF FirstByte, LastByte
  <2>7. l.key[2] + l.size - 1 = Size[x.up] - 1
    BY <1>3, <2>3, <2>4, Kinds, PartsDiffer
  <2>8. QED BY <1>1, <1>2, <2>3, <2>4, <2>5, <2>6, <2>7
<1>5. CASE x.up \in Final
  <2>1. Gathered(x.man, Len(PartList)) /\ Len(PartList) \in Nat \ {0}
    BY <1>5, Lists DEF Fits
  <2>2. PICK v : v = PartList[Len(PartList)]
    OBVIOUS
  <2>3. cs # <<>>
    BY <1>1, <2>1 DEF Gathered
  <2>4. /\ cs[1].key = <<PartList[1], 0>> /\ l.key[1] = v /\ l.key[2] + l.size = Size[v] /\ Linked(cs)
    BY <1>1, <2>1, <2>2 DEF Gathered
  <2>5. FirstByte(x.up) = <<PartList[1], 0>> /\ LastByte(x.up) = <<v, Size[v] - 1>>
    BY <1>5, <2>2 DEF FirstByte, LastByte
  <2>6. l.key[2] + l.size - 1 = Size[v] - 1
    BY <1>3, <2>3, <2>4, Kinds, PartsDiffer
  <2>7. QED BY <1>1, <1>2, <2>3, <2>4, <2>5, <2>6
<1>6. QED BY <1>2, <1>4, <1>5

(* What is copied is the chunk that the manifest names.                      *)
LEMMA ExactCopy ==
    ASSUME Base, Trusted, LockInv, NEW r \in Request, ComposeChunk(r)
    PROVE  /\ stored[Chunk(r).key] = Chunk(r).size /\ Chunk(r) \in ChunkRecord
           /\ Chunk(r) = req[r].man.chunks[req[r].k] /\ req[r].k \in 1..Len(req[r].man.chunks)
<1>1. /\ req[r].pc = "compose" /\ req[r].k <= Len(req[r].man.chunks) /\ Copyable(Chunk(r))
      /\ Chunk(r) \in ChunkRecord
  BY ComposeEffect DEF Base
<1>2. Chunk(r) = req[r].man.chunks[req[r].k] /\ req[r].k \in 1..Len(req[r].man.chunks)
  <2>1. req[r].k \in Nat \ {0} /\ Len(req[r].man.chunks) \in Nat
    BY ReqFields DEF Base
  <2>2. QED BY <1>1, <2>1 DEF Chunk
<1>3. CASE scenario.store = "local"
  BY <1>1, <1>2, <1>3 DEF Copyable
<1>4. CASE spoiled = {}
  <2>1. Busy(r) /\ Carries(req[r]) /\ UpToDate(req[r])
    BY <1>1, <1>4, BaseFacts, LockFacts DEF Busy
  <2>2. SizesAgree(req[r].man)
    BY <1>1, <1>4, <2>1, LockFacts, Kinds DEF Carries, Finalizing, UpToDate
  <2>3. stored[Chunk(r).key] \in {0, Chunk(r).size}
    BY <1>2, <1>4, <2>2 DEF SizesAgree
  <2>4. QED BY <1>1, <1>2, <2>3 DEF Copyable
<1>5. QED BY <1>3, <1>4 DEF Trusted

(* The next chunk goes where the last one ends.                              *)
LEMMA ComposeOrdered ==
    ASSUME Base, StoreFits, Trusted, LockInv, NEW r \in Request, ComposeChunk(r),
           ComposedSoFar(req[r]), NEW x, x.up = req[r].up, x.man = req[r].man, x.k = req[r].k + 1,
           x.out = req[r].out \o ChunkBytes(Chunk(r).key, stored[Chunk(r).key])
    PROVE  ComposedSoFar(x)
<1>1. PICK c, a, k, u, cs : c = Chunk(r) /\ a = req[r].out /\ k = req[r].k /\ u = req[r].up
                            /\ cs = req[r].man.chunks
  OBVIOUS
<1>2. /\ stored[c.key] = c.size /\ c \in ChunkRecord /\ c = cs[k] /\ k \in 1..Len(cs)
  BY <1>1, ExactCopy
<1>3. req[r] \in RequestState /\ Carries(req[r]) /\ Fits(req[r]) /\ req[r].pc = "compose"
  BY BaseFacts, ReqFields, ComposeEffect DEF Base
<1>4. /\ cs \in Seq(ChunkRecord) /\ cs # <<>> /\ cs[1].key = FirstByte(u) /\ Linked(cs)
  BY <1>1, <1>3, ChunksCover
<1>5. c.key \in ChunkKey /\ c.size \in Nat \ {0} /\ c.key[2] + c.size <= Size[c.key[1]]
  BY <1>2 DEF ChunkRecord, StoreFits
<1>6. PICK b : b = ChunkBytes(c.key, c.size)
  OBVIOUS
<1>7. /\ b \in Seq(ChunkKey) /\ Len(b) = c.size
      /\ b[1] = c.key /\ b[c.size] = <<c.key[1], c.key[2] + c.size - 1>>
      /\ \A i \in 1..(c.size - 1) : Follows(b[i], b[i + 1])
  BY <1>5, <1>6, BytesFollow
<1>8. b # <<>>
  BY <1>5, <1>7
<1>9. k \in Nat /\ (k = 1 \/ k > 1)
  BY <1>2, <1>4
<1>10. Ordered(u, a \o b) /\ (a \o b)[Len(a \o b)] = b[Len(b)]
  <2>1. CASE k = 1
    <3>1. a = <<>> /\ <<>> \in Seq(ChunkKey)
      BY <1>1, <2>1 DEF ComposedSoFar
    <3>2. b[1] = FirstByte(u)
      BY <1>2, <1>4, <1>7, <2>1
    <3>3. QED BY <1>7, <1>8, <3>1, <3>2, OrderedConcat
  <2>2. CASE k > 1
    <3>1. PICK d : d = cs[k - 1]
      OBVIOUS
    <3>2. Ordered(u, a) /\ a[Len(a)] = <<d.key[1], d.key[2] + d.size - 1>>
      BY <1>1, <2>2, <3>1 DEF ComposedSoFar
    <3>3. a \in Seq(ChunkKey)
      BY <3>2 DEF Ordered
    <3>4. k - 1 \in 1..(Len(cs) - 1) /\ k - 1 \in 1..Len(cs) /\ (k - 1) + 1 = k
      BY <1>2, <1>4, <2>2
    <3>5. NextTo(d, c)
      BY <1>2, <1>4, <3>1, <3>4 DEF Linked
    <3>6. d.key[2] \in Nat /\ d.size \in Nat
      <4>1. d \in ChunkRecord
        BY <1>4, <3>1, <3>4
      <4>2. d.key \in ChunkKey /\ d.size \in Nat
        BY <4>1 DEF ChunkRecord
      <4>3. QED BY <4>2, Keys
    <3>7. (d.key[2] + d.size - 1) + 1 = d.key[2] + d.size
      BY <3>6
    <3>8. Follows(a[Len(a)], b[1])
      <4>1. PICK e : e = a[Len(a)]
        OBVIOUS
      <4>2. e[1] = d.key[1] /\ e[2] + 1 = d.key[2] + d.size
        BY <3>2, <3>7, <4>1
      <4>3. Follows(e, c.key)
        BY <3>5, <4>2 DEF Follows, NextTo
      <4>4. QED BY <1>7, <4>1, <4>3
    <3>9. a # <<>>
      BY <3>2 DEF Ordered
    <3>10. QED BY <1>7, <1>8, <3>2, <3>3, <3>8, <3>9, OrderedConcat
  <2>3. QED BY <1>9, <2>1, <2>2
<1>11. x.out = a \o b /\ x.k > 1 /\ x.k - 1 = k /\ x.k # 1
  <2>1. x.out = a \o b
    BY <1>1, <1>2, <1>6
  <2>2. x.k = k + 1
    BY <1>1
  <2>3. QED BY <1>9, <2>1, <2>2
<1>12. b[Len(b)] = <<c.key[1], c.key[2] + c.size - 1>>
  BY <1>7
<1>13. QED BY <1>1, <1>2, <1>10, <1>11, <1>12 DEF ComposedSoFar

LEMMA ObjectMoves ==
    ASSUME Base, ObjectInv, NEW r \in Request, NEW x, Moves(r, x), object' = object, StoreFits',
           \A u \in jobs' : u \in jobs \/ (u \in Plain \cup Final /\ object[u] # <<>>),
           x.pc = "compose" => ComposedSoFar(x), x.pc = "enqueue" => object[x.up] # <<>>
    PROVE  ObjectInv'
<1>1. /\ req'[r] = x /\ \A q \in Request : q # r => req'[q] = req[q]
  BY Moved DEF Base
<1>2. (\A u \in Upload : object[u] # <<>> => InOrder(u, object[u]))'
  BY DEF ObjectInv
<1>3. (\A u \in jobs : u \in Plain \cup Final /\ object[u] # <<>>)'
  BY DEF ObjectInv
<1>4. ASSUME NEW q \in Request
      PROVE  /\ req'[q].pc = "compose" => ComposedSoFar(req'[q])
             /\ req'[q].pc = "enqueue" => object'[req'[q].up] # <<>>
  BY <1>1 DEF ObjectInv
<1>5. (\A q \in Request : /\ req[q].pc = "compose" => ComposedSoFar(req[q])
                          /\ req[q].pc = "enqueue" => object[req[q].up] # <<>>)'
  BY <1>4 DEF ComposedSoFar
<1>6. QED BY <1>2, <1>3, <1>5 DEF ObjectInv

LEMMA StoreStays ==
    ASSUME StoreFits, stored' = stored
    PROVE  StoreFits'
BY DEF StoreFits

LEMMA StoreFades ==
    ASSUME Base, StoreFits, NEW c \in ChunkKey, stored' = [stored EXCEPT ![c] = 0]
    PROVE  StoreFits'
<1>1. ASSUME NEW d \in ChunkKey PROVE d[2] + stored'[d] <= Size[d[1]]
  <2>1. d[2] \in Nat /\ d[2] < Size[d[1]] /\ Size[d[1]] \in Nat
    BY Keys, Kinds
  <2>2. stored'[d] = IF d = c THEN 0 ELSE stored[d]
    BY DEF Base, TypeOK
  <2>3. QED BY <2>1, <2>2 DEF StoreFits
<1>2. QED BY <1>1 DEF StoreFits

LEMMA ObjectCreate ==
    ASSUME Base, ObjectInv, NEW u \in Single, Create(u)
    PROVE  ObjectInv'
<1>1. UNCHANGED <<stored, object, jobs, req>>
  BY DEF Create
<1>2. QED BY <1>1 DEF ObjectInv, StoreFits, ComposedSoFar

(* A request that begins has composed nothing yet.                           *)
LEMMA ObjectBegins ==
    ASSUME Base, ObjectInv, NEW r \in Request, NEW p, NEW u, NEW pc \in {"put", "compose", "delete"},
           NEW n, NEW l, Begins(r, p, u, pc, n, l), UNCHANGED <<stored, object, jobs>>
    PROVE  ObjectInv'
<1>1. PICK x : Moves(r, x) /\ x.pc = pc /\ x.k = 1 /\ x.out = <<>>
  BY DEF Begins
<1>2. ComposedSoFar(x)
  BY <1>1 DEF ComposedSoFar
<1>3. StoreFits'
  BY StoreStays DEF ObjectInv
<1>4. QED BY <1>1, <1>2, <1>3, ObjectMoves

LEMMA ObjectStarts ==
    ASSUME Base, ObjectInv, NEW r \in Request, NEW p \in scenario.replicas,
           \/ \E u \in Plain : StartResult(r, p, u)
           \/ \E u \in Single : StartDelete(r, p, u)
           \/ \E c \in ChunkKey, size \in scenario.chunks : StartPatch(r, p, c[1], c[2], size)
           \/ \E f \in Final : StartFinal(r, p, f)
    PROVE  ObjectInv'
<1>1. ASSUME NEW u \in Plain, StartResult(r, p, u) PROVE ObjectInv'
  <2>1. Begins(r, p, u, "compose", 0, 0)
    BY <1>1, OtherBegins, Kinds DEF Base, StartResult, Pcs
  <2>2. QED BY <1>1, <2>1, ObjectBegins DEF StartResult
<1>2. ASSUME NEW u \in Single, StartDelete(r, p, u) PROVE ObjectInv'
  <2>1. Begins(r, p, u, "delete", 0, 0)
    BY <1>2, OtherBegins, Kinds DEF Base, StartDelete, Pcs
  <2>2. QED BY <1>2, <2>1, ObjectBegins DEF StartDelete
<1>3. ASSUME NEW c \in ChunkKey, NEW size \in scenario.chunks, StartPatch(r, p, c[1], c[2], size)
      PROVE  ObjectInv'
  <2>1. Begins(r, p, c[1], "put", c[2], size)
    BY <1>3, PatchBegins DEF Base
  <2>2. QED BY <1>3, <2>1, ObjectBegins DEF StartPatch
<1>4. ASSUME NEW f \in Final, StartFinal(r, p, f) PROVE ObjectInv'
  <2>1. BeginsFinal(r, p, f)
    BY <1>4, FinalBegins DEF Base
  <2>2. PICK x : Moves(r, x) /\ x.pc = "load"
    BY <2>1 DEF BeginsFinal
  <2>3. UNCHANGED <<stored, object, jobs>>
    BY <1>4 DEF StartFinal
  <2>4. StoreFits'
    BY <2>3, StoreStays DEF ObjectInv
  <2>5. QED BY <2>2, <2>3, <2>4, ObjectMoves
<1>5. QED BY <1>1, <1>2, <1>3, <1>4

LEMMA PutFits ==
    ASSUME Base, StoreFits, NEW r \in Request, req[r].pc = "put",
           stored' = [stored EXCEPT ![<<req[r].up, req[r].offset>>] = req[r].size]
    PROVE  StoreFits'
<1>1. PICK c, u, n : c = <<req[r].up, req[r].offset>> /\ u = req[r].up /\ n = req[r].offset
  OBVIOUS
<1>2. n + req[r].size <= Size[u]
  BY <1>1, BaseFacts DEF Fits, Shaped
<1>3. c \in ChunkKey
  BY <1>1, BaseFacts DEF Carries
<1>4. ASSUME NEW d \in ChunkKey PROVE d[2] + stored'[d] <= Size[d[1]]
  <2>1. CASE d = c
    <3>1. d[1] = u /\ d[2] = n /\ stored'[d] = req[r].size
      BY <1>1, <1>3, <2>1 DEF Base, TypeOK
    <3>2. QED BY <1>2, <3>1
  <2>2. CASE d # c
    BY <1>1, <2>2 DEF Base, TypeOK, StoreFits
  <2>3. QED BY <2>1, <2>2
<1>5. QED BY <1>4 DEF StoreFits

LEMMA ObjectPut ==
    ASSUME Base, ObjectInv, NEW r \in Request, PutChunk(r)
    PROVE  ObjectInv'
<1>1. PICK c : c = <<req[r].up, req[r].offset>>
  OBVIOUS
<1>2. /\ req[r].pc = "put" /\ c \in ChunkKey /\ Goes(r, "append", req[r].man, req[r].k, req[r].out)
      /\ stored' = [stored EXCEPT ![c] = req[r].size] /\ UNCHANGED <<object, jobs>>
  BY <1>1, PutEffect DEF Base
<1>3. PICK x : Moves(r, x) /\ x.pc = "append"
  BY <1>2 DEF Goes
<1>4. StoreFits'
  BY <1>1, <1>2, PutFits DEF ObjectInv
<1>5. QED BY <1>2, <1>3, <1>4, ObjectMoves

LEMMA ObjectAppend ==
    ASSUME Base, ObjectInv, NEW r \in Request, SaveAppend(r)
    PROVE  ObjectInv'
<1>1. PICK m : Goes(r, "compose", m, req[r].k, req[r].out) \/ Over(r)
  BY AppendEffect DEF Base
<1>2. req[r].pc = "append" /\ UNCHANGED <<stored, object, jobs>>
  BY DEF SaveAppend
<1>3. req[r].k = 1 /\ req[r].out = <<>>
  BY <1>2, BaseFacts DEF Carries
<1>4. PICK x : Moves(r, x) /\ ((x.pc = "compose" /\ x.k = 1 /\ x.out = <<>>) \/ x.pc = "idle")
  BY <1>1, <1>3, IdleFacts DEF Goes, Over
<1>5. x.pc = "compose" => ComposedSoFar(x)
  BY <1>4 DEF ComposedSoFar
<1>6. StoreFits'
  BY <1>2, StoreStays DEF ObjectInv
<1>7. QED BY <1>2, <1>4, <1>5, <1>6, ObjectMoves

LEMMA ObjectCompose ==
    ASSUME Base, Trusted, LockInv, ObjectInv, NEW r \in Request, ComposeChunk(r)
    PROVE  ObjectInv'
<1>1. PICK b : b = req[r].out \o ChunkBytes(Chunk(r).key, stored[Chunk(r).key])
  OBVIOUS
<1>2. /\ req[r].pc = "compose" /\ Goes(r, "compose", req[r].man, req[r].k + 1, b)
      /\ UNCHANGED <<stored, object, jobs>>
  BY <1>1, ComposeEffect DEF Base
<1>3. PICK x : /\ Moves(r, x) /\ x.pc = "compose" /\ x.up = req[r].up /\ x.man = req[r].man
               /\ x.k = req[r].k + 1 /\ x.out = b
  BY <1>2 DEF Goes, Same
<1>4. StoreFits /\ ComposedSoFar(req[r])
  BY <1>2 DEF ObjectInv
<1>5. ComposedSoFar(x)
  BY <1>1, <1>3, <1>4, ComposeOrdered
<1>6. StoreFits'
  BY <1>2, <1>4, StoreStays
<1>7. QED BY <1>2, <1>3, <1>5, <1>6, ObjectMoves

(* Every chunk has been copied: the object is the file.                      *)
LEMMA ComposedWhole ==
    ASSUME Base, NEW r \in Request, FinishCompose(r), ComposedSoFar(req[r])
    PROVE  req[r].out # <<>> /\ InOrder(req[r].up, req[r].out)
<1>1. PICK cs, k, u : cs = req[r].man.chunks /\ k = req[r].k /\ u = req[r].up
  OBVIOUS
<1>2. /\ req[r].pc = "compose" /\ k > Len(cs) /\ req[r] \in RequestState /\ k \in Nat \ {0}
      /\ Carries(req[r]) /\ Fits(req[r])
  BY <1>1, FinishEffect, ReqFields, BaseFacts DEF Base
<1>3. PICK l : l = cs[Len(cs)]
  OBVIOUS
<1>4. /\ cs \in Seq(ChunkRecord) /\ cs # <<>>
      /\ <<l.key[1], l.key[2] + l.size - 1>> = LastByte(u)
  BY <1>1, <1>2, <1>3, ChunksCover
<1>5. k <= Len(cs) + 1
  BY <1>1, <1>2 DEF Carries
<1>6. k - 1 = Len(cs) /\ k > 1
  BY <1>2, <1>4, <1>5
<1>7. /\ Ordered(u, req[r].out)
      /\ req[r].out[Len(req[r].out)] = <<l.key[1], l.key[2] + l.size - 1>>
  BY <1>1, <1>3, <1>6 DEF ComposedSoFar
<1>8. QED BY <1>1, <1>4, <1>7 DEF InOrder, Ordered

LEMMA ObjectFinish ==
    ASSUME Base, ObjectInv, NEW r \in Request, FinishCompose(r)
    PROVE  ObjectInv'
<1>1. PICK u, s : u = req[r].up /\ s = req[r].out
  OBVIOUS
<1>2. /\ req[r].pc = "compose" /\ u \in Upload /\ Goes(r, "enqueue", req[r].man, req[r].k, <<>>)
      /\ object' = [object EXCEPT ![u] = s] /\ UNCHANGED <<stored, jobs>>
  BY <1>1, FinishEffect DEF Base
<1>3. s # <<>> /\ InOrder(u, s)
  <2>1. ComposedSoFar(req[r])
    BY <1>2 DEF ObjectInv
  <2>2. QED BY <1>1, <2>1, ComposedWhole
<1>4. object'[u] = s /\ \A v \in Upload : v # u => object'[v] = object[v]
  BY <1>2 DEF Base, TypeOK
<1>5. (\A v \in Upload : object[v] # <<>> => InOrder(v, object[v]))'
  <2>1. ASSUME NEW v \in Upload, object'[v] # <<>> PROVE InOrder(v, object'[v])
    <3>1. CASE v = u
      BY <1>3, <1>4, <3>1
    <3>2. CASE v # u
      BY <1>4, <2>1, <3>2 DEF ObjectInv
    <3>3. QED BY <3>1, <3>2
  <2>2. QED BY <2>1 DEF InOrder, Ordered
<1>6. \A v \in Upload : object[v] # <<>> => object'[v] # <<>>
  BY <1>3, <1>4
<1>7. (\A v \in jobs : v \in Plain \cup Final /\ object[v] # <<>>)'
  BY <1>2, <1>6, BaseFacts DEF ObjectInv
<1>8. PICK x : Moves(r, x) /\ x.pc = "enqueue" /\ x.up = u
  BY <1>1, <1>2 DEF Goes, Same
<1>9. /\ req'[r] = x /\ \A q \in Request : q # r => req'[q] = req[q]
  BY <1>8, Moved DEF Base
<1>10. ASSUME NEW q \in Request
       PROVE  /\ req'[q].pc = "compose" => ComposedSoFar(req'[q])
              /\ req'[q].pc = "enqueue" => object'[req'[q].up] # <<>>
  <2>1. CASE q = r
    BY <1>3, <1>4, <1>8, <1>9, <2>1
  <2>2. CASE q # r
    <3>1. req[q].pc = "enqueue" => req[q].up \in Upload
      BY BaseFacts DEF Carries
    <3>2. QED BY <1>6, <1>9, <2>2, <3>1 DEF ObjectInv
  <2>3. QED BY <2>1, <2>2
<1>11. (\A q \in Request : /\ req[q].pc = "compose" => ComposedSoFar(req[q])
                           /\ req[q].pc = "enqueue" => object[req[q].up] # <<>>)'
  BY <1>10 DEF ComposedSoFar
<1>12. StoreFits'
  BY <1>2, StoreStays DEF ObjectInv
<1>13. QED BY <1>5, <1>7, <1>11, <1>12 DEF ObjectInv

(* A step after the compose that changes neither chunks, objects nor jobs.   *)
LEMMA ObjectQuiet ==
    ASSUME Base, ObjectInv, NEW r \in Request, NEW x, Moves(r, x), x.pc \notin {"compose", "enqueue"},
           UNCHANGED <<stored, object, jobs>>
    PROVE  ObjectInv'
<1>1. StoreFits'
  BY StoreStays DEF ObjectInv
<1>2. QED BY <1>1, ObjectMoves

LEMMA ObjectEnqueue ==
    ASSUME Base, ObjectInv, NEW r \in Request, EnqueueStored(r)
    PROVE  ObjectInv'
<1>1. /\ req[r].pc = "enqueue" /\ Goes(r, "commit", req[r].man, req[r].k, req[r].out)
      /\ jobs' = jobs \cup {req[r].up} /\ UNCHANGED <<stored, object>>
  BY EnqueueEffect DEF Base
<1>2. PICK x : Moves(r, x) /\ x.pc = "commit"
  BY <1>1 DEF Goes
<1>3. req[r].up \in Plain \cup Final /\ object[req[r].up] # <<>>
  BY <1>1, BaseFacts DEF Carries, Finalizing, ObjectInv
<1>4. StoreFits'
  BY <1>1, StoreStays DEF ObjectInv
<1>5. QED BY <1>1, <1>2, <1>3, <1>4, ObjectMoves

LEMMA ObjectSaveFinal ==
    ASSUME Base, ObjectInv, NEW r \in Request, SaveFinal(r)
    PROVE  ObjectInv'
<1>1. /\ req[r].pc = "load" /\ Goes(r, "compose", req[r].man, 1, req[r].out)
      /\ UNCHANGED <<stored, object, jobs>>
  BY SaveFinalEffect DEF Base
<1>2. req[r].out = <<>>
  BY <1>1, BaseFacts DEF Carries
<1>3. PICK x : Moves(r, x) /\ x.pc = "compose" /\ x.k = 1 /\ x.out = <<>>
  BY <1>1, <1>2 DEF Goes
<1>4. ComposedSoFar(x)
  BY <1>3 DEF ComposedSoFar
<1>5. StoreFits'
  BY <1>1, StoreStays DEF ObjectInv
<1>6. QED BY <1>1, <1>3, <1>4, <1>5, ObjectMoves

LEMMA ObjectCleanup ==
    ASSUME Base, ObjectInv, NEW r \in Request, NEW c \in ChunkKey, CleanupChunk(r, c)
    PROVE  ObjectInv'
<1>1. /\ stored' = [stored EXCEPT ![c] = 0] /\ UNCHANGED <<object, jobs, req>>
  BY CleanupEffect DEF Base
<1>2. StoreFits'
  BY <1>1, StoreFades DEF ObjectInv
<1>3. QED BY <1>1, <1>2 DEF ObjectInv, ComposedSoFar

LEMMA ObjectDeleteChunk ==
    ASSUME Base, ObjectInv, NEW r \in Request, DeleteChunk(r)
    PROVE  ObjectInv'
<1>1. PICK c : c = Chunk(r).key
  OBVIOUS
<1>2. /\ c \in ChunkKey /\ stored' = [stored EXCEPT ![c] = 0] /\ UNCHANGED <<object, jobs>>
      /\ Goes(r, "delete", req[r].man, req[r].k + 1, req[r].out)
  BY <1>1, DeleteChunkEffect DEF Base
<1>3. PICK x : Moves(r, x) /\ x.pc = "delete"
  BY <1>2 DEF Goes
<1>4. StoreFits'
  BY <1>2, StoreFades DEF ObjectInv
<1>5. QED BY <1>2, <1>3, <1>4, ObjectMoves

(* The steps that only save manifests or load them, and those that end.      *)
LEMMA ObjectSaves ==
    ASSUME Base, ObjectInv, NEW r \in Request,
           \/ Commit(r) \/ Compact(r) \/ LoadPart(r) \/ DropPart(r) \/ DeleteState(r)
           \/ ComposeFails(r) \/ Drop(r)
    PROVE  ObjectInv'
<1>0. TypeOK
  BY DEF Base
<1>1. CASE Commit(r)
  <2>1. PICK m : Goes(r, "cleanup", m, 1, req[r].out) /\ UNCHANGED <<stored, object, jobs>>
    BY <1>0, <1>1, CommitEffect
  <2>2. QED BY <2>1, ObjectQuiet DEF Goes
<1>2. CASE Compact(r)
  <2>1. PICK m : /\ Goes(r, "parts", m, req[r].k, req[r].out) \/ Over(r)
                 /\ UNCHANGED <<stored, object, jobs>>
    BY <1>0, <1>2, CompactEffect
  <2>2. QED BY <2>1, IdleFacts, ObjectQuiet DEF Goes, Over
<1>3. CASE LoadPart(r)
  <2>1. PICK m : /\ Goes(r, "load", m, req[r].k + 1, req[r].out) \/ Over(r)
                 /\ UNCHANGED <<stored, object, jobs>>
    BY <1>0, <1>3, LoadEffect
  <2>2. QED BY <2>1, IdleFacts, ObjectQuiet DEF Goes, Over
<1>4. CASE DropPart(r)
  <2>1. /\ Goes(r, "parts", req[r].man, req[r].k + 1, req[r].out) \/ Over(r)
        /\ UNCHANGED <<stored, object, jobs>>
    BY <1>0, <1>4, DropPartEffect
  <2>2. QED BY <2>1, IdleFacts, ObjectQuiet DEF Goes, Over
<1>5. CASE DeleteState(r) \/ ComposeFails(r) \/ Drop(r)
  <2>1. Over(r) /\ UNCHANGED <<stored, object, jobs>>
    BY <1>0, <1>5, DeleteStateEffect, QuitEffect
  <2>2. QED BY <2>1, IdleFacts, ObjectQuiet DEF Over
<1>6. QED BY <1>1, <1>2, <1>3, <1>4, <1>5

(* Requests that are dropped, and what the store still does for them.        *)
LEMMA ObjectAbandon ==
    ASSUME Base, ObjectInv, NEW r \in Request, Abandon(r)
    PROVE  ObjectInv'
<1>1. /\ req[r].pc \in {"put", "append", "commit", "delete"} /\ UNCHANGED <<stored, object, jobs>>
      /\ \E x : Moves(r, x) /\ x.pc = req[r].pc
  BY AbandonEffect DEF Base
<1>2. QED BY <1>1, ObjectQuiet

LEMMA ObjectLand ==
    ASSUME Base, ObjectInv, NEW r \in Request, Land(r) \/ Tear(r)
    PROVE  ObjectInv'
<1>1. Moves(r, Idle) /\ Idle.pc = "idle" /\ UNCHANGED <<object, jobs>> /\ TypeOK /\ StoreFits
  BY LandEffect, TearEffect, IdleFacts DEF Base, Over, ObjectInv
<1>2. StoreFits'
  <2>1. CASE UNCHANGED stored
    BY <1>1, <2>1, StoreStays
  <2>2. CASE req[r].pc = "put" /\ stored' = [stored EXCEPT ![<<req[r].up, req[r].offset>>] = req[r].size]
    BY <1>1, <2>2, PutFits
  <2>3. CASE \E c \in ChunkKey : stored' = [stored EXCEPT ![c] = 0]
    BY <1>1, <2>3, StoreFades
  <2>4. CASE DeleteState(r)
    BY <1>1, <2>1, <2>4, DeleteStateEffect
  <2>5. QED BY <1>1, <2>1, <2>2, <2>3, <2>4, LandEffect, TearEffect
<1>3. QED BY <1>1, <1>2, ObjectMoves

LEMMA ObjectStep ==
    ASSUME Base, Trusted, LockInv, ObjectInv, [Next]_vars
    PROVE  ObjectInv'
<1>1. CASE \E u \in Plain \cup Partial : Create(u)
  BY <1>1, ObjectCreate DEF Single
<1>2. CASE \E r \in Request, p \in scenario.replicas :
             \/ \E u \in Plain : StartResult(r, p, u)
             \/ \E u \in Plain \cup Partial : StartDelete(r, p, u)
             \/ \E key \in ChunkKey, size \in scenario.chunks : StartPatch(r, p, key[1], key[2], size)
             \/ \E f \in Final : StartFinal(r, p, f)
  BY <1>2, ObjectStarts DEF Single
<1>3. CASE \E r \in Request : Step(r) \/ Interrupted(r)
  <2>1. PICK r \in Request : Step(r) \/ Interrupted(r)
    BY <1>3
  <2>2. CASE PutChunk(r) \/ SaveAppend(r)
    BY <2>2, ObjectPut, ObjectAppend
  <2>3. CASE ComposeChunk(r) \/ FinishCompose(r) \/ EnqueueStored(r)
    BY <2>3, ObjectCompose, ObjectFinish, ObjectEnqueue
  <2>4. CASE (\E c \in ChunkKey : CleanupChunk(r, c)) \/ DeleteChunk(r)
    BY <2>4, ObjectCleanup, ObjectDeleteChunk
  <2>5. CASE SaveFinal(r)
    BY <2>5, ObjectSaveFinal
  <2>6. CASE \/ Commit(r) \/ Compact(r) \/ LoadPart(r) \/ DropPart(r) \/ DeleteState(r)
             \/ ComposeFails(r) \/ Drop(r)
    BY <2>6, ObjectSaves
  <2>7. CASE Abandon(r) \/ Land(r) \/ Tear(r)
    BY <2>7, ObjectAbandon, ObjectLand
  <2>8. QED BY <2>1, <2>2, <2>3, <2>4, <2>5, <2>6, <2>7 DEF Step, Interrupted
<1>4. CASE UNCHANGED vars
  BY <1>4 DEF vars, ObjectInv, StoreFits, ComposedSoFar
<1>5. QED BY <1>1, <1>2, <1>3, <1>4, Zenon DEF Next

LEMMA ObjectInit ==
    ASSUME Init
    PROVE  ObjectInv
<1>1. /\ stored = [c \in ChunkKey |-> 0] /\ object = [u \in Upload |-> <<>>] /\ jobs = {}
      /\ req = [r \in Request |-> Idle]
  BY DEF Init
<1>2. \A c \in ChunkKey : c[2] + stored[c] <= Size[c[1]]
  <2>1. ASSUME NEW c \in ChunkKey PROVE c[2] + stored[c] <= Size[c[1]]
    <3>1. c[2] \in Nat /\ c[2] < Size[c[1]] /\ Size[c[1]] \in Nat
      BY Keys, Kinds
    <3>2. QED BY <1>1, <3>1
  <2>2. QED BY <2>1
<1>3. \A r \in Request : req[r].pc = "idle"
  BY <1>1, IdleFacts
<1>4. QED BY <1>1, <1>2, <1>3 DEF ObjectInv, StoreFits

(* Every object is its upload's file, complete and in order, and every job   *)
(* has one, wherever the copy can be trusted: on the local store always, on  *)
(* S3 as long as the locks protect the uploads.                              *)
THEOREM ObjectInvHolds == Spec => [](Trusted => ObjectInv)
<1> DEFINE Inv == Base /\ LockInv /\ (Trusted => ObjectInv)
<1>1. Init => Inv
  BY BaseInit, LockInit, ObjectInit
<1>2. Inv /\ [Next]_vars => Inv'
  <2>1. SUFFICES ASSUME Inv, [Next]_vars PROVE Inv'
    OBVIOUS
  <2>2. Trusted' => Trusted
    BY <2>1, ScenarioFixed, SpoiledStep DEF Trusted
  <2>3. Base'
    BY <2>1, BaseStep
  <2>4. LockInv'
    BY <2>1, LockStep
  <2>5. Trusted' => ObjectInv'
    BY <2>1, <2>2, ObjectStep
  <2>6. QED BY <2>3, <2>4, <2>5
<1>3. Inv => (Trusted => ObjectInv)
  OBVIOUS
<1>4. QED BY <1>1, <1>2, <1>3, PTL DEF Spec

(* The input of a queued job is the client's file, whole and in order: the   *)
(* bytes of an object follow each other from the first to the last, and only *)
(* one sequence of bytes does.                                               *)
THEOREM ObjectIsWholeHolds == Spec => [](Trusted => ObjectIsWhole)
<1>1. ObjectInv => ObjectIsWhole
  <2>1. SUFFICES ASSUME ObjectInv, NEW u \in jobs PROVE object[u] = FileBytes(u)
    BY DEF ObjectIsWhole
  <2>2. u \in Plain \cup Final /\ u \in Upload /\ object[u] # <<>>
    BY <2>1, Kinds DEF ObjectInv
  <2>3. InOrder(u, object[u])
    BY <2>1, <2>2 DEF ObjectInv
  <2>4. InOrder(u, FileBytes(u))
    BY <2>2, FileInOrder
  <2>5. QED BY <2>2, <2>3, <2>4, SameFile
<1>2. (Trusted => ObjectInv) => (Trusted => ObjectIsWhole)
  BY <1>1
<1>3. QED BY <1>2, ObjectInvHolds, PTL
=============================================================================
