--------------------------- MODULE SatelliteTracks ---------------------------
(***************************************************************************)
(* Satellite tracks for the annotations of a solved image: annotations_for   *)
(* in src/src/api.rs and SatelliteEngine in src/src/satellites.rs.  Requests *)
(* look at jobs of SolvePlan while the image may expire and the orbital      *)
(* elements are refreshed; they share two locks and a small cache of         *)
(* predictions.  One request makes one prediction.                           *)
(***************************************************************************)
EXTENDS SolvePlan

CONSTANTS
    Viewer,         \* requests for annotations with satellite tracks
    Nobody,         \* no request holds the lock
    MaxCached,      \* MAX_CACHED_PREDICTIONS
    MaxElements     \* bound: versions of the orbital elements

ASSUME SatelliteTracksAssumptions ==
    MaxCached \in Nat /\ MaxElements \in Nat \ {0} /\ Nobody \notin Viewer

VARIABLES
    retained,       \* the uploaded image is still available
    elements,       \* fingerprint of the current orbital elements
    resolution,     \* holder of resolution_lock
    prediction,     \* holder of prediction_lock
    cache,          \* prediction_cache: least recently used first
    view            \* Viewer -> its progress

viewVars == <<retained, elements, resolution, prediction, cache, view>>
tracksVars == <<planVars, viewVars>>

(* pixels: the request has the image's bytes; error: why there is no pixel   *)
(* evidence.                                                                 *)
NotAsked == [pc |-> "idle", job |-> 1, pixels |-> FALSE, error |-> Missing,
             fingerprint |-> 0, answer |-> Missing]

InitTracks ==
    /\ PlanInit
    /\ retained = TRUE
    /\ elements = 1
    /\ resolution = Nobody /\ prediction = Nobody
    /\ cache = <<>>
    /\ view = [v \in Viewer |-> NotAsked]

-----------------------------------------------------------------------------
(* Steps of the world.                                                       *)

(* upload_retention_seconds have passed.                                     *)
ImageExpires ==
    /\ case.watched /\ retained
    /\ retained' = FALSE
    /\ UNCHANGED <<planVars, elements, resolution, prediction, cache, view>>

(* The library's source of elements has newer ones.                          *)
RefreshElements ==
    /\ case.watched /\ elements < MaxElements
    /\ elements' = elements + 1
    /\ UNCHANGED <<planVars, retained, resolution, prediction, cache, view>>

-----------------------------------------------------------------------------
(* single_exposure: what a prediction needs to know.                         *)
SingleExposure(o) ==
    /\ HasTime(o) /\ HasExposure(o) /\ o.exposure <= MaxExposure
    /\ (o.lat # Missing /\ o.lon # Missing) # (o.itrf # Missing)

Unavailable(v) == view' = [view EXCEPT ![v] = [NotAsked EXCEPT !.pc = "unavailable"]]

(* annotations_for with satellite_pixel_source, up to the call of catalog_for. *)
Ask(v, j) ==
    /\ case.watched /\ view[v].pc = "idle" /\ job[j].status = "succeeded"
    /\ \E got \in IF retained THEN BOOLEAN ELSE {FALSE} :
         IF ~case.tracks \/ ~SingleExposure(job[j].options) THEN Unavailable(v)
         ELSE view' = [view EXCEPT ![v] = [NotAsked EXCEPT
                !.pc = "lookup", !.job = j, !.pixels = got,
                !.error = CASE got -> Missing [] retained -> "not loaded" [] OTHER -> "expired"]]
    /\ UNCHANGED <<planVars, retained, elements, resolution, prediction, cache>>

(* catalog_for: one lookup at a time.                                        *)
StartLookup(v) ==
    /\ view[v].pc = "lookup" /\ resolution = Nobody
    /\ resolution' = v
    /\ view' = [view EXCEPT ![v].pc = "resolving"]
    /\ UNCHANGED <<planVars, retained, elements, prediction, cache>>

(* SATELLITE_CATALOG_LOOKUP_TIMEOUT passes while the request waits for the   *)
(* lock or for the elements; dropping the lookup releases the lock.          *)
LookupTimesOut(v) ==
    /\ view[v].pc \in {"lookup", "resolving"}
    /\ Unavailable(v)
    /\ resolution' = IF resolution = v THEN Nobody ELSE resolution
    /\ UNCHANGED <<planVars, retained, elements, prediction, cache>>

LookupFails(v) ==
    /\ view[v].pc = "resolving"
    /\ Unavailable(v)
    /\ resolution' = Nobody
    /\ UNCHANGED <<planVars, retained, elements, prediction, cache>>

-----------------------------------------------------------------------------
(* PredictionCache *)

(* Variant for the mutation runs: one entry for both kinds of request.       *)
KeyWithoutPixels(w, fingerprint) == <<w.job, fingerprint>>

PredictionKey(w, fingerprint) == <<w.job, fingerprint, w.pixels>>

Cached(key) == \E i \in DOMAIN cache : cache[i].key = key
Entry(key) == cache[SelectInSeq(cache, LAMBDA e : e.key = key)]

(* get, and the first half of insert: the entry, of which there is at most   *)
(* one for each key, becomes the latest.                                     *)
Renewed(e) == Append(RemoveFirstMatch(cache, LAMBDA x : x.key = e.key), e)

(* insert *)
Inserted(e) ==
    LET all == Renewed(e)
    IN  IF Len(all) > MaxCached THEN Tail(all) ELSE all

Answer(w, result) == [w EXCEPT !.pc = "answered", !.answer = result]

(* A hit is answered at once.                                                *)
LookupHits(v) ==
    LET key == PredictionKey(view[v], elements)
    IN  /\ view[v].pc = "resolving" /\ Cached(key)
        /\ resolution' = Nobody
        /\ cache' = Renewed(Entry(key))
        /\ view' = [view EXCEPT ![v] =
                Answer([view[v] EXCEPT !.fingerprint = elements], Entry(key).result)]
        /\ UNCHANGED <<planVars, retained, elements, prediction>>

(* A miss waits for prediction_lock.                                         *)
LookupMisses(v) ==
    /\ view[v].pc = "resolving" /\ ~Cached(PredictionKey(view[v], elements))
    /\ resolution' = Nobody
    /\ view' = [view EXCEPT ![v].pc = "waiting", ![v].fingerprint = elements]
    /\ UNCHANGED <<planVars, retained, elements, prediction, cache>>

(* Under the lock the cache is asked again.                                  *)
HitUnderLock(v) ==
    LET key == PredictionKey(view[v], view[v].fingerprint)
    IN  /\ view[v].pc = "waiting" /\ prediction = Nobody /\ Cached(key)
        /\ cache' = Renewed(Entry(key))
        /\ view' = [view EXCEPT ![v] = Answer(view[v], Entry(key).result)]
        /\ UNCHANGED <<planVars, retained, elements, resolution, prediction>>

StartPrediction(v) ==
    /\ view[v].pc = "waiting" /\ prediction = Nobody
    /\ ~Cached(PredictionKey(view[v], view[v].fingerprint))
    /\ prediction' = v
    /\ view' = [view EXCEPT ![v].pc = "predicting"]
    /\ UNCHANGED <<planVars, retained, elements, resolution, cache>>

(* What the propagation and the pixel aligner make of it: an image that      *)
(* cannot be decoded for it, or is of another size, only costs the evidence. *)
Results(w) ==
    {[job |-> w.job, fingerprint |-> w.fingerprint, given |-> w.pixels,
      attempted |-> a, error |-> IF a \/ ~w.pixels THEN w.error ELSE "no alignment"] :
        a \in IF w.pixels THEN BOOLEAN ELSE {FALSE}}

Predict(v) ==
    /\ view[v].pc = "predicting"
    /\ \E result \in Results(view[v]) :
         /\ cache' = Inserted([key |-> PredictionKey(view[v], view[v].fingerprint), result |-> result])
         /\ view' = [view EXCEPT ![v] = Answer(view[v], result)]
    /\ prediction' = Nobody
    /\ UNCHANGED <<planVars, retained, elements, resolution>>

(* The propagation fails or its task panics: nothing is cached.              *)
PredictionFails(v) ==
    /\ view[v].pc = "predicting"
    /\ Unavailable(v)
    /\ prediction' = Nobody
    /\ UNCHANGED <<planVars, retained, elements, resolution, cache>>

-----------------------------------------------------------------------------
TracksNext ==
    \/ SubmitImage /\ UNCHANGED viewVars
    \/ SubmitAstrometry /\ UNCHANGED viewVars
    \/ SubmitResolve /\ retained /\ UNCHANGED viewVars
    \/ \E j \in PlanJob : FailEarly(j) /\ UNCHANGED viewVars
    \/ \E j \in PlanJob : SolveHinted(j) /\ UNCHANGED viewVars
    \/ \E j \in PlanJob : StartBlind(j) /\ UNCHANGED viewVars
    \/ \E j \in PlanJob : SearchRange(j) /\ UNCHANGED viewVars
    \/ ImageExpires \/ RefreshElements
    \/ \E v \in Viewer, j \in PlanJob : Ask(v, j)
    \/ \E v \in Viewer :
         \/ StartLookup(v) \/ LookupTimesOut(v) \/ LookupFails(v)
         \/ LookupHits(v) \/ LookupMisses(v)
         \/ HitUnderLock(v) \/ StartPrediction(v) \/ Predict(v) \/ PredictionFails(v)

TracksSpec == InitTracks /\ [][TracksNext]_tracksVars

-----------------------------------------------------------------------------
(* A request is answered with the tracks of its own job, from the elements   *)
(* it looked up, and from a prediction that had the image's pixels exactly   *)
(* if this request has them, even when another request computed it; missing  *)
(* pixel evidence is always explained.                                       *)
AnswerFitsRequest ==
    \A v \in Viewer : view[v].pc = "answered" =>
        LET r == view[v].answer
        IN  /\ <<r.job, r.fingerprint, r.given>>
                 = <<view[v].job, view[v].fingerprint, view[v].pixels>>
            /\ ~r.attempted => r.error # Missing
==============================================================================
