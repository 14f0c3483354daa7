------------------------------ MODULE SolvePlan ------------------------------
(***************************************************************************)
(* What a solve does with an image and with the options a client sent:       *)
(* promotion of image metadata into the options (src/src/solver.rs,          *)
(* prepare_solve_options), their validation (src/src/models.rs), the hinted  *)
(* and blind searches (solve_bytes), and the re-solve that starts from the   *)
(* options of an earlier job (src/src/api.rs, resolve_solve).                *)
(*                                                                         *)
(* Job 1 is the upload, job 2 its re-solve.  The case, fixed at the start,   *)
(* says what the image and the client's options are like; what a search      *)
(* finds is open.  Times are offsets from the true opening of the shutter,   *)
(* and a value that names where it came from stands for the value itself.    *)
(***************************************************************************)
EXTENDS Integers, SequencesExt

CONSTANTS
    HintCases, AstrometryCases, ObservationCases, WatchedCases,
                    \* sets of cases, see Case
    Shutter,        \* the true length of the exposure
    MaxExposure     \* MAX_EXPOSURE_SECONDS

VARIABLES
    case,           \* the case of this behaviour
    job,            \* PlanJob -> its record
    tried,          \* PlanJob -> the searches made for it
    blindIndex      \* the worker's blind index: "none", "opened" or "built"

planVars == <<case, job, tried, blindIndex>>

PlanJob == {1, 2}

Missing == "none"
NoNumber == -99         \* a missing time or exposure

(* Metadata of an image.  header says whether image_headers can read it: it  *)
(* lies within the first probe, needs the longer XISF probe, or is broken.   *)
(* centers, scales and dates are the keyword groups with usable values.      *)
Image == [kind : {"fits", "xisf", "raster"}, header : {"short", "long", "broken"},
          centers : SUBSET {"CRVAL", "RA", "OBJCT"},
          scales : SUBSET {"PIXSCALE", "SECPIX", "CD", "CDELT", "XPIXSZ"},
          dates : SUBSET {"BEG", "END", "AVG", "OBS"}, reversed : BOOLEAN,
          utc : BOOLEAN, duration : BOOLEAN,
          site : {"none", "itrf", "zero", "geodetic", "site", "far"},
          exifTime : BOOLEAN, gps : BOOLEAN, focal : BOOLEAN, decodes : BOOLEAN]

(* SolveOptions.  A client's value may be out of range ("bad"); a site of    *)
(* the image may be as well ("far", "zero").                                 *)
Options == [ra : {Missing, "client", "bad", "CRVAL", "RA", "OBJCT"},
            dec : {Missing, "client", "bad", "CRVAL", "RA", "OBJCT"},
            scale : {Missing, "client", "bad"} \cup {"PIXSCALE", "SECPIX", "CD", "CDELT", "XPIXSZ"},
            bounds : {Missing, "both", "coarse", "invalid"},
            time : Int, exposure : Int,
            lat : {Missing, "client", "image", "far"}, lon : {Missing, "client", "image"},
            alt : {Missing, "client", "image"}, itrf : {Missing, "client", "image", "zero"},
            hint : {Missing, "explicit", "fits", "xisf"},
            meta : {Missing, "explicit", "fits", "xisf", "exif"},
            keywords : SUBSET {"XPOSURE", "BEG", "END", "AVG", "OBS", "SITE", "EXIF"}]

(* A case: the image, what the upload and the re-solve ask for, whether the  *)
(* upload is an Astrometry one, whether there is a star catalogue, whether   *)
(* satellite tracks are enabled, and whether anyone looks at the result.     *)
Case == [image : Image, ask : Options, again : Options, astrometry : BOOLEAN,
         catalog : BOOLEAN, tracks : BOOLEAN, watched : BOOLEAN]

ASSUME SolvePlanAssumptions ==
    /\ Shutter \in Nat \ {0} /\ Shutter % 2 = 0
    /\ MaxExposure \in Nat
    /\ HintCases \subseteq Case /\ AstrometryCases \subseteq Case
    /\ ObservationCases \subseteq Case /\ WatchedCases \subseteq Case

(* SolveOptions::default.                                                    *)
DefaultOptions ==
    [ra |-> Missing, dec |-> Missing, scale |-> Missing, bounds |-> Missing,
     time |-> NoNumber, exposure |-> NoNumber,
     lat |-> Missing, lon |-> Missing, alt |-> Missing, itrf |-> Missing,
     hint |-> Missing, meta |-> Missing, keywords |-> {}]

NoJob == [status |-> "none", options |-> DefaultOptions, mode |-> Missing,
          ranges |-> <<>>, why |-> Missing]

Terminal == {"succeeded", "failed"}

(* from_catalog_paths: a blind index that does not fit the star catalogue is *)
(* ignored, and without a catalogue it is not even opened.                   *)
PlanInit ==
    /\ \/ case \in HintCases \/ case \in AstrometryCases
       \/ case \in ObservationCases \/ case \in WatchedCases
    /\ job = [j \in PlanJob |-> NoJob]
    /\ tried = [j \in PlanJob |-> <<>>]
    /\ blindIndex \in IF case.catalog THEN {"none", "opened"} ELSE {"none"}

-----------------------------------------------------------------------------
(* Reading the image's metadata.                                             *)

(* looks_like_fits, looks_like_xisf.                                         *)
Astronomy(image) == image.kind \in {"fits", "xisf"}

(* image_headers on the whole file or on the probed prefix: a FITS header    *)
(* must end within the probe, an XISF header gets the probe it asks for.     *)
ReadableHeader(image) ==
    image.header = "short" \/ (image.header = "long" /\ image.kind = "xisf")

(* The first of the preferred keyword groups that has a usable value.        *)
Preferred(groups, usable) ==
    LET i == SelectInSeq(groups, LAMBDA g : g \in usable)
    IN  IF i = 0 THEN Missing ELSE groups[i]

(* fits_center *)
FitsCenter(image) == Preferred(<<"CRVAL", "RA", "OBJCT">>, image.centers)

(* fits_pixel_scale *)
FitsPixelScale(image) ==
    Preferred(<<"PIXSCALE", "SECPIX", "CD", "CDELT", "XPIXSZ">>, image.scales)

(* fits_time: what a date keyword says.                                      *)
FitsTime(image, keyword) ==
    IF keyword \notin image.dates THEN NoNumber
    ELSE CASE keyword = "END" -> IF image.reversed THEN -Shutter ELSE Shutter
           [] keyword = "AVG" -> Shutter \div 2
           [] OTHER -> 0

(* subtract_seconds *)
Minus(time, seconds) == IF seconds > 0 THEN time - seconds ELSE NoNumber

-----------------------------------------------------------------------------
(* prepare_solve_options_from_prefix.                                        *)

HasTime(o) == o.time # NoNumber
HasExposure(o) == o.exposure # NoNumber

(* satellite_metadata_present *)
MetadataPresent(o) ==
    \/ HasTime(o) \/ HasExposure(o)
    \/ \E v \in {o.lat, o.lon, o.alt, o.itrf} : v # Missing

ExplicitObserver(o) == o.itrf # Missing \/ o.lat # Missing \/ o.lon # Missing

CompleteHint(o) == o.ra # Missing /\ o.dec # Missing /\ o.scale # Missing
PartialHint(o) == o.ra # Missing \/ o.dec # Missing \/ o.scale # Missing

(* The provenance a client sends is replaced first.                          *)
Cleared(o) ==
    [o EXCEPT !.hint = IF CompleteHint(o) THEN "explicit" ELSE Missing,
              !.meta = IF MetadataPresent(o) THEN "explicit" ELSE Missing,
              !.keywords = {}]

(* A missing exposure comes from XPOSURE, EXPTIME or EXPOSURE; next to a     *)
(* given time also from DATE-BEG and DATE-END.                               *)
WithExposure(o, image) ==
    LET beg == FitsTime(image, "BEG")
        end == FitsTime(image, "END")
    IN  IF HasExposure(o) THEN o
        ELSE IF image.duration
          THEN [o EXCEPT !.exposure = Shutter, !.keywords = @ \cup {"XPOSURE"}]
        ELSE IF HasTime(o) /\ {"BEG", "END"} \subseteq image.dates /\ end > beg
          THEN [o EXCEPT !.exposure = end - beg, !.keywords = @ \cup {"BEG", "END"}]
        ELSE o

Interval(start, seconds, keywords) ==
    [time |-> start, exposure |-> seconds, keywords |-> keywords]
NoInterval == Interval(NoNumber, NoNumber, {})

(* Variant for the mutation runs: every date is taken for the opening.       *)
OpeningAsWritten(image, keyword, seconds) == FitsTime(image, keyword)

(* The opening of the shutter according to one date keyword.                 *)
Opening(image, keyword, seconds) ==
    CASE keyword = "AVG" -> Minus(FitsTime(image, keyword), seconds \div 2)
      [] keyword = "END" -> Minus(FitsTime(image, keyword), seconds)
      [] OTHER -> FitsTime(image, keyword)

(* DATE-BEG and DATE-END if there are both, and they alone; otherwise the    *)
(* first of the others, given an exposure.                                   *)
Resolved(image, seconds) ==
    LET beg == FitsTime(image, "BEG")
        end == FitsTime(image, "END")
        keyword == Preferred(<<"AVG", "OBS", "BEG", "END">>, image.dates)
        opening == Opening(image, keyword, seconds)
    IN  IF {"BEG", "END"} \subseteq image.dates
          THEN IF end > beg THEN Interval(beg, end - beg, {"BEG", "END"}) ELSE NoInterval
        ELSE IF keyword = Missing \/ seconds = NoNumber \/ opening = NoNumber THEN NoInterval
        ELSE Interval(opening, seconds, {keyword})

(* A header time counts only if it is topocentric UTC; a lone DATE-OBS is    *)
(* still kept for transients and minor bodies.                               *)
WithTime(o, image) ==
    LET r == Resolved(image, o.exposure)
    IN  IF HasTime(o) \/ ~image.utc THEN o
        ELSE IF r # NoInterval
          THEN [o EXCEPT !.time = r.time, !.exposure = r.exposure,
                         !.keywords = @ \cup r.keywords]
        ELSE IF "OBS" \in image.dates
          THEN [o EXCEPT !.time = FitsTime(image, "OBS"), !.keywords = @ \cup {"OBS"}]
        ELSE o

(* OBSGEO-X/Y/Z, OBSGEO-B/L/H, or SITELAT and SITELONG with an altitude that *)
(* is 0 if SITEALT is missing; the numbers are not checked here.             *)
WithSite(o, image) ==
    IF ExplicitObserver(o) \/ image.site = "none" THEN o
    ELSE LET found == [o EXCEPT !.keywords = @ \cup {"SITE"}]
         IN  CASE image.site = "itrf" -> [found EXCEPT !.itrf = "image"]
               [] image.site = "zero" -> [found EXCEPT !.itrf = "zero"]
               [] OTHER ->
                    [found EXCEPT !.lat = IF image.site = "far" THEN "far" ELSE "image",
                                  !.lon = "image", !.alt = "image"]

(* The provenance of what is now known, given the options before.            *)
WithProvenance(o, before, source) ==
    IF o.keywords = {} THEN o
    ELSE [o EXCEPT !.meta = IF MetadataPresent(before) THEN "explicit" ELSE source]

(* prepare_satellite_metadata *)
PrepareSatelliteMetadata(o, image) ==
    WithProvenance(WithSite(WithTime(WithExposure(o, image), image), image), o, image.kind)

(* prepare_exif_metadata: never an exposure, never an altitude.              *)
PrepareExifMetadata(o, image) ==
    LET timed == IF ~HasTime(o) /\ image.exifTime
                   THEN [o EXCEPT !.time = 0, !.keywords = @ \cup {"EXIF"}] ELSE o
        placed == IF ~ExplicitObserver(o) /\ image.gps
                    THEN [timed EXCEPT !.lat = "image", !.lon = "image",
                                       !.keywords = @ \cup {"EXIF"}] ELSE timed
    IN  WithProvenance(placed, o, "exif")

(* An automatic hint needs both a centre and a scale, and no part of a hint  *)
(* from the client.                                                          *)
WithHeaderHint(o, image) ==
    IF \/ PartialHint(o)
       \/ FitsCenter(image) = Missing \/ FitsPixelScale(image) = Missing
      THEN o
    ELSE [o EXCEPT !.ra = FitsCenter(image), !.dec = FitsCenter(image),
                   !.scale = FitsPixelScale(image), !.hint = image.kind]

PrepareSolveOptions(o, image) ==
    IF ~Astronomy(image) THEN PrepareExifMetadata(Cleared(o), image)
    ELSE IF ~ReadableHeader(image) THEN Cleared(o)
    ELSE WithHeaderHint(PrepareSatelliteMetadata(Cleared(o), image), image)

-----------------------------------------------------------------------------
(* SolveOptions::validate.                                                   *)
Valid(o) ==
    /\ o.bounds # "invalid"
    /\ o.ra # Missing \/ o.dec # Missing => CompleteHint(o)
    /\ "bad" \notin {o.ra, o.dec, o.scale}
    /\ HasExposure(o) => o.exposure > 0
    /\ (o.lat = Missing) = (o.lon = Missing)
    /\ o.lat # Missing => o.lat # "far" /\ o.itrf = Missing
    /\ o.lat = Missing => o.alt = Missing
    /\ o.itrf # "zero"

(* AstroUploadRequest::into_options: a scale range bounds the blind search,  *)
(* and next to a centre with a radius below 180 degrees it is a hint.        *)
IntoOptions(range, center) ==
    IF ~range THEN DefaultOptions
    ELSE IF ~center THEN [DefaultOptions EXCEPT !.bounds = "both"]
    ELSE [DefaultOptions EXCEPT !.bounds = "both", !.ra = "client", !.dec = "client",
                                !.scale = "client"]

-----------------------------------------------------------------------------
(* Submissions.                                                              *)

Accept(j, o) ==
    job' = [job EXCEPT ![j] = IF Valid(o) THEN [NoJob EXCEPT !.status = "queued", !.options = o]
                                          ELSE [NoJob EXCEPT !.status = "refused"]]

(* post_solve and finalize_resumable.                                        *)
SubmitImage ==
    /\ job[1].status = "none"
    /\ ~case.astrometry
    /\ Accept(1, PrepareSolveOptions(case.ask, case.image))
    /\ UNCHANGED <<case, tried, blindIndex>>

(* astrometry_upload decodes the image before anything else, for the scale,  *)
(* and into_options may reject the request.                                  *)
SubmitAstrometry ==
    /\ job[1].status = "none"
    /\ case.astrometry
    /\ \/ job' = [job EXCEPT ![1].status = "refused"]
       \/ /\ case.image.decodes
          /\ Accept(1, PrepareSolveOptions(case.ask, case.image))
    /\ UNCHANGED <<case, tried, blindIndex>>

(* merge_resolve_satellite_metadata: the observer is inherited as one group. *)
Merged(o, previous) ==
    LET site == [o EXCEPT !.lat = previous.lat, !.lon = previous.lon,
                          !.alt = previous.alt, !.itrf = previous.itrf]
        base == IF ExplicitObserver(o) \/ o.alt # Missing THEN o ELSE site
    IN  [base EXCEPT !.time = IF HasTime(o) THEN @ ELSE previous.time,
                     !.exposure = IF HasExposure(o) THEN @ ELSE previous.exposure]

(* Variant for the mutation runs: the exposure is not compared.              *)
OverridesButExposure(o, previous) ==
    \/ o.time # previous.time
    \/ <<o.lat, o.lon, o.alt, o.itrf>>
         # <<previous.lat, previous.lon, previous.alt, previous.itrf>>

(* Its result: whether the merged observation differs from the previous one. *)
Overrides(o, previous) ==
    \/ o.time # previous.time \/ o.exposure # previous.exposure
    \/ <<o.lat, o.lon, o.alt, o.itrf>>
         # <<previous.lat, previous.lon, previous.alt, previous.itrf>>

(* resolve_solve prepares without the bytes of the image, so that no header  *)
(* is read, and keeps the provenance of an observation it did not change.    *)
Inherited(o, previous) ==
    LET merged == Merged(o, previous)
        cleared == Cleared(merged)
    IN  IF Overrides(merged, previous) THEN cleared
        ELSE [cleared EXCEPT !.meta = previous.meta, !.keywords = previous.keywords]

SubmitResolve ==
    /\ job[1].status \in Terminal
    /\ job[2].status = "none"
    /\ Accept(2, Inherited(case.again, job[1].options))
    /\ UNCHANGED <<case, tried, blindIndex>>

-----------------------------------------------------------------------------
(* solve_bytes.                                                              *)

EndWith(j, status, mode, why) ==
    job' = [job EXCEPT ![j].status = status, ![j].mode = mode, ![j].why = why]

(* No star catalogue, or an image that cannot be decoded.                    *)
FailEarly(j) ==
    /\ job[j].status = "queued"
    /\ ~case.catalog \/ ~case.image.decodes
    /\ EndWith(j, "failed", Missing, "error")
    /\ UNCHANGED <<case, tried, blindIndex>>

Solvable(j) == case.catalog /\ case.image.decodes

(* Variant for the mutation runs: every hint may be given up.                *)
FallbackAlways(hint) == TRUE

(* automatic_hint_allows_blind_fallback *)
AllowsBlindFallback(hint) == hint \in {"fits", "xisf"}

SolveHinted(j) ==
    /\ job[j].status = "queued" /\ Solvable(j) /\ CompleteHint(job[j].options)
    /\ tried' = [tried EXCEPT ![j] = Append(@, "hint")]
    /\ \/ EndWith(j, "succeeded", "hinted", Missing)
       \/ /\ AllowsBlindFallback(job[j].options.hint)
          /\ job' = [job EXCEPT ![j].status = "fallback"]
       \/ /\ ~AllowsBlindFallback(job[j].options.hint)
          /\ EndWith(j, "failed", Missing, "nothing found")
    /\ UNCHANGED <<case, blindIndex>>

(* blind_scale_search (ScaleSearch is a library's): bounds of the client     *)
(* replace every other range; the focal length of a photo gives a narrow     *)
(* range and a wide one; a lower bound above the default range leaves none.  *)
BlindScaleSearch(bounds, focal) ==
    CASE bounds = "both" -> <<"client">>
      [] focal -> <<"exif", "wide">>
      [] bounds = "coarse" -> <<>>
      [] OTHER -> <<"default">>

Focal == case.image.kind = "raster" /\ case.image.focal

(* solve_blind_with_options: a missing index is built once for the worker.   *)
StartBlind(j) ==
    LET ranges == BlindScaleSearch(job[j].options.bounds, Focal)
    IN  /\ Solvable(j)
        /\ \/ job[j].status = "fallback"
           \/ job[j].status = "queued" /\ ~CompleteHint(job[j].options)
        /\ IF ranges = <<>>
             THEN EndWith(j, "failed", Missing, "error") /\ UNCHANGED blindIndex
             ELSE /\ job' = [job EXCEPT ![j].status = "searching", ![j].ranges = ranges]
                  /\ blindIndex' = IF blindIndex = "none" THEN "built" ELSE blindIndex
        /\ UNCHANGED <<case, tried>>

(* solve_over_ranges: only "nothing found" moves on to the next range.       *)
SearchRange(j) ==
    /\ job[j].status = "searching"
    /\ tried' = [tried EXCEPT ![j] = Append(@, Head(job[j].ranges))]
    /\ \/ EndWith(j, "succeeded", "blind", Missing)
       \/ EndWith(j, "failed", Missing, "error")
       \/ IF Len(job[j].ranges) = 1
            THEN EndWith(j, "failed", Missing, "nothing found")
            ELSE job' = [job EXCEPT ![j].ranges = Tail(@)]
    /\ UNCHANGED <<case, blindIndex>>

-----------------------------------------------------------------------------
(* Properties.                                                             *)

Asked(j) == IF j = 1 THEN case.ask ELSE case.again
Accepted == {j \in PlanJob : job[j].status \notin {"none", "refused"}}

(* "User supplied hints always win": a complete hint of the client is the    *)
(* only search that is made, with its own values; and no part of a hint is   *)
(* ever mixed with values of the image.  A hint from a header is no more     *)
(* than a hint: a job that found nothing has searched every blind range, in  *)
(* order, and the header's hint before them.                                 *)
HintsAreHonoured ==
    \A j \in Accepted :
        LET o == job[j].options
            blind == BlindScaleSearch(o.bounds, Focal)
        IN  /\ PartialHint(Asked(j)) =>
                  <<o.ra, o.dec, o.scale>> = <<Asked(j).ra, Asked(j).dec, Asked(j).scale>>
            /\ CompleteHint(Asked(j)) => tried[j] \in {<<>>, <<"hint">>}
            /\ job[j].why = "nothing found" /\ ~CompleteHint(Asked(j)) =>
                  tried[j] = IF CompleteHint(o) THEN <<"hint">> \o blind ELSE blind

(* Whatever date keywords a truthful header has, an exposure that is wholly  *)
(* the image's starts when the shutter opened and lasts as long as it was    *)
(* open, also after a re-solve.                                              *)
ExposureIsNormalised ==
    \A j \in Accepted :
        LET o == job[j].options
        IN  HasTime(o) /\ o.time \notin {case.ask.time, case.again.time}
              /\ o.exposure \notin {case.ask.exposure, case.again.exposure} \ {NoNumber}
            => o.time = 0 /\ o.exposure \in {NoNumber, Shutter}

(* An observation that is said to come from the image holds no value of a    *)
(* client's, neither of the upload nor of the re-solve.                      *)
ProvenanceIsTrue ==
    \A j \in Accepted :
        LET o == job[j].options
        IN  o.meta \in {"fits", "xisf", "exif"} =>
              /\ o.time \notin {case.ask.time, case.again.time} \ {NoNumber}
              /\ o.exposure \notin {case.ask.exposure, case.again.exposure} \ {NoNumber}
              /\ "client" \notin {o.lat, o.lon, o.alt, o.itrf}
=============================================================================
