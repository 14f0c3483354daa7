-------------------------- MODULE MCSatelliteTracks --------------------------
(* Cases of SolvePlan and SatelliteTracks for TLC: about hints and searches,  *)
(* about the metadata of observations, and one watched by several requests.   *)
EXTENDS SatelliteTracks

PlainImage ==
    [kind |-> "fits", header |-> "short", centers |-> {}, scales |-> {}, dates |-> {},
     reversed |-> FALSE, utc |-> TRUE, duration |-> FALSE, site |-> "none",
     exifTime |-> FALSE, gps |-> FALSE, focal |-> FALSE, decodes |-> TRUE]

(* Hints: with every part present or missing, one of them out of range, and  *)
(* with provenance that a client made up.                                    *)
HintAsks ==
    {[DefaultOptions EXCEPT !.ra = r, !.dec = d, !.scale = s, !.bounds = b, !.hint = h] :
        r \in {Missing, "client", "bad"}, d \in {Missing, "client"}, s \in {Missing, "client"},
        b \in {Missing, "both", "coarse", "invalid"}, h \in {Missing, "fits"}}

HintImages ==
    {[PlainImage EXCEPT !.kind = k, !.header = h, !.centers = c, !.scales = s] :
        k \in {"fits", "xisf"}, h \in {"short", "long"},
        c \in {{}, {"RA"}, {"CRVAL", "OBJCT"}}, s \in {{}, {"XPIXSZ", "CD"}}}
    \cup {[PlainImage EXCEPT !.kind = "raster", !.header = "broken", !.focal = f] :
            f \in BOOLEAN}
    \cup {[PlainImage EXCEPT !.header = "broken", !.decodes = FALSE]}

CompleteAsk == [DefaultOptions EXCEPT !.ra = "client", !.dec = "client", !.scale = "client"]

TheHintCases ==
    [image : HintImages, ask : HintAsks, again : {DefaultOptions, CompleteAsk},
     astrometry : {FALSE}, catalog : {TRUE}, tracks : {TRUE}, watched : {FALSE}]

(* Astrometry uploads on top of them, with a range, a centre, or both.       *)
TheAstrometryCases ==
    [image : HintImages, ask : {IntoOptions(r, c) : r \in BOOLEAN, c \in BOOLEAN},
     again : {DefaultOptions},
     astrometry : {TRUE}, catalog : {TRUE}, tracks : {TRUE}, watched : {FALSE}]

(* Observations, on a server without a star catalogue: every solve fails at  *)
(* once.                                                                     *)
Sites == {[lat |-> Missing, lon |-> Missing, alt |-> Missing, itrf |-> Missing],
          [lat |-> "client", lon |-> "client", alt |-> Missing, itrf |-> Missing],
          [lat |-> "client", lon |-> Missing, alt |-> Missing, itrf |-> Missing],
          [lat |-> Missing, lon |-> Missing, alt |-> "client", itrf |-> Missing],
          [lat |-> Missing, lon |-> Missing, alt |-> Missing, itrf |-> "client"],
          [lat |-> "client", lon |-> "client", alt |-> "client", itrf |-> "client"]}

Observing(time, exposure, s) ==
    [DefaultOptions EXCEPT !.time = time, !.exposure = exposure, !.lat = s.lat,
                           !.lon = s.lon, !.alt = s.alt, !.itrf = s.itrf]

ObservationAsks ==
    {Observing(t, e, s) : t \in {NoNumber, 20}, e \in {NoNumber, 0, 6}, s \in Sites}

ObservationAgain ==
    {Observing(NoNumber, NoNumber, s) : s \in {x \in Sites : x.lat = x.lon}}
    \cup {[DefaultOptions EXCEPT !.time = 30], [DefaultOptions EXCEPT !.exposure = 8]}

ObservedImages ==
    {[PlainImage EXCEPT !.dates = d, !.utc = u, !.duration = e, !.site = s] :
        d \in SUBSET {"BEG", "END", "AVG", "OBS"}, u \in BOOLEAN, e \in BOOLEAN,
        s \in {"none", "itrf", "zero", "site", "far"}}
    \cup {[PlainImage EXCEPT !.dates = {"BEG", "END"} \cup d, !.reversed = TRUE, !.duration = e] :
            d \in SUBSET {"AVG", "OBS"}, e \in BOOLEAN}
    \cup {[PlainImage EXCEPT !.kind = "raster", !.header = "broken", !.exifTime = t, !.gps = g] :
            t \in BOOLEAN, g \in BOOLEAN}

TheObservationCases ==
    [image : ObservedImages, ask : ObservationAsks, again : ObservationAgain,
     astrometry : {FALSE}, catalog : {FALSE}, tracks : {TRUE}, watched : {FALSE}]

(* An image with a complete observation, or with an exposure of the client's *)
(* that is too long for tracks.                                              *)
WatchedImage == [PlainImage EXCEPT !.dates = {"BEG", "END"}, !.site = "site"]

TheWatchedCases ==
    [image : {WatchedImage}, ask : {CompleteAsk},
     again : {CompleteAsk, [CompleteAsk EXCEPT !.exposure = MaxExposure + 1]},
     astrometry : {FALSE}, catalog : {TRUE}, tracks : BOOLEAN, watched : {TRUE}]
=============================================================================
