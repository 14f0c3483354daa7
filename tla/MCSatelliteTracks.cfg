SPECIFICATION TracksSpec
CONSTANTS
    HintCases <- TheHintCases
    AstrometryCases <- TheAstrometryCases
    ObservationCases <- TheObservationCases
    WatchedCases <- TheWatchedCases
    Shutter = 2
    MaxExposure = 10
    Viewer = {v1, v2, v3}
    Nobody = Nobody
    MaxCached = 2
    MaxElements = 2
INVARIANT HintsAreHonoured ExposureIsNormalised ProvenanceIsTrue AnswerFitsRequest
CHECK_DEADLOCK FALSE
