SPECIFICATION Spec
CONSTANTS
    LightState <- States
    HaveTrackball = TRUE
    Faulty = {"green", "trackball"}
INVARIANTS
    TypeOK
    OwnerShown
    TrackballFollows
