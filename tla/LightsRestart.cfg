SPECIFICATION Spec
CONSTANTS
    LightState <- States
    HaveTrackball = TRUE
    Faulty = {}
INVARIANTS
    NotRestarted
