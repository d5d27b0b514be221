SPECIFICATION MCSpec
CHECK_DEADLOCK FALSE
INVARIANTS
    EndsOfItsOwnPaths
    VolumeInItsTimeslot
