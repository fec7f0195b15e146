\* Up to three frames of the guest, the last of them terminal or not.
SPECIFICATION Spec
CONSTANT MaxFrames = 3
CHECK_DEADLOCK FALSE
INVARIANTS
    InGuestOrder
    ExitIsTheGuests
    EveryResponseEnds
PROPERTIES
    NobodyHangs
