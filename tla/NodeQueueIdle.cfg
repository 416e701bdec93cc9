SPECIFICATION Spec
CONSTANTS
    Ann = Ann
    Bob = Bob
    Senders <- AnnAndBob
    Requests <- BlockAndDropNew
    Budget = 8
INVARIANT RoomIsTaken
CHECK_DEADLOCK FALSE
