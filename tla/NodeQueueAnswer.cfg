SPECIFICATION Spec
CONSTANTS
    Ann = Ann
    Bob = Bob
    Senders <- AnnAndBob
    Requests <- BothBlock
    Budget = 8
INVARIANT NoConnectionMeansClosed
CHECK_DEADLOCK FALSE
