SPECIFICATION Spec
CONSTANTS
    Ann = Ann
    Bob = Bob
    Senders <- AnnAndBob
    Requests <- EveryPolicy
    Budget = 8
INVARIANTS QueueOK Accounting WindowHeld OkIsKept
PROPERTY QueueDrains
CHECK_DEADLOCK FALSE
