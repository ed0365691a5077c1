\* Two senders against one receiving task.  A ring of one place makes the second
\* stored message overflow; three messages per sender let one of them come back
\* to the ring after the overflow has drained.
SPECIFICATION FairInboxSpec
CONSTANTS
    Producers = {p1, p2}
    Capacity = 1
    MaxSends = 3
INVARIANTS
    InboxTypeOK
    StoredInOrder
    ExactlyOnce
    NoLostWakeup
PROPERTIES
    ImplementsLossless
    EverySendIsReceived
\* The task parks for good once everything has been received.
CHECK_DEADLOCK FALSE
