SPECIFICATION Spec
CONSTANTS
    Producers = {p1}
    Capacity = 1
    MaxSends = 2
INVARIANT ReceivedInOrder
