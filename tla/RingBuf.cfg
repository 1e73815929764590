SPECIFICATION Spec
CONSTANTS
    a = a
    b = b
    Data = {a, b}
    NoData = NoData
    N = 4
    MaxAsk = 4
INVARIANTS RingInv CopyInBounds DeliveredInOrder
PROPERTY IsFifo
