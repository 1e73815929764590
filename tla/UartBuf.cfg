SPECIFICATION FairSpec
CONSTANTS
    Cap = 2
    a = a
    Plain = {a}
    LF = LF
    CR = CR
    MaxWritten = 4
    MaxArrived = 3
    MaxAsk = 3
INVARIANTS TxConserved LineOut RxAccounted
PROPERTY Flushed
