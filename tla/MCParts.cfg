SPECIFICATION Spec
CONSTANTS
    Half = 4
    Block = 3
    Bytes = {0, 1}
    MaxLen = 5
    MaxQueued = 3
    Ends <- FiveMessages
    Malformed = {5}
    Silent = {3}
INVARIANTS TypeOK FlushComputed DecodesWhatWasSent PanicsOnlyOnZeros
PROPERTIES ReadsMessages RequestsAnswered FlushEnds TasksEnd KeepsAsking
CHECK_DEADLOCK FALSE
