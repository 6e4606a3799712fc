SPECIFICATION Spec
CONSTANTS
    Kinds <- AllKinds
    Written <- Values
    Elements <- OneElement
    PlcValues <- SomePlc
    Junk <- SomeJunk
    MaxElements = 2
    MaxQueued = 1
    span <- Span
    exact <- Exact
INVARIANT NoSilentFailure
INVARIANT AlarmHasCause
INVARIANT ReadsBack
INVARIANT ArrayReadsBack
INVARIANT CallbackInBuffer
