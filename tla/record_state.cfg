SPECIFICATION Spec
CONSTANTS
    Kinds <- StateKinds
    Written <- Values
    Elements <- OneElement
    PlcValues <- SomePlc
    Junk <- SomeJunk
    MaxElements = 2
    MaxQueued = 1
    span <- Span
    exact <- Exact
INVARIANT StateValuesChecked
