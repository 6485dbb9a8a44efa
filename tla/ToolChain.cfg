\* The tool chain on programs and manifests at the boundaries of its layouts.
CONSTANTS
    Program <- SomePrograms
    StubList <- SomeStubs
    Manifest <- SomeManifests
    SignOption <- SomeOptions
SPECIFICATION Spec
INVARIANTS
    LayoutSound
    ImportsBound
    RuntimeBound
    RoundTrip
CHECK_DEADLOCK FALSE
