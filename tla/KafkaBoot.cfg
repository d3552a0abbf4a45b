\* A rollout from one image to another with a third that is rejected half-way.
SPECIFICATION Spec
CONSTANTS
    Pods = {p1, p2}
    NoPod = NoPod
    Batches = {b1, b2}
    Subjects = {1, 2}
    Images = {v1, v2, v3}
    Files <- MCFiles
    SchemaOf <- MCSchemaOf
    Compatible <- MCCompatible
    Messages <- MCMessages
    v1 = v1
    v2 = v2
    v3 = v3
INVARIANTS
    FramesCoverContract
    BatchAtomic
PROPERTY
    CheckPredictsBoot
CONSTRAINT
    OneAtATime
SYMMETRY
    Symmetric
