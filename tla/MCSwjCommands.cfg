SPECIFICATION Spec
INVARIANTS WritesReachTheLine
