\* A program without python blocks, and nothing fails.
SPECIFICATION FairSpec
CONSTANTS
    Kinds = {"plain"}
    Failures = {}
PROPERTY
    IteratorEnds
CHECK_DEADLOCK FALSE
