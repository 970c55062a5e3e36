\* Two turns of one conversation become two missions, which a sweep reclaims and
\* an owner deletes, with one death or failed call.
SPECIFICATION FairSpec
CONSTANTS
    Conversation = {1}
    MaxTurns = 2
    MaxRef = 2
    MaxRunning = 1
    MaxFaults = 1
    MaxReclaims = 1
INVARIANTS
    DraftOnce
    NamedWordsKept
    RecordTells
PROPERTIES
    ReductionEnds
\* Sweeps repeat for ever, but without them a full journal may have nothing to do.
CHECK_DEADLOCK FALSE
