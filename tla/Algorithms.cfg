\* Every field of three by three, then a larger one in the same session, with
\* the clock read at every other pass; every sorted table of up to eight messages,
\* empty and headless ones too, and an unsigned int of four bits;
\* packets of up to three keys.  A program may stop calling at any time.
SPECIFICATION Spec
CONSTANTS
    Requests <- MCRequests
    MoreRequests <- MCMoreRequests
    Loops = 2
    Answers <- MCAnswers
    Messages <- MCMessages
    Files <- MCFiles
    Uint = 16
    Funcs <- MCFuncs
    WordSize = 4
    BufferSize = 140
    Syncs = {6}
    Targets = {500}
    SkillUses <- MCSkillUses
    Ids <- MCIds
    MaxPackets = 2
INVARIANTS RoutesAreCheapest DistancesAreExact LookupsFindMessages KeysComeBack
CHECK_DEADLOCK FALSE
