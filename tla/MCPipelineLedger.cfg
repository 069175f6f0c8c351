SPECIFICATION Spec
CONSTANTS
    m1 = m1
    m2 = m2
    loop = loop
    call = call
    c1 = c1
    None = None
    Msg = {m1, m2}
    Poller = {loop, call}
    Loop = loop
    Client = {c1}
    MaxFaults = 1
    MaxRestarts = 1
    Status <- ThreeStatuses
    Transcripts <- LedgerTranscripts
SYMMETRY Symmetry
INVARIANT TypeOK
INVARIANT LossHasCause
PROPERTY ExactlyOnce
PROPERTY StampFollowsStatus
