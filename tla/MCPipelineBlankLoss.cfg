SPECIFICATION Spec
CONSTANTS
    m1 = m1
    m2 = m2
    m3 = m3
    loop = loop
    call = call
    None = None
    Msg = {m1, m2, m3}
    Poller = {loop, call}
    Loop = loop
    Client = {}
    MaxFaults = 0
    MaxRestarts = 0
    Status <- TwoStatuses
    Transcripts <- BlankTranscripts
INVARIANT LossHasCause
