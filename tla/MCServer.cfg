SPECIFICATION FairSpec
CONSTANTS
    c1 = c1
    c2 = c2
    None = None
    Conn = {c1, c2}
    Handlers = 2
    QueueLimit = 1
    StreamLimit = 1
    MaxDeltas = 1
    Kinds = {"chat", "stream", "reset"}
INVARIANTS AdmissionExact AnswersExact
PROPERTIES Answered ServeReturns
