SPECIFICATION Spec
CONSTANTS
    o1 = o1
    o2 = o2
    Object = {o1, o2}
    Nothing = Nothing
    NoEvidence = NoEvidence
INVARIANTS EvidenceIsOfTheHeldObject  OpensOnPurpose
