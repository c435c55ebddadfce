CONSTANTS
    Subs = {alice}
    Attacker = eve
    Threads = {t1, t2}
    Nonces = {n1, n2}
    Impus = {"sip:alice"}
    ImpuOf <- MCImpuOf
    DefaultPrivateId <- MCDefaultPrivateId
    None = None
    Forged = Forged
    MaxMsgs = 4
SYMMETRY MCSymmetry
SPECIFICATION Spec
INVARIANT StaleAnswerRechallenged
