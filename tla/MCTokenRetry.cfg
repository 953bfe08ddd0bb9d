CONSTANTS
    good = good
    bad = bad
    d1 = d1
    d2 = d2
    t1 = t1
    t2 = t2
    Credentials = {good, bad}
    Accepted = {good}
    Devices = {d1, d2}
    Texts = {t1, t2}
    NoCredentials = NoCredentials
    NoText = NoText
    Null = Null
    Zero = Zero
    Factory = Factory
    NoSlot = NoSlot
    Empty = Empty
SPECIFICATION FairSpec
PROPERTY TokenErrorRetried
