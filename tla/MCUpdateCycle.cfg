CONSTANTS
    good = good
    bad = bad
    d1 = d1
    t1 = t1
    t2 = t2
    url = url
    windows = windows
    debian = debian
    Credentials = {good, bad}
    Accepted = {good}
    Devices = {d1}
    Urls = {url}
    Jobs <- MCJobs
    Texts = {t1, t2}
    Render <- MCRender
    NoCredentials = NoCredentials
    NoText = NoText
    Null = Null
    Zero = Zero
    Factory = Factory
    NoSlot = NoSlot
    Empty = Empty
SPECIFICATION FairCycleSpec
INVARIANTS TypeOK CycleTypeOK SessionOwner AccountInUse SkipIsSound
PROPERTIES RecordedAsDelivered ProcessEnds CycleEnds
