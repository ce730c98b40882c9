SPECIFICATION FairSpec
CONSTANTS
    night = night
    day = day
    batch = batch
    guest = guest
    adm1 = adm1
    adm2 = adm2
    Ticker = Ticker
    NoSlot = NoSlot
    NoSchedule = NoSchedule
    Schedule = {night}
    Allowed <- MCAllowed
    Exclusive = {night}
    Consumer = {batch, guest}
    Admin = {adm1}
    Events = {"crash", "shutdown", "delete", "fail"}
    MaxActivations = 2
    MaxRestarts = 1
    MaxAge = 1
INVARIANTS
    SnapshotKept
PROPERTIES
    NobodyBlockedForever
    ExpiredSlotEnds
