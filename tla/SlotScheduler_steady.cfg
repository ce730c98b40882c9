SPECIFICATION Spec
CONSTANTS
    night = night
    day = day
    batch = batch
    guest = guest
    adm1 = adm1
    adm2 = adm2
    Ticker = Ticker
    NoSlot = NoSlot
    NoSchedule = NoSchedule
    Schedule = {night, day}
    Allowed <- MCAllowed
    Exclusive = {night}
    Consumer = {guest}
    Admin = {adm1, adm2}
    Events = {}
    MaxActivations = 3
    MaxRestarts = 0
    MaxAge = 1
SYMMETRY MCSymmetry
INVARIANTS
    TypeOK
    TransitionOwned
    SnapshotKept
