SPECIFICATION MCSpec
CONSTANTS
    Items = {i1, i2}
    Platforms = {sensor, switch}
    Retired = Retired
    Areas = {office, attic}
    NoArea = NoArea
    NoDevice = NoDevice
    Nowhere = Nowhere
    Flows = {f1, f2}
    Slots = {s1, s2}
    Names = {n1, n2}
    Hosts = {h1, h2}
    Secrets = {t1, t2}
    NoFlow = NoFlow
    Unfilled = Unfilled
    Apart = {"docker", "nut"}
    Unscoped = Unscoped
    Choices = {{}, {"docker"}, {"compose"}, {"disks"}, {"pools"}, {"lxc_containers"}, {"vm_machines"},
               {"services"}, {"sensors"}, {"nut"}}
SYMMETRY MCSymmetry
INVARIANTS
    RegistryFollowsData
    DevicesKeepPlace
    StoredWasAccepted
    IdentityUnique
    ForbiddenIsRefused
    RejectionToldApart
    RefusedInAdvance
    ShownIsCurrent
