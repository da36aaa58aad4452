SPECIFICATION Spec
CONSTANTS
    None = None
    probe = probe
    long = long
    ann = ann
    bob = bob
    dev = dev
    Words <- SomeWords
    TooLong <- SomeTooLong
    Registers = {"coils", "holding"}
    Users = {ann, dev, bob}
    Role <- TheRoles
    Drafts <- SomeDrafts
    Patches <- SomePatches
    MaxNames = 1
    Budgets <- SomeBudgets
INVARIANTS
    ReopensUnchanged
    CreatedOnce
    PageCurrent
    SavedMeansStored
PROPERTIES
    SaveNotRefused
CHECK_DEADLOCK FALSE
