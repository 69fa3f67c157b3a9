SPECIFICATION Spec
CONSTANTS
    Updaters = {u1, u2}
    Top = 8
    InitRegions <- MCRegions
    Hotplug <- MCHotplug
    Iovas = 3
    InitTable <- MCTable
    Targets = {1, 4}
    PhysStarts = {1, 5, 7}
    Ops = {"bytes"}
    MaxChanges = 2
INVARIANTS NoUpdateLost SlicesExact NoUseAfterInvalidation
