SPECIFICATION Spec
CONSTANTS
    Secrets = {"s1", "s2"}
    Stored <- MCStored
    CreatableTypes <- MCTypes
    MaxExtras = 1
    MaxInFlight = 2
    MaxChanges = 4
INVARIANTS NoUnseenOverwrite EscAsks SomeSlotFocused SavingAnswered
