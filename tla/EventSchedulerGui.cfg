SPECIFICATION Spec
CONSTANTS
    SIO = SIO
    CDR = CDR
    CDREAD = CDREAD
    Irq = {CDR, CDREAD}
    Order <- MCOrder
    MayArm <- MCMayArm
    MayCancel <- MCMayCancel
    GuestArms <- MCGuestArms
    GuestCancels <- MCGuestCancels
    Delays <- MCDelays
    Blocks <- MCBlocks
    MaxCycle = 4
    GuiAt = {"guest", "update"}
INVARIANT NothingOverdue
