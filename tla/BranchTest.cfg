SPECIFICATION FairBranchTestSpec
CONSTANTS
    SIO = SIO
    CDR = CDR
    CDREAD = CDREAD
    Irq = {SIO, CDR, CDREAD}
    Order <- MCOrder
    MayArm <- MCMayArm
    MayCancel <- MCMayCancel
    GuestArms <- MCGuestArms
    GuestCancels <- MCGuestCancels
    Delays <- MCDelays
    Blocks <- MCBlocks
    MaxCycle = 5
    GuiAt = {}
    Ctr = {1}
    Top = 7
    Word = 64
    Slow <- MCSlow
    Line = 4
    Lines = 3
    BlankAt = 2
    Stretches <- MCStretches
    Targets = {3, 5, 7}
    Values = {0, 4}
    Modes <- MCModes
INVARIANTS CountersOnTime CountersTrue
PROPERTIES KeepsTime Served
