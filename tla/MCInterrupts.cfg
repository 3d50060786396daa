CONSTANTS
    Devices <- MCDevices
    Drivers <- MCDrivers
    Faults <- MCFaults
    BiosMasks <- MCBiosMasks
    Countdown = 3
    ByteBase = 2
    TickRange = 4
SPECIFICATION FairSpec
INVARIANTS
    FramesWellFormed
    NoNesting
    NothingLeftInService
    MaskAsAsked
    CountNotTorn
PROPERTIES
    ImplementsIrqService
    TicksGoOn
