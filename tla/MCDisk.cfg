SPECIFICATION Spec
CONSTANTS
    SectorSize = 3
    PageSectors = 2
    Sectors = 3
    Slots = 2
INVARIANTS
    TransfersRight
PROPERTIES
    NeighboursKept
    CallsReturn
