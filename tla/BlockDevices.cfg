CONSTANTS
    Machines <- MCMachines
    Lbas = {0, 2}
    ATA_LBAS = 2
    Sectors = {"x", "y"}
    Zero = "zero"
    None = None

SPECIFICATION Spec

INVARIANTS
    TypeOK
    DmaOwned
    ReadsBack
