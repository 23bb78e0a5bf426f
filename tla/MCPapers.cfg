SPECIFICATION Spec
CONSTANTS
    Worker = {w1, w2}
    Nobody = Nobody
    Harvest = Harvest
    MaxVersion = 2
    MaxDay = 4
INVARIANTS
    TypeOK
    OneShape
    ProvenanceExact
PROPERTIES
    AliasesLast
    HarvestVisible
    FetchKeepsHarvest
CHECK_DEADLOCK FALSE
