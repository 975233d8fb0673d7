CONSTANTS
    Rid = {r1, r2, r3}
    Prompts <- MCPrompts
    Batches <- MCBatches
    Caches <- MCCaches
SYMMETRY RidSymmetry
SPECIFICATION Spec
INVARIANTS
    WellFormed
    LookupsExact
    EvictionDemandExact
    RankingExact
    DualWalkExact
PROPERTY ImplementsMap
