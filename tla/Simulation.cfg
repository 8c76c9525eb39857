SPECIFICATION FairSpec
CONSTANTS
    Handlers = {h1, h2, h3}
    Scenarios = {"launch_spike", "late_surge", "mixed_realistic"}
    Configs <- MCConfigs
    MaxUpdates = 2
    MaxFaults = 1
INVARIANTS
    TypeOK
    LostGenerationsBounded
    LastUpdateRules
    TogglesHaveWorkers
PROPERTY TrafficStops
