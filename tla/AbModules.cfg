SPECIFICATION Spec
CONSTANTS
    spacestation = spacestation
    topBanner = topBanner
    ModuleKey = {spacestation, f10}
    ItemKey = {topBanner}
    SeedModules <- OneModule
    SeedItems <- OneItem
    Client = {c1, c2}
    MaxModule = 2
    MaxItem = 3
SYMMETRY ClientSymmetry
INVARIANTS OrphansAreContended SeedsFit ItemsStayVisible
