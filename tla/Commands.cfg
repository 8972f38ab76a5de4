SPECIFICATION Spec
CONSTANTS
    Procs = {p, q}
    Settings <- MCSettings
    Modes = {"plan"}
    Commands = {"ls"}
    KeyTexts = {"k1"}
    Starts <- MCStarts
    Machines <- MCMachines
    Surroundings <- MCSurroundings
    MaxSaves = 3
    Ids <- MCIds
    Needles <- MCNeedles
    MaxEvents = 1
    Ancestors <- MCAncestors
    Memories <- MCMemories
    SkillDirs <- MCSkillDirs
    NameOrder <- MCNameOrder
    MaxMemory = 2
    MaxSkills = 1
    Letters = {"@", " ", "p", "."}
    MaxLine = 7
    Trees <- MCTrees
    Files <- MCPathFiles
    MaxSteps = 3
INVARIANTS
    NothingElseLost
    StoredKeysWereGiven
    
    ActsOnTheNamed
    ModelIsTold
CHECK_DEADLOCK FALSE
