CONSTANTS
    Game = game
    Mod = mod
    Importer = importer
    GameSlot = g1
    GamePlt = g2
    ModSlot = m1
    ImportSlot = i1
    GameFunction = fg
    ModFunction = fm
    Libs = {game, mod, importer}
    Infos = {a1, a2, a3}
    Index <- IndexValue
    Needs <- NeedsValue
    Defines = {game, mod}
    Slots = {g1, g2, m1, i1}
    LibOf <- LibOfValue
    Functions = {fg, fm}
    Resolved <- ResolvedValue
    Low <- LowValue
    HookInstances = {h1, h2, h3}
    Null = null
SPECIFICATION Spec
INVARIANTS
    PointersAreChain
    CallRunsEveryHook
    OriginalComesBack
SYMMETRY Alike
