SPECIFICATION FairSpec
CONSTANTS
    None = None
    m1 = m1
    m2 = m2
    Keymaps = {m1, m2}
    Generations <- MCGenerations
    Arms <- MCArms
INVARIANTS
    NewestStaysArmed
PROPERTIES
    KeysAreReleased
