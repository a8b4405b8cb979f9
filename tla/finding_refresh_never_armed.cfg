SPECIFICATION Spec
CONSTANTS
    Tokens = {t1, t2, t3, t4, t5}
    None = None
    Lifetime = 3
    Margin = 1
    Worlds <- FreshInstall
INVARIANTS
    StoredTokenNeverExpires
