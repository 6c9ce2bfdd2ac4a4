SPECIFICATION Spec
CONSTANTS
    None = None
    Client = {c1, c2}
    Namespace = {n1}
    Text = {t1}
    Rest = {p1, p2}
    MaxEntries = 2
    TTL = 1
INVARIANTS HitIsExact
