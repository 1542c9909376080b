SPECIFICATION Spec
CONSTANTS
    Teacher = {t1, t2}
    Salesman = {u1}
    Synced = {u1}
    Client = {c1}
    MaxRecords = 1
INVARIANT TextsAreKept
