SPECIFICATION Spec
CONSTANTS
    Teacher = {t1, t2, t3}
    Salesman = {u1, u2}
    Synced = {u1}
    Client = {c1, c2}
    MaxRecords = 2
SYMMETRY ClientSymmetry
INVARIANTS ServesCurrentColumns RecordsNameTheMoved
PROPERTIES BoundStaysBound ImplementsHandovers UpgradeKeepsTexts
