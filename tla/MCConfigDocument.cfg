SPECIFICATION Spec
CONSTANTS
    Tab = {t1, t2}
    Freq = {f1, f2}
    Row <- MCRow
    FirstRow = 1
    FirstFreq = f1
    SuppressAt = 3
    Budgets <- FewTogether
    Most = 5
CHECK_DEADLOCK FALSE
INVARIANTS DocumentInForce
PROPERTIES DocumentSafe
SYMMETRY TabSymmetry
