SPECIFICATION Spec
CONSTANTS
    Fun = {f1, f2}
    NoFun = NoFun
    Thread = {t1}
SYMMETRY Symmetry
INVARIANTS
    CalledIsAlive
    RefsBalanced
