CONSTANTS
    pg = pg
    rd = rd
    fn = fn
    nf = nf
    Checkers = {pg, rd, fn, nf}
    Kind <- MCKind
    Calls = {c1}
    FuncMayIgnoreCtx = TRUE
SPECIFICATION Spec
PROPERTY ReadinessAnswers
