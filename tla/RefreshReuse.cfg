CONSTANTS
    Request = {r1, r2}
    Token = {t0, t1, t2}
    Family = {f1, f2}
    Legacy = {}
    NoOne = NoOne
SPECIFICATION Spec
SYMMETRY Sym
INVARIANT ReuseRevokesFamily
