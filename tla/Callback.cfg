CONSTANTS
  c1 = c1
  c2 = c2
  f1 = f1
  f2 = f2
  f3 = f3
  f4 = f4
  Codes = {c1, c2}
  Funs = {f1, f2, f3, f4}
  MaxHook = 3
  MaxDelete = 2
SPECIFICATION Spec
SYMMETRY Sym
INVARIANTS TypeOK HookedOnce CalledOnce
