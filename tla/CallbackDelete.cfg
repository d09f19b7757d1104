CONSTANTS
  c1 = c1
  f1 = f1
  f2 = f2
  f3 = f3
  Codes = {c1}
  Funs = {f1, f2, f3}
  MaxHook = 3
  MaxDelete = 2
SPECIFICATION Spec
PROPERTIES DeletesItsOwn
