CONSTANTS
  Updaters   = {u1, u2}
  Installers = {i1}
  Compilers  = {c1}
  MaxVersion = 2
SPECIFICATION Spec
INVARIANT RegisteredNeverCopiedOver
