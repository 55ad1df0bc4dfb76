CONSTANTS
  Updaters   = {u1}
  Installers = {i1, i2}
  Compilers  = {c1}
  MaxVersion = 3
SPECIFICATION Spec
SYMMETRY Symmetry
INVARIANTS CompilerSeesOneVersion
PROPERTIES NeverDowngrades
