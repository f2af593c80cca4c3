\* One thread pops and removes while another pushes.
CONSTANTS
  Pushers = {t1, t2}
  Poppers = {t2}
  Removers = {t2}
  Items = {a, b, c}
  NULL = NULL
  LIST = LIST
  VersionMod = 3
SPECIFICATION Spec
SYMMETRY Symm
INVARIANT RemoveFinds
