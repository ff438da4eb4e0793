SPECIFICATION Spec
CONSTANTS
  Valt = {v1}
  Drawer = {x1, x2}
  Deceased = {d1}
  Dated = {d1}
  Quantities = {1, 2}
  Task = {k1, k2}
  NoValt = NoValt
  NoDrawer = NoDrawer
  NoOne = NoOne
PROPERTY VaultsInUseStay
CHECK_DEADLOCK FALSE
