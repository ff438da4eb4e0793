SPECIFICATION Spec
CONSTANTS
  Valt = {v1}
  Drawer = {x1, x2}
  Deceased = {d1, d2}
  Dated = {d1}
  Quantities = {1, 2}
  Task = {k1, k2, k3, k4}
  NoValt = NoValt
  NoDrawer = NoDrawer
  NoOne = NoOne
SYMMETRY Interchangeable
INVARIANT TypeOK FreedByExhumation ExhumationsOnFile NotedOnce
CHECK_DEADLOCK FALSE
