CONSTANTS
  Addresses = {n1, n2, n3}
  Nil = Nil
  Callers = {main, timer}
SPECIFICATION ListSpec
SYMMETRY Alike
INVARIANT NoDanglingNode
PROPERTY ImplementsList
CHECK_DEADLOCK FALSE
