CONSTANTS
  Devices = {g1, g2}
  MaxChanges = 2
  Nil = Nil
  g1 = g1  g2 = g2
SPECIFICATION Spec
PROPERTY ShutdownCompletes
