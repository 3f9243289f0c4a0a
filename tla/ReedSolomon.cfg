\* The field of the program; the run ends when the blocks are restored.
SPECIFICATION Spec
CONSTANTS
  GF_BITS = 8
  Pp = {0, 2, 3, 4, 8}
  Shape <- MCShape
  Content <- MCContent
INVARIANTS
  Reconstructs
  NeverSingular
  TablesMultiply
CHECK_DEADLOCK FALSE
