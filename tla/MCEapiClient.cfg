\* Two polls of up to two commands, three passwords, and up to three changes of
\* the account or the file at any point of a poll.
SPECIFICATION Spec
CONSTANTS
  p1 = p1
  p2 = p2
  p3 = p3
  Passwords <- Three
  MaxCommands = 2
  MaxPolls = 2
  MaxChanges = 3
SYMMETRY Symmetry
INVARIANTS
  TypeOK
  NoPasswordTwice
  RotationIsSeamless
  WrongPasswordCostsOneLogin
  CountersAddUp
CHECK_DEADLOCK FALSE
