SPECIFICATION Spec
CONSTANTS
  ada = ada
  ben = ben
  f1 = f1
  f2 = f2
  Who <- MCWho
  NoUser = NoUser
  Stream <- MCStream
  Listed = {ada}
  File <- MCFile
  MaxRows = 3
  Date = {1}
  Day = 1
INVARIANTS
  FactsFollowStaging
  MissedOnlyIfLate
SYMMETRY Symmetry
