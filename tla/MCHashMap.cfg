SPECIFICATION Spec
CONSTANTS
  Key <- MCKey
  Hash <- MCHash
  Value = {v1, v2, v3}
  InitialWidth = 4
  MaxWidth = 16
  Nothing = Nothing
INVARIANTS
  TypeOK
  StoredKeysAreFound
  ProbesEnd
  CountsAreExact
  StorageHasOneOwner
PROPERTIES
  ImplementsFiniteMap
CHECK_DEADLOCK FALSE
