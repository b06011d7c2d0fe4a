\* A client that loads, configures, moves and destroys.
SPECIFICATION Spec
CONSTANTS
  nullName = nullName
  missing = missing
  plain = plain
  outdated = outdated
  bare = bare
  good = good
  letter = letter
  comma = comma
  equals = equals
  vm1 = vm1
  vm2 = vm2
  o1 = o1
  o2 = o2
  r1 = r1
  r2 = r2
  b1 = b1
  Filename <- MCFilename
  Valid = {missing, plain, outdated, bare, good}
  Openable = {plain, outdated, bare, good}
  Creator = {outdated, bare, good}
  Compatible = {bare, good}
  Configurable = {good}
  Instance = {vm1, vm2}
  Char = {letter, comma, equals}
  Comma = comma
  Equals = equals
  OptionText <- MCOptionText
  OptionLists <- MCOptionLists
  MaxOpens = 1
  VMObject = {o1, o2}
  ResultObject = {r1, r2}
  Memory = {b1}
SYMMETRY Symmetry
INVARIANT TypeOK
INVARIANT InstancesOwnedOnce
INVARIANT ResultsOwnedOnce
INVARIANT CodeStaysLoaded
INVARIANT MessageOfLastError
PROPERTY OptionsAsWritten
