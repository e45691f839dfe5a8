\* Two users with a workspace name each, two ids, one preference beside the version.
CONSTANTS
  Users = {u1, u2}
  Names = {n1}
  Tables = {layouts}
  Ids = {i1, i2}
  Keys = {version, k1}
  Values = {current, v1}
  Contents = {c1}
  Version = version
  Current = current
  Nil = Nil
  Garbled = Garbled
SPECIFICATION Spec
SYMMETRY UserSymmetry
INVARIANTS TypeOK KeysAreUnambiguous PrivateStaysPrivate
PROPERTIES ImplementsLinks OwnRowsOnly KeysSurviveSaves PrefsChangeAsNamed
