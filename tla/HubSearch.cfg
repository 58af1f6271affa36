CONSTANTS
  Pcs = {"a", "b"}
  Addrs = {"x", "y"}
  Opens <- OwnSecrets
  Following = {"a"}
  Budget = 1
SPECIFICATION Spec
PROPERTIES
  AddressFollows
  ScanFinds
