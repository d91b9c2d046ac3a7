\* A pool of two addresses and five domains.
CONSTANTS
  NoDomain = NoDomain
  d1 = d1
  d2 = d2
  d3 = d3
  d4 = d4
  d5 = d5
  Domains <- MCDomains
  Network = 8
  NetSize = 4
  Space = 16
SPECIFICATION Spec
INVARIANTS TypeOK RestoresToHolder FreshAddressRestored AddressesUsable
CHECK_DEADLOCK FALSE
