SPECIFICATION Spec
CONSTANTS
  Hosts <- MCHosts
  TypedLists <- MCTypedLists
  SystemSerials <- MCSystemSerials
  Requested <- MCRequested
  MaxChanges = 2
INVARIANTS
  ListAgreesWithGuard
PROPERTIES
  StartsOnlyOnFreeDrives
CHECK_DEADLOCK FALSE
