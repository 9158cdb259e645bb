\* One or two shells of a recipient, and what fails around them.
SPECIFICATION MCSpec
CONSTANTS
  ann = ann
  First = s1
  Shells = {s1, s2}
  Names = {root, ann}
  Root = root
  Owner <- OneUser
  Files = {f}
  Roles = {"Admin", "Viewer"}
  EligibleRoles = {"Viewer"}
  MaxDeliveries = 2
  MaxBlobs = 1
  MaxChanges = 1
  MaxFaults = 1
INVARIANTS TypeOK DeliveredOnce KeptApart
PROPERTIES SettledStays EventuallySettled
\* The sender and the files may have no step left, and the recipient no account.
CHECK_DEADLOCK FALSE
