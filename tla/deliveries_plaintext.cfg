\* Masking raises for a file that was sent to be masked.
SPECIFICATION Spec
CONSTANTS
  ann = ann
  First = s1
  Shells = {s1}
  Names = {root, ann}
  Root = root
  Owner <- OneUser
  Files = {f}
  Roles = {"Admin", "Viewer"}
  EligibleRoles = {"Viewer"}
  MaxDeliveries = 1
  MaxBlobs = 1
  MaxChanges = 0
  MaxFaults = 0
INVARIANTS MaskedUnlessAsked
\* The sender and the files may have no step left.
CHECK_DEADLOCK FALSE
