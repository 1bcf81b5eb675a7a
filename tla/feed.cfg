SPECIFICATION Spec
CONSTANTS
  Mailboxes = {a, b}
  Capacity = 1
  MaxChanges = 2
  MaxWire = 1
  MaxRequests = 2
SYMMETRY Symmetry
INVARIANTS
  TypeOK
  ToldMeansShown
  QuietMeansCurrent
