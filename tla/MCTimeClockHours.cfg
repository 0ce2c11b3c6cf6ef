SPECIFICATION Spec
CONSTANTS
    ann = ann
    bob = bob
    Employees <- MCEmployees
    Null = Null
    MaxNow = 2
    MaxRows = 3
    MaxEntries = 2
SYMMETRY EmployeeSymmetry
INVARIANT EveryRowHasItsHours
