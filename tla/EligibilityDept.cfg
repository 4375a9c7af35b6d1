CONSTANTS
  Departments = {cs, mech}
  NoDepartment = none
  Related <- Identical
  MaxRows = 2
  Grades = {0, 7, 8}
SPECIFICATION EligibilitySpec
INVARIANT ApplyEnforcesDepartments
