SPECIFICATION Spec
CONSTANTS
  NONE = NONE
  Families <- MCFamilies
INVARIANTS
  GroupsAsDeclared
  LoopsRefused
  ServicesWhereAssigned
  EscalationsWhereMeant
  DependenciesAsMeant
  EscalationsKeepContacts
