SPECIFICATION CSpec
CONSTANTS
  NONE = NONE
  Objects <- MCObjects
  KindOf <- MCKindOf
  Scenes <- MCScenes
  Mask <- MCMask
  Unretained <- MCUnretained
  Statusless <- MCStatusless
  ServicesOf <- MCServicesOf
  Children <- MCChildren
  Hostgroups <- MCHostgroups
  Servicegroups <- MCServicegroups
  Contactgroups <- MCContactgroups
  Lines <- MCLines
  AllowCircular = FALSE
INVARIANTS
  StashIsConfigured
  ParsedAsWritten
PROPERTIES
  RetentionWins
CHECK_DEADLOCK FALSE
