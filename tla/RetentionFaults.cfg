SPECIFICATION CSpec
CONSTANTS
  NONE = NONE
  Objects <- MCObjects
  KindOf <- MCKindOf
  Scenes <- MCFaultyScenes
  Mask <- MCFaultyMask
  Unretained <- MCUnretained
  Statusless <- MCStatusless
  ServicesOf <- MCServicesOf
  Children <- MCChildren
  Hostgroups <- MCHostgroups
  Servicegroups <- MCServicegroups
  Contactgroups <- MCContactgroups
  Lines <- MCLines
  AllowCircular = FALSE
PROPERTIES
  EverythingKept
CHECK_DEADLOCK FALSE
