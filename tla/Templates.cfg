CONSTANTS
    Samples <- MCSamples
    Shapes <- MCShapes
    Lines <- MCLines
    NONE = NONE
SPECIFICATION Spec
INVARIANT InheritedAsDeclared
