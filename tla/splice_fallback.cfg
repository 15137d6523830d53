CONSTANT Levels <- AllLevels
SPECIFICATION Spec
INVARIANTS FallbackSameLogic
