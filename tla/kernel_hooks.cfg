CONSTANT Levels <- AllLevels
SPECIFICATION Spec
INVARIANTS WriteSawEachClear ProfilesOrdered CopiesOrdered
PROPERTIES TighteningNeverGrants
