SPECIFICATION Spec
INVARIANT HandedOverWalled
