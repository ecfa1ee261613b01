SPECIFICATION Spec
INVARIANTS MarkerMeansWhole MarkedMeansWalled TokenMeansAsked ClampedWhenUp UsableHasMount
