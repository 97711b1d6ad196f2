SPECIFICATION Spec
CONSTANT Keys = {0, 1, 2, 3, 4, 5, 6, 7, 8}
INVARIANTS SearchTree PointersValid FewRounds
