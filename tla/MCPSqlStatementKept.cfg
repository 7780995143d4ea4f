SPECIFICATION Spec
CONSTANT Depth = 2
INVARIANT StatementKept
