SPECIFICATION Spec
CONSTANT Null = Null
INVARIANTS StreamExact DumpExact
PROPERTIES ReadEnds
