SPECIFICATION Spec
CONSTANTS
  Keys <- AllKeys
  MaxDests = 3
INVARIANTS BuildIsStableSort NamedAreAccountedFor CountedHighAreExcluded
PROPERTIES AllowedStaysAllowed DriftExplainsPolicy
