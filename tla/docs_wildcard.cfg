SPECIFICATION Spec
CONSTANTS
  Keys <- AllKeys
  MaxDests = 2
INVARIANT NoWildcardAllowed
