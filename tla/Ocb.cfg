SPECIFICATION Spec
CONSTANTS
    BlockSize = 2
    Poly <- MCPoly
    MaxLen = 6
INVARIANTS
    RoundTrip
    TagsAgree
    DamageDetected
