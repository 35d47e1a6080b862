SPECIFICATION Spec
CONSTANT N = 3
INVARIANTS NoUninitializedRead VerdictIsRule
PROPERTY GroupSettled
