SPECIFICATION Spec
CONSTANTS
  Calls <- MCCalls
  MaxLength = 3
INVARIANTS SlotsMatchChildren ResultIsReference NoNeedlessCallback
PROPERTY NativeReturns
