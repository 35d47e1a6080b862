SPECIFICATION Spec
CONSTANTS
  MaxFrames = 6
  MaxChildren = 3
INVARIANTS NoProtocolError NothingLeftBehind RunningInv
