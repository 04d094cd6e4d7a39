CONSTANTS
  c1 = c1
  c2 = c2
  Clients = {c1, c2}
  MaxCalls = 2
  MaxMoves = 1
  Capabilities = {"drive", "pwm"}
  Methods = {"set_pulse", "set_intent", "arm"}
  Events = {"close", "lose"}
  Failed = Failed
SPECIFICATION Spec
SYMMETRY Symmetry
INVARIANTS ListenersFollow
PROPERTIES ImplementsCalls ClosedServesNoMore
CHECK_DEADLOCK FALSE
