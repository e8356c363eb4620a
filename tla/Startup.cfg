SPECIFICATION Spec
CONSTANTS
  Setups    <- MCSetups
  Requests  <- MCRequests
  Wire      <- Printed
  PortLimit = 65536
  Methods   = {"GET", "POST"}
  Types     = {"text"}
  Code <- MCCode
  Escaping <- MCEscaping
INVARIANTS TypeOK StartsAsConfigured LoggedIn Serves CalledAsDeclared FoundAsDeclared
PROPERTIES Starts
