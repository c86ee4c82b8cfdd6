CONSTANTS
  Gateways = {g1}
  Handlers = {h1}
  Providers = {"BPM"}
  Amounts = {20, 25}
  None = None
SPECIFICATION Spec
INVARIANT CreditIsOfAttempt
