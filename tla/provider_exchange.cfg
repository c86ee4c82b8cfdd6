CONSTANTS
  Gateways = {g1, g2}
  Handlers = {h1, h2}
  Providers = {"ZARINPAL", "ZIBAL", "SEP", "BPM", "SADAD", "PASARGAD"}
  Amounts = {20, 25}
  None = None
SPECIFICATION Spec
SYMMETRY Symmetry
INVARIANTS OneActiveGateway CreditedIsKept
PROPERTY RefusedIsNotKept
