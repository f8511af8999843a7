CONSTANTS
  t1 = t1
  t2 = t2
  Texts = {t1, t2}
  Intercepting = {t1}
  Scripts = {s1, s2}
  Values = {mixed, gateway}
  GatewayMode = {gateway}
  DefaultPort = 8080
  FallbackPorts = {18080}
  Ambiguous = Ambiguous
  Torn = Torn
  None = None
SPECIFICATION Spec
INVARIANTS
  ReplacedIsOff
  RunsTheStore
