CONSTANTS
  p1 = p1
  p2 = p2
  p3 = p3
  c1 = c1
  c2 = c2
  c3 = c3
  NoConfig = NoConfig
  PdEntries <- MCPdEntries
  Configs <- MCConfigs
  ValidConfigs <- MCValidConfigs
  Convertible <- MCConvertible
SPECIFICATION Spec
PROPERTY
  WritesMatchRunningPipeline
