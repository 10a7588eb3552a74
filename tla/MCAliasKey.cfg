\* Another writer adds fields under an uppercase alias of a group's key.
CONSTANTS
  TableName <- MCTableName
  UintMax = 255
  GroupIds <- MCDriftGroupIds
  Ports <- MCDriftPorts
  Instances <- MCDriftInstances
  OtherTableKeys <- MCOtherTableKeys
  ForeignKeys <- MCAliasKeys
  ForeignFields = {}
  MaxReplicas = 1
  MaxBatch = 2
  MaxEdits = 2

SPECIFICATION Spec
INVARIANT SilentOnlyWhenInSync
