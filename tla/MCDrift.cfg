\* Other writers change the App DB: adding and removing replicas and groups,
\* spelled as the serializer spells them.
CONSTANTS
  TableName <- MCTableName
  UintMax = 255
  GroupIds <- MCDriftGroupIds
  Ports <- MCDriftPorts
  Instances <- MCDriftInstances
  OtherTableKeys <- MCOtherTableKeys
  ForeignKeys = {}
  ForeignFields = {}
  MaxReplicas = 1
  MaxBatch = 2
  MaxEdits = 2

SPECIFICATION Spec
INVARIANT ReportsExactDrift
