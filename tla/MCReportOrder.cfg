\* Two groups, other writers change the table: the order of the failures.
CONSTANTS
  TableName <- MCTableName
  UintMax = 255
  GroupIds <- MCGroupIds
  Ports <- MCPorts
  Instances <- MCInstances
  OtherTableKeys <- MCOtherTableKeys
  ForeignKeys = {}
  ForeignFields = {}
  MaxReplicas = 1
  MaxBatch = 2
  MaxEdits = 2

SPECIFICATION Spec
INVARIANT ReportsInGroupOrder
