\* The serializer, the App DB and the reader together, no other writer.
CONSTANTS
  TableName <- MCTableName
  UintMax = 255
  GroupIds <- MCGroupIds
  Ports <- MCPorts
  Instances <- MCInstances
  OtherTableKeys <- MCOtherTableKeys
  ForeignKeys = {}
  ForeignFields <- MCForeignFields
  MaxReplicas = 2
  MaxBatch = 2
  MaxEdits = 0

SPECIFICATION Spec
INVARIANT ReadBackMatchesCache
INVARIANT StoreMatchesCache
INVARIANT StoreInv
PROPERTY RecordedGroupMatchesStore
