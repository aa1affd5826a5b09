SPECIFICATION Spec
CONSTANTS
  MaxCCIPDepth = 2
  Services <- AllServices
  QTypes = {"TXT", "TYPE262", "ANY"}
  Fields = {"a", "txt", "wallet", "cname", "zone"}
  MaxFields = 2
  MaxChanges = 1
  MaxGateways = 2
  MaxLate = 2
PROPERTIES  CallsEnd
