\* The same capability space.
SPECIFICATION Spec
CONSTANTS
  Capacity = 3
  MaxCapacity = 4
  MaxDepth = 2
  StackSize = 4
  Types = {"CHANNEL"}
  Asked = {{"READ"}, {"READ", "GRANT"}, {"READ", "GRANT", "REVOKE"}, {"READ", "EXECUTE"}}
  UsedMax = 5
  Resizers = 1
PROPERTY RevokedRefused
CHECK_DEADLOCK FALSE
