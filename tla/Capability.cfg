\* One capability space that grows from three slots to four, a depth limit of
\* two, requests the type refuses and requests that a parent cannot grant.  When
\* every capability is gone no call changes anything.
SPECIFICATION Spec
CONSTANTS
  Capacity = 3
  MaxCapacity = 4
  MaxDepth = 2
  StackSize = 4
  Types = {"CHANNEL"}
  Asked = {{"READ"}, {"READ", "GRANT"}, {"READ", "GRANT", "REVOKE"}, {"READ", "EXECUTE"}}
  UsedMax = 5
  Resizers = 1
INVARIANTS TypeOK TreeExact DepthsGrow RightsAttenuated FreeListSound UsedCovers
PROPERTY RevokeExact
CHECK_DEADLOCK FALSE
