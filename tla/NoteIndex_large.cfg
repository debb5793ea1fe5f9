CONSTANTS
  Content = {c1}
  Text = {short, long}
  Large = {long}
  Edit = {e1, e2}
  Indexer = {i1}
  None = None
SPECIFICATION Spec
INVARIANT LargeUpdateShown
CHECK_DEADLOCK FALSE
