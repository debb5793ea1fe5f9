CONSTANTS
  Content = {c1, c2}
  Text = {short, long}
  Large = {long}
  Edit = {e1, e2}
  Indexer = {i1, i2}
  None = None
SPECIFICATION FairSpec
INVARIANT SearchIsTrue
PROPERTY EventuallyIndexed
\* the edits run out
CHECK_DEADLOCK FALSE
