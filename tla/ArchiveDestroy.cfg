CONSTANTS
  Stories = {s1}
  Windows = {"w1", "w2", "w3"}
  StoryOf <- MCStoryOf
  From <- MCFrom
  To <- MCTo
  Unstorable = {"w3"}
  Graphers = {"g1", "g2"}
  Streams = {"x1", "x2"}
  Scenarios <- MCRetiring
  Queries <- MCQueries
  Margin = 1
SPECIFICATION Spec
CHECK_DEADLOCK FALSE
INVARIANT DeletedAfterWritten
