SPECIFICATION FairSpec
CONSTANTS
  w1 = w1
  w2 = w2
  w3 = w3
  Work = {w1, w2}
  MaxPosts = 3
PROPERTIES
  CompleteIsDequeued
