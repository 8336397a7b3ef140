\* One object, two versions of it and its deletion, two workers, two failing handler calls.
SPECIFICATION FairSpec
CONSTANTS
  k1 = k1
  w1 = w1
  w2 = w2
  NoWorker = NoWorker
  Keys = {k1}
  Workers = {w1, w2}
  MaxVersion = 2
  MaxFailures = 2
  MaxNotices = 2
INVARIANTS
  Serialised
  NeverBackwards
  NothingForgotten
PROPERTIES
  EveryVersionHandled
\* Once the object is deleted and reported the controller waits for nothing.
CHECK_DEADLOCK FALSE
