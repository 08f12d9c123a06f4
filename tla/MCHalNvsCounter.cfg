SPECIFICATION FairSpec
CONSTANTS
  Key = {k1, k2}
  Value = {v1, v2}
  Absent = Absent
  MaxCommits = 2
INVARIANT CounterCoversCommits
