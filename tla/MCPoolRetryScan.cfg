\* Two overlapping runs over three names, one malformed, in pages of two.  The runs
\* are not symmetric here: the fairness tells them apart.
CONSTANTS
  r1 = r1
  r2 = r2
  Run = {r1, r2}
  Keys = 3
  Malformed = {2}
  PageSize = 2
  PageLimit = 2
SPECIFICATION FairSpec
PROPERTIES WholePass EveryCandidateSettles
