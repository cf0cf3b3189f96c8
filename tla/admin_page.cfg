SPECIFICATION FairSpec
CONSTANTS
  l1 = l1
  l2 = l2
  l3 = l3
  session = session
  other = other
  Undefined = Undefined
  Layers = {l1, l2, l3}
  Identifier <- MCIdentifier
  Answers <- MCAnswers
  Files = {f1, f2}
  Types = {projectData}
  Sessions = {s1}
  MaxRuns = 2
  MaxRefreshes = 1
  MaxJobs = 1
INVARIANTS
  OfferedLayersCanBeLoaded
  JobsArePostedAsSubmitted
PROPERTIES
  PageIsCompleted
CHECK_DEADLOCK FALSE
