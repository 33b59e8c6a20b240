SPECIFICATION MCFairSpec
CONSTANTS
  Jobs = {j1, j2}
  NoJob = NoJob
  MaxToken = 4
INVARIANTS
  NoLostAnswer
  ItemsOwnedOnce
  LostOnlyIfOvertaken
PROPERTIES
  AnswersInOrder
  LatestIsAnswered
