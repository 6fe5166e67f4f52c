CONSTANTS
  a1 = a1
  a2 = a2
  Agent <- MCAgent
  MaxRetry <- MCMaxRetry
  Atoi <- MCAtoi
  Refused = {}
  Servers <- MCServers
  Question <- MCQuestion
  Query = {"q1", "q2"}
  Blank = ""
  Answers <- MCAnswers
  FollowUps <- MCFollowUps
  Scores <- MCScores
SPECIFICATION NodeSpec
INVARIANTS
  FirstSeen
  OwnProvider
  SearchBudget
  ReviewsDecide
  EverySourceOnce
PROPERTY Returns
