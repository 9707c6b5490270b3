CONSTANTS
  Creds = {1, 2, 3}
  Challenges = {"h1", "h2"}
  Answers <- MCAnswers
  MaxPending = 2
SPECIFICATION FairSpec
INVARIANTS
  ChallengeAnsweredOnce
  WaitingIsAnswerable
  StatusBacked
PROPERTY
  SyncEnds
