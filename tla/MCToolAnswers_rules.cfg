SPECIFICATION Spec
CONSTANTS
  LegacyCapacity = 2
  CurrentCapacity = 1
  RiseLimit = 2
  Published <- MCPublished
  CatalogQuestions <- MCCatalogQuestions
  CompletionQuestions <- MCCompletionQuestions
  Sizes <- MCSizes
  CountQuestions <- MCCountQuestions
  SearchQuestions <- MCSearchQuestions
  RatingQuestions <- MCRatingQuestions
  PageSize = 2
  RankQuestions <- MCRankQuestions
  RiseQuestions <- MCRiseQuestions
  BodyLimit = 3
  RawLimit = 2
  ProviderQuestions <- MCProviderQuestions
  RankToolQuestions <- MCRankToolQuestions
  ScoreToolQuestions <- MCScoreToolQuestions
  Surfaces <- MCSurfaces
  ServiceQuestions <- MCServiceQuestions
  StateQuestions <- MCStateQuestions
CHECK_DEADLOCK FALSE
INVARIANT SearchExact
INVARIANT RatingIsBest
INVARIANT RecommendationsPay
INVARIANT RanksAgree
INVARIANT NothingLost
INVARIANT QueryExact
INVARIANT NeverGuesses
INVARIANT CompletionAdds
INVARIANT ScoresArrive
INVARIANT AskedIsShown
INVARIANT CallsArrive
INVARIANT StateSurvives
