SPECIFICATION FairSpec

CONSTANTS
    Identity = {"dave"}
    Thread = {1, 2}
    Answers <- LLMAnswers

INVARIANT ReviewsAreSafe

PROPERTY RequestsAreAnswered
