SPECIFICATION FairSpec
CONSTANTS
    MaxQueries = 3
    MaxResults = 2
    Window = 2
INVARIANT TypeOK
INVARIANT AnswersInStep
PROPERTY QueryAnswered
PROPERTY ConsoleEnds
