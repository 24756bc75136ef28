\* Subsets of four accounts; filters and sort strings; pages of 1, 2 and 3.
CONSTANTS
    None = None
    Documents <- SomeDocuments
    Queries <- SomeQueries
    Mentions <- SomeMentions
    MaxLimit = 3
SPECIFICATION Spec
CHECK_DEADLOCK FALSE
INVARIANTS SelectsWhatIsAsked SortIsAsked PagesAreComplete
