\* the snippets of hits, whose matches are to be whole words
SPECIFICATION SnippetsSpec
CONSTANT NoVersion = NoVersion
CHECK_DEADLOCK FALSE
INVARIANTS
    MatchesAreWords
