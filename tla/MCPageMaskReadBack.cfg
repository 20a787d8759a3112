SPECIFICATION WordsSpec
CONSTANT EntryLos <- MCEntryLos
INVARIANT PageMaskReadBack
