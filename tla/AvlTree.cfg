\* Names 1 to 7, each in two spellings that compare equal: four levels, in every
\* order of insertion, with every kind of rotation at the root and below it.
CONSTANTS
    Key = {1, 2, 3, 4, 5, 6, 7}
    Spelling = {"upper", "lower"}
    Null = Null
SPECIFICATION Spec
INVARIANTS
    TypeOK
    NamesInOrder
    SkewsAreRight
    FirstOfEachName
PROPERTIES
    DuplicatesAreRefused
