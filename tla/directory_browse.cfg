SPECIFICATION Spec
CONSTANTS
    Resources <- MCResources
    Texts <- MCTexts
    Strays <- MCStrays
    Blank = " "
    MaxQueryLen = 5
    MaxTerms = 2
    Contains <- MCContains
INVARIANTS
    CountsHonest
    ShorterListHasPills
PROPERTIES
    PillRemovesOne
    FormsKeepTheRest
    RemovingWidens
