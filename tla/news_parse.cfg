SPECIFICATION Spec
CONSTANTS
    NoText = ""
    Blank = " "
    Documents <- MCDocuments
INVARIANTS LinkIsCanonical FormatsAgree
PROPERTY AllOrNothing
