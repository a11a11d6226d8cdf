\* Editors, captures and tails under the fairness of their threads.
CONSTANTS
    e1 = e1
    e2 = e2
    e3 = e3
    c1 = c1
    c2 = c2
    Editors = {e1, e2}
    RequestsOf <- AllRequests
    Texts <- SomeTexts
    MaxWrites = 2
SPECIFICATION PartSpec
\* Editors, runs and turns end.
CHECK_DEADLOCK FALSE
PROPERTIES
    EditsAreExactAndEnd
    CapturesReturnTheTruth
    TailsEnd
