\* The documented claim, checked against the code.
CONSTANTS
    Conn = {1, 2, 3}
    MaxHistory = 1
    Category = {"adv"}
    CategoryOf <- MCCategoryOf
    Outcome = {"CLOSED", "DENIED"}
    Throttled = {1}
    MaxVersion = 5
SPECIFICATION Spec
PROPERTIES
    SelectionStays
