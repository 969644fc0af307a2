\* Three connections of one category, a history of one; the first is throttled.
CONSTANTS
    Conn = {1, 2, 3}
    MaxHistory = 1
    Category = {"adv"}
    CategoryOf <- MCCategoryOf
    Outcome = {"CLOSED", "DENIED"}
    Throttled = {1}
    MaxVersion = 5
SPECIFICATION Spec
PROPERTIES
    RowsFollowRecords
    RowsNeverMove
    SelectionKept
    TotalsCoverActive
