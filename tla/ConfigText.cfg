\* Lists of up to two values of up to four and two characters; typed texts of up to five.
SPECIFICATION Spec
CONSTANTS
    Lists <- MCLists
    Typed <- MCTyped
    Width = 3
INVARIANT ReadsBack
INVARIANT NextEntryRead
INVARIANT RewriteKeeps
CHECK_DEADLOCK FALSE
