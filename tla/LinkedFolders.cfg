CONSTANTS
    own = own  one = one  two = two
    Own = own
    Linked <- MCLinked
    Limit = 2
    Touched <- MCTouched
    Reviewer <- MCReviewer
    Talkative <- MCTalkative
    Nesting <- MCNesting
SPECIFICATION Spec
INVARIANTS SlotBound VerdictIsRead
PROPERTIES StopIsEarned LinksEndReviewed AnsweredInTime WorkEnds
