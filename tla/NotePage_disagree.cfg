SPECIFICATION Spec
CONSTANTS
    n1 = n1
    n2 = n2
    c1 = c1
    c2 = c2
    c3 = c3
    c4 = c4
    g1 = g1
    m1 = m1
    t1 = t1
    x1 = x1
    diary = diary
    review = review
    memo = memo
    a = a
    b = b
    d1 = d1
    big = big
    Notes = {n1, n2, n3, n4}
    ContentIds = {c1, c2, c3, c4, c5, c6, c7, c8, c9}
    Goals = {g1}
    TagIds = {x1, x2}
    NoId = NoId
    Milestones = {m1}
    GoalOf <- MCGoalOf
    Tasks = {t1}
    MilestoneOf <- MCMilestoneOf
    Types = {diary, review, memo}
    FirstType = memo
    DateTypes = {diary}
    UntitledTypes = {memo}
    FieldTypes = {review}
    All = All
    Texts = {a, b}
    Empty = Empty
    Draft = Draft
    Large = {big}
    Dates = {d1, d2}
    Today = d1
    OldRows <- MCRows
    OldContents <- MCLarge
    MaxEdits = 2
    MaxRequests = 2
    MaxInFlight = 2
    MaxVisits = 2
INVARIANTS
    AllListed
    RetriedMakesOne
    CacheTrue
PROPERTIES
    UntouchedStays
CHECK_DEADLOCK FALSE
