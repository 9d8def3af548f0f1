SPECIFICATION FairSpec
CONSTANTS
    t1 = t1
    t2 = t2
    t3 = t3
    a = a
    b = b
    e = e
    Topic <- MCTopic
    Post <- MCPost
    NoContent <- MCNoContent
    Listing <- MCListing
    Category <- MCCategory
    Categories <- MCCategories
    RateLimit = 3
    MaxFaults = 3
INVARIANTS
    TypeOK
    MarkedWasPublished
    RepublishedHasACause
PROPERTY
    AllPostsArrive
