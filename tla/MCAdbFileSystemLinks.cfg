SPECIFICATION Spec
CONSTANTS
    n1 = n1
    n2 = n2
    plain = plain
    link = link
    r1 = r1
    r2 = r2
    Names = {n1, n2}
    Contents = {plain, link}
    Absent = Absent
    NoListing = NoListing
    Requests = {r1, r2}
    Links = {link}
    LinkTo <- MCLinkTo
    Nowhere = Nowhere
    MaxLinkResolveDepth = 0
    ConnectionPoolSize = 2
    Calls <- MCCalls
    NoCall = NoCall
INVARIANT TooDeepIsRefused
