SPECIFICATION Spec
CONSTANTS
    Names = {n1}
    Contents = {v1, v2}
    Absent = Absent
    NoListing = NoListing
    Readers = {r1, r2}
    Writers = {w1}
    Ttl = 1
    MaxRemovals = 2
INVARIANT WriteInvalidates
