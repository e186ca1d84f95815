CONSTANTS
    Paths = {p1}
    Buffers = {b1, b2, b3}
    Clients = {c1, c2, c3}
    Nil = Nil
SPECIFICATION Spec
INVARIANT SharedBuffer
