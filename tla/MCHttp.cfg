SPECIFICATION Spec
CONSTANTS
    q1 = q1
    q2 = q2
    q3 = q3
    name1 = name1
    name2 = name2
    a = a
    b = b
    c = c
    Request = {q1, q2, q3}
    File = {name1, name2}
    Payload <- Payloads
    Zeros = Zeros
    NoChecksum = NoChecksum
SYMMETRY Threads
INVARIANTS
    QuietFileIsWhole
    HttpInv
