SPECIFICATION Spec
CONSTANTS
    pc = pc
    pc2 = pc2
    book = book
    phone = phone
    pcA = pcA
    pcB = pcB
    pc2A = pc2A
    bookA = bookA
    bookB = bookB
    phoneA = phoneA
    Agents = {pc, pc2}
    Clients = {book, phone}
    Conns = {pcA, pcB, pc2A, bookA, bookB, phoneA}
    Dev <- MCDev
    Sids = {s1}
    Codes = {c1, c2}
    MaxClientConns = 2
    MaxOpenWindows = 1
    Scenarios <- Returning
    NoConn = NoConn
    NoDev = NoDev
    NoSid = NoSid
INVARIANTS
    WaitersTold
CHECK_DEADLOCK FALSE
