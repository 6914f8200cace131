SPECIFICATION Spec
CONSTANTS
    Req = {r1, r2, r3}
    Origin = {o1, o2}
    TlsOrigin = {o1}
    Conn = {c1, c2, c3}
    Clients <- MCClients
    None = None
INVARIANTS  OwnAnswer
SYMMETRY Sym
