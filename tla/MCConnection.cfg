SPECIFICATION Spec
CONSTANTS
    Conns = {a, b}
    Places = {local, remote}
    DefaultPlace = local
    Sessions = {1, 2, 3}
    Nil = Nil
INVARIANTS
    SessionsAreHeld
    ErrorIsOfLastCall
