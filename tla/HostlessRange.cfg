SPECIFICATION Spec
CONSTANTS
    r1 = r1
    r2 = r2
    Nil = Nil
    Now = 9
    Receivers = {r1}
    Inputs <- Hostless
    BuiltinFiles <- NoFile
    Templates <- Ports
INVARIANT
    NoPanic
