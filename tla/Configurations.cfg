SPECIFICATION Spec
CONSTANTS
    r1 = r1
    r2 = r2
    Nil = Nil
    Now = 9
    Receivers = {r1, r2}
    Inputs <- AnyAndProfiled
    BuiltinFiles <- Files
    Templates <- Ports
INVARIANTS
    TypeOK
    NoPanic
    InstancesCovered
    SeverityShares
    CurveDefined
    SameVerdict
PROPERTY
    CreatedUnchanged
