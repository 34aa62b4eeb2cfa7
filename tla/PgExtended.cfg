CONSTANTS
    Names = {n1}
    Portals = {p1, p2}
    Objects = {o1, o2}
    Types = {int, numeric}
    NoObject = NoObject
    NoReply = NoReply
    NoType = NoType
    NoCols = NoCols
SYMMETRY Symmetric
SPECIFICATION Spec
INVARIANTS TypeOK RowsFitDescription DescribedOnce NoRowsAfterError
