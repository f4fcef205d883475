SPECIFICATION Spec
CONSTANTS
    Columns = {c1, c2}
    Values = {yes, no}
    Workers = {w1, w2, w3}
    Nil = Nil
SYMMETRY MCSymmetry
PROPERTY
    ColumnsAreAtomic
