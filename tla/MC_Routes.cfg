SPECIFICATION Spec
CONSTANTS
    m1 = m1
    m2 = m2
    p1 = p1
    p2 = p2
    b1 = b1
    b2 = b2
    b3 = b3
    t1 = t1
    t2 = t2
    Teachers = {t1, t2}
    Models = {m1, m2}
    Bindings = {b1, b2, b3}
    Spellings = {TRUE, FALSE}
    Providers = {p1, p2}
    ModelOf <- ModelOfBinding
    ProviderOf <- ProviderOfBinding
SYMMETRY AnyTeacher
INVARIANTS
    TypeOK
PROPERTIES
    StrandedUnchecked
