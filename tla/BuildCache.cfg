SPECIFICATION Spec
CONSTANTS
    Builders = {b1, b2}
    Requests = {debug, test, remarks}
    Stamped = {debug, test}
    Early = {debug}
    Texts = {t1, t2}
    None = None
    Partial = Partial
SYMMETRY Symmetric
INVARIANTS TypeOK ManifestIsOneBuild ResultIsCurrent
