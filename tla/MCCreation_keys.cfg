SPECIFICATION CreationSpec
CONSTANTS
    r1 = r1
    r2 = r2
    Requests = {r1, r2}
    Keys = {"k1", "k2"}
    NoKey = "none"
    Bodies = {"named", "plain", "symbols"}
    Slugs = {"tea", "tea-x", "tea-y"}
    SlugOf <- MCSlugOf
    WithSlug = {"named"}
    EmptySlug = ""
SYMMETRY MCRequests
INVARIANTS
    OnceUnlessRaced
    RecordedIsComplete
