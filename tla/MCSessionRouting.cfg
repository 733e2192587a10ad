\* Two concurrent requests, a session that may be evicted, reloads, restarts.
SPECIFICATION Spec
CONSTANTS
    e1 = e1
    e2 = e2
    e3 = e3
    s1 = s1
    Session = {s1}
    r1 = r1
    r2 = r2
    Request = {r1, r2}
    Endpoint = {e1, e2, e3}
    Chain = {"smart", "work"}
    ModelOf <- Smart
    Substitutes <- Work
    Catalogue <- Catalogues
    Need = {"vision"}
    NeedsOf <- OneWithImages
    Blind = {e2}
    HostOf <- Shared
    Window = 2
    StartAt <- Depth
    None = None
CONSTRAINT OneFails
PROPERTIES PicksAreRight NothingLeftBehind
