SPECIFICATION Spec
CONSTANTS
    MaxBundles = 2
    MaxPages = 2
    PagePatterns = {"/", "/app.js", "/api/"}
INVARIANT TypeOK
INVARIANT AssetsServed
INVARIANT RoutesKept
CHECK_DEADLOCK FALSE
