\* Four keys in an application of each kind, healthy or deaf to native deletions; one
\* deletion dropped whole or in part, one late and one empty report, one reset and one
\* loss of the focus, at any moment.
CONSTANTS
    MaxKeys = 4
    MaxDelete = 2
    Apps = {"firefox", "chromium", "wayland", "x11", "forward"}
    MaxReports = 1
    MaxDrops = 1
    Partial = TRUE
    MaxLate = 1
    MaxBlank = 1
    MaxResets = 1
    MaxLeaves = 1
SPECIFICATION FairSpec
INVARIANTS Converges BaseKept VerifySparesHealthy
PROPERTIES Settles
CHECK_DEADLOCK FALSE
