CONSTANTS
    h1 = h1
    h2 = h2
    HookNames = {h1, h2}
    Triggers = {"t1"}
    Graceful = {"g1"}
    HookMayHang = TRUE
SPECIFICATION Spec
\* The process ends: after shutdown completes, on a panic, or on an
\* unsubscribed signal.
CHECK_DEADLOCK FALSE
PROPERTY
    SignalAfterStartShutsDown
