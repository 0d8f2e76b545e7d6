\* Four keys and one Backspace of the user in an application of each kind, and one
\* Backspace eaten by the dropdown of a blind browser, one cycle of the focus in a
\* Chromium, on X11, in a page on Wayland or outside browsers on XWayland, and one letter
\* typed twice at the speed of a repeated event; no other fault: every interleaving of
\* the keys with the loopbacks, the worker and the timers.
CONSTANTS
    MaxKeys = 4
    MaxBackspaces = 1
    MaxDelete = 2
    BufferCap = 4
    Apps = {"plain", "ordered", "blind", "chromium", "page", "electron"}
    MaxEaten = 1
    MaxLost = 0
    MaxFails = 0
    MaxForced = 0
    MaxLeaves = 1
    MaxRepeats = 1
    Losses = {"cycle"}
SPECIFICATION Spec
INVARIANTS Converges NoKeyLost KeysInOrder
CHECK_DEADLOCK FALSE
