CONSTANTS
    Programs = {"chrome", "electron", "none"}
    Platforms = {"wayland", "x11"}
    CapSets = {"bare", "weak", "strong"}
    Kinds = {"editor", "widget", "grid", "sheets", "ide-code"}
    Settings <- MCSettings
    Choices = {"Uinput", "Auto"}
    MaxChanges = 2
SPECIFICATION Spec
INVARIANTS WordTransport CellsAreInjected
PROPERTIES StickyEarned
