SPECIFICATION Spec
CONSTANTS
    Packages <- One
    Fs <- Both
    Static = FALSE
    Purge = TRUE
    Opkg = TRUE
    Faults = {"cp", "modules_install"}
    MaxRev = 2
INVARIANTS TypeOK OnlyFinished ResultsCurrent
