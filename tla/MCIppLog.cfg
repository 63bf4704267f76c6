\* Three threads that log, and open and close the traces of two devices.
CONSTANTS
    Thread = {t1, t2, t3}
    NoThread = NoThread
    Device = {scanner1, scanner2}
    NoFile = NoFile
    Word <- MCWord
    True = {"true"}
    False = {"no"}
    Expand <- MCExpand
    NoDir = NoDir
    Files <- MCFiles
    Env <- MCEnv
    NoEnv = NoEnv
    MaxCalls = 5
SYMMETRY Alike
SPECIFICATION Spec
INVARIANTS
    TypeOK
    TracesAreFramed
PROPERTIES
    SettingsDecide
