SPECIFICATION MCSpec
CONSTANTS
    Proc = {p1, p2}
    None = None
    INPUT_BUF = 2
    UINT = 4
    Keys = {"d", "u", "h", "enter", "ctl", "rctl"}
    MaxRead = 2
    Inputs <- MCInputs
    MAXARGS = 3
    NSHELL = 6
    Nil = Nil
    NMEM = 6
    DIRSIZ = 2
    INTBITS = 6
    Jobs <- MCJobs
    BUFSIZE = 4
SYMMETRY Symmetry
INVARIANTS ConsoleSound ShellSound StringsAgree FiltersAgree
PROPERTIES LinesRead
