SPECIFICATION FairSpec
CONSTANTS
    main = main
    templ = templ
    Procs = {main, templ}
    Program <- MCProgram
    NULL = NULL
INVARIANTS Pointers CallMirrorsTemplate NothingStuck
PROPERTIES LikeAStack ShutdownFinishes PauseEnds
