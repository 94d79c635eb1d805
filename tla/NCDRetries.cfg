SPECIFICATION Spec
CONSTANTS
    main = main
    templ = templ
    Procs = {main, templ}
    Program <- MCProgram
    NULL = NULL
INVARIANTS RetryAsserts
