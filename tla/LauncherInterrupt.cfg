SPECIFICATION Spec
CONSTANTS
    app = app
    helper = helper
    lib = lib
    dbg = dbg
    Modules <- LiveModules
    Target = app
    Debugger <- MCDebugger
    Preloaded <- LivePreloaded
    MaxVersion = 2
    MaxRestarts = 2
INVARIANTS
    WrapperIsNeverForgotten
