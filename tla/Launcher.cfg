SPECIFICATION Spec
CONSTANTS
    app = app
    helper = helper
    lib = lib
    dbg = dbg
    Modules <- MCModules
    Target = app
    Debugger <- MCDebugger
    Preloaded <- MCPreloaded
    MaxVersion = 2
    MaxRestarts = 2
INVARIANTS
    TypeOK
    HandshakeMatchesChannel
    RestartRunsFreshSources
    DebuggerNeverEvicted
    DeadTracingIsAnnounced
    ReplGivenBack
PROPERTIES
    ImplementsSession
    RestartIsAnswered
    EndsWithoutClient
