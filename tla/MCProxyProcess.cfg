\* Both server commands, set-up failures, a quit signal or an Accept error
\* at any point, and the HTTP accept loop with up to 12 temporary errors in
\* a row and 2 connections (the backoff reaches its 5 s cap).
CONSTANTS
    Kinds = {"proxy", "lb"}
    MaxStreak = 12
    MaxConns = 2
SPECIFICATION Spec
INVARIANT TypeOK
INVARIANT BackoffFollowsReference
PROPERTY ServeReturnsAfterClose
PROPERTY ProcessExits
\* The process exits: Exit, and a set-up failure's os.Exit(1), end every
\* behaviour.
CHECK_DEADLOCK FALSE
