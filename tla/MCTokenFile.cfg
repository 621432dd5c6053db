\* Every configuration of the agent's credentials, the literal and the
\* "file:" forms, against a file system where "lx" and "x" both exist.
CONSTANTS
    Chars <- MCChars
    AgentIds <- MCAgentIds
    TokenValues <- MCTokenValues
    Files <- MCFiles
    None = None
SPECIFICATION Spec
INVARIANT TokenFromNamedFile
\* The process exits after group.Run returns: Exit ends every behaviour.
CHECK_DEADLOCK FALSE
