---------------------------- MODULE AgentStartup ----------------------------
(***************************************************************************)
(* The agent process from its command line to its exit (pkg/agent/quic.go *)
(* RunAgentClient, addAgentClient, getAuthenticator, getJWTToken,          *)
(* NewQuickClient; cmd/root.go runAgent): a run group of two actors, the   *)
(* quit-signal actor (pkg/util/signal.go) and the agent actor, which       *)
(* builds its authenticator from the configuration and then stays in       *)
(* keepConnected until its context is cancelled.                           *)
(*                                                                         *)
(* The run group (oklog/run) starts both actors, waits for the first to    *)
(* return, then runs every actor's interrupt once, waits for the others    *)
(* and returns the first one's error.                                      *)
(*                                                                         *)
(* Strings that the properties tell apart (the --auth.jwt.token value, the *)
(* file names and their contents) are sequences of characters of a small   *)
(* alphabet; the authenticator keeps the string it will send.  The         *)
(* connection loop itself is AgentClient's.                                *)
(***************************************************************************)
EXTENDS Sequences, SequencesExt

CONSTANTS
    Chars,          \* the characters the strings are made of
    AgentIds,       \* values of --auth.noauth.agent-id (may be empty)
    TokenValues,    \* values of --auth.jwt.token
    Files,          \* the agent's file system: file name -> contents
    None

VARIABLES
    conf,           \* the parsed configuration: auth type and values
    apc,            \* the agent actor: "start", "client", "keep", "returned"
    spc,            \* the quit-signal actor: "wait", "returned"
    authn,          \* the authenticator's string (token or agent id), or None
    err,            \* the agent actor's error: None or the kind of failure
    first,          \* the actor that returned first: None, "agent", "signal"
    ctxDone,        \* the agent actor's context is cancelled
    quit,           \* the signal actor's quit channel is closed
    status          \* the exit status of the process, or None while running

vars == <<conf, apc, spc, authn, err, first, ctxDone, quit, status>>

Strings == Seq(Chars)

\* config.TokenFromFilePrefix
FilePrefix == <<"f", "i", "l", "e", ":">>

\* The configurations kong accepts: the auth type is an enum.
Configs ==
    [type : {"noauth"}, agentId : AgentIds, token : {<<>>}]
    \cup [type : {"jwt"}, agentId : {<<>>}, token : TokenValues]

Errors == {"empty_agent_id", "read_file", "empty_token", "tls"}

-----------------------------------------------------------------------------
(* String helpers                                                          *)

\* strings.TrimLeft(s, cutset): drop every leading character that occurs
\* anywhere in cutset.
RECURSIVE TrimLeft(_, _)
TrimLeft(s, cutset) ==
    IF s # <<>> /\ Head(s) \in ToSet(cutset) THEN TrimLeft(Tail(s), cutset) ELSE s

\* strings.TrimPrefix(s, prefix), the reference: drop prefix once.
TrimPrefix(s, prefix) ==
    IF IsPrefix(prefix, s) THEN SubSeq(s, Len(prefix) + 1, Len(s)) ELSE s

\* os.ReadFile: the contents, or None when the file does not exist.
ReadFile(name) == IF name \in DOMAIN Files THEN Files[name] ELSE None

-----------------------------------------------------------------------------
(* getAuthenticator                                                        *)

\* getJWTToken: a "file:" value names a file to read, any other value is
\* the token itself.  The file name is cut from the value with TrimLeft.
GetJWTToken(c) ==
    IF IsPrefix(FilePrefix, c.token)
    THEN ReadFile(TrimLeft(c.token, FilePrefix))
    ELSE c.token

\* getAuthenticator with NewNoAuthAuthenticator and NewJWTAuthenticator:
\* the string the authenticator sends, or the error that ends the actor.
GetAuthenticator(c) ==
    IF c.type = "noauth"
    THEN IF c.agentId = <<>> THEN "empty_agent_id" ELSE c.agentId
    ELSE LET tok == GetJWTToken(c) IN
         IF tok = None THEN "read_file"
         ELSE IF tok = <<>> THEN "empty_token" ELSE tok

\* The same with the file name cut by TrimPrefix (spec: prefix stripping).
RefAuthenticator(c) ==
    IF c.type = "jwt" /\ IsPrefix(FilePrefix, c.token)
    THEN LET tok == ReadFile(TrimPrefix(c.token, FilePrefix)) IN
         IF tok = None THEN "read_file"
         ELSE IF tok = <<>> THEN "empty_token" ELSE tok
    ELSE GetAuthenticator(c)

-----------------------------------------------------------------------------

TypeOK ==
    /\ conf \in Configs
    /\ apc \in {"start", "client", "keep", "returned"}
    /\ spc \in {"wait", "returned"}
    /\ authn \in Strings \cup {None}
    /\ err \in Errors \cup {None}
    /\ first \in {None, "agent", "signal"}
    /\ ctxDone \in BOOLEAN /\ quit \in BOOLEAN
    /\ status \in {None, 0, 1}

\* kong has parsed the command line; group.Run starts both actors.
Init ==
    /\ conf \in Configs
    /\ apc = "start" /\ spc = "wait"
    /\ authn = None /\ err = None /\ first = None
    /\ ctxDone = FALSE /\ quit = FALSE
    /\ status = None

\* The actor a returns; the first to do so is remembered by the group.
Returned(a) == first' = IF first = None THEN a ELSE first

\* The agent actor runs getAuthenticator: an error returns it.
AgentAuthenticator ==
    LET out == GetAuthenticator(conf) IN
    /\ apc = "start"
    /\ IF out \in Errors
       THEN /\ apc' = "returned" /\ err' = out /\ Returned("agent")
            /\ UNCHANGED authn
       ELSE /\ apc' = "client" /\ authn' = out
            /\ UNCHANGED <<err, first>>
    /\ UNCHANGED <<conf, spc, ctxDone, quit, status>>

\* NewQuickClient loads the TLS client configuration, which may fail (a
\* missing or unreadable certificate file); then keepConnected.
AgentClient ==
    /\ apc = "client"
    /\ \/ apc' = "keep" /\ UNCHANGED <<err, first>>
       \/ apc' = "returned" /\ err' = "tls" /\ Returned("agent")
    /\ UNCHANGED <<conf, spc, authn, ctxDone, quit, status>>

\* keepConnected's select (and connectForHttpProxy's calls, which take the
\* same context) sees the cancelled context: the actor returns nil.
AgentDone ==
    /\ apc = "keep" /\ ctxDone
    /\ apc' = "returned" /\ Returned("agent")
    /\ UNCHANGED <<conf, spc, authn, err, ctxDone, quit, status>>

\* SIGINT or SIGTERM arrives: the signal actor returns nil (its select
\* may take the signal even once quit is closed).
Signal ==
    /\ spc = "wait"
    /\ spc' = "returned" /\ Returned("signal")
    /\ UNCHANGED <<conf, apc, authn, err, ctxDone, quit, status>>

\* The group runs the interrupts once the first actor has returned: the
\* agent's cancel() and the signal actor's close(quit).
Interrupt ==
    /\ first # None /\ ~quit
    /\ ctxDone' = TRUE /\ quit' = TRUE
    /\ UNCHANGED <<conf, apc, spc, authn, err, first, status>>

\* The signal actor sees quit closed and returns nil.
SignalQuit ==
    /\ spc = "wait" /\ quit
    /\ spc' = "returned"
    /\ UNCHANGED <<conf, apc, authn, err, first, ctxDone, quit, status>>

\* group.Run returns; RunAgentClient logs its error and returns nil, so
\* runAgent's FatalIfErrorf(nil) lets the process end with status 0.
Exit ==
    /\ apc = "returned" /\ spc = "returned" /\ status = None
    /\ status' = 0
    /\ UNCHANGED <<conf, apc, spc, authn, err, first, ctxDone, quit>>

Next ==
    \/ AgentAuthenticator \/ AgentClient \/ AgentDone
    \/ Signal \/ Interrupt \/ SignalQuit \/ Exit

Spec == Init /\ [][Next]_vars

-----------------------------------------------------------------------------
(* Properties                                                              *)

\* getJWTToken (quic.go:76-82), as spec.md section 9 requires: with
\* --auth.jwt.token=file:<name>, the agent sends the contents of the file
\* <name>, and fails to start only when that file cannot be read.
TokenFromNamedFile ==
    apc # "start" => (IF authn # None THEN authn ELSE err) = RefAuthenticator(conf)

====
