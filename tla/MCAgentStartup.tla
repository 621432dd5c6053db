---------------------------- MODULE MCAgentStartup ----------------------------
(* Strings for checking AgentStartup: token values that are a literal or   *)
(* name a file, and a file system in which a name and its TrimLeft-cut     *)
(* form both exist.                                                        *)
EXTENDS AgentStartup, TLC

MCChars == {"f", "i", "l", "e", ":", "x", "y"}

MCAgentIds == {<<>>, <<"x">>}

\* A literal token, a file that exists, a name that starts with a letter
\* of "file:", a missing file and an empty one.
MCTokenValues ==
    {<<"x">>} \cup {FilePrefix \o n : n \in {<<"x">>, <<"l", "x">>, <<"y">>, <<"y", "y">>}}

MCFiles == (<<"x">> :> <<"x", "x">>) @@ (<<"l", "x">> :> <<"x">>) @@ (<<"y", "y">> :> <<>>)
====
