------------------------------ MODULE MCAuthFlow ------------------------------
(* Model values and token tables for checking AuthFlow with TLC.            *)
EXTENDS AuthFlow, TLC

CONSTANTS t1, t2, t3, t4, a1

\* Lengths of at most 3 bytes, below the 4-byte MaxLen, and t4 of 6 bytes:
\* over the bound, but within what the length field can count.
ShortLens == (t1 :> 2) @@ (t2 :> 3) @@ (t3 :> 1) @@ (t4 :> 6)

\* t1 and t4 valid agent tokens of a1, t2 a client token, t3 one with an
\* empty agent id.
JwtClaims == (t1 :> [agent |-> a1, role |-> "agent"])
          @@ (t2 :> [agent |-> a1, role |-> "client"])
          @@ (t3 :> [agent |-> "", role |-> "agent"])
          @@ (t4 :> [agent |-> a1, role |-> "agent"])
=============================================================================
