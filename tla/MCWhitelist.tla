---------------------------- MODULE MCWhitelist ----------------------------
(* Two DNS labels give names of one and two labels, so zones have proper  *)
(* subdomains; two port numbers give ranges that hold one, both or none.   *)
EXTENDS Whitelist

CONSTANTS l1, l2

MCLabels == {l1, l2}
MCPorts == {80, 443}
====
