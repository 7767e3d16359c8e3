--------------------------- MODULE MCEdgeIdentity ---------------------------
(***************************************************************************)
(* EdgeIdentity on small instances, and what the documentation of the      *)
(* identity modules says of it that their code does not do.                *)
(***************************************************************************)
EXTENDS EdgeIdentity

(* identity.py:67, persist_credentials "Atomically write all four files":  *)
(* what a process loads is the certificate and the key of one issue.       *)
LoadsOneIssue == proc = "up" => creds.cert = creds.key
=============================================================================
