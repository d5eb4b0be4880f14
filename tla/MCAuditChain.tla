---- MODULE MCAuditChain ----
(***************************************************************************)
(* TLC instance of AuditChain.                                             *)
(***************************************************************************)
EXTENDS AuditChain, TLC

====
