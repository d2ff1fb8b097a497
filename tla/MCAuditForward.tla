--------------------------- MODULE MCAuditForward ----------------------------
(* The forwarder of a host with three events, a spool of two and the second  *)
(* event one that CMIS refuses.                                             *)
EXTENDS AuditForward

RefusedEvents == {2}
=============================================================================
