----------------------------- MODULE MCLeadLock -----------------------------
(* LeadLock for TLC: three requests compete for two leads. *)
EXTENDS LeadLock

CONSTANTS p1, p2, p3, l1, l2
MCProcs == {p1, p2, p3}
MCLeads == {l1, l2}
MCFaults == {"ttl", "redis", "crash"}
=============================================================================
