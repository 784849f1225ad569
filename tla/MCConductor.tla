---------------------------- MODULE MCConductor ----------------------------
(* Conductor for TLC: two requests at a time. *)
EXTENDS Conductor, TLC

CONSTANTS w1, w2, form
MCWeb == {w1, w2}
MCSources == {form}
MCFaults == {"ttl", "redis", "crash"}
Sym == Permutations(MCWeb)
MCNoFaults == {}
MCLiveFaults == {"ttl", "carrier"}
MCAppointments == {[when |-> Tomorrow, windowed |-> TRUE]}
MCDashboard == {"status", "reply"}
MCNoDashboard == {}
MCArchive == {"archive"}
=============================================================================
