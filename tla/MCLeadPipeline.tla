--------------------------- MODULE MCLeadPipeline ---------------------------
(* LeadPipeline for TLC: one web request at a time beside the two workers.  *)
EXTENDS LeadPipeline

CONSTANTS w1, form
MCWeb == {w1}
MCSources == {form}
MCNone == {}
MCRestart == {"restart"}
MCAppointments == {[when |-> Tomorrow, windowed |-> TRUE]}
MCStatus == {"status"}
MCEscalation == {"booking_escalation"}
MCPlans == {TRUE}
MCNoPlans == {FALSE}
MCNurture == {"cold_nurture"}
MCDispatched == {"reminder"} \cup (TaskTypes \ MCNurture)
=============================================================================
