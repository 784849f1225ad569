---------------------------- MODULE OptOutContract ----------------------------
(***************************************************************************)
(* What the pipeline promises a consumer who texts STOP, seen from outside:*)
(* opting out is for good, and a lead that has opted out is not texted.    *)
(* src/services/compliance.py: "check opt-out first (immediate block)".    *)
(***************************************************************************)
CONSTANTS Leads, Nobody

VARIABLES
  stopped,  \* the leads that have opted out
  texted    \* the lead the last step sent a text to, or Nobody

Init == stopped = {} /\ texted = Nobody

Stop(l) ==
  /\ stopped' = stopped \cup {l}
  /\ texted' = Nobody

Text(l) ==
  /\ l \notin stopped
  /\ texted' = l
  /\ UNCHANGED stopped

Rest ==
  /\ texted' = Nobody
  /\ UNCHANGED stopped

Next == Rest \/ \E l \in Leads : Stop(l) \/ Text(l)

Spec == Init /\ [][Next]_<<stopped, texted>>
=============================================================================
