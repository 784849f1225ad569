---------------------------- MODULE MCOnboarding ----------------------------
(* One browser, one client.  The user changes two settings at most: enough  *)
(* to pass steps 1 and 2, or to change one, come back and change it again.  *)
EXTENDS Onboarding

MCEdited == {"after", "services", "agent"}
=============================================================================
