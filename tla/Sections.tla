------------------------------ MODULE Sections ------------------------------
(***************************************************************************)
(* The parts of the Settings page that act on services outside (the phone  *)
(* number, the CRM, the SMS registration), and the Billing page.  They use *)
(* fetch itself: no refresh of the token, no time limit, no sign-out.      *)
(***************************************************************************)
EXTENDS Views

SectionsOf(page) ==
  CASE page = "settings" -> {"phone", "crm", "registration"}
    [] page = "billing" -> {"billing"}
    [] OTHER -> {}

CRMs == {"google_sheets", "jobber", "gohighlevel"}
Connections == CRMs \X (Keys \union {NoKey})

Unproved == <<"google_sheets", NoKey>>

BillingStatuses == {"pending", "trial", "active", "past_due", "canceled"}
RegistrationStatuses == {"collecting_info", "profile_pending"}

(* has: the client's number on the server.  Without settings (their load    *)
(* failed) the section takes a client with a number for one without.        *)
PhoneSection(has) ==
  [kind |-> "section", how |-> "phone", has |-> has, known |-> FALSE, numbers |-> FALSE,
   loading |-> FALSE, busy |-> {}, sends |-> 0, errors |-> 0, failures |-> 0]

(* History: proved, what the shown result is about; excused, the key was    *)
(* changed since, or the CRM while its call was under way.                  *)
CRMSection ==
  [kind |-> "section", how |-> "crm", crmType |-> "google_sheets", apiKey |-> NoKey,
   connected |-> FALSE, loading |-> FALSE, busy |-> {},
   proved |-> Unproved, excused |-> FALSE, failures |-> 0]

(* status and typed: ten_dlc_status and whether business_type is set, here  *)
(* and on the server.                                                       *)
RegistrationSection ==
  [kind |-> "section", how |-> "registration", status |-> "collecting_info",
   typed |-> FALSE, stored |-> "collecting_info", submitted |-> FALSE,
   chosen |-> FALSE, loading |-> FALSE, busy |-> {}, sends |-> 0, errors |-> 0, failures |-> 0]

BillingSection(status) ==
  [kind |-> "section", how |-> "billing", status |-> status, known |-> "unknown",
   leaving |-> FALSE, loading |-> TRUE, busy |-> {}, failures |-> 0]

At(how) == view.kind = "section" /\ view.how = how

SectionTypeOK ==
  /\ At("phone") => /\ {view.has, view.known, view.numbers} \subseteq BOOLEAN
                    /\ view.busy \subseteq {"search", "buy"}
  /\ At("crm") => /\ <<view.crmType, view.apiKey>> \in Connections
                  /\ view.proved \in Connections /\ view.busy \subseteq {"test", "connect"}
  /\ At("registration") => {view.status, view.stored} \subseteq RegistrationStatuses
  /\ At("billing") => view.known \in BillingStatuses \union {"unknown"}

-----------------------------------------------------------------------------
MountSection(how) ==
  \/ /\ how = "phone"
     /\ \E has \in BOOLEAN : view' = PhoneSection(has)
     /\ UNCHANGED <<refresh, fetches>>
  \/ how = "crm" /\ view' = CRMSection /\ UNCHANGED <<refresh, fetches>>
  \/ how = "registration" /\ view' = RegistrationSection /\ UNCHANGED <<refresh, fetches>>
  \/ /\ how = "billing"
     /\ \E status \in BillingStatuses : view' = BillingSection(status)
     /\ RequestRaw("billing", NoKey)

(* A call of a section, with the flag its button holds.                     *)
Press(op, tag, v) ==
  /\ view' = [v EXCEPT !.busy = @ \union {op}]
  /\ RequestRaw(op, tag)
  /\ UNCHANGED session

(* Bound: one press more than failures can explain.                         *)
Counted(v) == [v EXCEPT !.sends = @ + 1]
CanPress(op) == op \notin view.busy /\ view.sends <= MaxFailures + 1

SearchNumbers ==
  /\ At("phone") /\ ~view.known /\ "search" \notin view.busy
  /\ Press("search", NoKey, [view EXCEPT !.numbers = FALSE])

BuyNumber ==
  /\ At("phone") /\ ~view.known /\ view.numbers /\ CanPress("buy")
  /\ Press("buy", NoKey, Counted(view))

Untested(v) == [v EXCEPT !.connected = FALSE, !.proved = Unproved]

(* Wrong: the result is kept for another CRM.                               *)
ChooseCRMTested(type) ==
  /\ At("crm") /\ type # view.crmType
  /\ view' = [view EXCEPT !.crmType = type, !.excused = view.busy # {}]
  /\ UNCHANGED <<session, refresh, fetches>>

(* Another CRM forgets the result, another key does not.                    *)
ChooseCRM(type) ==
  /\ At("crm") /\ type # view.crmType
  /\ view' = [Untested(view) EXCEPT !.crmType = type, !.excused = view.busy # {}]
  /\ UNCHANGED <<session, refresh, fetches>>

TypeKey(k) ==
  /\ At("crm") /\ view.crmType # "google_sheets" /\ k # view.apiKey
  /\ view' = [view EXCEPT !.apiKey = k, !.excused = TRUE]
  /\ UNCHANGED <<session, refresh, fetches>>

HasKey == At("crm") /\ view.crmType # "google_sheets" /\ view.apiKey # NoKey

TestCRM ==
  /\ HasKey /\ "test" \notin view.busy
  /\ Press("test", <<view.crmType, view.apiKey>>,
           [Untested(view) EXCEPT !.excused = view.busy # {}])

ConnectCRM ==
  /\ HasKey /\ "connect" \notin view.busy /\ view.connected
  /\ Press("connect", <<view.crmType, view.apiKey>>, view)

(* The form is there while information is needed and none is known.         *)
NeedsInfo == At("registration") /\ view.status = "collecting_info" /\ ~view.typed

ChooseBusiness ==
  /\ NeedsInfo /\ ~view.chosen
  /\ view' = [view EXCEPT !.chosen = TRUE]
  /\ UNCHANGED <<session, refresh, fetches>>

SubmitBusiness ==
  /\ NeedsInfo /\ view.chosen /\ CanPress("submit")
  /\ Press("submit", NoKey, Counted(view))

(* The plans are also offered when the status could not be loaded.          *)
PlansOffered == view.known \notin {"trial", "active"}

Subscribe ==
  /\ At("billing") /\ ~view.loading /\ ~view.leaving
  /\ PlansOffered /\ view.busy = {}
  /\ Press("checkout", NoKey, view)

(* One flag for both buttons: the portal's replaces that of a checkout.     *)
OpenPortal ==
  /\ At("billing") /\ ~view.loading /\ ~view.leaving
  /\ view.known \in {"active", "trial", "past_due"} /\ "portal" \notin view.busy
  /\ Press("portal", NoKey, [view EXCEPT !.busy = {}])

-----------------------------------------------------------------------------
(* What the server does before it answers: it buys for a client without a   *)
(* number, and takes a registration whose submission may fail further on;   *)
(* otherwise it answers with an error.                                      *)
ServeSection(f) ==
  /\ view.kind = "section" /\ f.at = "sent"
  /\ \/ /\ f.op = "buy" /\ At("phone") /\ ~view.has
        /\ view' = [view EXCEPT !.has = TRUE]
     \/ /\ f.op = "submit" /\ At("registration") /\ view.stored = "collecting_info"
        /\ \E status \in RegistrationStatuses : view' = [view EXCEPT !.stored = status]
  /\ fetches' = (fetches \ {f}) \union {[f EXCEPT !.at = "answered"]}
  /\ UNCHANGED <<session, refresh>>

Tested(f) ==
  [view EXCEPT !.connected = TRUE, !.proved = f.tag]

SectionAnswer(f) ==
  /\ view.kind = "section"
  /\ \/ /\ f.op = "search" /\ f.at = "sent"
        /\ view' = [view EXCEPT !.numbers = TRUE, !.busy = @ \ {"search"}]
     \/ /\ f.op = "buy" /\ f.at = "answered"
        /\ view' = [view EXCEPT !.known = TRUE, !.busy = @ \ {"buy"}]
     \/ /\ f.op = "test" /\ f.at = "sent"
        /\ \/ view' = [Tested(f) EXCEPT !.busy = @ \ {"test"}]
           \/ view' = [Untested(view) EXCEPT !.busy = @ \ {"test"}]
     \/ /\ f.op = "connect" /\ f.at = "sent"
        /\ view' = [Tested(f) EXCEPT !.busy = @ \ {"connect"}]
     \/ /\ \/ f.op = "buy" /\ f.at = "sent" /\ view.has
           \/ f.op = "submit" /\ f.at = "sent" /\ view.stored # "collecting_info"
        /\ view' = [view EXCEPT !.busy = @ \ {f.op}, !.errors = @ + 1]
     \/ /\ f.op = "submit" /\ f.at = "answered"
        /\ view' = [view EXCEPT !.status = view.stored, !.typed = TRUE,
                                !.submitted = TRUE, !.busy = {}]
     \/ /\ f.op = "billing" /\ f.at = "sent"
        /\ view' = [view EXCEPT !.known = view.status, !.loading = FALSE]
     \/ /\ f.op \in {"checkout", "portal"} /\ f.at = "sent"
        /\ view' = [view EXCEPT !.leaving = TRUE, !.busy = {}]
  /\ Answered(f)
  /\ UNCHANGED <<session, refresh>>

SectionFailed(f) ==
  CASE f.op \in {"connect", "test"} -> [Untested(view) EXCEPT !.busy = @ \ {f.op}]
    [] f.op = "search" -> [view EXCEPT !.busy = @ \ {"search"}]
    [] f.op \in {"buy", "submit"} -> [view EXCEPT !.busy = @ \ {f.op}, !.errors = @ + 1]
    [] f.op = "billing" -> [view EXCEPT !.loading = FALSE]
    [] f.op \in {"checkout", "portal"} -> [view EXCEPT !.busy = {}]
    [] OTHER -> view

UserSectionStep ==
  \/ SearchNumbers \/ BuyNumber \/ TestCRM \/ ConnectCRM
  \/ \E type \in CRMs : ChooseCRM(type)
  \/ \E k \in Keys : TypeKey(k)
  \/ ChooseBusiness \/ SubmitBusiness \/ Subscribe \/ OpenPortal

-----------------------------------------------------------------------------
(* Connect is offered for the CRM and the key that passed the test, unless  *)
(* the key was edited since or the CRM chosen anew during the test.         *)
ConnectIsTested ==
  At("crm") /\ view.connected /\ ~view.excused
    => view.proved = <<view.crmType, view.apiKey>>
=============================================================================
