-------------------------------- MODULE App --------------------------------
(***************************************************************************)
(* The routes of the dashboard's single-page application: which page is    *)
(* shown for the path in the address bar.  It depends on two things that   *)
(* are read once, when the application is loaded: the authentication       *)
(* snapshot of AuthContext, and the onboarding status that only the signup *)
(* form writes to localStorage.                                            *)
(***************************************************************************)
EXTENDS Integers, FiniteSets

StaticPages == {"privacy", "terms", "about", "contact"}

PublicPages ==
  {"landing", "login", "signup", "onboarding", "quick-setup", "forgot-password",
   "reset-password", "verify-email"} \union StaticPages

AdminPages ==
  {"command-center", "overview", "clients", "client", "admin-leads", "revenue",
   "outreach", "sales-engine", "campaigns", "campaign", "inbox", "insights",
   "templates", "analytics", "agents"}

SetupPages == {"onboarding", "quick-setup", "verify-email", "billing"} \union StaticPages

ClientPages ==
  {"dashboard", "leads", "conversations", "bookings", "reports", "roi",
   "compliance", "settings", "billing"}

(* The snapshot: who is signed in.  Roles is what App distinguishes.        *)
Roles == {"nobody", "admin", "client"}

Routed(pages, other, asked) == IF asked \in pages THEN asked ELSE other

SignedOutShows(asked) == Routed(PublicPages, "landing", asked)

AdminShows(asked) ==
  Routed(AdminPages \union StaticPages, "command-center", asked)

UnfinishedShows(asked) == Routed(SetupPages, "onboarding", asked)

ClientShows(asked) ==
  Routed(ClientPages \union {"onboarding", "verify-email", "privacy", "terms"},
         "dashboard", asked)

(* The page App renders.  unfinished: ll_onboarding_status is set and is    *)
(* not 'live'.                                                              *)
Shows(role, unfinished, asked) ==
  CASE role = "nobody" -> SignedOutShows(asked)
    [] role = "admin" -> AdminShows(asked)
    [] role = "client" /\ unfinished -> UnfinishedShows(asked)
    [] OTHER -> ClientShows(asked)
=============================================================================
