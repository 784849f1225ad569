------------------------------- MODULE Views -------------------------------
(***************************************************************************)
(* The pages and panels that show what the API answers and write nothing.  *)
(* All follow one scheme (fetch on mount and on every change of selection, *)
(* put the answer in state) and differ in its discipline: whether they     *)
(* poll, drop late answers, hide their controls while loading, offer to    *)
(* retry.  The selection is a period, a filter, a search, a page of a      *)
(* list, a metric: one of Keys.                                            *)
(***************************************************************************)
EXTENDS ApiClient, FiniteSetsExt

CONSTANTS
  Keys,         \* bound: selections told apart
  FirstKey,     \* the one a page starts with
  CustomKey,    \* the custom range of Reports
  NoKey,        \* nothing selected, nothing shown
  MaxFailures,  \* bound: failed fetches of one mounted view
  MaxFetches    \* bound: fetches of one view under way

ASSUME KeysAssumption ==
  /\ {FirstKey, CustomKey} \subseteq Keys /\ NoKey \notin Keys
  /\ MaxFailures \in Nat /\ MaxFetches \in Nat \ {0}

VARIABLE view  \* the state of the mounted component

viewVars == <<session, refresh, fetches, view>>

-----------------------------------------------------------------------------
(* The disciplines.  selects: the user can change the selection; custom:    *)
(* one selection waits for Apply; opens: nothing is selected at first and   *)
(* the selection can be closed; polls: setInterval; drops: answers to an    *)
(* earlier selection are dropped; hides: when a skeleton replaces the       *)
(* controls; blanks: when the error replaces them; retry: the error comes   *)
(* with a button; reloads: a new selection sets loading again; awaits: there*)
(* is no flag, the skeleton stands for data that is not there, and only an  *)
(* answer takes it away.                                                    *)
Plain == [selects |-> FALSE, custom |-> FALSE, opens |-> FALSE, polls |-> FALSE,
          drops |-> FALSE, hides |-> "never", blanks |-> "never",
          retry |-> FALSE, reloads |-> TRUE, awaits |-> FALSE]

Dashboard ==
  [Plain EXCEPT !.selects = TRUE, !.polls = TRUE, !.hides = "empty", !.retry = TRUE]
LeadFeed == [Plain EXCEPT !.selects = TRUE, !.polls = TRUE]
Bookings == [Plain EXCEPT !.hides = "loading", !.retry = TRUE, !.reloads = FALSE]
Reports ==
  [Plain EXCEPT !.selects = TRUE, !.custom = TRUE, !.hides = "empty", !.retry = TRUE]
ROI == [Plain EXCEPT !.selects = TRUE, !.hides = "empty", !.blanks = "empty"]
Compliance == [Plain EXCEPT !.hides = "loading", !.retry = TRUE, !.reloads = FALSE]
MetricDetails == [Plain EXCEPT !.selects = TRUE, !.opens = TRUE]
AdminCommandCenter == [Plain EXCEPT !.polls = TRUE, !.hides = "loading", !.reloads = FALSE]
AdminOverview == [Plain EXCEPT !.polls = TRUE, !.hides = "loading", !.retry = TRUE]
AdminLeads == [Plain EXCEPT !.selects = TRUE]
AdminRevenue == [Plain EXCEPT !.selects = TRUE, !.hides = "loading"]
AdminInsights == [Plain EXCEPT !.hides = "loading", !.retry = TRUE, !.reloads = FALSE]
AdminAnalytics == [Plain EXCEPT !.hides = "loading", !.retry = TRUE]
AgentFleet == [Plain EXCEPT !.polls = TRUE, !.retry = TRUE, !.reloads = FALSE]
SystemMap == [Plain EXCEPT !.polls = TRUE, !.reloads = FALSE]
TaskQueueMonitor == [Plain EXCEPT !.selects = TRUE, !.polls = TRUE]
CostDashboard ==
  [Plain EXCEPT !.selects = TRUE, !.hides = "loading", !.blanks = "failed", !.retry = TRUE]
ActivityTimeline ==
  [Plain EXCEPT !.selects = TRUE, !.polls = TRUE, !.drops = TRUE, !.hides = "loading",
                !.blanks = "failed", !.retry = TRUE, !.reloads = FALSE]
AgentDetailPanel == [Plain EXCEPT !.retry = TRUE]
AdminClientDetail == [Plain EXCEPT !.hides = "loading", !.blanks = "empty", !.reloads = FALSE]
CampaignProspects == [Plain EXCEPT !.selects = TRUE, !.reloads = FALSE]
CampaignAnalytics ==
  [Plain EXCEPT !.hides = "loading", !.reloads = FALSE, !.awaits = TRUE]
WorkerStatus ==
  [Plain EXCEPT !.hides = "loading", !.reloads = FALSE, !.awaits = TRUE]

(* The views of each page; a page's tabs and panels are views of their own. *)
AgentViews ==
  {AgentFleet, SystemMap, TaskQueueMonitor, CostDashboard, ActivityTimeline,
   AgentDetailPanel}

ViewsOf(page) ==
  CASE page = "dashboard" -> {Dashboard}
    [] page = "leads" -> {LeadFeed}
    [] page = "bookings" -> {Bookings}
    [] page = "reports" -> {Reports}
    [] page = "roi" -> {ROI}
    [] page = "compliance" -> {Compliance, MetricDetails}
    [] page = "command-center" -> {AdminCommandCenter}
    [] page = "overview" -> {AdminOverview}
    [] page = "admin-leads" -> {AdminLeads}
    [] page = "revenue" -> {AdminRevenue}
    [] page = "insights" -> {AdminInsights}
    [] page = "analytics" -> {AdminAnalytics}
    [] page = "agents" -> AgentViews
    [] page = "client" -> {AdminClientDetail}
    [] page = "campaign" -> {CampaignProspects, CampaignAnalytics}
    [] page = "sales-engine" -> {WorkerStatus}
    [] OTHER -> {}

Nothing == [kind |-> "nothing", loading |-> FALSE, busy |-> {}, failures |-> 0]

View(how) ==
  [kind |-> "view", how |-> how, key |-> IF how.opens THEN NoKey ELSE FirstKey,
   shown |-> NoKey, loading |-> ~how.opens, busy |-> {}, failed |-> FALSE,
   failures |-> 0]

IsView == view.kind = "view"
Under(op, k) == \E f \in fetches : f.op = op /\ f.tag = k
Empty(v) == v.shown = NoKey

ViewTypeOK ==
  IsView =>
    /\ {view.key, view.shown} \subseteq Keys \union {NoKey}
    /\ {view.loading, view.failed} \subseteq BOOLEAN
    /\ \A f \in fetches : f.op = "get" => f.tag \in Keys

-----------------------------------------------------------------------------
Gets(keys) == {Call("get", k) : k \in keys}

(* Wrong: the details are asked for before a metric is selected.            *)
MountViewAtOnce(how) ==
  /\ view' = View(how)
  /\ Request(Gets({View(how).key}))

MountView(how) ==
  /\ view' = View(how)
  /\ Request(Gets({View(how).key} \ {NoKey}))

(* The component is unmounted: setState does nothing, the calls go on.      *)
(* Nobody waits for their answers; what they still can do is to be refused, *)
(* once the refresh they wait for is over, and to change what they save.    *)
Left(f) == [f EXCEPT !.op = "gone", !.tag = NoKey]

Leaving ==
  {Left(f) : f \in {g \in fetches : g.op \notin {"save", "late save"}
                                  /\ g.at \in {"refreshing", "unauthorized"}}}
  \union {[f EXCEPT !.op = "late save"] :
            f \in {g \in fetches : g.op \in {"save", "late save"} /\ g.at # "answered"}}

LeaveView ==
  /\ view' = Nothing
  /\ fetches' = Leaving
  /\ UNCHANGED refresh

Shown(v) ==
  /\ v.loading => v.how.hides = "never" \/ (v.how.hides = "empty" /\ ~Empty(v))
  /\ v.failed => v.how.blanks = "never" \/ (v.how.blanks = "empty" /\ ~Empty(v))

(* Wrong: every error replaces the controls.                                *)
CanSelectUnfailed(v) == v.how.selects /\ Shown(v) /\ ~v.failed

CanSelect(v) == v.how.selects /\ Shown(v)

Free == Cardinality(fetches) < MaxFetches

Fetches(k) == Free /\ Request(Gets({k}))

(* The effect runs again for the new selection.  Choosing the custom range  *)
(* only shows its two dates.                                                *)
Select(k) ==
  /\ IsView
  /\ CanSelect(view)
  /\ k # view.key
  /\ IF view.how.custom /\ k = CustomKey
     THEN view' = [view EXCEPT !.key = k, !.loading = FALSE] /\ UNCHANGED <<refresh, fetches>>
     ELSE /\ view' = [view EXCEPT !.key = k, !.loading = @ \/ view.how.reloads]
          /\ Fetches(k)
  /\ UNCHANGED session

Apply ==
  /\ IsView
  /\ view.how.custom /\ view.key = CustomKey
  /\ Shown(view)
  /\ view' = [view EXCEPT !.loading = TRUE]
  /\ Fetches(CustomKey)
  /\ UNCHANGED session

(* A second click on the metric closes its details.                         *)
CloseDetails ==
  /\ IsView
  /\ view.how.opens /\ view.key # NoKey
  /\ view' = [view EXCEPT !.key = NoKey, !.shown = NoKey]
  /\ UNCHANGED <<session, refresh, fetches>>

(* Wrong: the timer stops at an error.                                      *)
PollUnfailed ==
  /\ IsView
  /\ view.how.polls /\ ~Under("get", view.key) /\ ~view.failed
  /\ Request(Gets({view.key}))
  /\ UNCHANGED <<session, view>>

(* Bound: a poll on top of the same poll under way is not told apart.       *)
PollView ==
  /\ IsView
  /\ view.how.polls /\ ~Under("get", view.key)
  /\ Request(Gets({view.key}))
  /\ UNCHANGED <<session, view>>

Retry ==
  /\ IsView
  /\ view.how.retry /\ view.failed
  /\ view' = [view EXCEPT !.failed = view.how.drops, !.loading = @ \/ view.how.reloads]
  /\ Fetches(view.key)
  /\ UNCHANGED session

(* Wrong: no answer is dropped.                                             *)
NeverDropped(f) == FALSE

Dropped(f) == view.how.drops /\ f.tag # view.key

FetchAnswer(f) ==
  /\ f.op = "get" /\ f.at = "sent"
  /\ Answered(f)
  /\ view' = IF Dropped(f) THEN view
             ELSE [view EXCEPT !.shown = f.tag, !.loading = FALSE, !.failed = FALSE]
  /\ UNCHANGED <<session, refresh>>

(* Wrong: an error leaves the skeleton on the screen.                       *)
ViewFailedLoading(f) ==
  IF f.op # "get" \/ Dropped(f) THEN view ELSE [view EXCEPT !.failed = TRUE]

(* The old data stays; the metric's details are replaced by the error.  A   *)
(* skeleton that stands for missing data stays too.                         *)
ViewFailed(f) ==
  IF f.op # "get" \/ Dropped(f) THEN view
  ELSE [view EXCEPT !.shown = IF view.how.opens THEN NoKey ELSE @,
                    !.loading = @ /\ view.how.awaits, !.failed = TRUE]

UserViewStep == (\E k \in Keys : Select(k)) \/ Apply \/ CloseDetails \/ Retry

-----------------------------------------------------------------------------
(* No view but two compares an answer with what is selected when it comes.  *)
(* Those that hide their controls while loading, or drop late answers, show *)
(* at rest what is selected: nothing else of theirs is ever under its name. *)
ExclusiveViewsTellTheTruth ==
  (/\ IsView
   /\ view.how.drops \/ view.how.hides = "loading"
   /\ ~view.loading /\ ~view.failed /\ ~Empty(view))
  => view.shown = view.key \/ Under("get", view.key)

(* A view at rest without data lets the user, or the clock, try again.  Not *)
(* these: the ROI page's error replaces its periods, and three read once.   *)
DeadEnds == {ROI, AdminClientDetail, CampaignAnalytics, WorkerStatus}

NoDeadEnd ==
  (/\ IsView
   /\ view.how \notin DeadEnds
   /\ view.key # NoKey /\ Empty(view) /\ ~view.loading /\ ~Under("get", view.key))
  => view.how.polls \/ CanSelect(view) \/ (view.failed /\ view.how.retry)

-----------------------------------------------------------------------------
(* components/ui/Pagination: the numbers offered on a page of several.      *)

RangeStart(page) == Max({2, page - 2})
RangeEnd(page, pages) == Min({pages - 1, page + 2})
PageNumbers(page, pages) == {1, pages} \union (RangeStart(page)..RangeEnd(page, pages))
EllipsisStart(page) == RangeStart(page) > 2
EllipsisEnd(page, pages) == RangeEnd(page, pages) < pages - 1
(* Wrong: the arrow is not held at the last page.                           *)
NextPageUnheld(page, pages) == page + 1

NextPage(page, pages) == Min({pages, page + 1})
PreviousPage(page) == Max({1, page - 1})

(* Wherever the list has shrunk to, the pager offers only pages there are,  *)
(* the arrows lead to them, and every other page stands behind an ellipsis  *)
(* on its side.  (A list that shrinks to one page shows no pager at all.)   *)
PagerLeadsBack ==
  \A page \in 1..9, pages \in 2..9 :
    /\ PageNumbers(page, pages) \subseteq 1..pages
    /\ NextPage(page, pages) \in 1..pages
    /\ page <= pages => PreviousPage(page) \in 1..pages
    /\ \A n \in (1..pages) \ PageNumbers(page, pages) :
         (n < page /\ EllipsisStart(page)) \/ (n > page /\ EllipsisEnd(page, pages))

(* pages/Compliance: the light on top and the lights of the metrics.        *)
HighOptOut(s) == s.records > 0 /\ s.optedOut * 10 > s.records

(* The summary of the page, and what stands for it while there is none.     *)
Summaries == [there : {TRUE}, cold : 0..1, quiet : 0..1, optedOut : 0..3, records : 0..25]
NoSummary == [there |-> FALSE, cold |-> 0, quiet |-> 0, optedOut |-> 0, records |-> 0]
Summary(v) == IF Empty(v) THEN {NoSummary} ELSE Summaries

(* Wrong: a missing summary counts as one of zeros.                         *)
OverallStatusUnread(s) ==
  IF s.cold > 0 \/ s.quiet > 0 THEN "red"
  ELSE IF s.optedOut > 0 /\ HighOptOut(s) THEN "yellow" ELSE "green"

OverallStatus(s) ==
  CASE ~s.there -> "yellow"
    [] s.there /\ (s.cold > 0 \/ s.quiet > 0) -> "red"
    [] OTHER -> IF s.optedOut > 0 /\ HighOptOut(s) THEN "yellow" ELSE "green"

MetricStatus(s) ==
  [consent |-> "green",
   opt_out |-> IF s.optedOut > 0 THEN "yellow" ELSE "green",
   quiet_hours |-> IF s.quiet > 0 THEN "red" ELSE "green",
   cold_outreach |-> IF s.cold > 0 THEN "red" ELSE "green",
   pending_followups |-> "green",
   opt_out_rate |-> IF HighOptOut(s) THEN "yellow" ELSE "green"]

(* The two are computed apart.  The light on top is green only over data    *)
(* that was loaded (after a failed load the metrics show zeros, all green), *)
(* red exactly when one of the metrics is, and otherwise that of the        *)
(* opt-out rate.                                                            *)
OverallMatchesMetrics ==
  IsView /\ view.how = Compliance /\ ~view.loading =>
    \A s \in Summary(view) :
      LET m == MetricStatus(s)
          top == OverallStatus(s) IN
      /\ top = "green" => ~Empty(view)
      /\ top = "red" <=> \E k \in DOMAIN m : m[k] = "red"
      /\ ~Empty(view) /\ top # "red" => top = m.opt_out_rate
=============================================================================
