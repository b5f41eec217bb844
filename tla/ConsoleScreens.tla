---------------------------- MODULE ConsoleScreens ----------------------------
(***************************************************************************)
(* The platform console (frontend/src/superadmin).  Its request function   *)
(* joins nothing, its useApi takes whichever answer lands last, and its    *)
(* Confirm and Modal cannot be left while they are told they are busy.     *)
(***************************************************************************)
EXTENDS ScreenParts

-----------------------------------------------------------------------------
\* useApi: the run of an earlier filter is not told from the newest one, for
\* the next effect has set alive again before it answers.
Loaded(call) == [sets |-> {"loading"}] @@ Read(call)

\* A Confirm while its busy flag is up: neither confirmed nor left.
Confirmed(busy) ==
  [sets |-> {busy}, checks |-> {busy}, locked |-> {busy}]

\* A Modal's cross, backdrop and Escape while busy.
Locked(busy) == [locked |-> {busy}]

-----------------------------------------------------------------------------
\* The boutiques: suspended or let in again, and deleted.
\* Nothing is raised; a refusal closes the question as well.
ApplySuspension ==
  [form |-> "suspend", closes |-> TRUE, drops |-> TRUE,
   changes |-> {"boutiques"}, reloads |-> {"boutiques"}] @@ Op("suspend")

Destroy ==
  [form |-> "delete", sets |-> {"busy"}, own |-> TRUE, closes |-> TRUE,
   changes |-> {"boutiques"}, reloads |-> {"boutiques"}] @@ Op("deleteBoutique")

DestroyControls ==
  [destroy |-> [checks |-> {"busy"}] @@ Locked("busy")]

BoutiquesPanel ==
  Panel({}, [boutiques |-> Loaded("overview")],
    Merge([suspend |-> ApplySuspension, destroy |-> Destroy], DestroyControls))

-----------------------------------------------------------------------------
\* One boutique: its tables, the look of its workspace, its website's key.
DataPanel ==
  Panel({}, [rows |-> [keyed |-> TRUE] @@ Loaded("dataset")], NoOps)

TablesPanel == Panel({}, [tables |-> Loaded("datasets")], NoOps)

BoutiqueRead == Loaded("support")

SaveAppearance ==
  [sets |-> {"saving"}, changes |-> {"boutique"}, adopts |-> {"boutique"}]
    @@ Op("setAppearance")

\* The card is there once the boutique is, which is not read again.
AppearancePanel ==
  Panel({}, [boutique |-> BoutiqueRead],
    [save |-> [checks |-> {"saving", "loading"}] @@ SaveAppearance])

ChangeAccess ==
  [form |-> "confirm", closes |-> TRUE, changes |-> {"access"},
   adopts |-> {"access"}] @@ Op("setPortalAccess")

PortalPanel ==
  Panel({}, [access |-> Loaded("portalAccess")],
    [act |-> [opener |-> {"busy", "loading"}] @@ Confirmed("busy") @@ ChangeAccess])

-----------------------------------------------------------------------------
\* Requests for access: changed in their row, approved, sent their login.
SaveLead ==
  [sets |-> {"saving"}, rows |-> "one", changes |-> {"leads"},
   adopts |-> {"leads"}] @@ Op("updateLead")

ResendLogin ==
  [sets |-> {"resending"}, rows |-> "one", changes |-> {"leads"},
   adopts |-> {"leads"}] @@ Op("resendLeadCredentials")

Approve ==
  [form |-> "approve", sets |-> {"busy"}, own |-> TRUE] @@ Op("approveLead")

LeadApproveControls ==
  [approve |-> [checks |-> {"busy"}] @@ Locked("busy")]

Approved ==
  [approve |-> [closes |-> TRUE, changes |-> {"leads"}, adopts |-> {"leads"}]]

\* A row is off while it is the last one worked on.
LeadRow ==
  [save   |-> [rowchecks |-> {"saving"}],
   resend |-> [rowchecks |-> {"resending"}]]

LeadsPanel ==
  Panel({}, [leads |-> Loaded("leads")],
    Merge(Merge([save |-> SaveLead, resend |-> ResendLogin, approve |-> Approve],
                LeadApproveControls @@ LeadRow), Approved))

-----------------------------------------------------------------------------
\* The shell: the search, the bell and the count of unresolved errors.
SearchPanel ==
  Panel({}, [results |-> [keyed |-> TRUE, latest |-> TRUE, sets |-> {"busy"}]
                           @@ Read("search")], NoOps)

BellRead == Read("notifications")

MarkRead ==
  [changes |-> {"bell"}, reloads |-> {"bell"}] @@ Op("markNotificationsRead")

\* Read again every BELL_POLL_MS and when the window is looked at.
Poll == [refreshes |-> {"bell"}] @@ Op("notifications")

BellPanel ==
  Panel({}, [bell |-> BellRead], [read |-> MarkRead, poll |-> Poll])

-----------------------------------------------------------------------------
\* Errors, as a feed and sorted by kind: marked, with a reason where the move
\* asks for one, and annotated in place.
MoveError ==
  [sets |-> {"busy"}, closes |-> TRUE, changes |-> {"errors"},
   reloads |-> {"errors"}] @@ Op("updateError")

NoteError == Op("updateError")

SupportMoveControls == [move |-> [checks |-> {"busy"}]]

AskedMove(busy) ==
  [form |-> "confirm", opener |-> {busy}] @@ Confirmed(busy) @@ MoveError

HandlingRead == [keyed |-> TRUE] @@ Loaded("errors")

HandlingPanel ==
  Panel({}, [errors |-> HandlingRead],
    Merge([move |-> MoveError, ask |-> AskedMove("busy"), note |-> NoteError],
          SupportMoveControls))

MoveInFeed ==
  [sets |-> {"busy"}, closes |-> TRUE, changes |-> {"errors"},
   reloads |-> {"errors"}] @@ Op("updateError")

NoteInFeed == Op("updateError")

FeedControls == [move |-> [checks |-> {"busy"}]]

AskedInFeed ==
  [form |-> "confirm", opener |-> {"busy"}] @@ Confirmed("busy") @@ MoveInFeed

\* Each filter goes back to the first page and asks again.
FeedRead == [keyed |-> TRUE] @@ Loaded("errors")

FeedPanel ==
  Panel({}, [errors |-> FeedRead],
    Merge([move |-> MoveInFeed, ask |-> AskedInFeed, note |-> NoteInFeed],
          FeedControls))

-----------------------------------------------------------------------------
\* Feature flags: one row's flag is up at a time, whichever was used last.
FlagsRead == Loaded("flags")

WriteFlag(call) ==
  [sets |-> {"busyKey"}, rows |-> "one", changes |-> {"flags"},
   reloads |-> {"flags"}] @@ Op(call)

CreateFlag == [rows |-> "new"] @@ WriteFlag("createFlag")

SetTargets == WriteFlag("updateFlag")

\* Switching, rolling out and taking a target off; adding one is never off.
FlagControls ==
  [change |-> [rowchecks |-> {"busyKey"}]]

CreateControls == [create |-> [rowchecks |-> {"busyKey"}]]

\* Closed after the answer, whatever it is.
DeleteFlag ==
  [form |-> "delete", rowchecks |-> {"busyKey"}, locked |-> {"busyKey"},
   closes |-> TRUE, drops |-> TRUE] @@ WriteFlag("deleteFlag")

FlagsPanel ==
  Panel({}, [flags |-> FlagsRead],
    Merge([change |-> SetTargets, add |-> SetTargets, create |-> CreateFlag,
           delete |-> DeleteFlag],
          FlagControls @@ CreateControls))

-----------------------------------------------------------------------------
\* Settings and maintenance: one key at a time is being written.
WriteSetting ==
  [sets |-> {"busy"}, rows |-> "one", changes |-> {"config"},
   reloads |-> {"config"}] @@ Op("setConfig")

SaveSetting == [rowchecks |-> {"busy"}] @@ WriteSetting

\* The maintenance key is a row of its own.
Maintenance == [rows |-> "new", rowchecks |-> {"busy"}] @@ WriteSetting

LockOut ==
  [form |-> "confirm", locked |-> {"busy"}, closes |-> TRUE, drops |-> TRUE]
    @@ Maintenance

ConfigPanel ==
  Panel({}, [config |-> Loaded("config")],
    [save |-> SaveSetting, maintenance |-> Maintenance, lockOut |-> LockOut])

-----------------------------------------------------------------------------
\* Accounts: each action is confirmed, and the question closes either way.
AccountAction(call) ==
  [form |-> "confirm", closes |-> TRUE, drops |-> TRUE, changes |-> {"users"},
   reloads |-> {"users"}] @@ Confirmed("busy") @@ Op(call)

UsersRead == [keyed |-> TRUE] @@ Loaded("users")

UsersPanel ==
  Panel({}, [users |-> UsersRead, boutiques |-> Read("overview")],
    [act |-> AccountAction("userAction"), link |-> AccountAction("accessLink")])

Revoke ==
  [form |-> "confirm", closes |-> TRUE, drops |-> TRUE, changes |-> {"users"},
   reloads |-> {"users"}] @@ Op("userAction")

RevokeControls == [revoke |-> Confirmed("busy")]

SessionsPanel ==
  Panel({}, [users |-> [keyed |-> TRUE] @@ Loaded("users"),
             boutiques |-> Read("overview")],
        Merge([revoke |-> Revoke], RevokeControls))

\* Modules of a boutique: the answer takes the place of the row.
ApplyModules ==
  [form |-> "confirm", closes |-> TRUE, drops |-> TRUE, changes |-> {"modules"},
   adopts |-> {"modules"}] @@ Op("setModules")

ModulesPanel ==
  Panel({}, [modules |-> Loaded("modules")],
    [apply |-> [opener |-> {"loading"}] @@ Confirmed("busy") @@ ApplyModules])

-----------------------------------------------------------------------------
\* Screens that only read: what they show is what was loaded, or its error.
AuditRead == [keyed |-> TRUE] @@ Loaded("audit")

AuditPanel == Panel({}, [entries |-> AuditRead], NoOps)

\* Its button runs the same load again, once.
HealthPanel ==
  Panel({}, [checks |-> Loaded("health")],
    [again |-> [checks |-> {"loading"}, refreshes |-> {"checks"}] @@ Op("health")])

\* Each row has a checklist of its own: another row's answer is not its.
Checklist == [keyed |-> TRUE, latest |-> TRUE] @@ Loaded("onboardingFor")

ChecklistPanel ==
  Panel({}, [steps |-> Checklist, list |-> Loaded("onboarding")], NoOps)

Picker == Loaded("overview")

Diagnostics == [keyed |-> TRUE] @@ Loaded("support")

\* The report is mounted anew for each boutique (its key).
SupportPanel ==
  Panel({}, [boutiques |-> Picker, report |-> [latest |-> TRUE] @@ Diagnostics], NoOps)

OverviewPanel ==
  Panel({}, [boutiques |-> Read("overview"), health |-> Read("health"),
             errors |-> Read("errorSummary")], NoOps)

\* The search and the Show filter choose among the rows already in.
MonitorPanel == Panel({}, [orders |-> Loaded("ordersMonitor")], NoOps)

\* The orders and the health checks are one load, over when both are in.
BacklogPanel == Panel({}, [backlog |-> Loaded("ordersMonitor")], NoOps)

SigninsPanel == Panel({}, [attempts |-> Loaded("signins")], NoOps)

-----------------------------------------------------------------------------
\* The console's own sign-in form.
SignInPanel ==
  Panel({}, NoReads,
    [submit |-> [sets |-> {"busy"}, checks |-> {"busy"}] @@ Op("login")])

=============================================================================
