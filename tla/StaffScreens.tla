---------------------------- MODULE StaffScreens ----------------------------
(***************************************************************************)
(* The staff section's screens (frontend/src/features/staff): payroll,     *)
(* attendance, the team's list, performance, tasks and one's own details.  *)
(* For each, the reads it makes, what its handlers do, and what turns      *)
(* their controls off.                                                     *)
(***************************************************************************)
EXTENDS ScreenParts

-----------------------------------------------------------------------------
\* Payroll: one week's draft, its approval, and paying a record of it.
WeekRead == [keyed |-> TRUE, sets |-> {"loading"}] @@ Read("getPayrollPeriod")

DraftWeek ==
  [sets |-> {"busy"}, changes |-> {"period"}, adopts |-> {"period"}]
    @@ Op("generatePayroll")

ApproveWeek ==
  [sets |-> {"busy"}, changes |-> {"period"}, adopts |-> {"period"},
   closes |-> TRUE] @@ Op("approvePayroll")

PayRecord ==
  [sets |-> {"busy"}, own |-> TRUE, changes |-> {"period"},
   adopts |-> {"period"}, mine |-> TRUE, closes |-> TRUE]
    @@ Op("recordPayout")

WeekControls == [draft |-> [checks |-> {"loading", "busy"}]]

ApproveControls ==
  [approve |-> [form |-> "approving", opener |-> {"loading", "busy"},
                checks |-> {"busy"}, locked |-> {"busy"}]]

PayoutControls ==
  [pay |-> [form |-> "paying", checks |-> {"busy"}, locked |-> {"busy"}]]

PayrollPanel ==
  Panel({}, [period |-> WeekRead],
    Merge([draft |-> DraftWeek, approve |-> ApproveWeek, pay |-> PayRecord],
          WeekControls @@ ApproveControls @@ PayoutControls))

-----------------------------------------------------------------------------
\* A draft record's attendance, corrected in place; a correction drafts the
\* week again and then reads the sheet again, the list replaced by a loader.
SheetOfRecord == [sets |-> {"loading"}] @@ Read("getTimesheet")

DraftAgain ==
  [sets |-> {"recalculating"}, changes |-> {"sheet"}, reloads |-> {"sheet"},
   waits |-> TRUE] @@ Op("generatePayroll")

CorrectDraft ==
  [sets |-> {"busy"}, own |-> TRUE, changes |-> {"sheet"}, closes |-> TRUE,
   next |-> "recalculate"] @@ Op("correctAttendance")

LiveSessionControls ==
  [correct |-> [form |-> "correcting", checks |-> {"busy"},
                opener |-> {"loading", "recalculating"}],
   recalculate |-> [checks |-> {"loading", "recalculating"}]]

LiveSessionsPanel ==
  Panel({}, [sheet |-> SheetOfRecord],
    Merge([correct |-> CorrectDraft, recalculate |-> DraftAgain],
          LiveSessionControls))

-----------------------------------------------------------------------------
\* One's own day: check in, add the place, check out; the team's floor is
\* read again each time.
OwnDay == Read("getCurrentAttendance")

Floor == [keyed |-> TRUE, sets |-> {"loading"}] @@ Read("getAttendance")

Act(call) ==
  [sets |-> {"busy"}, changes |-> {"mine", "floor"}, reloads |-> {"mine"},
   refreshes |-> {"floor"}, waits |-> TRUE] @@ Op(call)

MyDayControls ==
  [o \in {"checkIn", "addLocation", "checkOut"} |-> [checks |-> {"busy"}]]

MyDayPanel ==
  Panel({}, [mine |-> OwnDay, floor |-> [keyed |-> FALSE] @@ Floor],
    Merge([checkIn |-> Act("checkIn"), addLocation |-> Act("addCheckInLocation"),
           checkOut |-> Act("checkOut")], MyDayControls))

-----------------------------------------------------------------------------
\* Today on the floor and the muster grid: entries recorded and corrected in
\* a form, a day's mark cycled by a press on its cell.
RecordEntry ==
  [sets |-> {"busy"}, own |-> TRUE, closes |-> TRUE, changes |-> {"floor"},
   refreshes |-> {"floor"}] @@ Op("recordAttendance")

RecordControls == [record |-> [form |-> "recording", checks |-> {"busy"}]]

CorrectEntry ==
  [sets |-> {"busy"}, own |-> TRUE, closes |-> TRUE,
   changes |-> {"floor"}, refreshes |-> {"floor"}] @@ Op("correctAttendance")

CorrectionControls == [correct |-> [form |-> "correcting", checks |-> {"busy"}]]

CycleMark ==
  [changes |-> {"floor"}, refreshes |-> {"floor"}]
    @@ Op("createDayMark")

\* A cell is never turned off while its mark is being saved.
MusterControls == [cycle |-> [checks |-> {}]]

FloorPanel ==
  Panel({}, [floor |-> Floor],
    Merge([record |-> RecordEntry, correct |-> CorrectEntry, cycle |-> CycleMark],
          RecordControls @@ CorrectionControls @@ MusterControls))

-----------------------------------------------------------------------------
\* A person's week and its payroll run; a month of one's own log.
SheetRead == [keyed |-> TRUE, sets |-> {"loading"}] @@ Read("getTimesheet")

RunRead == [keyed |-> TRUE, latest |-> TRUE] @@ Read("getPayrollPeriods")

MonthRead ==
  [keyed |-> TRUE, latest |-> TRUE, sets |-> {"loading"}] @@ Read("getAttendance")

TimesheetControls ==
  [correct |-> [form |-> "correcting", opener |-> {"loading"},
                checks |-> {"busy"}, changes |-> {"sheet"}, refreshes |-> {"sheet", "run"}]]

TimesheetPanel ==
  Panel({}, [sheet |-> SheetRead, run |-> RunRead],
        Merge([correct |-> CorrectEntry], TimesheetControls))

MonthPanel ==
  Panel({}, [month |-> MonthRead],
    Merge([checkIn |-> [changes |-> {"month"}, reloads |-> {},
                        refreshes |-> {"month"}] @@ Act("checkIn")],
          [checkIn |-> [checks |-> {"busy"}]]))

-----------------------------------------------------------------------------
\* The team's list: people added, edited and removed, advances issued, and
\* passwords made.  A refresh puts a loader in the place of the whole list.
RosterRead == [sets |-> {"loading"}] @@ Read("getStaffProfiles")

\* One save of a person is a chain of requests: the person, a login, the
\* terms and each document; it is one operation here.
SavePerson(call) ==
  [sets |-> {"busy"}, own |-> TRUE, closes |-> TRUE,
   changes |-> {"roster"}, reloads |-> {"roster"}] @@ Op(call)

PersonControls ==
  [add  |-> [form |-> "adding", opener |-> {"loading"}, checks |-> {"busy"}],
   edit |-> [form |-> "person", opener |-> {"loading"}, checks |-> {"busy"}]]

IssueAdvance ==
  [sets |-> {"saving"}, own |-> TRUE, closes |-> TRUE,
   changes |-> {"roster"}, reloads |-> {"roster"}] @@ Op("issueAdvance")

AdvanceControls ==
  [advance |-> [form |-> "issuing", opener |-> {"loading"}, checks |-> {"saving"}]]

NewPassword == [sets |-> {"busy"}, own |-> TRUE] @@ Op("resetStaffPassword")

CredentialControls ==
  [password |-> [form |-> "credentials", opener |-> {"loading"}, checks |-> {"busy"}]]

RemovePerson ==
  [sets |-> {"busy"}, own |-> TRUE, closes |-> TRUE,
   changes |-> {"roster"}, reloads |-> {"roster"}] @@ Op("deleteTailor")

RemoveControls ==
  [remove |-> [form |-> "removing", opener |-> {"loading"}, checks |-> {"busy"},
               locked |-> {"busy"}]]

RosterPanel ==
  Panel({}, [roster |-> RosterRead],
    Merge([add |-> SavePerson("createTailor"), edit |-> SavePerson("updateTailor"),
           advance |-> IssueAdvance, password |-> NewPassword,
           remove |-> RemovePerson],
          PersonControls @@ AdvanceControls @@ CredentialControls @@ RemoveControls))

-----------------------------------------------------------------------------
\* A person's documents, inside the form that edits the person.
DocumentsRead == [sets |-> {"docsLoading"}] @@ Read("getStaffDocuments")

RemoveDocument ==
  [rows |-> "each", changes |-> {"documents"}, reloads |-> {"documents"}]
    @@ Op("deleteStaffDocument")

DocumentControls == [remove |-> [checks |-> {"docsLoading"}]]

DocumentsPanel ==
  Panel({}, [documents |-> DocumentsRead],
        Merge([remove |-> RemoveDocument], DocumentControls))

-----------------------------------------------------------------------------
\* Performance over a range of days, and one person's reviews.
PerformanceRead ==
  [keyed |-> TRUE, sets |-> {"loading"}] @@ Read("getPerformance")

SaveReview ==
  [sets |-> {"saving"}, own |-> TRUE, closes |-> TRUE,
   changes |-> {"reviews"}, refreshes |-> {"reviews"}] @@ Op("createReview")

ReviewControls == [save |-> [form |-> "review", checks |-> {"saving"}]]

ReviewAct(call) ==
  [sets |-> {"busy"}, changes |-> {"reviews"}, refreshes |-> {"reviews"}] @@ Op(call)

ReviewListControls ==
  [o \in {"finalise", "acknowledge"} |-> [checks |-> {"busy"}]]

\* Its address has no person and no range in it.
StaffDetailPanel ==
  Panel({}, [reviews |-> Read("getReviews")],
    Merge([save |-> SaveReview, finalise |-> ReviewAct("finaliseReview"),
           acknowledge |-> ReviewAct("acknowledgeReview")],
          ReviewControls @@ ReviewListControls))

PerformancePanel == Panel({}, [performance |-> PerformanceRead], NoOps)

-----------------------------------------------------------------------------
\* The team's tasks by person and day.
TasksRead == [sets |-> {"loading"}] @@ Read("getOrders")

DayRead == [keyed |-> TRUE, latest |-> TRUE] @@ Read("getAttendance")

TeamTasksPanel == Panel({}, [tasks |-> TasksRead, day |-> DayRead], NoOps)

-----------------------------------------------------------------------------
\* Who may do what, one's first password, and one's own details.
\* roleNames is null, and Save off, until it is in.
AccessRead == [sets |-> {"unread"}] @@ Read("getAdminAccess")

SaveAccess == [sets |-> {"saving"}, changes |-> {"access"}, adopts |-> {"access"}]
                @@ Op("saveAdminAccess")

AccessPanel ==
  Panel({}, [access |-> AccessRead],
        Merge([save |-> SaveAccess], [save |-> [checks |-> {"saving", "unread"}]]))

FirstPassword == [sets |-> {"busy"}, own |-> TRUE, closes |-> TRUE]
                   @@ Op("changeMyPassword")

FirstPasswordControls ==
  [first |-> [form |-> "setup", checks |-> {"busy"}, locked |-> {"busy"}]]

SavePhoto == [sets |-> {"photoBusy"}] @@ Op("updateMyPhoto")

SaveName == [sets |-> {"nameBusy"}] @@ Op("updateMyName")

SavePassword == [sets |-> {"pwBusy"}] @@ Op("changeMyPassword")

MyDetailsControls ==
  [photo |-> [checks |-> {"photoBusy"}], name |-> [checks |-> {"nameBusy"}],
   password |-> [checks |-> {"pwBusy"}]]

MyDetailsPanel ==
  Panel({}, NoReads,
    Merge([first |-> FirstPassword, photo |-> SavePhoto, name |-> SaveName,
           password |-> SavePassword],
          MyDetailsControls @@ FirstPasswordControls))
=============================================================================
