----------------------------- MODULE WorkScreens -----------------------------
(***************************************************************************)
(* The workshop's screens (frontend/src/features/work) and the alteration  *)
(* desk's (features/alterations): their reads, their handlers, and what    *)
(* turns their controls off.                                               *)
(***************************************************************************)
EXTENDS ScreenParts

-----------------------------------------------------------------------------
\* The job sheet: one stage, or one person's part of it.  Everything in it
\* shares the sheet's own busy; Escape and Back leave it at any time.
LOCAL InSheet(call) ==
  [form |-> "job", sets |-> {"busy"}, own |-> TRUE, changes |-> {"orders"},
   refreshes |-> {"orders"}] @@ Op(call)

FinishJob == [closes |-> TRUE] @@ InSheet("transitionStage")
FinishPart == [closes |-> TRUE] @@ InSheet("transitionPart")
KeepNote == InSheet("transitionStage")

SendVoice ==
  [InSheet("uploadVoiceNote") EXCEPT !.changes = {}, !.refreshes = {}, !.next = "keepNote"]

GiveJob == [closes |-> TRUE, own |-> FALSE] @@ InSheet("assignStage")

PeopleRead == Read("getAssignableStaff")

GiveControls == [give |-> [checks |-> {"giving"}, sets |-> {"giving"}, own |-> TRUE]]

\* No flag keeps it open.
JobLocks == {}

SubmitControls ==
  [o \in {"finish", "voice"} |-> [checks |-> {"busy"}, locked |-> JobLocks]]

StartControls == [start |-> [checks |-> {"busy"}, locked |-> JobLocks]]

NoteControls == [keepNote |-> [checks |-> {"busy"}]]

CheckControls ==
  [o \in {"approve", "sendBack", "part"} |-> [checks |-> {"busy"}, locked |-> JobLocks]]

\* The orders are asked for again on their own while no sheet is open.
Again == [refreshes |-> {"orders"}] @@ Op("getOrders")

\* Opening a new job ticks it off at the server; nothing waits for it.
MarkSeen == [form |-> "job", rows |-> "each"] @@ Op("markStageSeen")

OrdersOnTheFloor == Read("getOrders")

JobPanel ==
  Panel({}, [orders |-> OrdersOnTheFloor],
    Merge([finish |-> FinishJob, start |-> FinishJob, part |-> FinishPart,
           keepNote |-> KeepNote, voice |-> SendVoice, approve |-> FinishJob,
           sendBack |-> FinishJob, seen |-> MarkSeen],
          SubmitControls @@ StartControls @@ NoteControls @@ CheckControls))
AssignPanel ==
  Panel({}, [orders |-> OrdersOnTheFloor, people |-> PeopleRead],
        Merge([give |-> GiveJob], GiveControls))

-----------------------------------------------------------------------------
\* A stage split between several people: the split written, one part given to
\* another or sent back, the split undone.  One busy for all.
Split(call) ==
  [sets |-> {"busy"}, changes |-> {"order"}, adopts |-> {"order"}] @@ Op(call)

WriteControls == [split |-> [checks |-> {"busy"}]]

PartControls ==
  [assign |-> [checks |-> {"busy"}, rows |-> "one"],
   sendBack |-> [checks |-> {"busy"}], unsplit |-> [checks |-> {"busy"}]]

SplitPanel ==
  Panel({}, [order |-> Read("getOrders")],
    Merge([split |-> Split("splitStage"), assign |-> Split("assignPart"),
           sendBack |-> Split("transitionPart"), unsplit |-> Split("unsplitStage")],
          WriteControls @@ PartControls))

-----------------------------------------------------------------------------
\* One alteration: what the desk may do next, each with its dialog or without.
AlterationRead == Read("getAlteration")

MaterialsRead == [latest |-> TRUE] @@ Read("getInventoryItems")

\* The reply is the alteration itself, or it is read again and waited for.
Runs(call) ==
  [sets |-> {"busy"}, changes |-> {"alteration"}, adopts |-> {"alteration"},
   shuts |-> {"dialog", "extras"}] @@ Op(call)
RunsAndReads(call) ==
  [sets |-> {"busy"}, changes |-> {"alteration"}, reloads |-> {"alteration"},
   waits |-> TRUE, shuts |-> {"dialog", "extras"}] @@ Op(call)

QuickActs ==
  [startInspection |-> Runs("startAlterationInspection"),
   approve |-> Runs("approveAlteration"), startWork |-> Runs("startAlterationWork"),
   sendToQC |-> Runs("sendAlterationToQC"), passQC |-> Runs("passAlterationQC"),
   workComplete |-> Runs("completeAlterationWork"),
   customerApproved |-> Runs("alterationCustomerApproved"),
   pressed |-> Runs("markAlterationPressed")]

QuickControls ==
  [o \in DOMAIN QuickActs |-> [checks |-> {"busy"}]]

AskedInDialog ==
  [inspection |-> Runs("recordAlterationInspection"),
   forApproval |-> Runs("submitAlterationForApproval"),
   assign |-> Runs("assignAlteration"),
   rejected |-> Runs("alterationCustomerRejected"),
   failQC |-> Runs("failAlterationQC")]
ClosedInDialog ==
  [cancel |-> Runs("cancelAlteration"), complete |-> Runs("completeAlteration"),
   payment |-> RunsAndReads("recordAlterationPayment"),
   material |-> RunsAndReads("recordAlterationMaterial")]

\* Close works at any time; only the submitting button is turned off.
DialogControls ==
  [o \in DOMAIN (AskedInDialog @@ ClosedInDialog) |->
     [form |-> "dialog", checks |-> {"busy"}, opener |-> {"busy"}]]

\* These two dialogs open whatever is under way.
MoneyControls ==
  [o \in {"payment", "material"} |-> [form |-> "extras", checks |-> {"busy"}]]

\* The alterations are alike but for their calls: two of each kind stand for
\* them all on the screen that is checked.
AlterationPanel ==
  LET some == {"startWork", "passQC", "assign", "failQC", "payment", "material"}
      all  == Merge(QuickActs @@ AskedInDialog @@ ClosedInDialog,
                    QuickControls @@ MoneyControls @@ DialogControls)
  IN  Panel({}, [alteration |-> AlterationRead], [o \in some |-> all[o]])

ListRead == [keyed |-> TRUE, sets |-> {"loading"}] @@ Read("getAlterations")

AlterationListPanel == Panel({}, [list |-> ListRead], NoOps)

\* The garment's photograph follows; that it could not be saved is only told.
TakeIn ==
  [form |-> "request", sets |-> {"busy"}, own |-> TRUE, changes |-> {"order"},
   closes |-> TRUE] @@ Op("createAlterationOrder")

\* A press outside it closes it, even while it is being sent.
RequestControls == [takeIn |-> [checks |-> {"busy"}, locked |-> {}]]

RequestPanel == Panel({}, NoReads, Merge([takeIn |-> TakeIn], RequestControls))
=============================================================================
