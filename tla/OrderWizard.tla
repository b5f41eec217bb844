----------------------------- MODULE OrderWizard -----------------------------
(***************************************************************************)
(* Taking an order: the form of App.jsx (view 'wizard'), its autosave      *)
(* (hooks/useAutosave.js) and the saved draft behind it (order-drafts/).   *)
(* The draft on the server is the order being written; the form is a copy  *)
(* of it, kept by version.  Placing the order spends the draft.            *)
(*                                                                         *)
(* A step is a person's click or typing, the autosave's tick, the server   *)
(* dealing with one request, or an answer landing in a tab, in any order.  *)
(* The stepper reaches every step of an order at any time (canJumpAhead),  *)
(* so the step Next is pressed on is its parameter.                        *)
(***************************************************************************)
EXTENDS Naturals, FiniteSets

CONSTANTS Tabs,       \* one person's tabs
          Nobody,     \* the tab of a request whose page is gone
          MaxOrders,  \* bound: forms opened afresh
          MaxDrafts,  \* bound: drafts made
          MaxActs,    \* bound: the person's acts but filling a form in
          MaxEdits,   \* bound: writings of what no check looks at
          MaxLost,    \* bound: answers lost on the way, before or after the
                      \* server did what was asked
          Overlap     \* the person leaves a form, or opens another, while an
                      \* answer is outstanding

\* Nobody stands for no tab.
ASSUME WizardAssumption == Nobody \notin Tabs /\ MaxOrders \in Nat /\ MaxDrafts \in Nat

Drafts == 1..MaxDrafts
None == 0

VARIABLES tab,      \* what each tab shows and keeps
          calls,    \* requests under way
          drafts,   \* the server's: [live, work, version, by, placed]
          taken,    \* the server's: how often a garment was taken in
          added,    \* the server's: how often the customer an order names was added
          started, acts, lost

vars == <<tab, calls, drafts, taken, added, started, acts, lost>>
server == <<drafts, taken, added>>

-----------------------------------------------------------------------------
\* What is written on a form.  of: the orders it was written for; who: nobody,
\* details that will not do, that will, or a customer of the book; garments:
\* none picked, picked, what they need told, measured too; edit: the writing
\* it is, for nobody writes back letter by letter what was there before.
Written(of, who) == [of |-> of, who |-> who, garments |-> "none", edit |-> 0]
Blank == Written({}, "blank")
Whos == {"blank", "bad", "ok", "known"}
Garments == {"none", "bare", "told", "measured"}
Works == [of : SUBSET (1..MaxOrders), who : Whos, garments : Garments, edit : Nat]

\* customerProblem, validateGarments: what is wrong or missing still.
CustomerProblem(w) == w.who \in {"blank", "bad"}
Complete(w) == ~CustomerProblem(w) /\ w.garments = "measured"

NewTab == [page |-> 1, view |-> "dashboard", kind |-> "stitch", locked |-> FALSE,
           work |-> Blank, draft |-> None, version |-> 0, save |-> "idle", busy |-> FALSE,
           saved |-> Blank, ticking |-> FALSE, rows |-> {}]

NewDraft == [live |-> FALSE, work |-> Blank, version |-> 0,
             by |-> {}, placed |-> 0]

\* useAutosave: on while an order that can be a draft is open and not in
\* conflict.  Coming on takes what is written as saved.  A form that is off
\* the screen is blank here: each way back to it fills it in anew.
Enabled(s) == s.view = "wizard" /\ s.kind = "stitch" /\ s.save # "conflict"
Rendered(old, new) ==
  [new EXCEPT !.saved = CASE ~Enabled(new) -> Blank
                          [] Enabled(new) /\ ~Enabled(old) -> new.work
                          [] OTHER -> @,
              !.work = IF new.view = "wizard" THEN @ ELSE Blank,
              !.locked = new.view = "wizard" /\ @]
Show(t, new) == tab' = [tab EXCEPT ![t] = Rendered(tab[t], new)]

\* A request: asked by a tab for some reason, with what it carries.  Where
\* the server keeps nothing of it the answer is there at once.
Call(t, why, s) == [tab |-> t, why |-> why, draft |-> s.draft,
                    version |-> s.version, work |-> s.work,
                    page |-> s.page, rows |-> {}, answer |->
                    IF why \in {"garment", "upload", "hydrate"} THEN "ok" ELSE "none"]
Mine(t) == {c \in calls : c.tab = t}
Asking(t, why) == \E c \in Mine(t) : c.why = why
Idle(t) == Overlap \/ Mine(t) = {}

\* Each tab is at the dashboard or has just opened the chooser; an order may have been begun
\* and saved before.
Before == [NewDraft EXCEPT !.live = TRUE, !.version = 1, !.by = {<<Nobody, 1>>},
             !.work = [Written({1}, "known") EXCEPT !.garments = "measured"]]

Init ==
  /\ \E view \in {"dashboard", "selector"}, n \in {0, 1} :
       /\ tab = [t \in Tabs |-> [NewTab EXCEPT !.view = view]]
       /\ calls = {Call(t, "list", NewTab) : t \in {u \in Tabs : view = "selector"}}
       /\ started = n
       /\ drafts = [d \in Drafts |-> IF d <= n THEN Before ELSE NewDraft]
  /\ taken = [n \in 1..MaxOrders |-> 0] /\ added = [n \in 1..MaxOrders |-> 0]
  /\ acts = 0 /\ lost = 0

Person == acts < MaxActs /\ acts' = acts + 1
Opens(t) == Person /\ Idle(t)
Typing(t) == tab[t].view = "wizard" /\ UNCHANGED <<calls, drafts, taken, started, lost>>
\* Filling in goes only forward: no bound is needed.  Who an order is for
\* counts as an act all the same: every save under way has it.
Filling(t) == Typing(t) /\ UNCHANGED <<added, acts>>
Naming(t) ==
  Typing(t) /\ UNCHANGED added /\ IF tab[t].kind = "stitch" THEN Person ELSE UNCHANGED acts
\* Something is taken back, and with a name whoever it was: the next one is
\* another customer, whom nobody has added.
Undoing(t) == Person /\ Typing(t) /\ UNCHANGED added
Renaming(t) ==
  /\ Person /\ Typing(t)
  /\ added' = [n \in DOMAIN added |-> IF n \in tab[t].work.of THEN 0 ELSE added[n]]

-----------------------------------------------------------------------------
\* New order: the chooser asks for the drafts each time it opens.
OpenSelector(t) ==
  /\ Opens(t) /\ tab[t].view = "dashboard"
  /\ Show(t, [tab[t] EXCEPT !.view = "selector"])
  /\ calls' = calls \cup {Call(t, "list", NewTab)}
  /\ UNCHANGED <<server, started, lost>>

\* Mutant of Fresh: the draft of the order before is kept.
Reused(s, kind, n, who) ==
  [s EXCEPT !.view = "wizard", !.kind = kind, !.work = Written({n}, who),
            !.locked = (who = "known"), !.save = "idle"]
\* startService: a clean slate; from the dashboard, for a customer picked there
\* already, who is not changed on the form.
Fresh(s, kind, n, who) ==
  [s EXCEPT !.view = "wizard", !.kind = kind, !.work = Written({n}, who),
            !.locked = (who = "known"), !.draft = None, !.version = 0, !.save = "idle"]
StartService(t, kind, who) ==
  /\ Opens(t) /\ started < MaxOrders
  /\ started' = started + 1
  /\ Show(t, Fresh(tab[t], kind, started + 1, who))
  /\ UNCHANGED <<calls, server, lost>>

BackFromSelector(t) ==
  /\ Idle(t) /\ tab[t].view = "selector"
  /\ Show(t, [tab[t] EXCEPT !.view = "dashboard"])
  /\ UNCHANGED <<calls, server, started, acts, lost>>
StartDoors(t) ==
  tab[t].view = "selector" /\ \E kind \in {"stitch", "alter"} : StartService(t, kind, "blank")
BeginOrderForCustomer(t) ==
  tab[t].view = "dashboard" /\ \E kind \in {"stitch", "alter"} : StartService(t, kind, "known")

\* hydrateWizard: the draft's id and version at once, the form when the
\* garments' templates have come.
Hydrating(t, s, row) ==
  /\ Show(t, [s EXCEPT !.draft = row.draft, !.version = row.version, !.locked = FALSE])
  /\ calls' = calls \cup {[Call(t, "hydrate", NewTab) EXCEPT !.draft = row.draft,
                             !.version = row.version, !.work = row.work]}

Resume(t, row) ==
  /\ Opens(t) /\ tab[t].view = "selector" /\ row \in tab[t].rows
  /\ Hydrating(t, tab[t], row)
  /\ UNCHANGED <<server, started, lost>>

Discard(t, row) ==
  /\ Opens(t) /\ tab[t].view = "selector" /\ row \in tab[t].rows
  /\ ~Asking(t, "discard")
  /\ calls' = calls \cup {[Call(t, "discard", NewTab) EXCEPT !.draft = row.draft]}
  /\ UNCHANGED <<tab, server, started, lost>>

-----------------------------------------------------------------------------
\* What is written on the form changes.
Edited(w) == [w EXCEPT !.edit = @ + 1]
Writes(t, w) == Show(t, [tab[t] EXCEPT !.work = Edited(w)])
\* What no check looks at: looks, cloth, trims, prices, dates, notes.
Scribble(t) == Filling(t) /\ tab[t].work.edit < MaxEdits /\ Writes(t, tab[t].work)

\* Who it is for: setCustomerNameSplit and the number's box, pickCustomer,
\* the number found in the book, clearPickedCustomer.
TypeCustomer(t) ==
  \/ /\ Naming(t) /\ tab[t].work.who \in {"blank", "bad"}
     /\ \E who \in {"bad", "ok"} \ {tab[t].work.who} : Writes(t, [tab[t].work EXCEPT !.who = who])
  \/ /\ Renaming(t) /\ tab[t].work.who = "ok"
     /\ Writes(t, [tab[t].work EXCEPT !.who = "bad"])
Picked(t) == tab[t].work.who # "known" /\ Writes(t, [tab[t].work EXCEPT !.who = "known"])
PickCustomer(t) == Naming(t) /\ Picked(t)
NumberMatched(t) == Filling(t) /\ tab[t].work.who # "blank" /\ Picked(t)
ClearPickedCustomer(t) ==
  /\ Renaming(t) /\ tab[t].work.who = "known" /\ ~tab[t].locked
  /\ \E who \in {"blank", "bad"} : Writes(t, [tab[t].work EXCEPT !.who = who])

\* An alteration is of a garment of ours or of one stitched elsewhere; the
\* two have boxes of their own, and nobody goes over with half of one filled.
SetOutside(t) ==
  /\ \/ Filling(t) /\ tab[t].kind = "alter" /\ Show(t, [tab[t] EXCEPT !.kind = "outside"])
     \/ Undoing(t) /\ tab[t].kind = "outside" /\ Show(t, [tab[t] EXCEPT !.kind = "alter"])
  /\ tab[t].work.garments = "none"

WhoForm(t) ==
  TypeCustomer(t) \/ PickCustomer(t) \/ NumberMatched(t) \/ ClearPickedCustomer(t) \/ SetOutside(t)

\* What a garment needs, and its measurements; of an alteration, which
\* garment it is and what is wrong with it.
Told(t) == Filling(t) /\ Writes(t, [tab[t].work EXCEPT !.garments = "told"])
Measured(t) ==
  /\ Filling(t) /\ tab[t].work.garments = "told"
  /\ Writes(t, [tab[t].work EXCEPT !.garments = "measured"])

\* addGarment: the garment's form is asked for.
AddGarment(t) ==
  /\ Person /\ tab[t].view = "wizard" /\ tab[t].kind = "stitch" /\ ~Asking(t, "garment")
  /\ calls' = calls \cup {[Call(t, "garment", NewTab) EXCEPT !.work.of = tab[t].work.of]}
  /\ UNCHANGED <<tab, server, started, lost>>

RemoveGarment(t) ==
  /\ Undoing(t) /\ tab[t].kind = "stitch" /\ tab[t].work.garments # "none"
  /\ Writes(t, [tab[t].work EXCEPT !.garments = "none"])

\* The recorders and the pictures: an answer is waited for, and lands on the
\* form as it is by then.
Upload(t) ==
  /\ Person /\ tab[t].view = "wizard" /\ tab[t].kind = "stitch" /\ ~Asking(t, "upload")
  /\ calls' = calls \cup {[Call(t, "upload", NewTab) EXCEPT !.work.of = tab[t].work.of]}
  /\ UNCHANGED <<tab, server, started, lost>>

\* ensureCustomerId: a picture of the typed customer wants them in the book.
EnsureCustomer(t) ==
  /\ Person /\ tab[t].view = "wizard" /\ tab[t].kind = "stitch"
  /\ tab[t].work.who = "ok" /\ tab[t].work.garments # "none" /\ ~Asking(t, "ensure")
  /\ calls' = calls \cup {[Call(t, "ensure", NewTab) EXCEPT !.work.of = tab[t].work.of]}
  /\ UNCHANGED <<tab, server, started, lost>>

\* The screens of an order, as its garments stand.
PickGarments(t) == tab[t].work.garments = "none" /\ AddGarment(t)
OnGarments(t) == tab[t].view = "wizard" /\ tab[t].kind = "stitch" /\ tab[t].work.garments # "none"
GarmentHead(t) == OnGarments(t) /\ (Scribble(t) \/ RemoveGarment(t) \/ AddGarment(t))
DetailsForm(t) ==
  OnGarments(t) /\ (Scribble(t) \/ Upload(t) \/ (tab[t].work.garments = "bare" /\ Told(t)))
LookForm(t) == OnGarments(t) /\ Scribble(t)
ReferencesForm(t) == OnGarments(t) /\ (Scribble(t) \/ Upload(t))
DesignerForm(t) == OnGarments(t) /\ (Scribble(t) \/ Upload(t))
ClothForm(t) == OnGarments(t) /\ Scribble(t)
MeasureForm(t) == OnGarments(t) /\ (Scribble(t) \/ Upload(t) \/ Measured(t))
GarmentPreviews(t) == OnGarments(t) /\ (EnsureCustomer(t) \/ Upload(t))
MoneyForm(t) == tab[t].kind = "stitch" /\ Scribble(t)
\* jumpToStep: the customer's sheet fills measurements in on the way in.
JumpToStep(t) == OnGarments(t) /\ Measured(t)

AlterGarmentForm(t) ==
  tab[t].kind = "alter" /\ tab[t].work.garments = "none" /\ Told(t)
AlterIssueForm(t) == tab[t].kind = "alter" /\ (Scribble(t) \/ Measured(t))
OutsideGarmentForm(t) ==
  tab[t].kind = "outside" /\ tab[t].work.garments = "none" /\ Told(t)
OutsideIssueForm(t) == tab[t].kind = "outside" /\ (Scribble(t) \/ Measured(t))

-----------------------------------------------------------------------------
\* persistDraft: everything written, into the draft the form was opened on.
PersistDraft(t, why, s) ==
  /\ Show(t, [s EXCEPT !.save = "saving"])
  /\ calls' = calls \cup {Call(t, why, s)}

\* Mutant of StepOk: garments told but not measured will do.
StepOkUnmeasured(step, w) ==
  CASE step = "who" -> w.who = "blank" \/ ~CustomerProblem(w)
    [] step \in {"type", "measure"} -> w.garments # "none"
    [] step = "review" -> TRUE
    [] step = "money" -> w.garments # "none" /\ ~CustomerProblem(w)
\* performNext: what it asks of a step before it saves.
StepOk(step, w) ==
  CASE step = "who" -> w.who = "blank" \/ ~CustomerProblem(w)
    [] step = "type" -> w.garments \in {"told", "measured"}
    [] step = "measure" -> w.garments \in {"none", "measured"}
    [] step = "review" -> TRUE
    [] step = "money" -> /\ w.garments # "none" /\ ~CustomerProblem(w)
                         /\ w.garments = "measured"

\* runOnce: one press at a time.
Presses(t) == Person /\ tab[t].view = "wizard" /\ ~tab[t].busy

PerformNext(t, step) ==
  /\ Presses(t) /\ tab[t].kind = "stitch" /\ step # "money"
  /\ StepOk(step, tab[t].work)
  /\ PersistDraft(t, "next", [tab[t] EXCEPT !.busy = TRUE])
  /\ UNCHANGED <<server, started, lost>>

\* From garment to garment, and one more.
MoreGarments(t) == OnGarments(t) /\ (PerformNext(t, "type") \/ AddGarment(t))

SubmitOrder(t) ==
  /\ Presses(t) /\ tab[t].kind = "stitch" /\ StepOk("money", tab[t].work)
  /\ PersistDraft(t, "submit", [tab[t] EXCEPT !.busy = TRUE])
  /\ UNCHANGED <<server, started, lost>>

PerformSaveDraft(t) ==
  /\ Presses(t) /\ tab[t].kind = "stitch"
  /\ PersistDraft(t, "later", [tab[t] EXCEPT !.busy = TRUE])
  /\ UNCHANGED <<server, started, lost>>

\* leaveWizard: the cross is never off, and waits for nothing; a save first
\* if there is a garment or a number to save.
LeaveWizard(t) ==
  /\ Opens(t) /\ tab[t].view = "wizard"
  /\ \/ /\ tab[t].kind = "stitch" /\ (tab[t].work.garments # "none" \/ tab[t].work.who # "blank")
        /\ PersistDraft(t, "leave", tab[t])
     \/ /\ tab[t].kind # "stitch" \/ (tab[t].work.garments = "none" /\ CustomerProblem(tab[t].work))
        /\ Show(t, [tab[t] EXCEPT !.view = "dashboard"]) /\ UNCHANGED calls
  /\ UNCHANGED <<server, started, lost>>

\* handleBack, from the first step.
HandleBack(t) ==
  /\ Presses(t) /\ Idle(t)
  /\ IF tab[t].locked
       THEN Show(t, [tab[t] EXCEPT !.view = "dashboard"]) /\ UNCHANGED calls
       ELSE /\ Show(t, [tab[t] EXCEPT !.view = "selector"])
            /\ calls' = calls \cup {Call(t, "list", NewTab)}
  /\ UNCHANGED <<server, started, lost>>

\* createAlterationFromWizard: of a customer of the book.
CreateAlterationFromWizard(t) ==
  /\ Presses(t) /\ tab[t].kind = "alter" /\ Complete(tab[t].work) /\ tab[t].work.who = "known"
  /\ Show(t, [tab[t] EXCEPT !.busy = TRUE])
  /\ calls' = calls \cup {Call(t, "takein", tab[t])}
  /\ UNCHANGED <<server, started, lost>>

\* createOutsideAlterationFromWizard: one who is not in the book is added first.
CreateOutsideAlterationFromWizard(t) ==
  /\ Presses(t) /\ tab[t].kind = "outside" /\ Complete(tab[t].work)
  /\ Show(t, [tab[t] EXCEPT !.busy = TRUE])
  /\ calls' = calls \cup
       {Call(t, IF tab[t].work.who = "known" THEN "takein" ELSE "walkin", tab[t])}
  /\ UNCHANGED <<server, started, lost>>

\* The bar at the foot.
FooterBar(t) ==
  \/ HandleBack(t) \/ PerformSaveDraft(t) \/ SubmitOrder(t)
  \/ \E step \in {"who", "type", "measure", "review"} : PerformNext(t, step)
  \/ CreateAlterationFromWizard(t) \/ CreateOutsideAlterationFromWizard(t)

\* The screen of the order just placed.
ConfirmedPage(t) ==
  /\ Idle(t) /\ tab[t].view = "confirmed"
  /\ Show(t, [tab[t] EXCEPT !.view = "dashboard"])
  /\ UNCHANGED <<calls, server, started, acts, lost>>

\* The tick: every five seconds, and when the tab is hidden.
Changed(t) == Enabled(tab[t]) /\ tab[t].work # tab[t].saved
Tick(t) ==
  /\ Changed(t) /\ ~tab[t].busy /\ ~tab[t].ticking
  /\ PersistDraft(t, "auto", [tab[t] EXCEPT !.ticking = TRUE])
  /\ UNCHANGED <<server, started, acts, lost>>

\* The page is loaded again; sessionStorage knows the draft that was open,
\* and resumeAfterReload asks for it.
Reload(t) ==
  /\ Person
  /\ tab' = [tab EXCEPT ![t] = [NewTab EXCEPT !.page = tab[t].page + 1]]
  /\ calls' = {IF c.tab = t THEN [c EXCEPT !.tab = Nobody] ELSE c : c \in calls}
        \cup IF tab[t].view = "wizard" /\ tab[t].kind = "stitch" /\ tab[t].draft # None
               THEN {Call(t, "reopen", [NewTab EXCEPT !.draft = tab[t].draft,
                                                   !.page = tab[t].page + 1])}
               ELSE {}
  /\ UNCHANGED <<server, started, lost>>

-----------------------------------------------------------------------------
\* The server: domains/orders/drafts.py, under the draft's row lock.
Row(d) == [draft |-> d, version |-> drafts[d].version, work |-> drafts[d].work]
Live == {d \in Drafts : drafts[d].live}
Unmade(d) == drafts[d].version = 0

Answered(c, a) == calls' = (calls \ {c}) \cup (IF c.tab = Nobody THEN {} ELSE {a})
Done(c) == Answered(c, [c EXCEPT !.answer = "ok"])
Refused(c, why) == Answered(c, [c EXCEPT !.answer = why]) /\ UNCHANGED server

Saves == {"next", "submit", "later", "leave", "auto"}

CreateDraft(c) ==
  /\ c.why \in Saves /\ c.draft = None
  /\ \E d \in Drafts :
       /\ Unmade(d) /\ \A e \in 1..(d - 1) : ~Unmade(e)
       /\ drafts' = [drafts EXCEPT ![d] = [live |-> TRUE, work |-> c.work,
                       version |-> 1, by |-> {<<c.tab, c.page>>}, placed |-> 0]]
       /\ Answered(c, [c EXCEPT !.answer = "ok", !.draft = d, !.version = 1])
  /\ UNCHANGED <<taken, added>>

StaleVersion(c) == c.version # drafts[c.draft].version
Overwritten(d, c) == [d EXCEPT !.work = c.work, !.version = @ + 1,
                               !.by = @ \cup {<<c.tab, c.page>>}]
UpdateDraft(c) ==
  /\ c.why \in Saves /\ c.draft # None
  /\ \/ ~drafts[c.draft].live /\ Refused(c, "missing")
     \/ drafts[c.draft].live /\ StaleVersion(c) /\ Refused(c, "conflict")
     \/ /\ drafts[c.draft].live /\ ~StaleVersion(c)
        /\ drafts' = [drafts EXCEPT ![c.draft] = Overwritten(@, c)]
        /\ Answered(c, [c EXCEPT !.answer = "ok", !.version = @ + 1])
        /\ UNCHANGED <<taken, added>>

\* Mutant of Spent: the draft stays.
SpentAndKept(d) == [d EXCEPT !.placed = @ + 1]
\* confirm: the order is made and the draft deleted in one transaction; an
\* order can be refused, and a draft that is gone was placed (409).
Spent(d) == [d EXCEPT !.placed = @ + 1, !.live = FALSE]
ConfirmDraft(c) ==
  /\ c.why = "place"
  /\ \/ /\ drafts[c.draft].live
        /\ drafts' = [drafts EXCEPT ![c.draft] = Spent(@)]
        /\ Done(c) /\ UNCHANGED <<taken, added>>
     \/ drafts[c.draft].live /\ Refused(c, "refused")
     \/ ~drafts[c.draft].live /\ Refused(c, "spent")

DiscardDraft(c) ==
  /\ c.why = "discard"
  /\ drafts' = [drafts EXCEPT ![c.draft].live = FALSE]
  /\ Done(c) /\ UNCHANGED <<taken, added>>

\* Counted for the order it is of.
Once(counts, c) == [n \in DOMAIN counts |-> counts[n] + (IF n \in c.work.of THEN 1 ELSE 0)]

CreateAlteration(c) ==
  /\ c.why = "takein"
  /\ \/ taken' = Once(taken, c) /\ Done(c) /\ UNCHANGED <<drafts, added>>
     \/ Refused(c, "refused")

\* ensureCustomerId looks the number up first, the walk-in's form does not.
AddCustomer(c) ==
  /\ c.why \in {"walkin", "ensure"}
  /\ \/ c.why = "ensure" /\ Done(c) /\ UNCHANGED server
     \/ /\ c.why = "walkin" \/ \A n \in c.work.of : added[n] = 0
        /\ added' = Once(added, c) /\ Done(c) /\ UNCHANGED <<drafts, taken>>
     \/ Refused(c, "refused")

\* Reads: what is there by now.
Read(c) ==
  /\ c.why \in {"list", "reopen"}
  /\ Answered(c, [c EXCEPT !.answer = "ok",
       !.rows = {Row(d) : d \in {e \in Live : c.why = "list" \/ e = c.draft}}])
  /\ UNCHANGED server

Serve(c) ==
  /\ c \in calls /\ c.answer = "none"
  /\ \/ CreateDraft(c) \/ UpdateDraft(c) \/ ConfirmDraft(c) \/ DiscardDraft(c)
     \/ CreateAlteration(c) \/ AddCustomer(c) \/ Read(c)
  /\ UNCHANGED <<tab, started, acts, lost>>

\* The request never arrives, or its answer does not.
Lose(c) ==
  /\ c \in calls /\ c.tab # Nobody /\ c.answer \in {"none", "ok"} /\ lost < MaxLost
  /\ lost' = lost + 1
  /\ calls' = (calls \ {c}) \cup {[c EXCEPT !.answer = "failed"]}
  /\ UNCHANGED <<tab, server, started, acts>>

-----------------------------------------------------------------------------
\* Answers, in the tab.  persistDraft after its await: the draft is the one
\* answered for, whatever order is on the form by now.
Persisted(s, c) ==
  CASE c.answer = "ok" -> [s EXCEPT !.draft = c.draft, !.version = c.version,
                                    !.save = "saved"]
    [] c.answer = "conflict" -> [s EXCEPT !.save = "conflict"]
    [] OTHER -> [s EXCEPT !.save = "failed"]

Heard(t, c, new) == Show(t, new) /\ calls' = calls \ {c}

LandNext(t, c) ==
  c.why = "next" /\ Heard(t, c, [Persisted(tab[t], c) EXCEPT !.busy = FALSE])

LandSaveDraft(t, c) ==
  /\ c.why = "later"
  /\ Heard(t, c, [Persisted(tab[t], c) EXCEPT !.busy = FALSE,
       !.view = IF c.answer = "ok" THEN "dashboard" ELSE @])

LandLeave(t, c) ==
  c.why = "leave" /\ Heard(t, c, [Persisted(tab[t], c) EXCEPT !.view = "dashboard"])

\* Mutant of SavedWork: what is shown by then counts as saved.
SavedAsShown(s, c) == IF c.answer = "ok" THEN s.work ELSE s.saved
SavedWork(s, c) == IF c.answer = "ok" THEN c.work ELSE s.saved
LandTick(t, c) ==
  /\ c.why = "auto"
  /\ LET s == Persisted(tab[t], c) IN
       Heard(t, c, [s EXCEPT !.ticking = FALSE, !.saved = SavedWork(s, c)])

\* submitOrderAndConfirm: saved first, then placed.
LandSubmit(t, c) ==
  /\ c.why = "submit"
  /\ LET s == Persisted(tab[t], c) IN
       IF c.answer = "ok"
         THEN Show(t, s) /\ calls' = (calls \ {c}) \cup {Call(t, "place", s)}
         ELSE Heard(t, c, [s EXCEPT !.busy = FALSE])

LandPlaced(t, c) ==
  /\ c.why = "place"
  /\ Heard(t, c, IF c.answer = "ok"
       THEN [tab[t] EXCEPT !.busy = FALSE, !.draft = None, !.version = 0,
                           !.save = "idle", !.view = "confirmed"]
       ELSE [tab[t] EXCEPT !.busy = FALSE])

LandTakeIn(t, c) ==
  /\ c.why = "takein"
  /\ Heard(t, c, [tab[t] EXCEPT !.busy = FALSE,
       !.view = IF c.answer = "ok" THEN "dashboard" ELSE @])

\* Mutant of WalkIn: the customer just made is not kept.
WalkInForgotten(w) == w
\* The walk-in is in the book: known to the form before the garment is taken
\* in, so that a retry adds nobody.
WalkIn(w) == [w EXCEPT !.who = "known"]
LandWalkIn(t, c) ==
  /\ c.why = "walkin"
  /\ IF c.answer = "ok"
       THEN LET s == [tab[t] EXCEPT !.work = Edited(WalkIn(@))] IN
              Show(t, s) /\ calls' = (calls \ {c}) \cup {Call(t, "takein", s)}
       ELSE Heard(t, c, [tab[t] EXCEPT !.busy = FALSE])

\* An answer written on the form that is open by now.
Lands(t, c, w) ==
  Heard(t, c, IF c.answer = "ok"
    THEN [tab[t] EXCEPT !.work = [Edited(w) EXCEPT !.of = @ \cup c.work.of]]
    ELSE tab[t])
LandGarment(t, c) == c.why = "garment" /\ Lands(t, c, [tab[t].work EXCEPT !.garments = "bare"])
LandUpload(t, c) == c.why = "upload" /\ Lands(t, c, tab[t].work)
LandEnsured(t, c) == c.why = "ensure" /\ Lands(t, c, [tab[t].work EXCEPT !.who = "known"])

LandList(t, c) ==
  /\ c.why = "list"
  /\ Heard(t, c, IF tab[t].view = "selector"
       THEN [tab[t] EXCEPT !.rows = c.rows] ELSE tab[t])

LandDiscard(t, c) ==
  /\ c.why = "discard"
  /\ Heard(t, c, IF c.answer = "ok"
       THEN [tab[t] EXCEPT !.rows = {r \in @ : r.draft # c.draft}] ELSE tab[t])

\* A garment whose template does not come is left off the form.
LandHydrate(t, c) ==
  /\ c.why = "hydrate"
  /\ Heard(t, c, [tab[t] EXCEPT !.view = "wizard", !.kind = "stitch", !.save = "idle",
       !.work = IF c.answer = "ok" THEN c.work ELSE [c.work EXCEPT !.garments = "none"]])

LandReopen(t, c) ==
  /\ c.why = "reopen"
  /\ \/ /\ c.answer = "ok" /\ c.rows # {}
        /\ LET row == CHOOSE r \in c.rows : TRUE IN
             /\ tab' = [tab EXCEPT ![t].draft = row.draft, ![t].version = row.version]
             /\ calls' = (calls \ {c}) \cup
                  {[Call(t, "hydrate", NewTab) EXCEPT !.draft = row.draft,
                      !.version = row.version, !.work = row.work]}
     \/ ~(c.answer = "ok" /\ c.rows # {}) /\ Heard(t, c, tab[t])

Land(t, c) ==
  /\ c \in Mine(t) /\ c.answer # "none"
  /\ \/ LandNext(t, c) \/ LandSaveDraft(t, c) \/ LandLeave(t, c) \/ LandTick(t, c)
     \/ LandSubmit(t, c) \/ LandPlaced(t, c) \/ LandTakeIn(t, c)
     \/ LandWalkIn(t, c) \/ LandGarment(t, c) \/ LandUpload(t, c) \/ LandEnsured(t, c) \/ LandList(t, c) \/ LandDiscard(t, c)
     \/ LandHydrate(t, c) \/ LandReopen(t, c)
  /\ UNCHANGED <<server, started, acts, lost>>

-----------------------------------------------------------------------------
Acts(t) ==
  \/ OpenSelector(t) \/ BackFromSelector(t) \/ StartDoors(t) \/ BeginOrderForCustomer(t)
  \/ \E row \in tab[t].rows : Resume(t, row) \/ Discard(t, row)
  \/ WhoForm(t)
  \/ PickGarments(t) \/ MoreGarments(t) \/ GarmentHead(t) \/ DetailsForm(t)
  \/ LookForm(t) \/ ReferencesForm(t) \/ DesignerForm(t) \/ ClothForm(t) \/ MeasureForm(t) \/ JumpToStep(t)
  \/ GarmentPreviews(t) \/ MoneyForm(t)
  \/ AlterGarmentForm(t) \/ AlterIssueForm(t) \/ OutsideGarmentForm(t) \/ OutsideIssueForm(t)
  \/ FooterBar(t) \/ LeaveWizard(t) \/ ConfirmedPage(t) \/ Reload(t)

Next ==
  \/ \E t \in Tabs : Acts(t) \/ Tick(t)
  \/ \E t \in Tabs, c \in calls : Land(t, c)
  \/ \E c \in calls : Serve(c) \/ Lose(c)

Spec == Init /\ [][Next]_vars

\* The tick comes round, and what is asked is answered: of the calls of one
\* tab each kind is at most once under way at a time.
Whys == Saves \cup {"place", "takein", "walkin", "ensure", "garment", "upload", "list", "discard",
                    "hydrate", "reopen"}
Fairness ==
  \A t \in Tabs :
    /\ WF_vars(Tick(t))
    /\ \A w \in Whys : /\ WF_vars(\E c \in Mine(t) : c.why = w /\ Serve(c))
                       /\ WF_vars(\E c \in Mine(t) : c.why = w /\ Land(t, c))
FairSpec == Spec /\ Fairness

-----------------------------------------------------------------------------
(* An order is placed once, however many tabs it is open in and however     *)
(* often its button is pressed again after an answer was lost               *)
(* (api.confirmOrderDraft: a retry finds the draft spent).                  *)
PlacedOnce == \A d \in Drafts : drafts[d].placed <= 1

(* What one page alone saved and placed had a customer, garments and their  *)
(* measurements, though the stepper reaches the last step past every check  *)
(* and the form can be written on while the order is being placed           *)
(* (performNext, submitOrderAndConfirm).                                    *)
PlacedIsComplete ==
  \A d \in Drafts : drafts[d].placed > 0 /\ Cardinality(drafts[d].by) = 1
                      => Complete(drafts[d].work)

(* A saved order stays that order: it is never overwritten with what was    *)
(* written for another (persistDraft, startService, hydrateWizard; App.jsx: *)
(* leaving the form forgets the order, which is then offered again).        *)
DraftsKeepTheirOrder ==
  [][\A d \in Drafts : drafts[d].live /\ drafts'[d].live
                         => drafts'[d].work.of = drafts[d].work.of]_vars

(* A garment is taken in twice, and its walk-in customer added twice, only   *)
(* where an answer was lost on the way: pressing again after a refusal does  *)
(* neither (runOnce; createOutsideAlterationFromWizard: "A retry after a     *)
(* failure below must not add the customer twice").  Whoever is named after  *)
(* the customer was taken off the form is another customer.                  *)
TakenInOnce == \A n \in DOMAIN taken : taken[n] <= 1 + lost /\ added[n] <= 1 + lost

(* An order with garments on its form comes to be saved, or the form says   *)
(* that it could not be: it does not stay at "saved" over what was written  *)
(* while a save was under way (useAutosave, persistDraft).  The draft of    *)
(* the form may have gone on without it: placed, discarded or saved by a    *)
(* request of another page, or by one whose answer was lost.  A form told   *)
(* of a conflict (two of its own saves crossing are enough) writes no more, *)
(* and when it goes on it takes what is written by then as saved.           *)
GoneOn(s) == s.draft # None /\ (~drafts[s.draft].live \/ drafts[s.draft].version # s.version)
Unsaved(s) ==
  /\ Enabled(s) /\ ~GoneOn(s) /\ s.work.garments # "none"
  /\ \A d \in Live : drafts[d].work # s.work
WritingIsSavedOrSaidNot ==
  \A t \in Tabs : \/ []<>(~Unsaved(tab[t]) \/ tab[t].save = "failed")
                 \/ <>(tab[t].save = "conflict")
=============================================================================
