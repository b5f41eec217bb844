-------------------------- MODULE OrderWizard_proofs --------------------------
(***************************************************************************)
(* However many tabs, drafts, retries and lost answers: an order is placed  *)
(* at most once.  And where the person waits for an answer before leaving   *)
(* a form or opening another: a saved order stays that order, a garment is  *)
(* taken in once for each answer lost and once more, and what one page      *)
(* saved and placed was complete.                                           *)
(***************************************************************************)
EXTENDS OrderWizard, FiniteSetTheorems, TLAPS

-----------------------------------------------------------------------------
(* Placed once.                                                              *)

\* A draft that is still there was never placed: confirming spends it, and no
\* save brings it back.
Sound(d) == /\ DOMAIN d = {"live", "work", "version", "by", "placed"}
            /\ d.placed \in {0, 1}
            /\ d.live => d.placed = 0
SpentDrafts == DOMAIN drafts = Drafts /\ \A d \in Drafts : Sound(drafts[d])

\* What the steps of a tab leave alone.
LEMMA TabsLeaveDrafts ==
  ASSUME NEW t \in Tabs, Acts(t) \/ Tick(t) \/ (\E c \in calls : Land(t, c))
  PROVE  drafts' = drafts
<1> USE DEF server
<1>1. CASE Tick(t) \/ \E c \in calls : Land(t, c)
  BY <1>1 DEF Tick, Land
<1>2. CASE \/ OpenSelector(t) \/ BackFromSelector(t) \/ StartDoors(t) \/ BeginOrderForCustomer(t) \/ ConfirmedPage(t)
           \/ (\E row \in tab[t].rows : Resume(t, row) \/ Discard(t, row))
           \/ LeaveWizard(t) \/ Reload(t)
  BY <1>2 DEF OpenSelector, BackFromSelector, StartDoors, BeginOrderForCustomer, StartService, ConfirmedPage,
              Resume, Discard, LeaveWizard, Reload
<1>3. CASE WhoForm(t)
  BY <1>3 DEF WhoForm, TypeCustomer, PickCustomer, NumberMatched, ClearPickedCustomer, SetOutside,
              Naming, Filling, Undoing, Renaming, Typing
<1>4. CASE \/ PickGarments(t) \/ GarmentHead(t) \/ DetailsForm(t) \/ LookForm(t)
           \/ ReferencesForm(t) \/ DesignerForm(t) \/ ClothForm(t) \/ MeasureForm(t) \/ JumpToStep(t) \/ GarmentPreviews(t) \/ MoneyForm(t)
           \/ AlterGarmentForm(t) \/ AlterIssueForm(t) \/ OutsideGarmentForm(t) \/ OutsideIssueForm(t)
  <2>1. \/ Typing(t) \/ AddGarment(t) \/ RemoveGarment(t) \/ Upload(t) \/ EnsureCustomer(t)
    BY <1>4 DEF PickGarments, GarmentHead, DetailsForm, LookForm, ReferencesForm, DesignerForm, ClothForm,
                MeasureForm, JumpToStep, GarmentPreviews, MoneyForm, AlterGarmentForm, AlterIssueForm, OutsideGarmentForm,
                OutsideIssueForm, Scribble, Told, Measured, Filling
  <2> QED
    BY <2>1 DEF Typing, Undoing, AddGarment, RemoveGarment, Upload, EnsureCustomer
<1>5. CASE FooterBar(t) \/ MoreGarments(t)
  BY <1>5 DEF FooterBar, MoreGarments, AddGarment, HandleBack, PerformSaveDraft, SubmitOrder, PerformNext,
              CreateAlterationFromWizard, CreateOutsideAlterationFromWizard
<1> QED
  BY <1>1, <1>2, <1>3, <1>4, <1>5 DEF Acts

\* The three handlers that write a draft keep it sound.
LEMMA SavesKeepDraftsSound ==
  ASSUME SpentDrafts, NEW c \in calls, CreateDraft(c) \/ UpdateDraft(c)
  PROVE  SpentDrafts'
<1>1. CASE CreateDraft(c)
  <2>1. PICK d \in Drafts :
          drafts' = [drafts EXCEPT ![d] = [live |-> TRUE, work |-> c.work,
                       version |-> 1, by |-> {<<c.tab, c.page>>}, placed |-> 0]]
    BY <1>1 DEF CreateDraft
  <2>2. drafts'[d] = [live |-> TRUE, work |-> c.work,
                      version |-> 1, by |-> {<<c.tab, c.page>>}, placed |-> 0]
    BY <2>1 DEF SpentDrafts
  <2>3. Sound(drafts'[d])
    BY <2>2 DEF Sound
  <2>4. DOMAIN drafts' = Drafts /\ \A e \in Drafts \ {d} : drafts'[e] = drafts[e]
    BY <2>1 DEF SpentDrafts
  <2> QED
    BY <2>3, <2>4 DEF SpentDrafts
<1>2. CASE UpdateDraft(c)
  <2>1. CASE drafts' = drafts
    BY <2>1 DEF SpentDrafts
  <2>2. CASE drafts' = [drafts EXCEPT ![c.draft] = Overwritten(@, c)]
    <3>1. ASSUME NEW d \in Drafts PROVE Sound(drafts'[d])
      <4>1. CASE d = c.draft
        <5>1. drafts'[d] = Overwritten(drafts[d], c)
          BY <2>2, <4>1 DEF SpentDrafts
        <5>2. Sound(drafts[d])
          BY DEF SpentDrafts
        <5> QED
          BY <5>1, <5>2 DEF Overwritten, Sound
      <4>2. CASE d # c.draft
        BY <2>2, <4>2 DEF SpentDrafts
      <4> QED BY <4>1, <4>2
    <3> QED
      BY <2>2, <3>1 DEF SpentDrafts
  <2> QED
    BY <1>2, <2>1, <2>2 DEF UpdateDraft, Refused, server
<1> QED BY <1>1, <1>2

\* Only a live draft is placed, and then it is live no more.
LEMMA PlacingKeepsDraftsSound ==
  ASSUME SpentDrafts, NEW c \in calls, ConfirmDraft(c) \/ DiscardDraft(c)
  PROVE  SpentDrafts'
<1>1. CASE drafts' = drafts
  BY <1>1 DEF SpentDrafts
<1>2. CASE drafts[c.draft].live /\ drafts' = [drafts EXCEPT ![c.draft] = Spent(@)]
  <2>1. ASSUME NEW d \in Drafts PROVE Sound(drafts'[d])
    <3>1. CASE d = c.draft
      <4>1. drafts'[d] = Spent(drafts[d])
        BY <1>2, <3>1 DEF SpentDrafts
      <4>2. Sound(drafts[d]) /\ drafts[d].placed = 0
        BY <1>2, <3>1 DEF SpentDrafts, Sound
      <4> QED
        BY <4>1, <4>2 DEF Spent, Sound
    <3>2. CASE d # c.draft
      BY <1>2, <3>2 DEF SpentDrafts
    <3> QED BY <3>1, <3>2
  <2> QED
    BY <1>2, <2>1 DEF SpentDrafts
<1>3. CASE drafts' = [drafts EXCEPT ![c.draft].live = FALSE]
  <2>1. ASSUME NEW d \in Drafts PROVE Sound(drafts'[d])
    <3>1. Sound(drafts[d])
      BY DEF SpentDrafts
    <3> QED
      BY <1>3, <3>1 DEF SpentDrafts, Sound
  <2> QED
    BY <1>3, <2>1 DEF SpentDrafts
<1> QED
  BY <1>1, <1>2, <1>3 DEF ConfirmDraft, DiscardDraft, Refused, server

LEMMA InitSound == Init => SpentDrafts
<1> SUFFICES ASSUME Init PROVE SpentDrafts
  OBVIOUS
<1>1. PICK n \in {0, 1} : drafts = [d \in Drafts |-> IF d <= n THEN Before ELSE NewDraft]
  BY DEF Init
<1>2. Sound(NewDraft)
  BY DEF NewDraft, Sound
<1>3. Sound(Before)
  BY DEF Before, NewDraft, Written, Sound
<1> QED
  BY <1>1, <1>2, <1>3 DEF SpentDrafts

LEMMA NextKeepsSound == SpentDrafts /\ [Next]_vars => SpentDrafts'
<1> SUFFICES ASSUME SpentDrafts, [Next]_vars PROVE SpentDrafts'
  OBVIOUS
<1>1. ASSUME NEW t \in Tabs, Acts(t) \/ Tick(t) \/ (\E c \in calls : Land(t, c))
      PROVE  SpentDrafts'
  BY <1>1, TabsLeaveDrafts DEF SpentDrafts
<1>2. ASSUME NEW c \in calls, Serve(c)
      PROVE  SpentDrafts'
  <2>1. CASE CreateDraft(c) \/ UpdateDraft(c)
    BY <2>1, SavesKeepDraftsSound
  <2>2. CASE ConfirmDraft(c) \/ DiscardDraft(c)
    BY <2>2, PlacingKeepsDraftsSound
  <2>3. CASE CreateAlteration(c) \/ AddCustomer(c) \/ Read(c)
    BY <2>3 DEF CreateAlteration, AddCustomer, Refused, Read, server, SpentDrafts
  <2> QED
    BY <1>2, <2>1, <2>2, <2>3 DEF Serve
<1>3. ASSUME NEW c \in calls, Lose(c)
      PROVE  SpentDrafts'
  BY <1>3 DEF Lose, server, SpentDrafts
<1>4. CASE UNCHANGED vars
  BY <1>4 DEF vars, SpentDrafts
<1> QED
  BY <1>1, <1>2, <1>3, <1>4 DEF Next

\* An order is placed at most once, from any number of tabs, with any number of retries
\* of a confirm whose answer was lost (api.confirmOrderDraft, drafts.confirm).
THEOREM OrdersArePlacedOnce == Spec => []PlacedOnce
<1>1. SpentDrafts => PlacedOnce
  BY DEF SpentDrafts, Sound, PlacedOnce
<1> QED
  BY <1>1, InitSound, NextKeepsSound, PTL DEF Spec

-----------------------------------------------------------------------------
(* What holds while the person waits for an answer before leaving a form or  *)
(* opening another: the invariant of the three results below.                *)

TabFields == {"page", "view", "kind", "locked", "work", "draft", "version", "save", "busy",
              "saved", "ticking", "rows"}
CallFields == {"tab", "why", "draft", "version", "work", "page", "rows", "answer"}
WorkFields == {"of", "who", "garments", "edit"}
DraftFields == {"live", "work", "version", "by", "placed"}

\* What is off the screen is blank.
IsTab(s) == /\ DOMAIN s = TabFields /\ DOMAIN s.work = WorkFields
            /\ s.page \in Nat /\ s.version \in Nat
            /\ s.view # "wizard" => s.work.of = {}
IsCall(c) == /\ DOMAIN c = CallFields /\ DOMAIN c.work = WorkFields
             /\ c.version \in Nat /\ c.tab \in Tabs \cup {Nobody}
IsDraft(d) == /\ DOMAIN d = DraftFields /\ DOMAIN d.work = WorkFields
              /\ d.version \in Nat /\ d.placed \in Nat /\ IsFiniteSet(d.by)
              /\ d.live => d.version >= 1

Records ==
  /\ DOMAIN tab = Tabs /\ \A t \in Tabs : IsTab(tab[t])
  /\ \A c \in calls : IsCall(c)
  /\ DOMAIN drafts = Drafts /\ \A d \in Drafts : IsDraft(drafts[d])
  /\ taken \in [1..MaxOrders -> Nat] /\ added \in [1..MaxOrders -> Nat]
  /\ started \in Nat /\ lost \in Nat

OnForm(t) == tab[t].view = "wizard"
AlterForm(t) == OnForm(t) /\ tab[t].kind # "stitch"

\* Draft d was made for the orders `of`, and has been at version v.
Refers(d, v, of) ==
  /\ d \in Drafts /\ drafts[d].version >= 1
  /\ v <= drafts[d].version /\ drafts[d].work.of = of
RowRefers(r) ==
  r.version \in Nat /\ DOMAIN r.work = WorkFields /\ Refers(r.draft, r.version, r.work.of)

\* What names a draft is of the orders the draft is of: forms, saves, drafts
\* being opened and offered.
FormsRefer ==
  \A t \in Tabs :
    /\ OnForm(t) /\ tab[t].draft # None
         => Refers(tab[t].draft, tab[t].version, tab[t].work.of)
    /\ \A r \in tab[t].rows : RowRefers(r)
CallsRefer ==
  \A c \in calls :
    /\ c.why = "hydrate" \/ (c.why \in Saves /\ c.draft # None)
         => Refers(c.draft, c.version, c.work.of)
    /\ c.why \in Saves /\ c.answer = "ok" => c.draft # None
    /\ \A r \in c.rows : RowRefers(r)

\* What a tab waits for is for the form it shows, or it is the only thing it
\* waits for.
Elsewhere == {"list", "discard", "hydrate", "reopen"}
CallsAreTheForms ==
  \A t \in Tabs : \A c \in Mine(t) :
    /\ OnForm(t) => c.why \notin Elsewhere /\ c.work.of = tab[t].work.of
    /\ c.why \in Elsewhere => Mine(t) = {c}
    /\ c.why = "hydrate" => tab[t].draft = c.draft /\ tab[t].version = c.version

TellsApart == FormsRefer /\ CallsRefer /\ CallsAreTheForms

\* One press at a time.
Pressed == {"next", "later", "submit", "place", "takein", "walkin"}
OnePress ==
  \A t \in Tabs : \A c \in Mine(t) :
    /\ c.why \in Pressed => tab[t].busy /\ \A e \in Mine(t) : e.why \in Pressed => e = c
    /\ c.why \in Saves \cup {"place"} => c.page = tab[t].page

\* Alterations and what is stitched are never of the same order.
TakingIn == {"takein", "walkin"}
AlterCalls ==
  \A t \in Tabs : \A c \in Mine(t) : c.why \in TakingIn <=> AlterForm(t)

\* What the three results have in common.
InStep == Records /\ TellsApart /\ OnePress /\ AlterCalls

\* An order about to be placed for call c, from page <<t, c.page>>: what that page alone
\* saved is complete, and no other save of the page can still change it.
SavedBy(c, t) ==
  LET d == drafts[c.draft] IN
  /\ c.draft \in Drafts /\ d.version >= 1 /\ <<t, c.page>> \in d.by
  /\ d.by = {<<t, c.page>>} => Complete(d.work)
  /\ \/ /\ c.tab = t
        /\ \A e \in Mine(t) : e.why \in Saves /\ e.answer = "none" /\ e.draft = c.draft
                                => e.version # d.version
     \/ c.tab = Nobody /\ c.page \in Nat /\ c.page < tab[t].page
AboutToBePlaced(c) ==
  \/ c.why = "place" /\ c.answer = "none"
  \/ c.why = "submit" /\ c.answer = "ok" /\ c.tab \in Tabs

PlacesWhole ==
  /\ \A c \in calls : /\ c.why = "submit" => Complete(c.work)
                      /\ AboutToBePlaced(c) => \E t \in Tabs : SavedBy(c, t)
  /\ \A d \in Drafts : drafts[d].placed > 0 =>
       /\ ~drafts[d].live /\ drafts[d].version >= 1
       /\ \A x \in drafts[d].by : drafts[d].by = {x} => Complete(drafts[d].work)

Stitched(n) ==
  \/ \E t \in Tabs : OnForm(t) /\ tab[t].kind = "stitch" /\ n \in tab[t].work.of
  \/ \E c \in calls : c.why \notin TakingIn /\ n \in c.work.of
  \/ \E d \in Drafts : n \in drafts[d].work.of
Altered(n) ==
  \/ \E t \in Tabs : AlterForm(t) /\ n \in tab[t].work.of
  \/ \E c \in calls : c.why \in TakingIn /\ n \in c.work.of
OrdersApart ==
  \A n : /\ Stitched(n) \/ Altered(n) => n \in 1..started
         /\ ~(Stitched(n) /\ Altered(n))

\* An alteration is on one form, or with one request that outlived its page.
Outlived(c) == c \in calls /\ c.tab = Nobody /\ c.why \in TakingIn /\ c.answer = "none"
OneHolder ==
  /\ \A t, u \in Tabs : AlterForm(t) /\ AlterForm(u) /\ t # u
                          => tab[t].work.of \cap tab[u].work.of = {}
  /\ \A t \in Tabs, c \in calls : AlterForm(t) /\ Outlived(c)
                          => tab[t].work.of \cap c.work.of = {}
  /\ \A c, e \in calls : Outlived(c) /\ Outlived(e) /\ c # e => c.work.of \cap e.work.of = {}

Heeded(t, why) == \E c \in Mine(t) : c.why = why /\ c.answer = "ok"
Counted ==
  \A n \in 1..MaxOrders :
    /\ taken[n] <= 1 + lost /\ added[n] <= 1 + lost
    /\ n > started => taken[n] = 0 /\ added[n] = 0
    /\ \A c \in calls : c.answer = "none" /\ n \in c.work.of =>
         /\ c.why = "takein" => taken[n] <= lost
         /\ c.why = "walkin" => added[n] <= lost
    /\ \A t \in Tabs : AlterForm(t) /\ n \in tab[t].work.of =>
         /\ ~Heeded(t, "takein") => taken[n] <= lost
         /\ tab[t].work.who # "known" /\ ~Heeded(t, "walkin") => added[n] <= lost

TakenApart == OrdersApart /\ OneHolder /\ Counted

-----------------------------------------------------------------------------
(* The kinds of step a tab makes.                                            *)

\* Tab t turns; the others stay.
Turned(t) == /\ DOMAIN tab' = Tabs /\ IsTab(tab'[t])
             /\ \A u \in Tabs \ {t} : tab'[u] = tab[u]
SamePage(t) == Turned(t) /\ tab'[t].page = tab[t].page
SameForm(t) == /\ SamePage(t) /\ tab'[t].rows = tab[t].rows
               /\ tab'[t].view = tab[t].view
               /\ tab'[t].draft = tab[t].draft /\ tab'[t].version = tab[t].version
               /\ tab'[t].work.of = tab[t].work.of
Keeping == UNCHANGED <<drafts, taken, lost>>
Asked(t, x) == IsCall(x) /\ x.tab = t /\ x.rows = {}

\* The form is written on.  Who is no customer of the book is it still, or
\* again: then whoever was, is another.
Pens(t) ==
  /\ Keeping /\ SameForm(t) /\ OnForm(t) /\ calls' = calls /\ started' = started
  /\ tab'[t].kind = "stitch" <=> tab[t].kind = "stitch"
  /\ tab'[t].busy = tab[t].busy
  /\ \/ added' = added /\ (tab[t].work.who = "known" => tab'[t].work.who = "known")
     \/ added' = [n \in DOMAIN added |-> IF n \in tab[t].work.of THEN 0 ELSE added[n]]

\* Something is asked of the server, for the form.
Clicks(t, x) ==
  /\ Keeping /\ SameForm(t) /\ OnForm(t) /\ started' = started /\ added' = added
  /\ tab'[t].kind = tab[t].kind /\ tab'[t].work = tab[t].work
  /\ Asked(t, x) /\ calls' = calls \cup {x}
  /\ x.work.of = tab[t].work.of /\ x.why \notin Elsewhere \cup {"place"}
  /\ x.why \in TakingIn <=> AlterForm(t)
  /\ IF x.why \in Pressed THEN ~tab[t].busy /\ tab'[t].busy ELSE tab'[t].busy = tab[t].busy
  /\ x.why \in Saves \cup TakingIn => x.answer = "none"
  /\ x.why \in Saves => /\ x.draft = tab[t].draft /\ x.version = tab[t].version
                        /\ x.page = tab[t].page
                        /\ ~tab[t].busy \/ Mine(t) = {}
  /\ x.why = "submit" => Complete(x.work)
  /\ x.why = "walkin" => tab[t].work.who # "known"

\* An answer to the form lands, and something may be asked on it: N.
Hears(t, c, N) ==
  /\ Keeping /\ SamePage(t) /\ started' = started /\ added' = added
  /\ c \in Mine(t) /\ c.answer # "none" /\ c.why \notin Elsewhere
  /\ calls' = (calls \ {c}) \cup N
  /\ tab'[t].rows = tab[t].rows /\ tab'[t].kind = tab[t].kind
  /\ OnForm(t)' => OnForm(t) /\ tab'[t].work.of = tab[t].work.of
  /\ \/ tab'[t].draft = None
     \/ tab'[t].draft = tab[t].draft /\ tab'[t].version = tab[t].version
     \/ /\ c.why \in Saves /\ c.answer = "ok"
        /\ tab'[t].draft = c.draft /\ tab'[t].version = c.version
  /\ c.why \notin Pressed \/ N # {} => tab'[t].busy = tab[t].busy
  /\ c.why = "takein" /\ c.answer = "ok" => ~OnForm(t)'
  /\ c.why \in TakingIn /\ OnForm(t)' =>
       tab'[t].work.who = IF c.why = "walkin" /\ c.answer = "ok"
                            THEN "known" ELSE tab[t].work.who
  /\ \/ N = {}
     \/ \E x : /\ N = {x} /\ Asked(t, x) /\ c.answer = "ok" /\ x.answer = "none"
               /\ x.work.of = tab[t].work.of /\ x.page = tab[t].page
               /\ tab'[t].view = tab[t].view
               /\ \/ c.why = "submit" /\ x.why = "place" /\ x.draft = c.draft
                  \/ c.why = "walkin" /\ x.why = "takein"

\* The form is off the screen, all that was asked has been answered, and what
\* opens a form, or is no form's, may be asked: N.
Away(t, N) ==
  /\ Keeping /\ SamePage(t) /\ ~OnForm(t)' /\ started' = started /\ added' = added
  /\ calls' = (calls \ Mine(t)) \cup N
  /\ \A r \in tab'[t].rows : RowRefers(r)
  /\ \/ N = {}
     \/ \E x : /\ N = {x} /\ Asked(t, x) /\ x.why \in Elsewhere
               /\ IF x.why = "hydrate"
                    THEN /\ Refers(x.draft, x.version, x.work.of)
                         /\ tab'[t].draft = x.draft /\ tab'[t].version = x.version
                    ELSE x.work.of = {}

\* A form opens: a new one, or that of a draft.
Opened(t) ==
  /\ Keeping /\ SamePage(t) /\ OnForm(t)' /\ added' = added
  /\ calls' = calls \ Mine(t) /\ tab'[t].rows = tab[t].rows
  /\ \/ /\ started' = started + 1 /\ tab'[t].draft = None
        /\ tab'[t].work.of = {started + 1}
     \/ /\ started' = started /\ tab'[t].kind = "stitch"
        /\ \E c \in Mine(t) : /\ c.why = "hydrate" /\ tab'[t].work.of = c.work.of
                              /\ tab'[t].draft = c.draft /\ tab'[t].version = c.version

\* The page is new, and what the old one asked is nobody's.
Orphan(c) == [c EXCEPT !.tab = Nobody]
Reloads(t) ==
  /\ Keeping /\ Turned(t) /\ ~OnForm(t)' /\ started' = started /\ added' = added
  /\ tab'[t].page = tab[t].page + 1 /\ tab'[t].rows = {}
  /\ calls \ Mine(t) \subseteq calls'
  /\ \A e \in calls' : \/ e \in calls \ Mine(t)
                       \/ \E c \in Mine(t) : e = Orphan(c)
                       \/ /\ Asked(t, e) /\ e.why = "reopen" /\ e.work.of = {}
                          /\ calls' \cap {c \in calls' : c.tab = t} = {e}

Turns(t) == \/ Pens(t) \/ (\E x : Clicks(t, x)) \/ (\E c, N : Hears(t, c, N))
            \/ (\E N : Away(t, N)) \/ Opened(t) \/ Reloads(t)

\* The server, or the network, deals with call c: what is answered is A.
Answers(c, A) ==
  /\ tab' = tab /\ started' = started /\ c \in calls
  /\ calls' = (calls \ {c}) \cup A
  /\ \/ A = {} /\ c.tab = Nobody /\ c.answer = "none"
     \/ \E a : /\ A = {a} /\ IsCall(a) /\ c.tab # Nobody
               /\ a.tab = c.tab /\ a.why = c.why /\ a.work = c.work /\ a.page = c.page
               /\ \/ c.answer = "none" /\ a.answer # "none"
                  \/ c.answer = "ok" /\ a.answer = "failed"
               /\ a.why \notin Saves => a.draft = c.draft /\ a.version = c.version
               /\ a.why \in Saves /\ a.draft # None => Refers(a.draft, a.version, a.work.of)'
               /\ a.why \in Saves /\ a.answer = "ok" => a.draft # None
               /\ \A r \in a.rows : RowRefers(r)
\* Meanwhile no draft is made into another's.
Grows ==
  /\ DOMAIN drafts' = Drafts
  /\ \A d \in Drafts : /\ IsDraft(drafts'[d]) /\ drafts'[d].version >= drafts[d].version
                       /\ drafts[d].version >= 1 => drafts'[d].work.of = drafts[d].work.of

-----------------------------------------------------------------------------
(* Every step of a tab is of one of these kinds.                             *)

LEMMA Shown ==
  ASSUME Records, NEW t \in Tabs, NEW new, DOMAIN new = TabFields,
         DOMAIN new.work = WorkFields, new.page \in Nat, new.version \in Nat, Show(t, new)
  PROVE  /\ Turned(t)
         /\ tab'[t].page = new.page /\ tab'[t].view = new.view /\ tab'[t].kind = new.kind
         /\ tab'[t].draft = new.draft /\ tab'[t].version = new.version
         /\ tab'[t].busy = new.busy /\ tab'[t].rows = new.rows
         /\ tab'[t].work = IF new.view = "wizard" THEN new.work ELSE Blank
<1>1. /\ DOMAIN tab' = Tabs /\ tab'[t] = Rendered(tab[t], new)
      /\ \A u \in Tabs \ {t} : tab'[u] = tab[u]
  BY DEF Show, Records
<1> DEFINE saved == CASE ~Enabled(new) -> Blank
                      [] Enabled(new) /\ ~Enabled(tab[t]) -> new.work
                      [] OTHER -> new.saved
           work == IF new.view = "wizard" THEN new.work ELSE Blank
           locked == new.view = "wizard" /\ new.locked
<1>2. Rendered(tab[t], new) = [[[new EXCEPT !.saved = saved] EXCEPT !.work = work] EXCEPT !.locked = locked]
  BY DEF Rendered
<1> HIDE DEF saved, locked
<1>3. DOMAIN Blank = WorkFields /\ Blank.of = {}
  BY DEF Blank, Written, WorkFields
<1>4. DOMAIN work = WorkFields /\ (new.view # "wizard" => work.of = {})
  BY <1>3
<1> HIDE DEF work
<1>5. /\ DOMAIN tab'[t] = TabFields /\ tab'[t].work = work
      /\ tab'[t].page = new.page /\ tab'[t].view = new.view /\ tab'[t].kind = new.kind
      /\ tab'[t].draft = new.draft /\ tab'[t].version = new.version
      /\ tab'[t].busy = new.busy /\ tab'[t].rows = new.rows
  BY <1>1, <1>2 DEF TabFields
<1>6. IsTab(tab'[t])
  BY <1>5, <1>4 DEF IsTab
<1> QED
  BY <1>1, <1>5, <1>6 DEF Turned, work

LEMMA WritingShows ==
  ASSUME Records, NEW t \in Tabs, OnForm(t), NEW w, DOMAIN w = WorkFields,
         w.of = tab[t].work.of, Writes(t, w)
  PROVE  /\ SameForm(t) /\ tab'[t].kind = tab[t].kind /\ tab'[t].busy = tab[t].busy
         /\ tab'[t].work.who = w.who
<1> DEFINE new == [tab[t] EXCEPT !.work = Edited(w)]
<1>1. DOMAIN Edited(w) = WorkFields /\ Edited(w).of = w.of /\ Edited(w).who = w.who
  BY DEF Edited, WorkFields
<1>2. IsTab(tab[t])
  BY DEF Records
<1>3. /\ DOMAIN new = TabFields /\ new.work = Edited(w) /\ new.page = tab[t].page
      /\ new.view = tab[t].view /\ new.draft = tab[t].draft /\ new.version = tab[t].version
      /\ new.kind = tab[t].kind /\ new.busy = tab[t].busy /\ new.rows = tab[t].rows
  BY <1>2 DEF IsTab, TabFields
<1>4. Show(t, new)
  BY DEF Writes
<1>5. new.page \in Nat /\ new.version \in Nat
  BY <1>2, <1>3 DEF IsTab
<1> HIDE DEF new
<1> QED
  BY <1>1, <1>3, <1>4, <1>5, Shown DEF SameForm, SamePage, OnForm

\* A part of what is written changes.
LEMMA PartsStay ==
  ASSUME Records, NEW t \in Tabs
  PROVE  /\ DOMAIN tab[t].work = WorkFields
         /\ \A x : LET w == [tab[t].work EXCEPT !.who = x] IN
              DOMAIN w = WorkFields /\ w.of = tab[t].work.of /\ w.who = x
         /\ \A x : LET w == [tab[t].work EXCEPT !.garments = x] IN
              DOMAIN w = WorkFields /\ w.of = tab[t].work.of /\ w.who = tab[t].work.who
<1>1. DOMAIN tab[t].work = WorkFields
  BY DEF Records, IsTab
<1>2. \A x : LET w == [tab[t].work EXCEPT !.who = x] IN
              DOMAIN w = WorkFields /\ w.of = tab[t].work.of /\ w.who = x
  BY <1>1 DEF WorkFields
<1>3. \A x : LET w == [tab[t].work EXCEPT !.garments = x] IN
              DOMAIN w = WorkFields /\ w.of = tab[t].work.of /\ w.who = tab[t].work.who
  BY <1>1 DEF WorkFields
<1> QED BY <1>1, <1>2, <1>3

LEMMA FillingPens ==
  ASSUME Records, NEW t \in Tabs, Scribble(t) \/ Told(t) \/ Measured(t) \/ RemoveGarment(t)
  PROVE  Pens(t)
<1>1. /\ OnForm(t) /\ Keeping /\ calls' = calls /\ started' = started /\ added' = added
  BY DEF Scribble, Told, Measured, RemoveGarment, Filling, Undoing, Typing, Keeping, OnForm
<1>2. PICK w : /\ Writes(t, w) /\ DOMAIN w = WorkFields
               /\ w.of = tab[t].work.of /\ w.who = tab[t].work.who
  <2>1. CASE Scribble(t)
    BY <2>1, PartsStay DEF Scribble
  <2>2. CASE ~Scribble(t)
    <3> PICK x : Writes(t, [tab[t].work EXCEPT !.garments = x])
      BY <2>2 DEF Told, Measured, RemoveGarment
    <3> DEFINE w == [tab[t].work EXCEPT !.garments = x]
    <3>1. DOMAIN w = WorkFields /\ w.of = tab[t].work.of /\ w.who = tab[t].work.who
      BY PartsStay
    <3>2. Writes(t, w)
      OBVIOUS
    <3> HIDE DEF w
    <3> QED BY <3>1, <3>2
  <2> QED BY <2>1, <2>2
<1> QED
  BY <1>1, <1>2, WritingShows DEF Pens

LEMMA WhoFormPens ==
  ASSUME Records, NEW t \in Tabs, WhoForm(t)
  PROVE  Pens(t)
<1>1. CASE SetOutside(t)
  <2>1. /\ OnForm(t) /\ Keeping /\ calls' = calls /\ started' = started /\ added' = added
    BY <1>1 DEF SetOutside, Filling, Undoing, Typing, Keeping, OnForm
  <2>2. PICK k \in {"alter", "outside"} : Show(t, [tab[t] EXCEPT !.kind = k])
    BY <1>1 DEF SetOutside
  <2>3. tab[t].kind # "stitch"
    BY <1>1 DEF SetOutside
  <2> DEFINE new == [tab[t] EXCEPT !.kind = k]
  <2>4. IsTab(tab[t])
    BY DEF Records
  <2>5. /\ DOMAIN new = TabFields /\ new.work = tab[t].work /\ new.page = tab[t].page
        /\ new.view = tab[t].view /\ new.draft = tab[t].draft /\ new.version = tab[t].version
        /\ new.kind = k /\ new.busy = tab[t].busy /\ new.rows = tab[t].rows
    BY <2>4 DEF IsTab, TabFields
  <2>6. DOMAIN new.work = WorkFields /\ new.page \in Nat /\ new.version \in Nat
    BY <2>4, <2>5 DEF IsTab
  <2>8. Show(t, new)
    BY <2>2
  <2> HIDE DEF new
  <2>7. /\ SameForm(t) /\ tab'[t].kind = k /\ tab'[t].busy = tab[t].busy
        /\ tab'[t].work = tab[t].work
    BY <2>1, <2>5, <2>6, <2>8, Shown DEF SameForm, SamePage, OnForm
  <2> QED
    BY <2>1, <2>2, <2>3, <2>7 DEF Pens
<1>2. CASE ~SetOutside(t)
  <2>1. /\ OnForm(t) /\ Keeping /\ calls' = calls /\ started' = started
    BY <1>2 DEF WhoForm, TypeCustomer, PickCustomer, NumberMatched, ClearPickedCustomer,
           Naming, Renaming, Filling, Typing, Keeping, OnForm
  <2>2. PICK x : /\ Writes(t, [tab[t].work EXCEPT !.who = x])
                 /\ \/ added' = added /\ (tab[t].work.who = "known" => x = "known")
                    \/ added' = [n \in DOMAIN added |-> IF n \in tab[t].work.of THEN 0 ELSE added[n]]
    BY <1>2 DEF WhoForm, TypeCustomer, PickCustomer, NumberMatched, ClearPickedCustomer, Picked,
           Naming, Renaming, Filling
  <2>3. /\ SameForm(t) /\ tab'[t].kind = tab[t].kind /\ tab'[t].busy = tab[t].busy
        /\ tab'[t].work.who = x
    <3> DEFINE w == [tab[t].work EXCEPT !.who = x]
    <3>1. DOMAIN w = WorkFields /\ w.of = tab[t].work.of /\ w.who = x
      BY PartsStay
    <3>2. Writes(t, w)
      BY <2>2
    <3> HIDE DEF w
    <3> QED BY <2>1, <3>1, <3>2, WritingShows
  <2> QED
    BY <2>1, <2>2, <2>3 DEF Pens
<1> QED BY <1>1, <1>2

LEMMA Called ==
  ASSUME NEW t \in Tabs, NEW why, NEW s, s.version \in Nat, DOMAIN s.work = WorkFields
  PROVE  LET x == Call(t, why, s) IN
           /\ Asked(t, x) /\ x.why = why /\ x.draft = s.draft /\ x.version = s.version
           /\ x.work = s.work /\ x.page = s.page
           /\ why \notin {"garment", "upload", "hydrate"} => x.answer = "none"
BY DEF Call, Asked, IsCall, CallFields

LEMMA NewTabs ==
  /\ NewTab.version \in Nat /\ DOMAIN NewTab.work = WorkFields
  /\ NewTab.work.of = {} /\ NewTab.page = 1 /\ NewTab.draft = None
  /\ DOMAIN NewTab = TabFields /\ NewTab.view = "dashboard" /\ NewTab.rows = {}
BY DEF NewTab, Blank, Written, WorkFields, TabFields

\* A garment's form, a picture, a customer for the book.
LEMMA AskingClicks ==
  ASSUME Records, NEW t \in Tabs, AddGarment(t) \/ Upload(t) \/ EnsureCustomer(t)
  PROVE  \E x : Clicks(t, x)
<1>1. /\ OnForm(t) /\ tab[t].kind = "stitch" /\ Keeping /\ tab' = tab
      /\ started' = started /\ added' = added
  BY DEF AddGarment, Upload, EnsureCustomer, OnForm, Keeping, server
<1>2. PICK why \in {"garment", "upload", "ensure"} :
        calls' = calls \cup {[Call(t, why, NewTab) EXCEPT !.work.of = tab[t].work.of]}
  BY DEF AddGarment, Upload, EnsureCustomer
<1> DEFINE c == Call(t, why, NewTab)
           x == [c EXCEPT !.work.of = tab[t].work.of]
<1>3. Asked(t, c) /\ c.why = why /\ c.work = NewTab.work
  BY Called, NewTabs
<1>4. x = [c EXCEPT !.work = [c.work EXCEPT !.of = tab[t].work.of]]
  OBVIOUS
<1>5. calls' = calls \cup {x}
  BY <1>2
<1> HIDE DEF c
<1> DEFINE w == [c.work EXCEPT !.of = tab[t].work.of]
<1>6. DOMAIN w = WorkFields /\ w.of = tab[t].work.of
  BY <1>3, NewTabs DEF WorkFields
<1>7. x = [c EXCEPT !.work = w]
  BY <1>4
<1> HIDE DEF w, x
<1>8. Asked(t, x) /\ x.why = why /\ x.work = w
  BY <1>3, <1>6, <1>7 DEF Asked, IsCall, CallFields
<1>9. Turned(t)
  BY <1>1 DEF Turned, Records
<1> QED
  BY <1>1, <1>5, <1>6, <1>8, <1>9 DEF Clicks, SameForm, SamePage, AlterForm, TakingIn, Pressed,
     Saves, Elsewhere

\* A save of what is written on the form.
LEMMA PersistingClicks ==
  ASSUME Records, NEW t \in Tabs, NEW why \in Saves, NEW s, PersistDraft(t, why, s), Keeping,
         added' = added, started' = started, OnForm(t), tab[t].kind = "stitch",
         DOMAIN s = TabFields, s.work = tab[t].work, s.page = tab[t].page, s.view = tab[t].view,
         s.kind = tab[t].kind, s.draft = tab[t].draft, s.version = tab[t].version,
         s.rows = tab[t].rows,
         IF why \in Pressed THEN ~tab[t].busy /\ s.busy ELSE s.busy = tab[t].busy,
         ~tab[t].busy \/ Mine(t) = {},
         why = "submit" => Complete(tab[t].work)
  PROVE  \E x : Clicks(t, x)
<1>1. IsTab(tab[t])
  BY DEF Records
<1> DEFINE new == [s EXCEPT !.save = "saving"]
           x == Call(t, why, s)
<1>2. /\ DOMAIN new = TabFields /\ new.work = tab[t].work /\ new.page = tab[t].page
      /\ new.view = tab[t].view /\ new.draft = tab[t].draft /\ new.version = tab[t].version
      /\ new.kind = tab[t].kind /\ new.busy = s.busy /\ new.rows = tab[t].rows
  BY DEF TabFields
<1>3. Show(t, new) /\ calls' = calls \cup {x}
  BY DEF PersistDraft
<1>4. DOMAIN new.work = WorkFields /\ new.page \in Nat /\ new.version \in Nat
  BY <1>1, <1>2 DEF IsTab
<1> HIDE DEF new
<1>5. /\ SameForm(t) /\ tab'[t].kind = tab[t].kind /\ tab'[t].work = tab[t].work
      /\ tab'[t].busy = s.busy
  BY <1>2, <1>3, <1>4, Shown DEF SameForm, SamePage, OnForm
<1>6. /\ Asked(t, x) /\ x.why = why /\ x.draft = tab[t].draft /\ x.version = tab[t].version
      /\ x.work = tab[t].work /\ x.page = tab[t].page /\ x.answer = "none"
  BY <1>1, Called DEF IsTab, Saves
<1> HIDE DEF x
<1>7. why \notin Elsewhere \cup {"place", "walkin", "takein"}
  BY DEF Saves, Elsewhere
<1>8. (why \in TakingIn <=> AlterForm(t)) /\ why # "walkin"
  BY <1>7 DEF TakingIn, AlterForm
<1> QED
  BY <1>3, <1>5, <1>6, <1>7, <1>8 DEF Clicks

\* The saves: the tick's waits while a button's is under way.
LEMMA SavingClicks ==
  ASSUME Records, ~Overlap, NEW t \in Tabs,
         \/ \E step : PerformNext(t, step)
         \/ SubmitOrder(t) \/ PerformSaveDraft(t) \/ Tick(t)
         \/ /\ Opens(t) /\ OnForm(t) /\ tab[t].kind = "stitch"
            /\ PersistDraft(t, "leave", tab[t]) /\ UNCHANGED <<server, started, lost>>
  PROVE  \E x : Clicks(t, x)
<1>1. OnForm(t) /\ tab[t].kind = "stitch" /\ Keeping /\ added' = added /\ started' = started
  BY DEF PerformNext, SubmitOrder, PerformSaveDraft, Tick, Changed, Enabled, Presses, OnForm,
         Keeping, server
<1>2. IsTab(tab[t])
  BY DEF Records
<1>3. CASE \E step : PerformNext(t, step) \/ SubmitOrder(t) \/ PerformSaveDraft(t)
  <2> DEFINE s == [tab[t] EXCEPT !.busy = TRUE]
  <2>1. PICK why \in {"next", "submit", "later"} :
          PersistDraft(t, why, s) /\ ~tab[t].busy /\ (why = "submit" => Complete(tab[t].work))
    BY <1>3 DEF PerformNext, SubmitOrder, PerformSaveDraft, Presses, StepOk, Complete
  <2>2. /\ DOMAIN s = TabFields /\ s.work = tab[t].work /\ s.page = tab[t].page
        /\ s.view = tab[t].view /\ s.kind = tab[t].kind /\ s.draft = tab[t].draft
        /\ s.version = tab[t].version /\ s.rows = tab[t].rows /\ s.busy
    BY <1>2 DEF IsTab, TabFields
  <2> HIDE DEF s
  <2>3. why \in Saves /\ why \in Pressed
    BY DEF Saves, Pressed
  <2> QED
    BY <1>1, <2>1, <2>2, <2>3, PersistingClicks
<1>4. CASE Tick(t)
  <2> DEFINE s == [tab[t] EXCEPT !.ticking = TRUE]
  <2>1. PersistDraft(t, "auto", s) /\ ~tab[t].busy
    BY <1>4 DEF Tick
  <2>2. /\ DOMAIN s = TabFields /\ s.work = tab[t].work /\ s.page = tab[t].page
        /\ s.view = tab[t].view /\ s.kind = tab[t].kind /\ s.draft = tab[t].draft
        /\ s.version = tab[t].version /\ s.rows = tab[t].rows /\ s.busy = tab[t].busy
    BY <1>2 DEF IsTab, TabFields
  <2> HIDE DEF s
  <2>3. "auto" \in Saves /\ "auto" \notin Pressed
    BY DEF Saves, Pressed
  <2> QED
    BY <1>1, <2>1, <2>2, <2>3, PersistingClicks
<1>5. CASE Opens(t) /\ PersistDraft(t, "leave", tab[t])
  <2>1. Mine(t) = {}
    BY <1>5 DEF Opens, Idle
  <2>2. "leave" \in Saves /\ "leave" \notin Pressed
    BY DEF Saves, Pressed
  <2> QED
    BY <1>1, <1>2, <1>5, <2>1, <2>2, PersistingClicks DEF IsTab
<1> QED BY <1>3, <1>4, <1>5

LEMMA TakingInClicks ==
  ASSUME Records, NEW t \in Tabs,
         CreateAlterationFromWizard(t) \/ CreateOutsideAlterationFromWizard(t)
  PROVE  \E x : Clicks(t, x)
<1>1. /\ OnForm(t) /\ tab[t].kind # "stitch" /\ ~tab[t].busy
      /\ Keeping /\ added' = added /\ started' = started
  BY DEF CreateAlterationFromWizard, CreateOutsideAlterationFromWizard, Presses, OnForm,
         Keeping, server
<1>2. IsTab(tab[t])
  BY DEF Records
<1> DEFINE new == [tab[t] EXCEPT !.busy = TRUE]
<1>3. PICK why \in {"takein", "walkin"} :
        /\ calls' = calls \cup {Call(t, why, tab[t])}
        /\ why = "walkin" => ~(tab[t].work.who = "known")
  BY DEF CreateAlterationFromWizard, CreateOutsideAlterationFromWizard, TakingIn
<1>4. Show(t, new)
  BY DEF CreateAlterationFromWizard, CreateOutsideAlterationFromWizard
<1>5. /\ DOMAIN new = TabFields /\ new.work = tab[t].work /\ new.page = tab[t].page
      /\ new.view = tab[t].view /\ new.draft = tab[t].draft /\ new.version = tab[t].version
      /\ new.kind = tab[t].kind /\ new.busy /\ new.rows = tab[t].rows
  BY <1>2 DEF IsTab, TabFields
<1>6. DOMAIN new.work = WorkFields /\ new.page \in Nat /\ new.version \in Nat
  BY <1>2, <1>5 DEF IsTab
<1> HIDE DEF new
<1>7. /\ SameForm(t) /\ tab'[t].kind = tab[t].kind /\ tab'[t].work = tab[t].work
      /\ tab'[t].busy
  BY <1>1, <1>4, <1>5, <1>6, Shown DEF SameForm, SamePage, OnForm
<1> DEFINE x == Call(t, why, tab[t])
<1>8. Asked(t, x) /\ x.why = why /\ x.work = tab[t].work /\ x.answer = "none"
  BY <1>2, Called DEF IsTab
<1>9. calls' = calls \cup {x}
  BY ONLY <1>3 DEF x
<1> HIDE DEF x
<1>10. why \notin Elsewhere \cup {"place", "submit"} /\ why \in Pressed /\ why \notin Saves
       /\ why \in TakingIn
  BY DEF TakingIn, Elsewhere, Pressed, Saves
<1>11. why = "walkin" => tab[t].work.who # "known"
  BY <1>3
<1> QED
  BY <1>1, <1>7, <1>8, <1>9, <1>10, <1>11 DEF Clicks, AlterForm

LEMMA ViewShown ==
  ASSUME Records, NEW t \in Tabs, NEW v, v # "wizard", Show(t, [tab[t] EXCEPT !.view = v])
  PROVE  SamePage(t) /\ ~OnForm(t)' /\ tab'[t].rows = tab[t].rows
<1> DEFINE new == [tab[t] EXCEPT !.view = v]
<1>1. IsTab(tab[t])
  BY DEF Records
<1>2. /\ DOMAIN new = TabFields /\ new.work = tab[t].work /\ new.page = tab[t].page
      /\ new.view = v /\ new.version = tab[t].version /\ new.rows = tab[t].rows
  BY <1>1 DEF IsTab, TabFields
<1>3. Show(t, new)
  OBVIOUS
<1>4. DOMAIN new.work = WorkFields /\ new.page \in Nat /\ new.version \in Nat
  BY <1>1, <1>2 DEF IsTab
<1> HIDE DEF new
<1> QED
  BY <1>2, <1>3, <1>4, Shown DEF SamePage, OnForm

\* Leaving a form, the chooser, the confirmed order; going back to the chooser.
LEMMA LeavingIsAway ==
  ASSUME Records, FormsRefer, ~Overlap, NEW t \in Tabs,
         \/ OpenSelector(t) \/ BackFromSelector(t) \/ ConfirmedPage(t) \/ HandleBack(t)
         \/ /\ LeaveWizard(t) /\ Show(t, [tab[t] EXCEPT !.view = "dashboard"]) /\ UNCHANGED calls
  PROVE  \E N : Away(t, N)
<1>1. Keeping /\ added' = added /\ started' = started /\ Mine(t) = {}
  BY DEF OpenSelector, BackFromSelector, ConfirmedPage, HandleBack, LeaveWizard, Opens, Idle,
         Keeping, server
<1>2. PICK v \in {"dashboard", "selector"} : Show(t, [tab[t] EXCEPT !.view = v])
  BY DEF OpenSelector, BackFromSelector, ConfirmedPage, HandleBack
<1>3. SamePage(t) /\ ~OnForm(t)' /\ tab'[t].rows = tab[t].rows
  BY <1>2, ViewShown
<1>4. \A r \in tab'[t].rows : RowRefers(r)
  BY <1>3 DEF FormsRefer
<1> DEFINE x == Call(t, "list", NewTab)
<1>5. Asked(t, x) /\ x.why = "list" /\ x.work.of = {}
  BY Called, NewTabs
<1>6. calls' = calls \/ calls' = calls \cup {x}
  BY DEF OpenSelector, BackFromSelector, ConfirmedPage, HandleBack
<1> HIDE DEF x
<1>7. "list" \in Elsewhere /\ "list" # "hydrate"
  BY DEF Elsewhere
<1>8. CASE calls' = calls
  <2>1. calls' = (calls \ Mine(t)) \cup {}
    BY <1>1, <1>8
  <2> QED
    BY <1>1, <1>3, <1>4, <2>1 DEF Away
<1>9. CASE calls' = calls \cup {x}
  <2>1. calls' = (calls \ Mine(t)) \cup {x}
    BY <1>1, <1>9
  <2> QED
    BY <1>1, <1>3, <1>4, <1>5, <1>7, <2>1 DEF Away
<1> QED BY <1>6, <1>8, <1>9

\* A draft is opened: its garments' templates are asked for.
LEMMA HydratingCalls ==
  ASSUME NEW t \in Tabs, NEW row, RowRefers(row)
  PROVE  LET x == [Call(t, "hydrate", NewTab) EXCEPT !.draft = row.draft,
                     !.version = row.version, !.work = row.work]
         IN  /\ Asked(t, x) /\ x.why = "hydrate" /\ x.draft = row.draft
             /\ x.version = row.version /\ Refers(x.draft, x.version, x.work.of)
<1> DEFINE c == Call(t, "hydrate", NewTab)
           x == [c EXCEPT !.draft = row.draft, !.version = row.version, !.work = row.work]
<1>1. Asked(t, c) /\ c.why = "hydrate"
  BY Called, NewTabs
<1> HIDE DEF c
<1>2. /\ DOMAIN x = CallFields /\ x.draft = row.draft /\ x.version = row.version
      /\ x.work = row.work /\ x.tab = c.tab /\ x.rows = c.rows /\ x.why = c.why
  BY <1>1 DEF Asked, IsCall, CallFields
<1> HIDE DEF x
<1>3. Asked(t, x) /\ x.why = "hydrate" /\ Refers(x.draft, x.version, x.work.of)
  BY <1>1, <1>2 DEF Asked, IsCall, RowRefers
<1> QED
  BY <1>2, <1>3 DEF x, c

\* A draft is resumed from the chooser, or after the page was loaded again.
LEMMA OpeningIsAway ==
  ASSUME Records, FormsRefer, NEW t \in Tabs, NEW row, RowRefers(row),
         Keeping, added' = added, started' = started, ~OnForm(t)', SamePage(t),
         tab'[t].rows = tab[t].rows, tab'[t].draft = row.draft, tab'[t].version = row.version,
         calls' = (calls \ Mine(t)) \cup {[Call(t, "hydrate", NewTab) EXCEPT
                     !.draft = row.draft, !.version = row.version, !.work = row.work]}
  PROVE  \E N : Away(t, N)
<1> DEFINE x == [Call(t, "hydrate", NewTab) EXCEPT !.draft = row.draft,
                     !.version = row.version, !.work = row.work]
<1>1. /\ Asked(t, x) /\ x.why = "hydrate" /\ x.draft = row.draft
      /\ x.version = row.version /\ Refers(x.draft, x.version, x.work.of)
  BY HydratingCalls
<1>2. calls' = (calls \ Mine(t)) \cup {x}
  OBVIOUS
<1> HIDE DEF x
<1>3. \A r \in tab'[t].rows : RowRefers(r)
  BY DEF FormsRefer
<1>4. "hydrate" \in Elsewhere
  BY DEF Elsewhere
<1> QED
  BY <1>1, <1>2, <1>3, <1>4 DEF Away

LEMMA ResumeIsAway ==
  ASSUME Records, FormsRefer, ~Overlap, NEW t \in Tabs, NEW row \in tab[t].rows, Resume(t, row)
  PROVE  \E N : Away(t, N)
<1>1. Keeping /\ added' = added /\ started' = started /\ Mine(t) = {} /\ tab[t].view = "selector"
  BY DEF Resume, Opens, Idle, Keeping, server
<1>2. RowRefers(row) /\ IsTab(tab[t])
  BY DEF FormsRefer, Records
<1> DEFINE new == [tab[t] EXCEPT !.draft = row.draft, !.version = row.version, !.locked = FALSE]
<1>3. Show(t, new)
  BY DEF Resume, Hydrating
<1>4. /\ DOMAIN new = TabFields /\ new.work = tab[t].work /\ new.page = tab[t].page
      /\ new.view = "selector" /\ new.version = row.version /\ new.draft = row.draft
      /\ new.rows = tab[t].rows
  BY <1>1, <1>2 DEF IsTab, TabFields
<1>5. DOMAIN new.work = WorkFields /\ new.page \in Nat /\ new.version \in Nat
  BY <1>2, <1>4 DEF IsTab, RowRefers
<1> HIDE DEF new
<1>6. /\ SamePage(t) /\ ~OnForm(t)' /\ tab'[t].rows = tab[t].rows /\ tab'[t].draft = row.draft
      /\ tab'[t].version = row.version
  BY <1>3, <1>4, <1>5, Shown DEF SamePage, OnForm
<1> DEFINE N == {[Call(t, "hydrate", NewTab) EXCEPT !.draft = row.draft,
                     !.version = row.version, !.work = row.work]}
<1>7. calls' = calls \cup N
  BY DEF Resume, Hydrating
<1>8. calls' = (calls \ Mine(t)) \cup N
  BY <1>1, <1>7
<1> QED
  BY <1>1, <1>2, <1>6, <1>8, OpeningIsAway

LEMMA DiscardIsAway ==
  ASSUME Records, FormsRefer, ~Overlap, NEW t \in Tabs, NEW row \in tab[t].rows, Discard(t, row)
  PROVE  \E N : Away(t, N)
<1>1. /\ Keeping /\ added' = added /\ started' = started /\ Mine(t) = {} /\ tab' = tab
      /\ ~OnForm(t)
  BY DEF Discard, Opens, Idle, Keeping, server, OnForm
<1>2. SamePage(t) /\ ~OnForm(t)' /\ \A r \in tab'[t].rows : RowRefers(r)
  BY <1>1 DEF SamePage, Turned, Records, FormsRefer, OnForm
<1> DEFINE c == Call(t, "discard", NewTab)
           x == [c EXCEPT !.draft = row.draft]
<1>3. Asked(t, c) /\ c.why = "discard" /\ c.work.of = {}
  BY Called, NewTabs
<1>4. calls' = calls \cup {x}
  BY DEF Discard
<1> HIDE DEF c
<1>5. Asked(t, x) /\ x.why = "discard" /\ x.work.of = {}
  BY <1>3 DEF Asked, IsCall, CallFields
<1> HIDE DEF x
<1>6. calls' = (calls \ Mine(t)) \cup {x}
  BY <1>1, <1>4
<1>7. "discard" \in Elsewhere
  BY DEF Elsewhere
<1> QED
  BY <1>1, <1>2, <1>5, <1>6, <1>7 DEF Away

\* A list, or the answer to a discard: the chooser is alone with it.
LEMMA RowsLandAway ==
  ASSUME InStep, NEW t \in Tabs, NEW c \in Mine(t), LandList(t, c) \/ LandDiscard(t, c),
         Keeping, added' = added, started' = started
  PROVE  \E N : Away(t, N)
<1>1. /\ Records /\ IsTab(tab[t]) /\ Mine(t) = {c} /\ ~OnForm(t) /\ c \in calls
      /\ \A r \in tab[t].rows \cup c.rows : RowRefers(r)
  <2>1. c.why \in Elsewhere /\ c \in calls
    BY DEF LandList, LandDiscard, Elsewhere, Mine
  <2> QED
    BY <2>1 DEF InStep, TellsApart, FormsRefer, CallsRefer, CallsAreTheForms, Records
<1>2. PICK R : /\ R \subseteq tab[t].rows \cup c.rows
               /\ \/ Show(t, [tab[t] EXCEPT !.rows = R])
                  \/ Show(t, tab[t]) /\ R = tab[t].rows
               /\ calls' = calls \ {c}
  BY DEF LandList, LandDiscard, Heard
<1>3. PICK new : /\ Show(t, new) /\ DOMAIN new = TabFields /\ new.work = tab[t].work
                 /\ new.page = tab[t].page /\ new.view = tab[t].view
                 /\ new.version = tab[t].version /\ new.rows = R
  <2>1. CASE Show(t, tab[t]) /\ R = tab[t].rows
    BY <1>1, <2>1 DEF IsTab
  <2>2. CASE Show(t, [tab[t] EXCEPT !.rows = R])
    <3> DEFINE n == [tab[t] EXCEPT !.rows = R]
    <3>1. /\ DOMAIN n = TabFields /\ n.work = tab[t].work
          /\ n.page = tab[t].page /\ n.view = tab[t].view
          /\ n.version = tab[t].version /\ n.rows = R
      BY <1>1 DEF IsTab, TabFields
    <3>2. Show(t, n)
      BY <2>2
    <3> HIDE DEF n
    <3> QED BY <3>1, <3>2
  <2> QED BY <1>2, <2>1, <2>2
<1>4. DOMAIN new.work = WorkFields /\ new.page \in Nat /\ new.version \in Nat
  BY <1>1, <1>3 DEF IsTab
<1>5. SamePage(t) /\ ~OnForm(t)' /\ tab'[t].rows = R
  BY <1>1, <1>3, <1>4, Shown DEF SamePage, OnForm
<1>6. \A r \in tab'[t].rows : RowRefers(r)
  BY <1>1, <1>2, <1>5
<1>7. calls' = (calls \ Mine(t)) \cup {}
  BY <1>1, <1>2
<1> QED
  BY <1>5, <1>6, <1>7 DEF Away

\* After a reload: the draft that was open is still there, or it is not.
LEMMA ReopenLandsAway ==
  ASSUME InStep, NEW t \in Tabs, NEW c \in Mine(t), LandReopen(t, c),
         Keeping, added' = added, started' = started
  PROVE  \E N : Away(t, N)
<1>1. /\ Records /\ FormsRefer /\ IsTab(tab[t]) /\ Mine(t) = {c} /\ ~OnForm(t) /\ c \in calls
      /\ \A r \in tab[t].rows \cup c.rows : RowRefers(r)
  <2>1. c.why \in Elsewhere /\ c \in calls
    BY DEF LandReopen, Elsewhere, Mine
  <2> QED
    BY <2>1 DEF InStep, TellsApart, FormsRefer, CallsRefer, CallsAreTheForms, Records
<1>2. CASE c.answer = "ok" /\ c.rows # {}
  <2> DEFINE row == CHOOSE r \in c.rows : TRUE
  <2>1. RowRefers(row)
    BY <1>1, <1>2
  <2> DEFINE N == {[Call(t, "hydrate", NewTab) EXCEPT !.draft = row.draft,
                     !.version = row.version, !.work = row.work]}
  <2>2. /\ tab' = [tab EXCEPT ![t].draft = row.draft, ![t].version = row.version]
        /\ calls' = (calls \ {c}) \cup N
    BY <1>2 DEF LandReopen
  <2> HIDE DEF row
  <2>3. /\ DOMAIN tab' = Tabs /\ (\A u \in Tabs \ {t} : tab'[u] = tab[u])
        /\ DOMAIN tab'[t] = TabFields /\ tab'[t].work = tab[t].work
        /\ tab'[t].page = tab[t].page /\ tab'[t].view = tab[t].view
        /\ tab'[t].rows = tab[t].rows /\ tab'[t].draft = row.draft
        /\ tab'[t].version = row.version
    BY <1>1, <2>2 DEF Records, IsTab, TabFields
  <2>4. SamePage(t) /\ ~OnForm(t)'
    BY <1>1, <2>1, <2>3 DEF SamePage, Turned, IsTab, OnForm, RowRefers
  <2>5. calls' = (calls \ Mine(t)) \cup N
    BY <1>1, <2>2
  <2> QED
    BY <1>1, <2>1, <2>3, <2>4, <2>5, OpeningIsAway
<1>3. CASE ~(c.answer = "ok" /\ c.rows # {})
  <2>1. Show(t, tab[t]) /\ calls' = calls \ {c}
    BY <1>3 DEF LandReopen, Heard
  <2>2. SamePage(t) /\ ~OnForm(t)' /\ tab'[t].rows = tab[t].rows
    BY <1>1, <2>1, Shown DEF IsTab, SamePage, OnForm
  <2>3. \A r \in tab'[t].rows : RowRefers(r)
    BY <1>1, <2>2
  <2>4. calls' = (calls \ Mine(t)) \cup {}
    BY <1>1, <2>1
  <2> QED
    BY <2>2, <2>3, <2>4 DEF Away
<1> QED BY <1>2, <1>3

LEMMA HydrateOpens ==
  ASSUME InStep, NEW t \in Tabs, NEW c \in Mine(t), LandHydrate(t, c),
         Keeping, added' = added, started' = started
  PROVE  Opened(t)
<1>1. /\ Records /\ IsTab(tab[t]) /\ Mine(t) = {c} /\ c \in calls /\ c.why = "hydrate"
      /\ tab[t].draft = c.draft /\ tab[t].version = c.version /\ DOMAIN c.work = WorkFields
  <2>1. c.why \in Elsewhere /\ c \in calls /\ c.why = "hydrate"
    BY DEF LandHydrate, Elsewhere, Mine
  <2> QED
    BY <2>1 DEF InStep, TellsApart, CallsAreTheForms, Records, IsCall
<1> DEFINE w == IF c.answer = "ok" THEN c.work ELSE [c.work EXCEPT !.garments = "none"]
           new == [tab[t] EXCEPT !.view = "wizard", !.kind = "stitch", !.save = "idle", !.work = w]
<1>2. Show(t, new) /\ calls' = calls \ {c}
  BY DEF LandHydrate, Heard
<1>3. DOMAIN w = WorkFields /\ w.of = c.work.of
  BY <1>1 DEF WorkFields
<1> HIDE DEF w
<1>4. /\ DOMAIN new = TabFields /\ new.work = w /\ new.page = tab[t].page
      /\ new.view = "wizard" /\ new.version = tab[t].version /\ new.draft = tab[t].draft
      /\ new.rows = tab[t].rows /\ new.kind = "stitch"
  BY <1>1 DEF IsTab, TabFields
<1>5. new.page \in Nat /\ new.version \in Nat
  BY <1>1, <1>4 DEF IsTab
<1> HIDE DEF new
<1>6. /\ SamePage(t) /\ OnForm(t)' /\ tab'[t].rows = tab[t].rows /\ tab'[t].kind = "stitch"
      /\ tab'[t].draft = c.draft /\ tab'[t].version = c.version /\ tab'[t].work.of = c.work.of
  BY <1>1, <1>2, <1>3, <1>4, <1>5, Shown DEF SamePage, OnForm
<1>7. calls' = calls \ Mine(t)
  BY <1>1, <1>2
<1> QED
  BY <1>1, <1>6, <1>7 DEF Opened

LEMMA StartOpens ==
  ASSUME InStep, ~Overlap, NEW t \in Tabs, NEW kind, NEW who, StartService(t, kind, who)
  PROVE  Opened(t)
<1>1. /\ Records /\ IsTab(tab[t]) /\ Mine(t) = {} /\ Keeping /\ added' = added
      /\ started' = started + 1 /\ calls' = calls
  BY DEF InStep, Records, StartService, Opens, Idle, Keeping, server
<1> DEFINE w == Written({started + 1}, who)
           new == [tab[t] EXCEPT !.view = "wizard", !.kind = kind, !.work = w,
                     !.locked = (who = "known"), !.draft = None, !.version = 0, !.save = "idle"]
<1>2. Show(t, new)
  BY DEF StartService, Fresh
<1>3. DOMAIN w = WorkFields /\ w.of = {started + 1}
  BY DEF Written, WorkFields
<1> HIDE DEF w
<1>4. /\ DOMAIN new = TabFields /\ new.work = w /\ new.page = tab[t].page
      /\ new.view = "wizard" /\ new.version = 0 /\ new.draft = None
      /\ new.rows = tab[t].rows
  BY <1>1 DEF IsTab, TabFields
<1>5. new.page \in Nat /\ new.version \in Nat
  BY <1>1, <1>4 DEF IsTab
<1> HIDE DEF new
<1>6. /\ SamePage(t) /\ OnForm(t)' /\ tab'[t].rows = tab[t].rows
      /\ tab'[t].draft = None /\ tab'[t].work.of = {started + 1}
  BY <1>1, <1>2, <1>3, <1>4, <1>5, Shown DEF SamePage, OnForm
<1>7. calls' = calls \ Mine(t)
  BY <1>1
<1> QED
  BY <1>1, <1>6, <1>7 DEF Opened

\* What was asked is nobody's now.
LEMMA Orphans ==
  ASSUME NEW c, IsCall(c)
  PROVE  /\ IsCall(Orphan(c)) /\ Orphan(c).tab = Nobody /\ Orphan(c).why = c.why
         /\ Orphan(c).draft = c.draft /\ Orphan(c).version = c.version
         /\ Orphan(c).work = c.work /\ Orphan(c).page = c.page
         /\ Orphan(c).rows = c.rows /\ Orphan(c).answer = c.answer
<1>1. DOMAIN Orphan(c) = CallFields /\ Orphan(c).tab = Nobody
  BY DEF Orphan, IsCall, CallFields
<1>2. /\ Orphan(c).why = c.why
      /\ Orphan(c).draft = c.draft /\ Orphan(c).version = c.version
      /\ Orphan(c).work = c.work /\ Orphan(c).page = c.page
      /\ Orphan(c).rows = c.rows /\ Orphan(c).answer = c.answer
  BY DEF Orphan, IsCall, CallFields
<1> QED
  BY <1>1, <1>2 DEF IsCall

LEMMA ReloadReloads ==
  ASSUME InStep, NEW t \in Tabs, Reload(t)
  PROVE  Reloads(t)
<1>1. /\ Records /\ IsTab(tab[t]) /\ Keeping /\ added' = added /\ started' = started
      /\ \A c \in calls : IsCall(c)
  BY DEF InStep, Records, Reload, Keeping, server
<1> DEFINE new == [NewTab EXCEPT !.page = tab[t].page + 1]
<1>2. /\ DOMAIN tab' = Tabs /\ tab'[t] = new /\ \A u \in Tabs \ {t} : tab'[u] = tab[u]
  BY <1>1 DEF Reload, Records
<1>3. /\ DOMAIN new = TabFields /\ new.work = NewTab.work /\ new.page = tab[t].page + 1
      /\ new.version = NewTab.version /\ new.view = "dashboard" /\ new.rows = {}
  BY NewTabs DEF TabFields
<1> HIDE DEF new
<1>4. Turned(t) /\ ~OnForm(t)' /\ tab'[t].page = tab[t].page + 1 /\ tab'[t].rows = {}
  BY <1>1, <1>2, <1>3, NewTabs DEF Turned, IsTab, OnForm
<1> DEFINE s == [NewTab EXCEPT !.draft = tab[t].draft, !.page = tab[t].page + 1]
           x == Call(t, "reopen", s)
           kept == {IF c.tab = t THEN [c EXCEPT !.tab = Nobody] ELSE c : c \in calls}
<1>5. s.version \in Nat /\ DOMAIN s.work = WorkFields /\ s.work.of = {}
  <2>1. s.version = NewTab.version /\ s.work = NewTab.work
    BY NewTabs DEF TabFields
  <2> HIDE DEF s
  <2> QED BY <2>1, NewTabs
<1>6. calls' = kept \/ calls' = kept \cup {x}
  BY DEF Reload
<1> HIDE DEF s
<1>7. Asked(t, x) /\ x.why = "reopen" /\ x.work.of = {}
  BY <1>5, Called
<1> HIDE DEF x
<1>8. kept = {IF c.tab = t THEN Orphan(c) ELSE c : c \in calls}
  BY DEF Orphan
<1>9. /\ calls \ Mine(t) \subseteq kept
      /\ \A e \in kept : e \in calls \ Mine(t) \/ \E c \in Mine(t) : e = Orphan(c)
  <2> HIDE DEF kept
  <2> QED BY <1>8 DEF Mine
<1>10. \A e \in kept : e.tab # t
  <2> SUFFICES ASSUME NEW e \in kept PROVE e.tab # t
    OBVIOUS
  <2>1. CASE e \in calls \ Mine(t)
    BY <2>1 DEF Mine
  <2>2. CASE \E c \in Mine(t) : e = Orphan(c)
    BY <1>1, <2>2, Orphans, WizardAssumption DEF Mine
  <2> QED BY <1>9, <2>1, <2>2
<1> HIDE DEF kept
<1>11. CASE calls' = kept
  BY <1>1, <1>4, <1>9, <1>11 DEF Reloads
<1>12. CASE calls' = kept \cup {x}
  <2>1. calls' \cap {c \in calls' : c.tab = t} = {x}
    BY <1>7, <1>10, <1>12 DEF Asked
  <2> QED
    BY <1>1, <1>4, <1>7, <1>9, <1>12, <2>1 DEF Reloads
<1> QED BY <1>6, <1>11, <1>12

LEMMA Persists ==
  ASSUME NEW s, IsTab(s), NEW c, IsCall(c)
  PROVE  LET p == Persisted(s, c) IN
           /\ DOMAIN p = TabFields /\ p.page = s.page /\ p.view = s.view /\ p.kind = s.kind
           /\ p.work = s.work /\ p.rows = s.rows /\ p.busy = s.busy /\ p.version \in Nat
           /\ IF c.answer = "ok" THEN p.draft = c.draft /\ p.version = c.version
                                 ELSE p.draft = s.draft /\ p.version = s.version
<1>1. CASE c.answer = "ok"
  <2>1. Persisted(s, c) = [s EXCEPT !.draft = c.draft, !.version = c.version, !.save = "saved"]
    BY <1>1 DEF Persisted
  <2> QED BY <1>1, <2>1 DEF IsTab, IsCall, TabFields
<1>2. CASE c.answer # "ok"
  <2>1. PICK x : Persisted(s, c) = [s EXCEPT !.save = x]
    BY <1>2 DEF Persisted
  <2> QED BY <1>2, <2>1 DEF IsTab, TabFields
<1> QED BY <1>1, <1>2

LEMMA AnswerLands ==
  ASSUME InStep, NEW t \in Tabs, NEW c \in Mine(t), c.answer # "none",
         Keeping, added' = added, started' = started,
         c.why \notin Elsewhere \cup {"walkin"}, NEW new, Show(t, new), calls' = calls \ {c},
         DOMAIN new = TabFields, new.page = tab[t].page, new.kind = tab[t].kind,
         new.work = tab[t].work, new.rows = tab[t].rows, new.version \in Nat,
         new.view # "wizard" \/ new.view = tab[t].view,
         c.why \notin Pressed => new.busy = tab[t].busy,
         c.why = "takein" /\ c.answer = "ok" => new.view # "wizard",
         \/ new.draft = None
         \/ new.draft = tab[t].draft /\ new.version = tab[t].version
         \/ /\ c.why \in Saves /\ c.answer = "ok"
            /\ new.draft = c.draft /\ new.version = c.version
  PROVE  Hears(t, c, {})
<1>1. Records /\ IsTab(tab[t])
  BY DEF InStep, Records
<1>2. DOMAIN new.work = WorkFields /\ new.page \in Nat
  BY <1>1 DEF IsTab
<1>3. /\ Turned(t)
      /\ tab'[t].page = new.page /\ tab'[t].view = new.view /\ tab'[t].kind = new.kind
      /\ tab'[t].draft = new.draft /\ tab'[t].version = new.version
      /\ tab'[t].busy = new.busy /\ tab'[t].rows = new.rows
      /\ new.view = "wizard" => tab'[t].work = tab[t].work
  BY <1>1, <1>2, Shown
<1> QED
  BY <1>3 DEF Hears, SamePage, OnForm

LEMMA SavesLand ==
  ASSUME InStep, NEW t \in Tabs, NEW c \in Mine(t), c.answer # "none",
         Keeping, added' = added, started' = started,
         LandNext(t, c) \/ LandSaveDraft(t, c) \/ LandLeave(t, c) \/ LandTick(t, c)
  PROVE  Hears(t, c, {})
<1>1. IsTab(tab[t]) /\ IsCall(c)
  BY DEF InStep, Records, Mine
<1> DEFINE p == Persisted(tab[t], c)
<1>2. /\ DOMAIN p = TabFields /\ p.page = tab[t].page /\ p.view = tab[t].view
      /\ p.kind = tab[t].kind /\ p.work = tab[t].work /\ p.rows = tab[t].rows
      /\ p.busy = tab[t].busy /\ p.version \in Nat
      /\ IF c.answer = "ok" THEN p.draft = c.draft /\ p.version = c.version
                            ELSE p.draft = tab[t].draft /\ p.version = tab[t].version
  BY <1>1, Persists
<1>3. calls' = calls \ {c}
  BY DEF LandNext, LandSaveDraft, LandLeave, LandTick, Heard
<1>4. /\ c.why \in Saves /\ c.why \notin Elsewhere \cup {"walkin", "takein"}
      /\ c.why \in {"leave", "auto"} => c.why \notin Pressed
  BY DEF LandNext, LandSaveDraft, LandLeave, LandTick, Saves, Elsewhere, Pressed
<1>5. PICK new : /\ Show(t, new) /\ DOMAIN new = TabFields /\ new.page = p.page
                 /\ new.kind = p.kind /\ new.work = p.work /\ new.rows = p.rows
                 /\ new.version = p.version /\ new.draft = p.draft
                 /\ new.view # "wizard" \/ new.view = p.view
                 /\ c.why \in {"leave", "auto"} => new.busy = p.busy
  <2>1. CASE LandNext(t, c)
    <3> DEFINE n == [p EXCEPT !.busy = FALSE]
    <3>1. Show(t, n) /\ c.why = "next"
      BY <2>1 DEF LandNext, Heard
    <3> HIDE DEF p
    <3>2. /\ DOMAIN n = TabFields /\ n.page = p.page /\ n.kind = p.kind /\ n.work = p.work
          /\ n.rows = p.rows /\ n.version = p.version /\ n.draft = p.draft /\ n.view = p.view
      BY <1>2 DEF TabFields
    <3> HIDE DEF n
    <3> QED BY <3>1, <3>2
  <2>2. CASE LandSaveDraft(t, c)
    <3> DEFINE v == IF c.answer = "ok" THEN "dashboard" ELSE p.view
               n == [p EXCEPT !.busy = FALSE, !.view = v]
    <3>1. Show(t, n) /\ c.why = "later"
      <4>1. n = [p EXCEPT !.busy = FALSE, !.view = IF c.answer = "ok" THEN "dashboard" ELSE @]
        OBVIOUS
      <4> HIDE DEF n
      <4> QED BY <2>2, <4>1 DEF LandSaveDraft, Heard
    <3>3. v # "wizard" \/ v = p.view
      OBVIOUS
    <3> HIDE DEF p, v
    <3>2. /\ DOMAIN n = TabFields /\ n.page = p.page /\ n.kind = p.kind /\ n.work = p.work
          /\ n.rows = p.rows /\ n.version = p.version /\ n.draft = p.draft /\ n.view = v
      BY <1>2 DEF TabFields
    <3> HIDE DEF n
    <3> QED BY <3>1, <3>2, <3>3
  <2>3. CASE LandLeave(t, c)
    <3> DEFINE n == [p EXCEPT !.view = "dashboard"]
    <3>1. Show(t, n) /\ c.why = "leave"
      BY <2>3 DEF LandLeave, Heard
    <3> HIDE DEF p
    <3>2. /\ DOMAIN n = TabFields /\ n.page = p.page /\ n.kind = p.kind /\ n.work = p.work
          /\ n.rows = p.rows /\ n.version = p.version /\ n.draft = p.draft
          /\ n.view = "dashboard" /\ n.busy = p.busy
      BY <1>2 DEF TabFields
    <3> HIDE DEF n
    <3> QED BY <3>1, <3>2
  <2>4. CASE LandTick(t, c)
    <3> DEFINE n == [p EXCEPT !.ticking = FALSE, !.saved = SavedWork(p, c)]
    <3>1. Show(t, n) /\ c.why = "auto"
      BY <2>4 DEF LandTick, Heard
    <3> HIDE DEF p
    <3>2. /\ DOMAIN n = TabFields /\ n.page = p.page /\ n.kind = p.kind /\ n.work = p.work
          /\ n.rows = p.rows /\ n.version = p.version /\ n.draft = p.draft
          /\ n.view = p.view /\ n.busy = p.busy
      BY <1>2 DEF TabFields
    <3> HIDE DEF n
    <3> QED BY <3>1, <3>2
  <2> QED BY <2>1, <2>2, <2>3, <2>4
<1> HIDE DEF p
<1>6. c.why \notin Pressed => c.why \in {"leave", "auto"}
  BY <1>4 DEF Saves, Pressed
<1> QED
  BY <1>2, <1>3, <1>4, <1>5, <1>6, AnswerLands

LEMMA SubmitLands ==
  ASSUME InStep, NEW t \in Tabs, NEW c \in Mine(t), c.answer # "none",
         Keeping, added' = added, started' = started, LandSubmit(t, c)
  PROVE  \E N : Hears(t, c, N)
<1>1. IsTab(tab[t]) /\ IsCall(c) /\ Records
  BY DEF InStep, Records, Mine
<1> DEFINE p == Persisted(tab[t], c)
<1>2. /\ DOMAIN p = TabFields /\ p.page = tab[t].page /\ p.view = tab[t].view
      /\ p.kind = tab[t].kind /\ p.work = tab[t].work /\ p.rows = tab[t].rows
      /\ p.busy = tab[t].busy /\ p.version \in Nat
      /\ IF c.answer = "ok" THEN p.draft = c.draft /\ p.version = c.version
                            ELSE p.draft = tab[t].draft /\ p.version = tab[t].version
  BY <1>1, Persists
<1>3. /\ c.why = "submit" /\ c.why \in Saves /\ c.why \in Pressed
      /\ c.why \notin Elsewhere \cup TakingIn
  BY DEF LandSubmit, Saves, Elsewhere, Pressed, TakingIn
<1>4. CASE c.answer = "ok"
  <2> DEFINE x == Call(t, "place", p)
  <2>1. Show(t, p) /\ calls' = (calls \ {c}) \cup {x}
    BY <1>4 DEF LandSubmit
  <2>2. p.page \in Nat /\ DOMAIN p.work = WorkFields
    BY <1>1, <1>2 DEF IsTab
  <2> HIDE DEF p
  <2>3. /\ Asked(t, x) /\ x.why = "place" /\ x.draft = c.draft /\ x.work = tab[t].work
        /\ x.page = tab[t].page /\ x.answer = "none"
    BY <1>2, <1>4, <2>2, Called
  <2>4. /\ Turned(t)
        /\ tab'[t].page = tab[t].page /\ tab'[t].view = tab[t].view /\ tab'[t].kind = tab[t].kind
        /\ tab'[t].draft = c.draft /\ tab'[t].version = c.version
        /\ tab'[t].busy = tab[t].busy /\ tab'[t].rows = tab[t].rows
        /\ tab[t].view = "wizard" => tab'[t].work = tab[t].work
    BY <1>1, <1>2, <1>4, <2>1, <2>2, Shown
  <2> HIDE DEF x
  <2>5. Hears(t, c, {x})
    BY <1>3, <1>4, <2>1, <2>3, <2>4 DEF Hears, SamePage, OnForm, TakingIn
  <2> QED BY <2>5
<1>5. CASE c.answer # "ok"
  <2> DEFINE n == [p EXCEPT !.busy = FALSE]
  <2>1. Show(t, n) /\ calls' = calls \ {c}
    BY <1>5 DEF LandSubmit, Heard
  <2> HIDE DEF p
  <2>2. /\ DOMAIN n = TabFields /\ n.page = p.page /\ n.kind = p.kind /\ n.work = p.work
        /\ n.rows = p.rows /\ n.version = p.version /\ n.draft = p.draft /\ n.view = p.view
    BY <1>2 DEF TabFields
  <2> HIDE DEF n
  <2>3. Hears(t, c, {})
    BY <1>2, <1>3, <1>5, <2>1, <2>2, AnswerLands
  <2> QED BY <2>3
<1> QED BY <1>4, <1>5

LEMMA PlacedLands ==
  ASSUME InStep, NEW t \in Tabs, NEW c \in Mine(t), c.answer # "none",
         Keeping, added' = added, started' = started, LandPlaced(t, c)
  PROVE  Hears(t, c, {})
<1>1. IsTab(tab[t])
  BY DEF InStep, Records
<1>2. c.why = "place" /\ c.why \in Pressed /\ c.why \notin Elsewhere \cup {"walkin", "takein"}
  BY DEF LandPlaced, Pressed, Elsewhere
<1>3. calls' = calls \ {c}
  BY DEF LandPlaced, Heard
<1>4. CASE c.answer = "ok"
  <2> DEFINE n == [tab[t] EXCEPT !.busy = FALSE, !.draft = None, !.version = 0,
                           !.save = "idle", !.view = "confirmed"]
  <2>1. Show(t, n)
    BY <1>4 DEF LandPlaced, Heard
  <2>2. /\ DOMAIN n = TabFields /\ n.page = tab[t].page /\ n.kind = tab[t].kind
        /\ n.work = tab[t].work /\ n.rows = tab[t].rows /\ n.version = 0 /\ n.draft = None
        /\ n.view = "confirmed"
    BY <1>1 DEF IsTab, TabFields
  <2> HIDE DEF n
  <2> QED BY <1>2, <1>3, <2>1, <2>2, AnswerLands
<1>5. CASE c.answer # "ok"
  <2> DEFINE n == [tab[t] EXCEPT !.busy = FALSE]
  <2>1. Show(t, n)
    BY <1>5 DEF LandPlaced, Heard
  <2>2. /\ DOMAIN n = TabFields /\ n.page = tab[t].page /\ n.kind = tab[t].kind
        /\ n.work = tab[t].work /\ n.rows = tab[t].rows /\ n.version = tab[t].version
        /\ n.draft = tab[t].draft /\ n.view = tab[t].view /\ n.version \in Nat
    BY <1>1 DEF IsTab, TabFields
  <2> HIDE DEF n
  <2> QED BY <1>2, <1>3, <2>1, <2>2, AnswerLands
<1> QED BY <1>4, <1>5

LEMMA TakenInLands ==
  ASSUME InStep, NEW t \in Tabs, NEW c \in Mine(t), c.answer # "none",
         Keeping, added' = added, started' = started, LandTakeIn(t, c)
  PROVE  Hears(t, c, {})
<1>1. IsTab(tab[t])
  BY DEF InStep, Records
<1>2. c.why = "takein" /\ c.why \in Pressed /\ c.why \notin Elsewhere \cup {"walkin"}
  BY DEF LandTakeIn, Pressed, Elsewhere
<1> DEFINE v == IF c.answer = "ok" THEN "dashboard" ELSE tab[t].view
           n == [tab[t] EXCEPT !.busy = FALSE, !.view = v]
<1>3. calls' = calls \ {c} /\ Show(t, n)
  <2>1. n = [tab[t] EXCEPT !.busy = FALSE, !.view = IF c.answer = "ok" THEN "dashboard" ELSE @]
    OBVIOUS
  <2> HIDE DEF n
  <2> QED BY <2>1 DEF LandTakeIn, Heard
<1>4. /\ v # "wizard" \/ v = tab[t].view
      /\ c.answer = "ok" => v # "wizard"
  OBVIOUS
<1> HIDE DEF v
<1>5. /\ DOMAIN n = TabFields /\ n.page = tab[t].page /\ n.kind = tab[t].kind
      /\ n.work = tab[t].work /\ n.rows = tab[t].rows /\ n.version = tab[t].version
      /\ n.draft = tab[t].draft /\ n.view = v /\ n.version \in Nat
  BY <1>1 DEF IsTab, TabFields
<1> HIDE DEF n
<1> QED BY <1>2, <1>3, <1>4, <1>5, AnswerLands

\* The walk-in is in the book: the garment is taken in.
LEMMA WalkInLands ==
  ASSUME InStep, NEW t \in Tabs, NEW c \in Mine(t), c.answer # "none",
         Keeping, added' = added, started' = started, LandWalkIn(t, c)
  PROVE  \E N : Hears(t, c, N)
<1>1. IsTab(tab[t]) /\ OnForm(t) /\ Records
  BY DEF InStep, Records, AlterCalls, LandWalkIn, TakingIn, AlterForm
<1>2. /\ c.why = "walkin" /\ c.why \in Pressed /\ c.why \in TakingIn
      /\ c.why \notin Elsewhere \cup Saves
  BY DEF LandWalkIn, Pressed, Elsewhere, TakingIn, Saves
<1>3. CASE c.answer = "ok"
  <2> DEFINE w == Edited(WalkIn(tab[t].work))
             s == [tab[t] EXCEPT !.work = w]
             x == Call(t, "takein", s)
  <2>1. Show(t, s) /\ calls' = (calls \ {c}) \cup {x}
    BY <1>3 DEF LandWalkIn
  <2>2. DOMAIN w = WorkFields /\ w.of = tab[t].work.of /\ w.who = "known"
    <3>1. /\ DOMAIN WalkIn(tab[t].work) = WorkFields /\ WalkIn(tab[t].work).of = tab[t].work.of
          /\ WalkIn(tab[t].work).who = "known"
      BY <1>1 DEF WalkIn, IsTab, WorkFields
    <3> QED BY <3>1 DEF Edited, WorkFields
  <2> HIDE DEF w
  <2>3. /\ DOMAIN s = TabFields /\ s.page = tab[t].page /\ s.kind = tab[t].kind
        /\ s.work = w /\ s.rows = tab[t].rows /\ s.version = tab[t].version
        /\ s.draft = tab[t].draft /\ s.view = tab[t].view /\ s.version \in Nat
        /\ s.page \in Nat /\ s.busy = tab[t].busy
    BY <1>1 DEF IsTab, TabFields
  <2> HIDE DEF s
  <2>4. /\ Asked(t, x) /\ x.why = "takein" /\ x.work = w
        /\ x.page = tab[t].page /\ x.answer = "none"
    BY <2>2, <2>3, Called
  <2>5. /\ Turned(t)
        /\ tab'[t].page = tab[t].page /\ tab'[t].view = tab[t].view /\ tab'[t].kind = tab[t].kind
        /\ tab'[t].draft = tab[t].draft /\ tab'[t].version = tab[t].version
        /\ tab'[t].busy = tab[t].busy /\ tab'[t].rows = tab[t].rows
        /\ tab'[t].work = w
    BY <1>1, <2>1, <2>2, <2>3, Shown DEF OnForm
  <2> HIDE DEF x
  <2>6. Hears(t, c, {x})
    BY <1>1, <1>2, <1>3, <2>1, <2>2, <2>4, <2>5 DEF Hears, SamePage, OnForm
  <2> QED BY <2>6
<1>4. CASE c.answer # "ok"
  <2> DEFINE n == [tab[t] EXCEPT !.busy = FALSE]
  <2>1. Show(t, n) /\ calls' = calls \ {c}
    BY <1>4 DEF LandWalkIn, Heard
  <2>2. /\ DOMAIN n = TabFields /\ n.page = tab[t].page /\ n.kind = tab[t].kind
        /\ n.work = tab[t].work /\ n.rows = tab[t].rows /\ n.version = tab[t].version
        /\ n.draft = tab[t].draft /\ n.view = tab[t].view /\ n.version \in Nat
        /\ DOMAIN n.work = WorkFields /\ n.page \in Nat
    BY <1>1 DEF IsTab, TabFields
  <2> HIDE DEF n
  <2>3. /\ Turned(t)
        /\ tab'[t].page = tab[t].page /\ tab'[t].view = tab[t].view /\ tab'[t].kind = tab[t].kind
        /\ tab'[t].draft = tab[t].draft /\ tab'[t].version = tab[t].version
        /\ tab'[t].rows = tab[t].rows /\ tab'[t].work = tab[t].work
    BY <1>1, <2>1, <2>2, Shown DEF OnForm
  <2>4. Hears(t, c, {})
    BY <1>1, <1>2, <1>4, <2>1, <2>3 DEF Hears, SamePage, OnForm
  <2> QED BY <2>4
<1> QED BY <1>3, <1>4

\* A garment's form, a picture, a customer of the book.
LEMMA WrittenLands ==
  ASSUME InStep, NEW t \in Tabs, NEW c \in Mine(t), c.answer # "none",
         Keeping, added' = added, started' = started,
         LandGarment(t, c) \/ LandUpload(t, c) \/ LandEnsured(t, c)
  PROVE  Hears(t, c, {})
<1>1. IsTab(tab[t]) /\ Records
  BY DEF InStep, Records
<1>2. /\ c.why \in {"garment", "upload", "ensure"}
      /\ c.why \notin Pressed \cup Elsewhere \cup Saves \cup TakingIn
  BY DEF LandGarment, LandUpload, LandEnsured, Pressed, Elsewhere, TakingIn, Saves
<1>3. OnForm(t) => c.work.of = tab[t].work.of
  BY DEF InStep, TellsApart, CallsAreTheForms
<1>4. calls' = calls \ {c}
  BY DEF LandGarment, LandUpload, LandEnsured, Lands, Heard
<1>5. PICK new : /\ Show(t, new) /\ DOMAIN new = TabFields /\ new.page = tab[t].page
                 /\ new.kind = tab[t].kind /\ new.rows = tab[t].rows
                 /\ new.version = tab[t].version /\ new.draft = tab[t].draft
                 /\ new.view = tab[t].view /\ new.busy = tab[t].busy
                 /\ DOMAIN new.work = WorkFields
                 /\ new.work.of \in {tab[t].work.of, tab[t].work.of \cup c.work.of}
  <2>1. CASE c.answer # "ok"
    <3>1. Show(t, tab[t])
      BY <2>1 DEF LandGarment, LandUpload, LandEnsured, Lands, Heard
    <3> QED BY <1>1, <3>1 DEF IsTab
  <2>2. CASE c.answer = "ok"
    <3>1. PICK w : /\ DOMAIN w = WorkFields /\ w.of = tab[t].work.of
                   /\ Lands(t, c, w)
      <4>1. CASE LandUpload(t, c)
        BY <4>1, PartsStay, <1>1 DEF LandUpload
      <4>2. CASE LandGarment(t, c)
        <5> DEFINE w == [tab[t].work EXCEPT !.garments = "bare"]
        <5>1. DOMAIN w = WorkFields /\ w.of = tab[t].work.of
          BY <1>1, PartsStay
        <5>2. Lands(t, c, w)
          BY <4>2 DEF LandGarment
        <5> HIDE DEF w
        <5> QED BY <5>1, <5>2
      <4>3. CASE LandEnsured(t, c)
        <5> DEFINE w == [tab[t].work EXCEPT !.who = "known"]
        <5>1. DOMAIN w = WorkFields /\ w.of = tab[t].work.of
          BY <1>1, PartsStay
        <5>2. Lands(t, c, w)
          BY <4>3 DEF LandEnsured
        <5> HIDE DEF w
        <5> QED BY <5>1, <5>2
      <4> QED BY <4>1, <4>2, <4>3
    <3> DEFINE e == Edited(w)
               u == [e EXCEPT !.of = @ \cup c.work.of]
               n == [tab[t] EXCEPT !.work = u]
    <3>2. Show(t, n)
      BY <2>2, <3>1 DEF Lands, Heard
    <3>3. DOMAIN e = WorkFields /\ e.of = tab[t].work.of
      BY <3>1 DEF Edited, WorkFields
    <3> HIDE DEF e
    <3>4. DOMAIN u = WorkFields /\ u.of = tab[t].work.of \cup c.work.of
      BY <3>3 DEF WorkFields
    <3> HIDE DEF u
    <3>5. /\ DOMAIN n = TabFields /\ n.page = tab[t].page
          /\ n.kind = tab[t].kind /\ n.rows = tab[t].rows
          /\ n.version = tab[t].version /\ n.draft = tab[t].draft
          /\ n.view = tab[t].view /\ n.busy = tab[t].busy /\ n.work = u
      BY <1>1 DEF IsTab, TabFields
    <3> HIDE DEF n
    <3> QED BY <3>2, <3>4, <3>5
  <2> QED BY <2>1, <2>2
<1>6. new.page \in Nat /\ new.version \in Nat
  BY <1>1, <1>5 DEF IsTab
<1>7. /\ Turned(t)
      /\ tab'[t].page = tab[t].page /\ tab'[t].view = tab[t].view /\ tab'[t].kind = tab[t].kind
      /\ tab'[t].draft = tab[t].draft /\ tab'[t].version = tab[t].version
      /\ tab'[t].rows = tab[t].rows /\ tab'[t].busy = tab[t].busy
      /\ tab[t].view = "wizard" => tab'[t].work = new.work
  BY <1>1, <1>5, <1>6, Shown
<1>8. OnForm(t) => new.work.of = tab[t].work.of
  BY <1>3, <1>5
<1>9. c.why # "takein"
  BY <1>2
<1> QED
  BY <1>2, <1>4, <1>7, <1>8, <1>9 DEF Hears, SamePage, OnForm

LEMMA LandTurns ==
  ASSUME InStep, NEW t \in Tabs, NEW c, Land(t, c)
  PROVE  Turns(t)
<1>1. /\ c \in Mine(t) /\ c.answer # "none" /\ Keeping /\ added' = added /\ started' = started
  BY DEF Land, Keeping, server
<1>2. CASE LandNext(t, c) \/ LandSaveDraft(t, c) \/ LandLeave(t, c) \/ LandTick(t, c)
  BY <1>1, <1>2, SavesLand DEF Turns
<1>3. CASE LandSubmit(t, c)
  BY <1>1, <1>3, SubmitLands DEF Turns
<1>4. CASE LandPlaced(t, c)
  BY <1>1, <1>4, PlacedLands DEF Turns
<1>5. CASE LandTakeIn(t, c)
  BY <1>1, <1>5, TakenInLands DEF Turns
<1>6. CASE LandWalkIn(t, c)
  BY <1>1, <1>6, WalkInLands DEF Turns
<1>7. CASE LandGarment(t, c) \/ LandUpload(t, c) \/ LandEnsured(t, c)
  BY <1>1, <1>7, WrittenLands DEF Turns
<1>8. CASE LandList(t, c) \/ LandDiscard(t, c)
  BY <1>1, <1>8, RowsLandAway DEF Turns
<1>9. CASE LandHydrate(t, c)
  BY <1>1, <1>9, HydrateOpens DEF Turns
<1>10. CASE LandReopen(t, c)
  BY <1>1, <1>10, ReopenLandsAway DEF Turns
<1> QED
  BY <1>2, <1>3, <1>4, <1>5, <1>6, <1>7, <1>8, <1>9, <1>10 DEF Land

LEMMA FormTurns ==
  ASSUME Records, ~Overlap, NEW t \in Tabs,
         \/ WhoForm(t) \/ Scribble(t) \/ Told(t) \/ Measured(t) \/ RemoveGarment(t)
         \/ AddGarment(t) \/ Upload(t) \/ EnsureCustomer(t)
         \/ (\E step : PerformNext(t, step)) \/ SubmitOrder(t) \/ PerformSaveDraft(t) \/ Tick(t)
         \/ CreateAlterationFromWizard(t) \/ CreateOutsideAlterationFromWizard(t)
  PROVE  Turns(t)
<1>1. CASE Scribble(t) \/ Told(t) \/ Measured(t) \/ RemoveGarment(t)
  BY <1>1, FillingPens DEF Turns
<1>2. CASE WhoForm(t)
  BY <1>2, WhoFormPens DEF Turns
<1>3. CASE AddGarment(t) \/ Upload(t) \/ EnsureCustomer(t)
  BY <1>3, AskingClicks DEF Turns
<1>4. CASE (\E step : PerformNext(t, step)) \/ SubmitOrder(t) \/ PerformSaveDraft(t) \/ Tick(t)
  BY <1>4, SavingClicks DEF Turns
<1>5. CASE CreateAlterationFromWizard(t) \/ CreateOutsideAlterationFromWizard(t)
  BY <1>5, TakingInClicks DEF Turns
<1> QED BY <1>1, <1>2, <1>3, <1>4, <1>5

LEMMA LeaveTurns ==
  ASSUME InStep, ~Overlap, NEW t \in Tabs, LeaveWizard(t)
  PROVE  Turns(t)
<1>1. Records /\ FormsRefer
  BY DEF InStep, TellsApart
<1>2. CASE tab[t].kind = "stitch" /\ PersistDraft(t, "leave", tab[t])
  BY <1>1, <1>2, SavingClicks DEF LeaveWizard, OnForm, Turns
<1>3. CASE Show(t, [tab[t] EXCEPT !.view = "dashboard"]) /\ UNCHANGED calls
  BY <1>1, <1>3, LeavingIsAway DEF Turns
<1> QED BY <1>2, <1>3 DEF LeaveWizard

\* Every step of a tab is a turn of one of the kinds above.
LEMMA TabsTurn ==
  ASSUME InStep, ~Overlap, NEW t \in Tabs, Acts(t) \/ Tick(t) \/ \E c \in calls : Land(t, c)
  PROVE  Turns(t)
<1>1. Records /\ FormsRefer
  BY DEF InStep, TellsApart
<1>2. CASE \E c \in calls : Land(t, c)
  BY <1>2, LandTurns
<1>3. CASE \/ Tick(t) \/ WhoForm(t) \/ PickGarments(t) \/ MoreGarments(t) \/ GarmentHead(t)
           \/ DetailsForm(t) \/ LookForm(t) \/ ReferencesForm(t) \/ DesignerForm(t) \/ ClothForm(t)
           \/ MeasureForm(t) \/ JumpToStep(t) \/ GarmentPreviews(t) \/ MoneyForm(t)
           \/ AlterGarmentForm(t) \/ AlterIssueForm(t) \/ OutsideGarmentForm(t)
           \/ OutsideIssueForm(t)
  <2>1. \/ WhoForm(t) \/ Scribble(t) \/ Told(t) \/ Measured(t) \/ RemoveGarment(t)
        \/ AddGarment(t) \/ Upload(t) \/ EnsureCustomer(t) \/ Tick(t)
        \/ (\E step : PerformNext(t, step))
    BY <1>3 DEF PickGarments, MoreGarments, GarmentHead, DetailsForm, LookForm, ReferencesForm,
       DesignerForm, ClothForm, MeasureForm, JumpToStep, GarmentPreviews, MoneyForm,
       AlterGarmentForm, AlterIssueForm, OutsideGarmentForm, OutsideIssueForm
  <2> QED BY <1>1, <2>1, FormTurns
<1>4. CASE FooterBar(t)
  <2>1. CASE HandleBack(t)
    BY <1>1, <2>1, LeavingIsAway DEF Turns
  <2>2. CASE ~HandleBack(t)
    BY <1>1, <1>4, <2>2, FormTurns DEF FooterBar
  <2> QED BY <2>1, <2>2
<1>5. CASE LeaveWizard(t)
  BY <1>5, LeaveTurns
<1>6. CASE OpenSelector(t) \/ BackFromSelector(t) \/ ConfirmedPage(t)
  BY <1>1, <1>6, LeavingIsAway DEF Turns
<1>7. CASE StartDoors(t) \/ BeginOrderForCustomer(t)
  BY <1>7, StartOpens DEF StartDoors, BeginOrderForCustomer, Turns
<1>8. CASE \E row \in tab[t].rows : Resume(t, row) \/ Discard(t, row)
  BY <1>1, <1>8, ResumeIsAway, DiscardIsAway DEF Turns
<1>9. CASE Reload(t)
  BY <1>9, ReloadReloads DEF Turns
<1> QED
  BY <1>2, <1>3, <1>4, <1>5, <1>6, <1>7, <1>8, <1>9 DEF Acts

-----------------------------------------------------------------------------
(* What a tab does keeps the drafts and their forms together.                *)

LEMMA Referring ==
  ASSUME Keeping
  PROVE  /\ \A d, v, of : Refers(d, v, of) => Refers(d, v, of)'
         /\ \A r : RowRefers(r) => RowRefers(r)'
BY DEF Keeping, Refers, RowRefers

\* What is asked, tab by tab.
LEMMA AskedByTab ==
  ASSUME InStep, NEW t \in Tabs
  PROVE  /\ Pens(t) => \A u \in Tabs : Mine(u)' = Mine(u)
         /\ \A x : Clicks(t, x) => /\ Mine(t)' = Mine(t) \cup {x}
                                   /\ \A u \in Tabs \ {t} : Mine(u)' = Mine(u)
         /\ \A c, N : Hears(t, c, N) => /\ Mine(t)' = (Mine(t) \ {c}) \cup N
                                        /\ \A u \in Tabs \ {t} : Mine(u)' = Mine(u)
         /\ \A N : Away(t, N) => /\ Mine(t)' = N
                                 /\ \A u \in Tabs \ {t} : Mine(u)' = Mine(u)
         /\ Opened(t) => /\ Mine(t)' = {}
                         /\ \A u \in Tabs \ {t} : Mine(u)' = Mine(u)
         /\ Reloads(t) => /\ \A e \in Mine(t)' : /\ Asked(t, e) /\ e.why = "reopen"
                                                 /\ e.work.of = {} /\ Mine(t)' = {e}
                          /\ \A u \in Tabs \ {t} : Mine(u)' = Mine(u)
<1>1. Pens(t) => \A u \in Tabs : Mine(u)' = Mine(u)
  BY DEF Pens, Mine
<1>2. ASSUME NEW x, Clicks(t, x)
      PROVE  Mine(t)' = Mine(t) \cup {x} /\ \A u \in Tabs \ {t} : Mine(u)' = Mine(u)
  BY <1>2 DEF Clicks, Asked, Mine
<1>3. ASSUME NEW c, NEW N, Hears(t, c, N)
      PROVE  /\ Mine(t)' = (Mine(t) \ {c}) \cup N
             /\ \A u \in Tabs \ {t} : Mine(u)' = Mine(u)
  <2>1. calls' = (calls \ {c}) \cup N /\ c.tab = t /\ \A x \in N : x.tab = t
    BY <1>3 DEF Hears, Asked, Mine
  <2> QED BY <2>1 DEF Mine
<1>4. ASSUME NEW N, Away(t, N)
      PROVE  Mine(t)' = N /\ \A u \in Tabs \ {t} : Mine(u)' = Mine(u)
  <2>1. calls' = (calls \ Mine(t)) \cup N /\ \A x \in N : x.tab = t
    BY <1>4 DEF Away, Asked
  <2> QED BY <2>1 DEF Mine
<1>5. ASSUME Opened(t)
      PROVE  Mine(t)' = {} /\ \A u \in Tabs \ {t} : Mine(u)' = Mine(u)
  BY <1>5 DEF Opened, Mine
<1>6. ASSUME Reloads(t)
      PROVE  /\ \A e \in Mine(t)' : /\ Asked(t, e) /\ e.why = "reopen" /\ e.work.of = {}
                                    /\ Mine(t)' = {e}
             /\ \A u \in Tabs \ {t} : Mine(u)' = Mine(u)
  <2>1. /\ calls \ Mine(t) \subseteq calls'
        /\ \A e \in calls' : \/ e \in calls \ Mine(t)
                             \/ e.tab = Nobody
                             \/ /\ Asked(t, e) /\ e.why = "reopen" /\ e.work.of = {}
                                /\ Mine(t)' = {e}
    BY <1>6, Orphans DEF Reloads, InStep, Records, Mine
  <2>2. ASSUME NEW u \in Tabs \ {t} PROVE Mine(u)' = Mine(u)
    <3>1. Mine(u) \subseteq Mine(u)'
      BY <2>1 DEF Mine
    <3>2. Mine(u)' \subseteq Mine(u)
      BY <2>1, WizardAssumption DEF Mine, Asked
    <3> QED BY <3>1, <3>2
  <2>3. ASSUME NEW e \in Mine(t)'
        PROVE  /\ Asked(t, e) /\ e.why = "reopen" /\ e.work.of = {} /\ Mine(t)' = {e}
    BY <2>1, <2>3, WizardAssumption DEF Mine
  <2> QED BY <2>2, <2>3
<1> QED BY <1>1, <1>2, <1>3, <1>4, <1>5, <1>6

LEMMA TurnsKeepRecords ==
  ASSUME InStep, NEW t \in Tabs, Turns(t)
  PROVE  Records'
<1>1. Records
  BY DEF InStep
<1>2. DOMAIN tab' = Tabs /\ \A u \in Tabs : IsTab(tab'[u])
  <2>1. Turned(t)
    BY DEF Turns, Pens, Clicks, Hears, Away, Opened, Reloads, SameForm, SamePage
  <2> QED BY <1>1, <2>1 DEF Turned, Records
<1>3. \A e \in calls' : IsCall(e)
  <2> SUFFICES ASSUME NEW e \in calls', e \notin calls PROVE IsCall(e)
    BY <1>1 DEF Records
  <2>1. Asked(t, e) \/ \E c \in Mine(t) : e = Orphan(c)
    BY DEF Turns, Pens, Clicks, Hears, Away, Opened, Reloads
  <2> QED BY <1>1, <2>1, Orphans DEF Asked, Records, Mine
<1>4. Keeping /\ (started' = started \/ started' = started + 1)
  BY DEF Turns, Pens, Clicks, Hears, Away, Opened, Reloads
<1>5. added' \in [1..MaxOrders -> Nat]
  <2>1. \/ added' = added
        \/ added' = [n \in DOMAIN added |-> IF n \in tab[t].work.of THEN 0 ELSE added[n]]
    BY DEF Turns, Pens, Clicks, Hears, Away, Opened, Reloads
  <2> QED BY <1>1, <2>1 DEF Records
<1> QED
  BY <1>1, <1>2, <1>3, <1>4, <1>5 DEF Records, Keeping

\* What is on a form, or open from another tab, is as it was.
LEMMA FormsKeepReferring ==
  ASSUME InStep, NEW t \in Tabs, Turned(t), Keeping,
         OnForm(t)' /\ tab'[t].draft # None
           => Refers(tab'[t].draft, tab'[t].version, tab'[t].work.of),
         \A r \in tab'[t].rows : RowRefers(r)
  PROVE  FormsRefer'
<1> SUFFICES ASSUME NEW u \in Tabs
             PROVE  /\ OnForm(u)' /\ tab'[u].draft # None
                         => Refers(tab'[u].draft, tab'[u].version, tab'[u].work.of)
                    /\ \A r \in tab'[u].rows : RowRefers(r)
  BY DEF FormsRefer, Refers, RowRefers, Keeping
<1>1. CASE u # t
  <2>1. tab'[u] = tab[u]
    BY <1>1 DEF Turned
  <2>2. /\ OnForm(u) /\ tab[u].draft # None
             => Refers(tab[u].draft, tab[u].version, tab[u].work.of)
        /\ \A r \in tab[u].rows : RowRefers(r)
    BY DEF InStep, TellsApart, FormsRefer
  <2> QED BY <2>1, <2>2 DEF OnForm
<1> QED BY <1>1

LEMMA CallsKeepReferring ==
  ASSUME InStep, Keeping,
         \A e \in calls' :
           \/ \E c \in calls : /\ e.why = c.why /\ e.draft = c.draft /\ e.version = c.version
                               /\ e.work = c.work /\ e.answer = c.answer /\ e.rows = c.rows
           \/ /\ e.rows = {}
              /\ e.why = "hydrate" \/ (e.why \in Saves /\ e.draft # None)
                   => Refers(e.draft, e.version, e.work.of)
              /\ e.why \in Saves => e.answer = "none"
  PROVE  CallsRefer'
<1> SUFFICES ASSUME NEW e \in calls'
             PROVE  /\ e.why = "hydrate" \/ (e.why \in Saves /\ e.draft # None)
                         => Refers(e.draft, e.version, e.work.of)'
                    /\ e.why \in Saves /\ e.answer = "ok" => e.draft # None
                    /\ \A r \in e.rows : RowRefers(r)'
  BY DEF CallsRefer
<1>1. ASSUME NEW c \in calls, e.why = c.why, e.draft = c.draft, e.version = c.version,
             e.work = c.work, e.answer = c.answer, e.rows = c.rows
      PROVE  /\ e.why = "hydrate" \/ (e.why \in Saves /\ e.draft # None)
                  => Refers(e.draft, e.version, e.work.of)
             /\ e.why \in Saves /\ e.answer = "ok" => e.draft # None
             /\ \A r \in e.rows : RowRefers(r)
  BY <1>1 DEF InStep, TellsApart, CallsRefer
<1> QED BY <1>1, Referring

LEMMA TurnsKeepReferring ==
  ASSUME InStep, NEW t \in Tabs, Turns(t)
  PROVE  FormsRefer' /\ CallsRefer'
<1>1. Keeping /\ Turned(t)
  BY DEF Turns, Pens, Clicks, Hears, Away, Opened, Reloads, SameForm, SamePage
<1>2. /\ OnForm(t) /\ tab[t].draft # None
           => Refers(tab[t].draft, tab[t].version, tab[t].work.of)
      /\ \A r \in tab[t].rows : RowRefers(r)
  BY DEF InStep, TellsApart, FormsRefer
<1>3. \A c \in Mine(t) : /\ c \in calls
                         /\ c.why = "hydrate" \/ (c.why \in Saves /\ c.answer = "ok")
                              => Refers(c.draft, c.version, c.work.of)
                         /\ OnForm(t) => c.work.of = tab[t].work.of
  BY DEF InStep, TellsApart, CallsRefer, CallsAreTheForms, Mine
<1>4. FormsRefer'
  <2>1. CASE Pens(t) \/ \E x : Clicks(t, x)
    <3>1. SameForm(t)
      BY <2>1 DEF Pens, Clicks
    <3> QED BY <1>1, <1>2, <3>1, FormsKeepReferring DEF SameForm, OnForm
  <2>2. CASE \E c, N : Hears(t, c, N)
    <3>1. PICK c, N : Hears(t, c, N)
      BY <2>2
    <3>2. OnForm(t)' /\ tab'[t].draft # None
            => Refers(tab'[t].draft, tab'[t].version, tab'[t].work.of)
      BY <1>2, <1>3, <3>1 DEF Hears
    <3>3. tab'[t].rows = tab[t].rows
      BY <3>1 DEF Hears
    <3> QED BY <1>1, <1>2, <3>2, <3>3, FormsKeepReferring
  <2>3. CASE (\E N : Away(t, N)) \/ Reloads(t)
    <3>1. ~OnForm(t)' /\ \A r \in tab'[t].rows : RowRefers(r)
      BY <2>3 DEF Away, Reloads
    <3> QED BY <1>1, <3>1, FormsKeepReferring
  <2>4. CASE Opened(t)
    <3>1. OnForm(t)' /\ tab'[t].draft # None
            => Refers(tab'[t].draft, tab'[t].version, tab'[t].work.of)
      BY <1>3, <2>4 DEF Opened
    <3>2. tab'[t].rows = tab[t].rows
      BY <2>4 DEF Opened
    <3> QED BY <1>1, <1>2, <3>1, <3>2, FormsKeepReferring
  <2> QED BY <2>1, <2>2, <2>3, <2>4 DEF Turns
<1>5. CallsRefer'
  <2>1. CASE Pens(t) \/ Opened(t)
    <3>1. calls' \subseteq calls
      BY <2>1 DEF Pens, Opened
    <3> QED BY <1>1, <3>1, CallsKeepReferring
  <2>2. CASE \E x : Clicks(t, x)
    <3>1. PICK x : Clicks(t, x)
      BY <2>2
    <3>2. /\ calls' = calls \cup {x} /\ x.rows = {} /\ x.why # "hydrate"
          /\ x.why \in Saves /\ x.draft # None => Refers(x.draft, x.version, x.work.of)
          /\ x.why \in Saves => x.answer = "none"
      BY <1>2, <3>1 DEF Clicks, Asked, Elsewhere
    <3> QED BY <1>1, <3>2, CallsKeepReferring
  <2>3. CASE \E c, N : Hears(t, c, N)
    <3>1. PICK c, N : Hears(t, c, N)
      BY <2>3
    <3>2. /\ calls' = (calls \ {c}) \cup N
          /\ \A x \in N : x.rows = {} /\ x.why \notin Saves /\ x.why # "hydrate"
      BY <3>1 DEF Hears, Asked, Saves
    <3> QED BY <1>1, <3>2, CallsKeepReferring
  <2>4. CASE \E N : Away(t, N)
    <3>1. PICK N : Away(t, N)
      BY <2>4
    <3>2. /\ calls' = (calls \ Mine(t)) \cup N
          /\ \A x \in N : /\ x.rows = {} /\ x.why \notin Saves
                          /\ x.why = "hydrate" => Refers(x.draft, x.version, x.work.of)
      BY <3>1 DEF Away, Asked, Saves, Elsewhere
    <3> QED BY <1>1, <3>2, CallsKeepReferring
  <2>5. CASE Reloads(t)
    <3>1. \A e \in calls' :
            \/ e \in calls
            \/ \E c \in Mine(t) : e = Orphan(c)
            \/ e.rows = {} /\ e.why = "reopen"
      BY <2>5 DEF Reloads, Asked
    <3>2. \A c \in Mine(t) : /\ c \in calls /\ Orphan(c).why = c.why
                             /\ Orphan(c).draft = c.draft /\ Orphan(c).version = c.version
                             /\ Orphan(c).work = c.work /\ Orphan(c).answer = c.answer
                             /\ Orphan(c).rows = c.rows
      BY Orphans DEF Mine, InStep, Records
    <3>3. "reopen" \notin Saves
      BY DEF Saves
    <3>4. ASSUME NEW e \in calls'
          PROVE  \/ \E c \in calls : /\ e.why = c.why /\ e.draft = c.draft
                                     /\ e.version = c.version
                                     /\ e.work = c.work /\ e.answer = c.answer /\ e.rows = c.rows
                 \/ /\ e.rows = {}
                    /\ e.why = "hydrate" \/ (e.why \in Saves /\ e.draft # None)
                         => Refers(e.draft, e.version, e.work.of)
                    /\ e.why \in Saves => e.answer = "none"
      <4>1. CASE e \in calls
        BY <4>1
      <4>2. CASE \E c \in Mine(t) : e = Orphan(c)
        BY <3>2, <4>2
      <4>3. CASE e.rows = {} /\ e.why = "reopen"
        BY <3>3, <4>3
      <4> QED BY <3>1, <4>1, <4>2, <4>3
    <3> QED BY <1>1, <3>4, CallsKeepReferring
  <2> QED BY <2>1, <2>2, <2>3, <2>4, <2>5 DEF Turns
<1> QED BY <1>4, <1>5

\* The three invariants that are about each tab's own calls.
OwnCalls(t) ==
  /\ \A c \in Mine(t) :
       /\ OnForm(t) => c.why \notin Elsewhere /\ c.work.of = tab[t].work.of
       /\ c.why \in Elsewhere => Mine(t) = {c}
       /\ c.why = "hydrate" => tab[t].draft = c.draft /\ tab[t].version = c.version
       /\ c.why \in Pressed => tab[t].busy /\ \A e \in Mine(t) : e.why \in Pressed => e = c
       /\ c.why \in Saves \cup {"place"} => c.page = tab[t].page
       /\ c.why \in TakingIn <=> AlterForm(t)

LEMMA OwnCallsSay ==
  CallsAreTheForms /\ OnePress /\ AlterCalls <=> \A t \in Tabs : OwnCalls(t)
BY DEF CallsAreTheForms, OnePress, AlterCalls, OwnCalls

LEMMA TurnsKeepOwnCalls ==
  ASSUME InStep, NEW t \in Tabs, Turns(t)
  PROVE  \A u \in Tabs : OwnCalls(u)'
<1>1. \A u \in Tabs : OwnCalls(u)
  BY OwnCallsSay DEF InStep, TellsApart
<1>2. ASSUME NEW u \in Tabs, u # t
      PROVE  OwnCalls(u)'
  <2>1. Turned(t)
    BY DEF Turns, Pens, Clicks, Hears, Away, Opened, Reloads, SameForm, SamePage
  <2>2. tab'[u] = tab[u] /\ Mine(u)' = Mine(u)
    BY <1>2, <2>1, AskedByTab DEF Turned, Turns
  <2>3. (AlterForm(u)' <=> AlterForm(u)) /\ (OnForm(u)' <=> OnForm(u))
    BY <2>2 DEF AlterForm, OnForm
  <2> QED BY <1>1, <2>2, <2>3 DEF OwnCalls
<1>3. OwnCalls(t)'
  <2> USE <1>1
  <2>1. CASE Pens(t)
    <3>1. Mine(t)' = Mine(t) /\ (AlterForm(t)' <=> AlterForm(t)) /\ (OnForm(t)' <=> OnForm(t))
      BY <2>1, AskedByTab DEF AlterForm, OnForm, Pens, SameForm
    <3> QED BY <2>1, <3>1 DEF OwnCalls, Pens, SameForm, SamePage
  <2>2. CASE \E x : Clicks(t, x)
    <3>1. PICK x : Clicks(t, x)
      BY <2>2
    <3>2. /\ Mine(t)' = Mine(t) \cup {x} /\ (AlterForm(t)' <=> AlterForm(t))
          /\ OnForm(t)' /\ OnForm(t)
      BY <3>1, AskedByTab DEF AlterForm, OnForm, Clicks, SameForm
    <3>3. \A c \in Mine(t) : c.why \in Pressed => x.why \notin Pressed
      BY <3>1 DEF OwnCalls, Clicks
    <3>4. x.why \in Pressed => tab'[t].busy
      BY <3>1 DEF Clicks
    <3>5. x.why \notin Pressed => tab'[t].busy = tab[t].busy
      BY <3>1 DEF Clicks
    <3>6. ASSUME NEW c \in Mine(t)'
          PROVE  /\ OnForm(t)' => c.why \notin Elsewhere /\ c.work.of = tab'[t].work.of
                 /\ c.why \in Elsewhere => Mine(t)' = {c}
                 /\ c.why = "hydrate" => tab'[t].draft = c.draft /\ tab'[t].version = c.version
                 /\ c.why \in Saves \cup {"place"} => c.page = tab'[t].page
                 /\ c.why \in TakingIn <=> AlterForm(t)'
      BY <3>1, <3>2 DEF OwnCalls, Clicks, SameForm, SamePage, Elsewhere
    <3>7. ASSUME NEW c \in Mine(t)', c.why \in Pressed
          PROVE  tab'[t].busy /\ \A e \in Mine(t)' : e.why \in Pressed => e = c
      BY <3>2, <3>3, <3>4, <3>5, <3>7 DEF OwnCalls
    <3> QED BY <3>6, <3>7 DEF OwnCalls
  <2>3. CASE \E c, N : Hears(t, c, N)
    <3>1. PICK c, N : Hears(t, c, N)
      BY <2>3
    <3>2. Mine(t)' = (Mine(t) \ {c}) \cup N /\ c \in Mine(t) /\ c.why \notin Elsewhere
      BY <3>1, AskedByTab DEF Hears
    <3>3. N = {} \/ \E x : N = {x} /\ x.why \in {"place", "takein"} /\ c.why \in {"submit", "walkin"}
                           /\ (x.why = "takein" <=> c.why = "walkin")
                           /\ x.work.of = tab[t].work.of /\ x.page = tab[t].page
                           /\ tab'[t].view = tab[t].view
      BY <3>1 DEF Hears
    <3>4. AlterForm(t) <=> c.why \in TakingIn
      BY <3>2 DEF OwnCalls
    <3>5. AlterForm(t)' => AlterForm(t)
      BY <3>1 DEF Hears, AlterForm, OnForm
    <3>6. N # {} => (AlterForm(t)' <=> AlterForm(t))
      BY <3>1, <3>3 DEF Hears, AlterForm, OnForm
    <3>7. ASSUME NEW e \in Mine(t), e # c
          PROVE  ~AlterForm(t) /\ e.why \notin TakingIn
                 /\ (e.why \in Pressed => c.why \notin Pressed)
      BY <3>2, <3>4, <3>7 DEF OwnCalls, TakingIn, Pressed
    <3>8. ASSUME NEW e \in Mine(t)'
          PROVE  /\ OnForm(t)' => e.why \notin Elsewhere /\ e.work.of = tab'[t].work.of
                 /\ e.why \notin Elsewhere
                 /\ e.why \in Saves \cup {"place"} => e.page = tab'[t].page
                 /\ e.why \in TakingIn <=> AlterForm(t)'
      <4>1. CASE e \in Mine(t) /\ e # c
        BY <3>1, <3>2, <3>5, <3>7, <4>1 DEF OwnCalls, Hears, SamePage
      <4>2. CASE e \in N
        BY <3>1, <3>3, <3>4, <3>6, <4>2 DEF Hears, SamePage, Elsewhere, TakingIn
      <4> QED BY <3>2, <4>1, <4>2
    <3>9. ASSUME NEW e \in Mine(t)', e.why \in Pressed
          PROVE  tab'[t].busy /\ \A f \in Mine(t)' : f.why \in Pressed => f = e
      <4>1. CASE c.why \in Pressed
        <5>1. e \in N /\ Mine(t)' \subseteq (Mine(t) \ {c}) \cup N /\ N # {}
          BY <3>2, <3>7, <3>9, <4>1
        <5>2. tab'[t].busy = tab[t].busy /\ tab[t].busy
          BY <3>1, <3>2, <4>1, <5>1 DEF Hears, OwnCalls
        <5> QED BY <3>3, <3>7, <4>1, <5>1, <5>2
      <4>2. CASE c.why \notin Pressed
        <5>1. N = {}
          BY <3>3, <4>2 DEF Pressed
        <5>2. tab'[t].busy = tab[t].busy
          BY <3>1, <4>2 DEF Hears
        <5> QED BY <3>2, <3>9, <5>1, <5>2 DEF OwnCalls
      <4> QED BY <4>1, <4>2
    <3>10. "hydrate" \in Elsewhere
      BY DEF Elsewhere
    <3> QED BY <3>8, <3>9, <3>10 DEF OwnCalls
  <2>4. CASE \E N : Away(t, N)
    <3>1. PICK N : Away(t, N)
      BY <2>4
    <3>2. Mine(t)' = N /\ ~OnForm(t)' /\ ~AlterForm(t)'
      BY <3>1, AskedByTab DEF Away, AlterForm
    <3>3. N = {} \/ \E x : /\ N = {x} /\ x.why \in Elsewhere
                           /\ x.why = "hydrate" => /\ tab'[t].draft = x.draft
                                                   /\ tab'[t].version = x.version
      BY <3>1 DEF Away
    <3> QED BY <3>2, <3>3 DEF OwnCalls, Elsewhere, Pressed, Saves, TakingIn
  <2>5. CASE Opened(t)
    BY <2>5, AskedByTab DEF OwnCalls
  <2>6. CASE Reloads(t)
    <3>1. ~OnForm(t)' /\ ~AlterForm(t)'
      BY <2>6 DEF Reloads, AlterForm
    <3>2. \A e \in Mine(t)' : e.why = "reopen" /\ Mine(t)' = {e}
      BY <2>6, AskedByTab
    <3> QED BY <3>1, <3>2 DEF OwnCalls, Elsewhere, Pressed, Saves, TakingIn
  <2> QED BY <2>1, <2>2, <2>3, <2>4, <2>5, <2>6 DEF Turns
<1> QED BY <1>2, <1>3

LEMMA TurnsKeepInStep ==
  ASSUME InStep, NEW t \in Tabs, Turns(t)
  PROVE  InStep'
<1>1. CallsAreTheForms' /\ OnePress' /\ AlterCalls'
  <2>1. \A u \in Tabs : OwnCalls(u)'
    BY TurnsKeepOwnCalls
  <2> QED BY <2>1 DEF CallsAreTheForms, OnePress, AlterCalls, OwnCalls
<1> QED BY <1>1, TurnsKeepRecords, TurnsKeepReferring DEF InStep, TellsApart

-----------------------------------------------------------------------------
(* What the server does keeps them together.                                 *)

\* An answer that says nothing but how it went.
LEMMA PlainAnswers ==
  ASSUME InStep, NEW c \in calls, NEW why, why # "none",
         c.answer = "none" \/ (c.answer = "ok" /\ why = "failed" /\ c.tab # Nobody),
         c.why \in Saves => why # "ok",
         Answered(c, [c EXCEPT !.answer = why]), tab' = tab, started' = started, Grows
  PROVE  \E A : Answers(c, A)
<1>1. IsCall(c) /\ \A r \in c.rows : RowRefers(r)
  BY DEF InStep, Records, TellsApart, CallsRefer
<1> DEFINE a == [c EXCEPT !.answer = why]
<1>2. calls' = (calls \ {c}) \cup (IF c.tab = Nobody THEN {} ELSE {a})
  BY DEF Answered
<1>3. /\ IsCall(a) /\ a.tab = c.tab /\ a.why = c.why /\ a.work = c.work /\ a.page = c.page
      /\ a.draft = c.draft /\ a.version = c.version /\ a.rows = c.rows /\ a.answer = why
  BY <1>1 DEF IsCall, CallFields
<1> HIDE DEF a
<1>4. a.why \in Saves /\ a.draft # None => Refers(a.draft, a.version, a.work.of)'
  <2>1. a.why \in Saves /\ a.draft # None => Refers(a.draft, a.version, a.work.of)
    BY <1>3 DEF InStep, TellsApart, CallsRefer
  <2>2. IsCall(a)
    BY <1>3
  <2> QED
    BY <2>1, <2>2 DEF Grows, Refers, IsCall, InStep, Records, IsDraft
<1>5. CASE c.tab = Nobody
  <2>1. Answers(c, {})
    BY <1>2, <1>5 DEF Answers
  <2> QED BY <2>1
<1>6. CASE c.tab # Nobody
  <2>1. Answers(c, {a})
    BY <1>1, <1>2, <1>3, <1>4, <1>6 DEF Answers
  <2> QED BY <2>1
<1> QED BY <1>5, <1>6

LEMMA NothingGrows ==
  ASSUME InStep, drafts' = drafts
  PROVE  Grows
BY DEF Grows, InStep, Records, IsDraft

LEMMA LoseAnswers ==
  ASSUME InStep, NEW c, Lose(c)
  PROVE  Grows /\ \E A : Answers(c, A)
<1>1. /\ c \in calls /\ c.tab # Nobody /\ c.answer \in {"none", "ok"}
      /\ tab' = tab /\ started' = started /\ drafts' = drafts
      /\ Answered(c, [c EXCEPT !.answer = "failed"])
  BY DEF Lose, Answered, server
<1> QED BY <1>1, NothingGrows, PlainAnswers

LEMMA RefusedAnswers ==
  ASSUME InStep, NEW c \in calls, c.answer = "none", tab' = tab, started' = started,
         NEW why \in {"missing", "conflict", "refused", "spent"}, Refused(c, why)
  PROVE  Grows /\ \E A : Answers(c, A)
BY NothingGrows, PlainAnswers DEF Refused, server

LEMMA CreateAnswers ==
  ASSUME InStep, NEW c \in calls, c.answer = "none", tab' = tab, started' = started,
         CreateDraft(c)
  PROVE  Grows /\ \E A : Answers(c, A)
<1>1. PICK d \in Drafts :
        /\ Unmade(d)
        /\ drafts' = [drafts EXCEPT ![d] = [live |-> TRUE, work |-> c.work,
                        version |-> 1, by |-> {<<c.tab, c.page>>}, placed |-> 0]]
        /\ Answered(c, [c EXCEPT !.answer = "ok", !.draft = d, !.version = 1])
  BY DEF CreateDraft
<1>2. /\ IsCall(c) /\ (\A r \in c.rows : RowRefers(r))
      /\ DOMAIN drafts = Drafts /\ \A e \in Drafts : IsDraft(drafts[e])
  BY DEF InStep, Records, TellsApart, CallsRefer
<1> DEFINE new == [live |-> TRUE, work |-> c.work, version |-> 1, by |-> {<<c.tab, c.page>>},
                   placed |-> 0]
<1>3. DOMAIN drafts' = Drafts /\ drafts'[d] = new /\ \A e \in Drafts \ {d} : drafts'[e] = drafts[e]
  BY <1>1, <1>2
<1>4. IsDraft(new) /\ new.version = 1 /\ new.work.of = c.work.of
  <2>1. IsFiniteSet({<<c.tab, c.page>>})
    BY FS_Singleton
  <2> QED BY <1>2, <2>1 DEF IsDraft, IsCall, DraftFields
<1> HIDE DEF new
<1>5. Grows
  <2>1. drafts[d].version = 0
    BY <1>1 DEF Unmade
  <2>2. ASSUME NEW e \in Drafts
        PROVE  /\ IsDraft(drafts'[e]) /\ drafts'[e].version >= drafts[e].version
               /\ drafts[e].version >= 1 => drafts'[e].work.of = drafts[e].work.of
    <3>1. CASE e = d
      BY <1>3, <1>4, <2>1, <3>1
    <3>2. CASE e # d
      <4>1. drafts'[e] = drafts[e] /\ IsDraft(drafts[e])
        BY <1>2, <1>3, <3>2
      <4>2. drafts[e].version \in Nat
        BY <4>1 DEF IsDraft
      <4> QED BY <4>1, <4>2
    <3> QED BY <3>1, <3>2
  <2> QED BY <1>3, <2>2 DEF Grows
<1> DEFINE a == [c EXCEPT !.answer = "ok", !.draft = d, !.version = 1]
<1>6. calls' = (calls \ {c}) \cup (IF c.tab = Nobody THEN {} ELSE {a})
  BY <1>1 DEF Answered
<1>7. /\ IsCall(a) /\ a.tab = c.tab /\ a.why = c.why /\ a.work = c.work /\ a.page = c.page
      /\ a.draft = d /\ a.version = 1 /\ a.rows = c.rows /\ a.answer = "ok"
  BY <1>2 DEF IsCall, CallFields
<1> HIDE DEF a
<1>8. Refers(a.draft, a.version, a.work.of)' /\ a.draft # None
  BY <1>3, <1>4, <1>7 DEF Refers, Drafts, None
<1>9. c.why \in Saves
  BY DEF CreateDraft
<1>10. CASE c.tab = Nobody
  <2>1. Answers(c, {})
    BY <1>6, <1>10 DEF Answers
  <2> QED BY <1>5, <2>1
<1>11. CASE c.tab # Nobody
  <2>1. Answers(c, {a})
    BY <1>2, <1>6, <1>7, <1>8, <1>9, <1>11 DEF Answers
  <2> QED BY <1>5, <2>1
<1> QED BY <1>10, <1>11

LEMMA UpdateAnswers ==
  ASSUME InStep, NEW c \in calls, c.answer = "none", tab' = tab, started' = started,
         UpdateDraft(c)
  PROVE  Grows /\ \E A : Answers(c, A)
<1>1. CASE \E why \in {"missing", "conflict"} : Refused(c, why)
  BY <1>1, RefusedAnswers
<1>2. CASE /\ drafts[c.draft].live /\ ~StaleVersion(c)
           /\ drafts' = [drafts EXCEPT ![c.draft] = Overwritten(@, c)]
           /\ Answered(c, [c EXCEPT !.answer = "ok", !.version = @ + 1])
  <2>1. /\ IsCall(c) /\ (\A r \in c.rows : RowRefers(r)) /\ Refers(c.draft, c.version, c.work.of)
        /\ DOMAIN drafts = Drafts /\ \A e \in Drafts : IsDraft(drafts[e])
    BY DEF InStep, Records, TellsApart, CallsRefer, UpdateDraft
  <2> DEFINE d == c.draft
             new == Overwritten(drafts[d], c)
  <2>2. d \in Drafts /\ drafts[d].version = c.version /\ drafts[d].work.of = c.work.of
    BY <1>2, <2>1 DEF Refers, StaleVersion
  <2>3. DOMAIN drafts' = Drafts /\ drafts'[d] = new
        /\ \A e \in Drafts \ {d} : drafts'[e] = drafts[e]
    BY <1>2, <2>1, <2>2
  <2>4. IsDraft(new) /\ new.version = c.version + 1 /\ new.work.of = c.work.of
    <3>1. IsDraft(drafts[d])
      BY <2>1, <2>2
    <3>2. IsFiniteSet(drafts[d].by \cup {<<c.tab, c.page>>})
      BY <3>1, FS_AddElement DEF IsDraft
    <3>3. /\ DOMAIN new = DraftFields /\ new.work = c.work /\ new.version = drafts[d].version + 1
          /\ new.by = drafts[d].by \cup {<<c.tab, c.page>>}
          /\ new.placed = drafts[d].placed /\ new.live = drafts[d].live
      BY <3>1 DEF Overwritten, IsDraft, DraftFields
    <3> HIDE DEF new
    <3> QED BY <2>1, <2>2, <3>1, <3>2, <3>3 DEF IsDraft, IsCall
  <2> HIDE DEF new
  <2>5. Grows
    BY <2>1, <2>2, <2>3, <2>4 DEF Grows, IsDraft, IsCall
  <2> DEFINE a == [c EXCEPT !.answer = "ok", !.version = c.version + 1]
  <2>6. calls' = (calls \ {c}) \cup (IF c.tab = Nobody THEN {} ELSE {a})
    BY <1>2 DEF Answered
  <2>7. /\ IsCall(a) /\ a.tab = c.tab /\ a.why = c.why /\ a.work = c.work /\ a.page = c.page
        /\ a.draft = d /\ a.version = c.version + 1 /\ a.rows = c.rows /\ a.answer = "ok"
    BY <2>1 DEF IsCall, CallFields
  <2> HIDE DEF a, d
  <2>8. Refers(a.draft, a.version, a.work.of)'
    BY <2>1, <2>2, <2>3, <2>4, <2>7 DEF Refers, IsCall
  <2>9. c.why \in Saves /\ a.draft # None
    BY <2>7 DEF UpdateDraft, d
  <2>10. CASE c.tab = Nobody
    <3>1. Answers(c, {})
      BY <2>6, <2>10 DEF Answers
    <3> QED BY <2>5, <3>1
  <2>11. CASE c.tab # Nobody
    <3>1. Answers(c, {a})
      BY <2>1, <2>6, <2>7, <2>8, <2>9, <2>11 DEF Answers
    <3> QED BY <2>5, <3>1
  <2> QED BY <2>10, <2>11
<1> QED BY <1>1, <1>2 DEF UpdateDraft

LEMMA OkAnswers ==
  ASSUME InStep, NEW c \in calls, c.answer = "none", c.why \notin Saves,
         tab' = tab, started' = started, Done(c), Grows
  PROVE  \E A : Answers(c, A)
BY PlainAnswers DEF Done

LEMMA ConfirmAnswers ==
  ASSUME InStep, NEW c \in calls, c.answer = "none", tab' = tab, started' = started,
         ConfirmDraft(c)
  PROVE  Grows /\ \E A : Answers(c, A)
<1>1. CASE \E why \in {"refused", "spent"} : Refused(c, why)
  BY <1>1, RefusedAnswers
<1>2. CASE drafts' = [drafts EXCEPT ![c.draft] = Spent(@)] /\ Done(c)
  <2>1. Grows
    <3>1. DOMAIN drafts = Drafts /\ \A e \in Drafts : IsDraft(drafts[e])
      BY DEF InStep, Records
    <3>2. ASSUME NEW d \in Drafts
          PROVE  /\ IsDraft(drafts'[d]) /\ drafts'[d].version = drafts[d].version
                 /\ drafts'[d].work = drafts[d].work
      <4>1. CASE d = c.draft
        <5>1. drafts'[d] = Spent(drafts[d]) /\ IsDraft(drafts[d])
          BY <1>2, <3>1, <4>1
        <5> QED BY <5>1 DEF Spent, IsDraft, DraftFields
      <4>2. CASE d # c.draft
        BY <1>2, <3>1, <4>2
      <4> QED BY <4>1, <4>2
    <3> QED BY <1>2, <3>1, <3>2 DEF Grows, IsDraft
  <2>2. c.why \notin Saves
    BY DEF ConfirmDraft, Saves
  <2> QED BY <1>2, <2>1, <2>2, OkAnswers
<1> QED BY <1>1, <1>2 DEF ConfirmDraft

LEMMA DiscardAnswers ==
  ASSUME InStep, NEW c \in calls, c.answer = "none", tab' = tab, started' = started,
         DiscardDraft(c)
  PROVE  Grows /\ \E A : Answers(c, A)
<1>1. Grows
  <2>1. DOMAIN drafts = Drafts /\ \A e \in Drafts : IsDraft(drafts[e])
    BY DEF InStep, Records
  <2>2. ASSUME NEW d \in Drafts
        PROVE  /\ IsDraft(drafts'[d]) /\ drafts'[d].version = drafts[d].version
               /\ drafts'[d].work = drafts[d].work
    <3>1. CASE d = c.draft
      <4>1. drafts'[d] = [drafts[d] EXCEPT !.live = FALSE] /\ IsDraft(drafts[d])
        BY <2>1, <3>1 DEF DiscardDraft
      <4> QED BY <4>1 DEF IsDraft, DraftFields
    <3>2. CASE d # c.draft
      BY <2>1, <3>2 DEF DiscardDraft
    <3> QED BY <3>1, <3>2
  <2> QED BY <2>1, <2>2 DEF Grows, IsDraft, DiscardDraft
<1>2. c.why \notin Saves /\ Done(c)
  BY DEF DiscardDraft, Saves
<1> QED BY <1>1, <1>2, OkAnswers

LEMMA CountAnswers ==
  ASSUME InStep, NEW c \in calls, c.answer = "none", tab' = tab, started' = started,
         CreateAlteration(c) \/ AddCustomer(c)
  PROVE  Grows /\ \E A : Answers(c, A)
<1>1. CASE Refused(c, "refused")
  BY <1>1, RefusedAnswers
<1>2. CASE drafts' = drafts /\ Done(c)
  <2>1. c.why \notin Saves
    BY DEF CreateAlteration, AddCustomer, Saves
  <2> QED BY <1>2, <2>1, NothingGrows, OkAnswers
<1> QED BY <1>1, <1>2 DEF CreateAlteration, AddCustomer, server

LEMMA ReadAnswers ==
  ASSUME InStep, NEW c \in calls, c.answer = "none", tab' = tab, started' = started, Read(c)
  PROVE  Grows /\ \E A : Answers(c, A)
<1>1. Grows
  BY NothingGrows DEF Read, server
<1>2. IsCall(c) /\ DOMAIN drafts = Drafts /\ \A e \in Drafts : IsDraft(drafts[e])
  BY DEF InStep, Records
<1> DEFINE R == {Row(d) : d \in {e \in Live : c.why = "list" \/ e = c.draft}}
           a == [c EXCEPT !.answer = "ok", !.rows = R]
<1>3. calls' = (calls \ {c}) \cup (IF c.tab = Nobody THEN {} ELSE {a})
  BY DEF Read, Answered
<1>4. \A d \in Live : RowRefers(Row(d))
  BY <1>2 DEF Live, Row, RowRefers, Refers, IsDraft
<1>5. \A r \in R : RowRefers(r)
  BY <1>4
<1> HIDE DEF R
<1>6. /\ IsCall(a) /\ a.tab = c.tab /\ a.why = c.why /\ a.work = c.work /\ a.page = c.page
      /\ a.draft = c.draft /\ a.version = c.version /\ a.rows = R /\ a.answer = "ok"
  BY <1>2 DEF IsCall, CallFields
<1> HIDE DEF a
<1>7. c.why \notin Saves
  BY DEF Read, Saves
<1>8. CASE c.tab = Nobody
  <2>1. Answers(c, {})
    BY <1>3, <1>8 DEF Answers
  <2> QED BY <1>1, <2>1
<1>9. CASE c.tab # Nobody
  <2>1. Answers(c, {a})
    BY <1>3, <1>5, <1>6, <1>7, <1>9 DEF Answers
  <2> QED BY <1>1, <2>1
<1> QED BY <1>8, <1>9

LEMMA ServeAnswers ==
  ASSUME InStep, NEW c, Serve(c) \/ Lose(c)
  PROVE  Grows /\ \E A : Answers(c, A)
<1>1. CASE Lose(c)
  BY <1>1, LoseAnswers
<1>2. CASE Serve(c)
  <2>1. c \in calls /\ c.answer = "none" /\ tab' = tab /\ started' = started
    BY <1>2 DEF Serve
  <2> QED
    BY <1>2, <2>1, CreateAnswers, UpdateAnswers, ConfirmAnswers, DiscardAnswers, CountAnswers,
       ReadAnswers DEF Serve
<1> QED BY <1>1, <1>2

\* A garment, or a customer, is counted as one more.
LEMMA CountsStayNumbers ==
  ASSUME InStep, NEW c, Serve(c) \/ Lose(c)
  PROVE  /\ taken' \in [1..MaxOrders -> Nat] /\ added' \in [1..MaxOrders -> Nat]
         /\ lost' \in Nat
<1>1. taken \in [1..MaxOrders -> Nat] /\ added \in [1..MaxOrders -> Nat] /\ lost \in Nat
  BY DEF InStep, Records
<1>2. \A counts \in [1..MaxOrders -> Nat] : Once(counts, c) \in [1..MaxOrders -> Nat]
  BY DEF Once
<1>3. taken' = taken \/ taken' = Once(taken, c)
  BY DEF Serve, Lose, CreateDraft, UpdateDraft, ConfirmDraft, DiscardDraft, CreateAlteration,
     AddCustomer, Read, Refused, server
<1>4. added' = added \/ added' = Once(added, c)
  BY DEF Serve, Lose, CreateDraft, UpdateDraft, ConfirmDraft, DiscardDraft, CreateAlteration,
     AddCustomer, Read, Refused, server
<1>5. lost' = lost \/ lost' = lost + 1
  BY DEF Serve, Lose
<1> QED BY <1>1, <1>2, <1>3, <1>4, <1>5

LEMMA AnswersKeepReferring ==
  ASSUME InStep, Grows
  PROVE  /\ \A d, v, of : v \in Nat /\ Refers(d, v, of) => Refers(d, v, of)'
         /\ \A r : RowRefers(r) => RowRefers(r)'
BY DEF Grows, Refers, RowRefers, InStep, Records, IsDraft

LEMMA AnswersKeepInStep ==
  ASSUME InStep, NEW c, Serve(c) \/ Lose(c)
  PROVE  InStep'
<1>1. Grows
  BY ServeAnswers
<1>2. PICK A : Answers(c, A)
  BY ServeAnswers
<1>3. Records'
  <2>1. calls' = (calls \ {c}) \cup A /\ \A a \in A : IsCall(a)
    BY <1>2 DEF Answers
  <2>2. tab' = tab /\ started' = started
    BY <1>2 DEF Answers
  <2> QED
    BY <1>1, <2>1, <2>2, CountsStayNumbers DEF InStep, Records, Grows
<1>4. FormsRefer'
  <2> SUFFICES ASSUME NEW u \in Tabs
               PROVE  /\ OnForm(u)' /\ tab'[u].draft # None
                           => LET d == tab'[u].draft IN
                                /\ d \in Drafts /\ drafts'[d].version >= 1
                                /\ tab'[u].version <= drafts'[d].version
                                /\ drafts'[d].work.of = tab'[u].work.of
                      /\ \A r \in tab'[u].rows : RowRefers(r)'
    BY DEF FormsRefer, Refers
  <2>1. tab' = tab /\ tab[u].version \in Nat
    BY <1>2 DEF Answers, InStep, Records, IsTab
  <2>2. /\ OnForm(u) /\ tab[u].draft # None
             => Refers(tab[u].draft, tab[u].version, tab[u].work.of)
        /\ \A r \in tab[u].rows : RowRefers(r)
    BY DEF InStep, TellsApart, FormsRefer
  <2>3. OnForm(u) /\ tab[u].draft # None
             => Refers(tab[u].draft, tab[u].version, tab[u].work.of)'
    BY <1>1, <2>1, <2>2 DEF Grows, Refers, InStep, Records, IsDraft
  <2> QED BY <1>1, <2>1, <2>2, <2>3, AnswersKeepReferring DEF OnForm, Refers
<1>5. CallsRefer'
  <2> SUFFICES ASSUME NEW e \in calls'
               PROVE  /\ e.why = "hydrate" \/ (e.why \in Saves /\ e.draft # None)
                           => Refers(e.draft, e.version, e.work.of)'
                      /\ e.why \in Saves /\ e.answer = "ok" => e.draft # None
                      /\ \A r \in e.rows : RowRefers(r)'
    BY DEF CallsRefer
  <2>1. CASE e \in calls
    <3>1. /\ e.why = "hydrate" \/ (e.why \in Saves /\ e.draft # None)
               => Refers(e.draft, e.version, e.work.of)
          /\ e.why \in Saves /\ e.answer = "ok" => e.draft # None
          /\ \A r \in e.rows : RowRefers(r)
          /\ e.version \in Nat
      BY <2>1 DEF InStep, TellsApart, CallsRefer, Records, IsCall
    <3> QED BY <1>1, <3>1, AnswersKeepReferring
  <2>2. CASE e \in A
    <3>1. /\ e.why = c.why /\ e.work = c.work /\ IsCall(e) /\ c \in calls
          /\ e.why \notin Saves => e.draft = c.draft /\ e.version = c.version
          /\ e.why \in Saves /\ e.draft # None => Refers(e.draft, e.version, e.work.of)'
          /\ e.why \in Saves /\ e.answer = "ok" => e.draft # None
          /\ \A r \in e.rows : RowRefers(r)
      BY <1>2, <2>2 DEF Answers
    <3>2. c.why = "hydrate" => Refers(c.draft, c.version, c.work.of)
      BY <3>1 DEF InStep, TellsApart, CallsRefer
    <3>3. e.why = "hydrate" => Refers(e.draft, e.version, e.work.of)
      BY <3>1, <3>2 DEF Saves
    <3>4. e.version \in Nat
      BY <3>1 DEF IsCall
    <3> QED BY <1>1, <3>1, <3>3, <3>4, AnswersKeepReferring
  <2> QED BY <1>2, <2>1, <2>2 DEF Answers
<1>6. \A t \in Tabs : OwnCalls(t)'
  <2> SUFFICES ASSUME NEW t \in Tabs PROVE OwnCalls(t)'
    OBVIOUS
  <2>1. OwnCalls(t)
    BY OwnCallsSay DEF InStep, TellsApart
  <2>2. tab' = tab /\ (OnForm(t)' <=> OnForm(t)) /\ (AlterForm(t)' <=> AlterForm(t))
    BY <1>2 DEF Answers, OnForm, AlterForm
  <2>3. CASE c.tab # t
    <3>1. Mine(t)' = Mine(t)
      <4>1. calls' = (calls \ {c}) \cup A /\ \A a \in A : a.tab = c.tab
        BY <1>2 DEF Answers
      <4> QED BY <2>3, <4>1 DEF Mine
    <3> QED BY <2>1, <2>2, <3>1 DEF OwnCalls
  <2>4. CASE c.tab = t
    <3>1. PICK a : /\ A = {a} /\ a.tab = t /\ a.why = c.why /\ a.work = c.work /\ a.page = c.page
                   /\ a.why \notin Saves => a.draft = c.draft /\ a.version = c.version
      BY <1>2, <2>4, WizardAssumption DEF Answers
    <3>2. Mine(t)' = (Mine(t) \ {c}) \cup {a} /\ c \in Mine(t)
      BY <1>2, <2>4, <3>1 DEF Answers, Mine
    <3>3. "hydrate" \notin Saves
      BY DEF Saves
    <3> QED BY <2>1, <2>2, <3>1, <3>2, <3>3 DEF OwnCalls
  <2> QED BY <2>3, <2>4
<1>7. CallsAreTheForms' /\ OnePress' /\ AlterCalls'
  BY <1>6 DEF CallsAreTheForms, OnePress, AlterCalls, OwnCalls
<1> QED BY <1>3, <1>4, <1>5, <1>7 DEF InStep, TellsApart

-----------------------------------------------------------------------------

LEMMA FirstCalls ==
  ASSUME NEW t, Nobody # t
  PROVE  LET x == Call(t, "list", NewTab)
         IN  /\ DOMAIN x = CallFields /\ x.work = Blank /\ x.version = 0 /\ x.tab = t
             /\ x.rows = {} /\ x.why = "list" /\ x.answer = "none" /\ x.draft = None
BY DEF Call, CallFields, NewTab

LEMMA FirstDrafts ==
  /\ IsDraft(NewDraft) /\ NewDraft.work = Blank /\ NewDraft.placed = 0
  /\ IsDraft(Before) /\ Before.work.of = {1} /\ Before.placed = 0 /\ Before.version = 1
<1>1. /\ DOMAIN NewDraft = DraftFields /\ NewDraft.work = Blank /\ NewDraft.placed = 0
      /\ NewDraft.version = 0 /\ NewDraft.live = FALSE /\ NewDraft.by = {}
  BY DEF NewDraft, DraftFields
<1>2. DOMAIN Blank = WorkFields
  BY DEF Blank, Written, WorkFields
<1>3. IsDraft(NewDraft)
  BY <1>1, <1>2, FS_EmptySet DEF IsDraft
<1> DEFINE w == [Written({1}, "known") EXCEPT !.garments = "measured"]
<1>4. DOMAIN w = WorkFields /\ w.of = {1}
  BY DEF Written, WorkFields
<1>5. Before = [NewDraft EXCEPT !.live = TRUE, !.version = 1, !.by = {<<Nobody, 1>>}, !.work = w]
  BY DEF Before
<1> HIDE DEF w
<1>6. /\ DOMAIN Before = DraftFields /\ Before.work = w /\ Before.placed = 0
      /\ Before.version = 1 /\ Before.live = TRUE /\ Before.by = {<<Nobody, 1>>}
  BY <1>1, <1>5 DEF DraftFields
<1>7. IsFiniteSet({<<Nobody, 1>>})
  BY FS_Singleton
<1> QED BY <1>1, <1>3, <1>4, <1>6, <1>7 DEF IsDraft

\* Nothing is under way but the chooser's list, and no form is open.
LEMMA InitSays ==
  ASSUME Init
  PROVE  /\ Records
         /\ \A t \in Tabs : ~OnForm(t) /\ tab[t].rows = {}
         /\ \A c \in calls : /\ c.why = "list" /\ c.answer = "none" /\ c.rows = {}
                             /\ c.work.of = {} /\ c.tab \in Tabs
         /\ \A c, e \in calls : c.tab = e.tab => c = e
         /\ \A d \in Drafts : drafts[d].placed = 0
         /\ started \in {0, 1}
         /\ \A d \in Drafts : drafts[d].work.of \in {{}, {1}}
         /\ \A d \in Drafts : drafts[d].work.of # {} => started = 1
         /\ \A n \in 1..MaxOrders : taken[n] = 0 /\ added[n] = 0
         /\ lost = 0
<1>1. PICK view \in {"dashboard", "selector"}, n \in {0, 1} :
       /\ tab = [t \in Tabs |-> [NewTab EXCEPT !.view = view]]
       /\ calls = {Call(t, "list", NewTab) : t \in {u \in Tabs : view = "selector"}}
       /\ started = n
       /\ drafts = [d \in Drafts |-> IF d <= n THEN Before ELSE NewDraft]
  BY DEF Init
<1>2. /\ taken = [m \in 1..MaxOrders |-> 0] /\ added = [m \in 1..MaxOrders |-> 0]
      /\ lost = 0
  BY DEF Init
<1> DEFINE s == [NewTab EXCEPT !.view = view]
<1>3. IsTab(s) /\ s.view # "wizard" /\ s.rows = {}
  BY NewTabs DEF IsTab, TabFields
<1>4. DOMAIN tab = Tabs /\ \A t \in Tabs : tab[t] = s
  BY <1>1
<1> HIDE DEF s
<1>5. DOMAIN Blank = WorkFields /\ Blank.of = {}
  BY DEF Blank, Written, WorkFields
<1>6. \A c \in calls : c.tab \in Tabs /\ c = Call(c.tab, "list", NewTab)
  <2> SUFFICES ASSUME NEW c \in calls PROVE c.tab \in Tabs /\ c = Call(c.tab, "list", NewTab)
    OBVIOUS
  <2>1. PICK t \in Tabs : c = Call(t, "list", NewTab)
    BY <1>1
  <2>2. c.tab = t
    BY <2>1, FirstCalls, WizardAssumption
  <2> QED BY <2>1, <2>2
<1>7. \A c \in calls : /\ IsCall(c) /\ c.why = "list" /\ c.answer = "none" /\ c.rows = {}
                       /\ c.work.of = {} /\ c.tab \in Tabs
  BY <1>5, <1>6, FirstCalls, WizardAssumption DEF IsCall
<1>8. /\ DOMAIN drafts = Drafts
      /\ \A d \in Drafts : (drafts[d] = Before /\ n = 1) \/ drafts[d] = NewDraft
  BY <1>1 DEF Drafts
<1>9. Records
  BY <1>1, <1>2, <1>3, <1>4, <1>7, <1>8, FirstDrafts DEF Records
<1>10. \A t \in Tabs : ~OnForm(t) /\ tab[t].rows = {}
  BY <1>3, <1>4 DEF OnForm
<1>11. \A d \in Drafts : /\ drafts[d].placed = 0 /\ drafts[d].work.of \in {{}, {1}}
                         /\ drafts[d].work.of # {} => started = 1
  BY <1>1, <1>5, <1>8, FirstDrafts
<1> QED BY <1>1, <1>2, <1>6, <1>7, <1>9, <1>10, <1>11

LEMMA InitInStep ==
  ASSUME Init
  PROVE  InStep
<1>1. Records /\ FormsRefer
  BY InitSays DEF FormsRefer
<1>2. CallsRefer
  BY InitSays DEF CallsRefer, Saves
<1>3. \A t \in Tabs : OwnCalls(t)
  BY InitSays DEF OwnCalls, Mine, Pressed, Saves, TakingIn, AlterForm
<1> QED BY <1>1, <1>2, <1>3, OwnCallsSay DEF InStep, TellsApart

LEMMA NextKeepsInStep ==
  ASSUME InStep, ~Overlap, [Next]_vars
  PROVE  InStep'
<1>1. CASE \E t \in Tabs : Acts(t) \/ Tick(t) \/ \E c \in calls : Land(t, c)
  BY <1>1, TabsTurn, TurnsKeepInStep
<1>2. CASE \E c \in calls : Serve(c) \/ Lose(c)
  BY <1>2, AnswersKeepInStep
<1>3. CASE UNCHANGED vars
  BY <1>3 DEF vars, InStep, Records, TellsApart, FormsRefer, CallsRefer, CallsAreTheForms,
     OnePress, AlterCalls, RowRefers, Refers, OnForm, AlterForm, Mine
<1> QED BY <1>1, <1>2, <1>3 DEF Next

\* A saved order is never overwritten with what was written for another, from
\* any number of tabs, so long as the person waits for an answer before
\* leaving a form or opening another (persistDraft, startService, hydrateWizard).
THEOREM DraftsAreNotMixedUp ==
  ASSUME ~Overlap
  PROVE  Spec => DraftsKeepTheirOrder
<1> DEFINE Kept == \A d \in Drafts : drafts[d].live /\ drafts'[d].live
                                       => drafts'[d].work.of = drafts[d].work.of
<1>1. Init => InStep
  BY InitInStep
<1>2. InStep /\ [Next]_vars => InStep'
  BY NextKeepsInStep
<1>3. InStep /\ [Next]_vars => [Kept]_vars
  <2> SUFFICES ASSUME InStep, [Next]_vars, ~UNCHANGED vars PROVE Kept
    OBVIOUS
  <2>1. Grows
    <3>1. CASE \E t \in Tabs : Acts(t) \/ Tick(t) \/ \E c \in calls : Land(t, c)
      <4>1. \E t \in Tabs : Turns(t)
        BY <3>1, TabsTurn
      <4>2. Keeping
        BY <4>1 DEF Turns, Pens, Clicks, Hears, Away, Opened, Reloads
      <4> QED BY <4>2, NothingGrows DEF Keeping
    <3>2. CASE \E c \in calls : Serve(c) \/ Lose(c)
      BY <3>2, ServeAnswers
    <3> QED BY <3>1, <3>2 DEF Next
  <2> QED BY <2>1 DEF Grows, InStep, Records, IsDraft
<1> QED
  BY <1>1, <1>2, <1>3, PTL DEF Spec, DraftsKeepTheirOrder

-----------------------------------------------------------------------------
(* Taken in once.                                                            *)

\* How an order comes to be on t's form.
LEMMA FormsHold ==
  ASSUME InStep, NEW t \in Tabs, Turns(t)
  PROVE  /\ Turned(t) /\ Keeping
         /\ OnForm(t)' =>
              \/ /\ OnForm(t) /\ tab'[t].work.of = tab[t].work.of /\ started' = started
                 /\ tab'[t].kind = "stitch" <=> tab[t].kind = "stitch"
              \/ /\ tab'[t].work.of = {started + 1} /\ started' = started + 1
                 /\ calls' \subseteq calls /\ Mine(t)' = {}
              \/ /\ tab'[t].kind = "stitch" /\ started' = started
                 /\ \E c \in calls : c.why = "hydrate" /\ tab'[t].work.of = c.work.of
<1>1. Turned(t) /\ Keeping
  BY DEF Turns, Pens, Clicks, Hears, Away, Opened, Reloads, SameForm, SamePage
<1>2. CASE Pens(t)
  BY <1>1, <1>2 DEF Pens, SameForm, OnForm
<1>3. CASE \E x : Clicks(t, x)
  BY <1>1, <1>3 DEF Clicks, SameForm, OnForm
<1>4. CASE \E c, N : Hears(t, c, N)
  BY <1>1, <1>4 DEF Hears
<1>5. CASE (\E N : Away(t, N)) \/ Reloads(t)
  BY <1>1, <1>5 DEF Away, Reloads
<1>6. CASE Opened(t)
  BY <1>1, <1>6, AskedByTab DEF Opened, Mine
<1> QED BY <1>2, <1>3, <1>4, <1>5, <1>6 DEF Turns

\* And how it comes to be in a request.
LEMMA CallsHold ==
  ASSUME InStep, NEW t \in Tabs, Turns(t), NEW e \in calls', NEW n \in e.work.of
  PROVE  \/ \E c \in calls : c.why = e.why /\ n \in c.work.of
         \/ OnForm(t) /\ n \in tab[t].work.of /\ (e.why \in TakingIn <=> AlterForm(t))
         \/ e.why \notin TakingIn /\ \E d \in Drafts : n \in drafts[d].work.of
<1>1. CASE e \in calls
  BY <1>1
<1>2. CASE Pens(t) \/ Opened(t)
  BY <1>2 DEF Pens, Opened
<1>3. CASE \E x : Clicks(t, x)
  BY <1>1, <1>3 DEF Clicks
<1>4. CASE \E c, N : Hears(t, c, N)
  <2>1. PICK c, N : Hears(t, c, N)
    BY <1>4
  <2>2. CASE e \in N
    <3>1. /\ c \in Mine(t) /\ n \in tab[t].work.of
          /\ \/ c.why = "submit" /\ e.why = "place"
             \/ c.why = "walkin" /\ e.why = "takein"
      BY <2>1, <2>2 DEF Hears
    <3>2. OnForm(t)
      BY <3>1 DEF InStep, Records, IsTab, OnForm
    <3>3. e.why \in TakingIn <=> AlterForm(t)
      BY <3>1 DEF InStep, AlterCalls, TakingIn
    <3> QED BY <3>1, <3>2, <3>3
  <2> QED BY <1>1, <2>1, <2>2 DEF Hears
<1>5. CASE \E N : Away(t, N)
  <2>1. PICK N : Away(t, N)
    BY <1>5
  <2>2. CASE e \in N
    <3>1. e.why = "hydrate" /\ Refers(e.draft, e.version, e.work.of)
      BY <2>1, <2>2 DEF Away
    <3> QED BY <3>1 DEF Refers, TakingIn
  <2> QED BY <1>1, <2>1, <2>2 DEF Away
<1>6. CASE Reloads(t)
  <2>1. CASE \E c \in Mine(t) : e = Orphan(c)
    BY <2>1, Orphans DEF Mine, InStep, Records
  <2> QED BY <1>1, <1>6, <2>1 DEF Reloads
<1> QED BY <1>2, <1>3, <1>4, <1>5, <1>6 DEF Turns

LEMMA TurnsKeepOrdersApart ==
  ASSUME InStep, OrdersApart, NEW t \in Tabs, Turns(t)
  PROVE  OrdersApart'
<1>1. started \in Nat /\ (started' = started \/ started' = started + 1)
  BY DEF InStep, Records, Turns, Pens, Clicks, Hears, Away, Opened, Reloads
<1>2. Turned(t) /\ drafts' = drafts
  BY FormsHold DEF Keeping
<1>3. ASSUME NEW n, Stitched(n)'
      PROVE  Stitched(n) \/ (n = started + 1 /\ started' = started + 1)
  <2>1. CASE \E u \in Tabs : OnForm(u)' /\ tab'[u].kind = "stitch" /\ n \in tab'[u].work.of
    <3>1. PICK u \in Tabs : OnForm(u)' /\ tab'[u].kind = "stitch" /\ n \in tab'[u].work.of
      BY <2>1
    <3>2. CASE u # t
      BY <1>2, <3>1, <3>2 DEF Turned, Stitched, OnForm
    <3>3. CASE u = t
      BY <3>1, <3>3, FormsHold DEF Stitched, TakingIn
    <3> QED BY <3>2, <3>3
  <2>2. CASE \E e \in calls' : e.why \notin TakingIn /\ n \in e.work.of
    BY <2>2, CallsHold DEF Stitched, AlterForm
  <2>3. CASE \E d \in Drafts : n \in drafts'[d].work.of
    BY <1>2, <2>3 DEF Stitched
  <2> QED BY <1>3, <2>1, <2>2, <2>3 DEF Stitched
<1>4. ASSUME NEW n, Altered(n)'
      PROVE  Altered(n) \/ (n = started + 1 /\ started' = started + 1)
  <2>1. CASE \E u \in Tabs : AlterForm(u)' /\ n \in tab'[u].work.of
    <3>1. PICK u \in Tabs : AlterForm(u)' /\ n \in tab'[u].work.of
      BY <2>1
    <3>2. CASE u # t
      BY <1>2, <3>1, <3>2 DEF Turned, Altered, AlterForm, OnForm
    <3>3. CASE u = t
      BY <3>1, <3>3, FormsHold DEF Altered, AlterForm
    <3> QED BY <3>2, <3>3
  <2>2. CASE \E e \in calls' : e.why \in TakingIn /\ n \in e.work.of
    BY <2>2, CallsHold DEF Altered
  <2> QED BY <1>4, <2>1, <2>2 DEF Altered
<1>5. ASSUME NEW n, Stitched(n)' \/ Altered(n)'
      PROVE  n \in 1..started'
  BY <1>1, <1>3, <1>4, <1>5 DEF OrdersApart
<1>6. ASSUME NEW n, Stitched(n)', Altered(n)'
      PROVE  FALSE
  <2>1. n = started + 1 /\ started' = started + 1
    BY <1>3, <1>4, <1>6 DEF OrdersApart
  <2>2. ~Stitched(n) /\ ~Altered(n)
    BY <1>1, <2>1 DEF OrdersApart
  <2>3. /\ \A e \in calls' : n \notin e.work.of
        /\ \A d \in Drafts : n \notin drafts'[d].work.of
    BY <1>2, <2>2, CallsHold DEF Stitched, Altered, AlterForm
  <2>4. \A u \in Tabs : OnForm(u)' /\ n \in tab'[u].work.of => u = t
    <3> SUFFICES ASSUME NEW u \in Tabs, OnForm(u)', n \in tab'[u].work.of, u # t
                 PROVE  FALSE
      OBVIOUS
    <3>1. tab'[u] = tab[u]
      BY <1>2 DEF Turned
    <3> QED BY <2>2, <3>1 DEF Stitched, Altered, AlterForm, OnForm
  <2>5. tab'[t].kind = "stitch"
    BY <1>6, <2>3, <2>4 DEF Stitched
  <2>6. \E u \in Tabs : AlterForm(u)' /\ n \in tab'[u].work.of
    BY <1>6, <2>3 DEF Altered
  <2> QED BY <2>4, <2>5, <2>6 DEF AlterForm
<1> QED BY <1>5, <1>6 DEF OrdersApart

\* What becomes nobody's request was the form's.
LEMMA OutlivedWere ==
  ASSUME InStep, NEW t \in Tabs, Turns(t), NEW e, Outlived(e)'
  PROVE  \/ Outlived(e)
         \/ /\ Reloads(t) /\ AlterForm(t) /\ e.work.of = tab[t].work.of
            /\ \E c \in Mine(t) : e = Orphan(c) /\ c.why \in TakingIn
<1>1. e \in calls' /\ e.tab = Nobody /\ e.why \in TakingIn /\ e.answer = "none" /\ e.tab # t
  BY WizardAssumption DEF Outlived
<1>2. CASE e \in calls
  BY <1>1, <1>2 DEF Outlived
<1>3. CASE e \notin calls
  <2>1. Reloads(t) /\ \E c \in Mine(t) : e = Orphan(c)
    BY <1>1, <1>3 DEF Turns, Pens, Clicks, Hears, Away, Opened, Reloads, Asked
  <2>2. PICK c \in Mine(t) : e = Orphan(c)
    BY <2>1
  <2>3. e.why = c.why /\ e.work = c.work
    BY <2>2, Orphans DEF InStep, Records, Mine
  <2>4. AlterForm(t)
    BY <1>1, <2>3 DEF InStep, AlterCalls
  <2>5. c.work.of = tab[t].work.of
    BY <2>4 DEF InStep, TellsApart, CallsAreTheForms, AlterForm
  <2> QED BY <1>1, <2>1, <2>2, <2>3, <2>4, <2>5
<1> QED BY <1>2, <1>3

LEMMA TurnsKeepOneHolder ==
  ASSUME InStep, OrdersApart, OneHolder, NEW t \in Tabs, Turns(t)
  PROVE  OneHolder'
<1>1. \A u \in Tabs \ {t} : tab'[u] = tab[u] /\ (AlterForm(u)' <=> AlterForm(u))
  BY FormsHold DEF Turned, AlterForm, OnForm
<1>2. AlterForm(t)' => \/ AlterForm(t) /\ tab'[t].work.of = tab[t].work.of
                       \/ tab'[t].work.of = {started + 1} /\ calls' \subseteq calls
  BY FormsHold DEF AlterForm
<1>3. started \in Nat
  BY DEF InStep, Records
<1>4. /\ \A u \in Tabs : AlterForm(u) => started + 1 \notin tab[u].work.of
      /\ \A e : Outlived(e) => started + 1 \notin e.work.of
  BY <1>3 DEF OrdersApart, Altered, Outlived
<1>5. ASSUME NEW u \in Tabs, u # t, AlterForm(t)', AlterForm(u)'
      PROVE  tab'[t].work.of \cap tab'[u].work.of = {}
  BY <1>1, <1>2, <1>4, <1>5 DEF OneHolder
<1>6. ASSUME NEW u \in Tabs, NEW w \in Tabs, AlterForm(u)', AlterForm(w)', u # w
      PROVE  tab'[u].work.of \cap tab'[w].work.of = {}
  <2>1. CASE u = t
    BY <1>5, <1>6, <2>1
  <2>2. CASE w = t
    BY <1>5, <1>6, <2>2
  <2>3. CASE u # t /\ w # t
    BY <1>1, <1>6, <2>3 DEF OneHolder
  <2> QED BY <2>1, <2>2, <2>3
<1>7. ASSUME NEW u \in Tabs, NEW e, AlterForm(u)', Outlived(e)'
      PROVE  tab'[u].work.of \cap e.work.of = {}
  <2>1. CASE Outlived(e)
    <3>1. CASE u # t
      BY <1>1, <1>7, <2>1, <3>1 DEF OneHolder, Outlived
    <3>2. CASE u = t
      BY <1>2, <1>4, <1>7, <2>1, <3>2 DEF OneHolder, Outlived
    <3> QED BY <3>1, <3>2
  <2>2. CASE Reloads(t) /\ AlterForm(t) /\ e.work.of = tab[t].work.of
    <3>1. u # t
      BY <1>7, <2>2 DEF Reloads, AlterForm
    <3> QED BY <1>1, <1>7, <2>2, <3>1 DEF OneHolder
  <2> QED BY <1>7, <2>1, <2>2, OutlivedWere
<1>8. ASSUME NEW e, NEW f, Outlived(e)', Outlived(f)', e # f
      PROVE  e.work.of \cap f.work.of = {}
  <2>1. CASE Outlived(e) /\ Outlived(f)
    BY <1>8, <2>1 DEF OneHolder, Outlived
  <2>2. ASSUME NEW g, NEW h, Outlived(g), AlterForm(t), h = tab[t].work.of
        PROVE  g.work.of \cap h = {}
    BY <2>2 DEF OneHolder, Outlived
  <2>3. CASE ~Outlived(e) /\ ~Outlived(f)
    <3>1. PICK c \in Mine(t) : e = Orphan(c) /\ c.why \in TakingIn
      BY <1>8, <2>3, OutlivedWere
    <3>2. PICK d \in Mine(t) : f = Orphan(d) /\ d.why \in TakingIn
      BY <1>8, <2>3, OutlivedWere
    <3>3. c = d
      BY <3>1, <3>2 DEF InStep, OnePress, TakingIn, Pressed
    <3> QED BY <1>8, <3>1, <3>2, <3>3
  <2>4. CASE Outlived(e) /\ ~Outlived(f)
    <3>1. AlterForm(t) /\ f.work.of = tab[t].work.of
      BY <1>8, <2>4, OutlivedWere
    <3> QED BY <2>2, <2>4, <3>1
  <2>5. CASE ~Outlived(e) /\ Outlived(f)
    <3>1. AlterForm(t) /\ e.work.of = tab[t].work.of
      BY <1>8, <2>5, OutlivedWere
    <3>2. f.work.of \cap tab[t].work.of = {}
      BY <2>2, <2>5, <3>1
    <3> QED BY <3>1, <3>2
  <2> QED BY <2>1, <2>3, <2>4, <2>5
<1> QED BY <1>6, <1>7, <1>8 DEF OneHolder

\* The same, for one order.
CountedFor(n) ==
  /\ taken[n] <= 1 + lost /\ added[n] <= 1 + lost
  /\ n > started => taken[n] = 0 /\ added[n] = 0
  /\ \A c \in calls : c.answer = "none" /\ n \in c.work.of =>
       /\ c.why = "takein" => taken[n] <= lost
       /\ c.why = "walkin" => added[n] <= lost
  /\ \A t \in Tabs : AlterForm(t) /\ n \in tab[t].work.of =>
       /\ ~Heeded(t, "takein") => taken[n] <= lost
       /\ tab[t].work.who # "known" /\ ~Heeded(t, "walkin") => added[n] <= lost

\* A button that can be pressed has had no answer that is still to land.
LEMMA FreeIsUnheeded ==
  ASSUME InStep, NEW t \in Tabs, ~tab[t].busy
  PROVE  ~Heeded(t, "takein") /\ ~Heeded(t, "walkin")
BY DEF InStep, OnePress, Heeded, Pressed

LEMMA TurnsKeepForms ==
  ASSUME InStep, OrdersApart, NEW n \in 1..MaxOrders, CountedFor(n), NEW t \in Tabs, Turns(t),
         AlterForm(t)', n \in tab'[t].work.of
  PROVE  /\ ~Heeded(t, "takein")' => taken'[n] <= lost'
         /\ tab'[t].work.who # "known" /\ ~Heeded(t, "walkin")' => added'[n] <= lost'
<1>1. Keeping /\ taken[n] \in Nat /\ added[n] \in Nat /\ lost \in Nat /\ started \in Nat
  BY FormsHold DEF InStep, Records
<1> USE <1>1 DEF Keeping
<1>2. CASE Pens(t)
  <2>1. /\ AlterForm(t) /\ n \in tab[t].work.of /\ Mine(t)' = Mine(t)
    BY <1>2, AskedByTab DEF Pens, SameForm, AlterForm, OnForm
  <2>2. /\ Heeded(t, "takein")' <=> Heeded(t, "takein")
        /\ Heeded(t, "walkin")' <=> Heeded(t, "walkin")
    BY <2>1 DEF Heeded
  <2>3. ~Heeded(t, "takein")' => taken'[n] <= lost'
    BY <2>1, <2>2 DEF CountedFor
  <2>4. CASE added' = added /\ (tab[t].work.who = "known" => tab'[t].work.who = "known")
    BY <2>1, <2>2, <2>3, <2>4 DEF CountedFor
  <2>5. CASE added' = [m \in DOMAIN added |-> IF m \in tab[t].work.of THEN 0 ELSE added[m]]
    <3>1. added'[n] = 0
      BY <2>1, <2>5 DEF InStep, Records
    <3> QED BY <2>3, <3>1
  <2> QED BY <1>2, <2>4, <2>5 DEF Pens
<1>3. CASE \E x : Clicks(t, x)
  <2>1. PICK x : Clicks(t, x)
    BY <1>3
  <2>2. /\ AlterForm(t) /\ n \in tab[t].work.of /\ Mine(t)' = Mine(t) \cup {x}
        /\ tab'[t].work = tab[t].work /\ added' = added
    BY <2>1, AskedByTab DEF Clicks, SameForm, AlterForm, OnForm
  <2>3. /\ Heeded(t, "takein") => Heeded(t, "takein")'
        /\ Heeded(t, "walkin") => Heeded(t, "walkin")'
    BY <2>2 DEF Heeded
  <2> QED BY <2>2, <2>3 DEF CountedFor
<1>4. CASE \E c, N : Hears(t, c, N)
  <2>1. PICK c, N : Hears(t, c, N)
    BY <1>4
  <2>2. /\ AlterForm(t) /\ n \in tab[t].work.of /\ added' = added
        /\ c \in Mine(t) /\ Mine(t)' = (Mine(t) \ {c}) \cup N
    BY <2>1, AskedByTab DEF Hears, AlterForm, OnForm
  <2>3. /\ c.why \in TakingIn /\ c.why \in Pressed
        /\ \A e \in Mine(t) : e.why \in TakingIn => e = c
    BY <2>2 DEF InStep, AlterCalls, OnePress, TakingIn, Pressed
  <2>4. ~(c.why = "takein" /\ c.answer = "ok")
    BY <2>1 DEF Hears, AlterForm
  <2>5. ~Heeded(t, "takein")
    BY <2>3, <2>4 DEF Heeded, TakingIn
  <2>6. taken[n] <= lost
    BY <2>2, <2>5 DEF CountedFor
  <2>7. ASSUME tab'[t].work.who # "known"
        PROVE  added[n] <= lost
    <3>1. ~(c.why = "walkin" /\ c.answer = "ok") /\ tab[t].work.who # "known"
      BY <2>1, <2>3, <2>7 DEF Hears, AlterForm
    <3>2. ~Heeded(t, "walkin")
      BY <2>3, <3>1 DEF Heeded, TakingIn
    <3> QED BY <2>2, <3>1, <3>2 DEF CountedFor
  <2> QED BY <2>2, <2>6, <2>7
<1>5. CASE (\E N : Away(t, N)) \/ Reloads(t)
  BY <1>5 DEF Away, Reloads, AlterForm
<1>6. CASE Opened(t)
  <2>1. n = started + 1 /\ added' = added
    BY <1>6 DEF Opened, AlterForm
  <2>2. taken[n] = 0 /\ added[n] = 0
    BY <2>1 DEF CountedFor
  <2> QED BY <2>1, <2>2
<1> QED BY <1>2, <1>3, <1>4, <1>5, <1>6 DEF Turns

LEMMA TurnsKeepAsked ==
  ASSUME InStep, OrdersApart, NEW n \in 1..MaxOrders, CountedFor(n), NEW t \in Tabs, Turns(t),
         NEW e \in calls', e.answer = "none", n \in e.work.of
  PROVE  /\ e.why = "takein" => taken[n] <= lost
         /\ e.why = "walkin" => added[n] <= lost
<1>1. CASE e \in calls
  BY <1>1 DEF CountedFor
<1>2. CASE Pens(t) \/ Opened(t)
  BY <1>1, <1>2 DEF Pens, Opened
<1>3. CASE \E x : Clicks(t, x)
  <2>1. PICK x : Clicks(t, x)
    BY <1>3
  <2>2. CASE e = x /\ e.why \in TakingIn
    <3>1. AlterForm(t) /\ n \in tab[t].work.of /\ ~tab[t].busy
          /\ (e.why = "walkin" => tab[t].work.who # "known")
      BY <2>1, <2>2 DEF Clicks, TakingIn, Pressed
    <3> QED BY <3>1, FreeIsUnheeded DEF CountedFor
  <2> QED BY <1>1, <2>1, <2>2 DEF Clicks, TakingIn
<1>4. CASE \E c, N : Hears(t, c, N)
  <2>1. PICK c, N : Hears(t, c, N)
    BY <1>4
  <2>2. CASE e \in N
    <3>1. /\ c \in Mine(t) /\ n \in tab[t].work.of
          /\ \/ c.why = "submit" /\ e.why = "place"
             \/ c.why = "walkin" /\ e.why = "takein"
      BY <2>1, <2>2 DEF Hears
    <3>2. CASE e.why = "takein"
      <4>1. AlterForm(t) /\ ~Heeded(t, "takein")
        BY <3>1, <3>2 DEF InStep, AlterCalls, OnePress, TakingIn, Pressed, Heeded
      <4> QED BY <3>1, <3>2, <4>1 DEF CountedFor
    <3> QED BY <3>1, <3>2
  <2> QED BY <1>1, <2>1, <2>2 DEF Hears
<1>5. CASE \E N : Away(t, N)
  BY <1>1, <1>5 DEF Away, Elsewhere
<1>6. CASE Reloads(t)
  <2>1. CASE \E c \in Mine(t) : e = Orphan(c)
    <3>1. PICK c \in calls : e.why = c.why /\ e.work = c.work /\ e.answer = c.answer
      BY <2>1, Orphans DEF Mine, InStep, Records
    <3> QED BY <3>1 DEF CountedFor
  <2> QED BY <1>1, <1>6, <2>1 DEF Reloads
<1> QED BY <1>2, <1>3, <1>4, <1>5, <1>6 DEF Turns

LEMMA TurnsKeepCounted ==
  ASSUME InStep, OrdersApart, Counted, NEW t \in Tabs, Turns(t)
  PROVE  Counted'
<1> SUFFICES ASSUME NEW n \in 1..MaxOrders PROVE CountedFor(n)'
  BY DEF Counted, CountedFor
<1>1. CountedFor(n)
  BY DEF Counted, CountedFor
<1>2. /\ Keeping /\ taken[n] \in Nat /\ added[n] \in Nat /\ lost \in Nat /\ started \in Nat
      /\ started' = started \/ started' = started + 1
      /\ added'[n] \in {0, added[n]}
  <2>1. \/ added' = added
        \/ added' = [m \in DOMAIN added |-> IF m \in tab[t].work.of THEN 0 ELSE added[m]]
    BY DEF Turns, Pens, Clicks, Hears, Away, Opened, Reloads
  <2>2. started' = started \/ started' = started + 1
    BY DEF Turns, Pens, Clicks, Hears, Away, Opened, Reloads
  <2> QED BY <2>1, <2>2, FormsHold DEF InStep, Records
<1>3. /\ taken'[n] <= 1 + lost' /\ added'[n] <= 1 + lost'
      /\ n > started' => taken'[n] = 0 /\ added'[n] = 0
  BY <1>1, <1>2 DEF Keeping, CountedFor
<1>4. \A e \in calls' : e.answer = "none" /\ n \in e.work.of =>
         /\ e.why = "takein" => taken'[n] <= lost'
         /\ e.why = "walkin" => added'[n] <= lost'
  BY <1>1, <1>2, TurnsKeepAsked DEF Keeping
<1>5. ASSUME NEW u \in Tabs, AlterForm(u)', n \in tab'[u].work.of
      PROVE  /\ ~Heeded(u, "takein")' => taken'[n] <= lost'
             /\ tab'[u].work.who # "known" /\ ~Heeded(u, "walkin")' => added'[n] <= lost'
  <2>1. CASE u = t
    BY <1>1, <1>5, <2>1, TurnsKeepForms
  <2>2. CASE u # t
    <3>1. /\ tab'[u] = tab[u] /\ AlterForm(u) /\ Mine(u)' = Mine(u)
      BY <1>5, <2>2, FormsHold, AskedByTab DEF Turned, AlterForm, OnForm, Turns
    <3>2. /\ Heeded(u, "takein")' <=> Heeded(u, "takein")
          /\ Heeded(u, "walkin")' <=> Heeded(u, "walkin")
      BY <3>1 DEF Heeded
    <3> QED BY <1>1, <1>2, <1>5, <3>1, <3>2 DEF CountedFor, Keeping
  <2> QED BY <2>1, <2>2
<1> QED BY <1>3, <1>4, <1>5 DEF CountedFor

\* A draft is made or overwritten by a save, and is of the save's orders then.
LEMMA DraftsHold ==
  ASSUME InStep, NEW c, Serve(c) \/ Lose(c), NEW d \in Drafts
  PROVE  \/ drafts'[d].work = drafts[d].work
         \/ c \in calls /\ c.why \in Saves /\ drafts'[d].work = c.work
<1>1. c \in calls /\ DOMAIN drafts = Drafts /\ \A e \in Drafts : IsDraft(drafts[e])
  BY DEF Serve, Lose, InStep, Records
<1>2. CASE CreateDraft(c)
  <2>1. PICK e \in Drafts :
          drafts' = [drafts EXCEPT ![e] = [live |-> TRUE, work |-> c.work,
                       version |-> 1, by |-> {<<c.tab, c.page>>}, placed |-> 0]]
    BY <1>2 DEF CreateDraft
  <2>2. CASE d = e
    <3>1. drafts'[d] = [live |-> TRUE, work |-> c.work,
                       version |-> 1, by |-> {<<c.tab, c.page>>}, placed |-> 0]
      BY <1>1, <2>1, <2>2
    <3> QED BY <1>1, <1>2, <3>1 DEF CreateDraft
  <2>3. CASE d # e
    BY <1>1, <2>1, <2>3
  <2> QED BY <2>2, <2>3
<1>3. CASE UpdateDraft(c)
  <2>1. CASE drafts' = drafts
    BY <2>1
  <2>2. CASE drafts' = [drafts EXCEPT ![c.draft] = Overwritten(@, c)]
    <3>1. CASE d = c.draft
      <4>1. drafts'[d] = Overwritten(drafts[d], c) /\ IsDraft(drafts[d])
        BY <1>1, <2>2, <3>1
      <4>2. drafts'[d].work = c.work
        BY <4>1 DEF Overwritten, IsDraft, DraftFields
      <4> QED BY <1>1, <1>3, <4>2 DEF UpdateDraft
    <3>2. CASE d # c.draft
      BY <1>1, <2>2, <3>2
    <3> QED BY <3>1, <3>2
  <2> QED BY <1>3, <2>1, <2>2 DEF UpdateDraft, Refused, server
<1>4. CASE ConfirmDraft(c)
  <2>1. CASE drafts' = drafts
    BY <2>1
  <2>2. CASE drafts' = [drafts EXCEPT ![c.draft] = Spent(@)]
    <3>1. CASE d = c.draft
      <4>1. drafts'[d] = Spent(drafts[d]) /\ IsDraft(drafts[d])
        BY <1>1, <2>2, <3>1
      <4> QED BY <4>1 DEF Spent, IsDraft, DraftFields
    <3>2. CASE d # c.draft
      BY <1>1, <2>2, <3>2
    <3> QED BY <3>1, <3>2
  <2> QED BY <1>4, <2>1, <2>2 DEF ConfirmDraft, Refused, server
<1>5. CASE DiscardDraft(c)
  <2>1. CASE d = c.draft
    <3>1. drafts'[d] = [drafts[d] EXCEPT !.live = FALSE] /\ IsDraft(drafts[d])
      BY <1>1, <1>5, <2>1 DEF DiscardDraft
    <3> QED BY <3>1 DEF IsDraft, DraftFields
  <2>2. CASE d # c.draft
    BY <1>1, <1>5, <2>2 DEF DiscardDraft
  <2> QED BY <2>1, <2>2
<1>6. CASE CreateAlteration(c) \/ AddCustomer(c) \/ Read(c) \/ Lose(c)
  BY <1>6 DEF CreateAlteration, AddCustomer, Read, Lose, Refused, server
<1> QED BY <1>2, <1>3, <1>4, <1>5, <1>6 DEF Serve

\* What is under way is what was, or has its answer.
LEMMA AnswersHold ==
  ASSUME InStep, NEW c, Serve(c) \/ Lose(c)
  PROVE  /\ tab' = tab /\ started' = started /\ c \in calls
         /\ \A e \in calls' :
              \/ e \in calls /\ e # c
              \/ e.answer # "none" /\ e.tab = c.tab /\ e.why = c.why /\ e.work = c.work
         /\ \A u \in Tabs : OnForm(u)' = OnForm(u) /\ AlterForm(u)' = AlterForm(u)
         /\ Serve(c) => \A u \in Tabs : \A why : Heeded(u, why) => Heeded(u, why)'
<1>1. PICK A : Answers(c, A)
  BY ServeAnswers
<1>2. /\ tab' = tab /\ started' = started /\ c \in calls
      /\ calls' = (calls \ {c}) \cup A
      /\ \A a \in A : a.answer # "none" /\ a.tab = c.tab /\ a.why = c.why /\ a.work = c.work
  BY <1>1 DEF Answers
<1>3. Serve(c) => c.answer = "none"
  BY DEF Serve
<1>4. Serve(c) => \A u \in Tabs : \A why : Heeded(u, why) => Heeded(u, why)'
  BY <1>2, <1>3 DEF Heeded, Mine
<1> QED BY <1>2, <1>4 DEF OnForm, AlterForm

LEMMA AnswersKeepOrdersApart ==
  ASSUME InStep, OrdersApart, NEW c, Serve(c) \/ Lose(c)
  PROVE  OrdersApart' /\ \A n : (Stitched(n)' => Stitched(n)) /\ (Altered(n)' => Altered(n))
<1>1. ASSUME NEW n, Stitched(n)' PROVE Stitched(n)
  <2>1. CASE \E t \in Tabs : OnForm(t)' /\ tab'[t].kind = "stitch" /\ n \in tab'[t].work.of
    BY <2>1, AnswersHold DEF Stitched
  <2>2. CASE \E e \in calls' : e.why \notin TakingIn /\ n \in e.work.of
    BY <2>2, AnswersHold DEF Stitched
  <2>3. CASE \E d \in Drafts : n \in drafts'[d].work.of
    <3>1. PICK d \in Drafts : n \in drafts'[d].work.of
      BY <2>3
    <3>2. n \in drafts[d].work.of \/ (c \in calls /\ c.why \in Saves /\ n \in c.work.of)
      BY <3>1, DraftsHold
    <3> QED BY <3>2 DEF Stitched, Saves, TakingIn
  <2> QED BY <1>1, <2>1, <2>2, <2>3 DEF Stitched
<1>2. ASSUME NEW n, Altered(n)' PROVE Altered(n)
  <2>1. CASE \E t \in Tabs : AlterForm(t)' /\ n \in tab'[t].work.of
    BY <2>1, AnswersHold DEF Altered
  <2>2. CASE \E e \in calls' : e.why \in TakingIn /\ n \in e.work.of
    BY <2>2, AnswersHold DEF Altered
  <2> QED BY <1>2, <2>1, <2>2 DEF Altered
<1>3. started' = started
  BY AnswersHold
<1> QED BY <1>1, <1>2, <1>3 DEF OrdersApart

LEMMA AnswersKeepOneHolder ==
  ASSUME InStep, OneHolder, NEW c, Serve(c) \/ Lose(c)
  PROVE  OneHolder'
<1>1. \A e : Outlived(e)' => Outlived(e)
  BY AnswersHold DEF Outlived
<1> QED BY <1>1, AnswersHold DEF OneHolder, Outlived

\* One garment, one holder: where it is taken in, or its customer added, no
\* other form or request asks for the same.
LEMMA TakenFromOneHolder ==
  ASSUME InStep, OneHolder, NEW c \in calls, c.why \in TakingIn, c.answer = "none",
         NEW n \in c.work.of
  PROVE  /\ \A t \in Tabs : AlterForm(t) /\ n \in tab[t].work.of => c.tab = t
         /\ \A e \in calls : e.why \in TakingIn /\ e.answer = "none" /\ n \in e.work.of => e = c
<1>1. \A e \in calls : e.tab \in Tabs => e \in Mine(e.tab)
  BY DEF Mine
<1>2. \A e \in calls : e.tab \in Tabs /\ e.why \in TakingIn
                         => AlterForm(e.tab) /\ e.work.of = tab[e.tab].work.of
  BY <1>1 DEF InStep, AlterCalls, TellsApart, CallsAreTheForms, AlterForm
<1>3. \A e \in calls : e.tab \in Tabs \/ e.tab = Nobody
  BY DEF InStep, Records, IsCall
<1>4. ASSUME NEW t \in Tabs, AlterForm(t), n \in tab[t].work.of
      PROVE  c.tab = t
  <2>1. CASE c.tab \in Tabs
    BY <1>2, <1>4, <2>1 DEF OneHolder
  <2>2. CASE c.tab = Nobody
    BY <1>4, <2>2 DEF OneHolder, Outlived
  <2> QED BY <1>3, <2>1, <2>2
<1>5. ASSUME NEW e \in calls, e.why \in TakingIn, e.answer = "none", n \in e.work.of
      PROVE  e = c
  <2>1. CASE e.tab \in Tabs
    <3>1. c.tab = e.tab
      BY <1>2, <1>4, <1>5, <2>1
    <3> QED BY <1>1, <1>5, <2>1, <3>1 DEF InStep, OnePress, TakingIn, Pressed
  <2>2. CASE e.tab = Nobody
    <3>1. CASE c.tab = Nobody
      BY <1>5, <2>2, <3>1 DEF OneHolder, Outlived
    <3>2. CASE c.tab \in Tabs
      BY <1>2, <1>5, <2>2, <3>2 DEF OneHolder, Outlived
    <3> QED BY <1>3, <3>1, <3>2
  <2> QED BY <1>3, <2>1, <2>2
<1> QED BY <1>4, <1>5

\* What a step of the server counts.
LEMMA ServesCount ==
  ASSUME InStep, NEW c, Serve(c)
  PROVE  /\ lost' = lost /\ c \in calls /\ c.answer = "none"
         /\ \/ taken' = taken /\ added' = added
            \/ /\ c.why = "takein" /\ taken' = Once(taken, c) /\ added' = added /\ Done(c)
            \/ /\ added' = Once(added, c) /\ taken' = taken /\ Done(c)
               /\ \/ c.why = "walkin"
                  \/ c.why = "ensure" /\ \A n \in c.work.of : added[n] = 0
<1>1. lost' = lost /\ c \in calls /\ c.answer = "none"
  BY DEF Serve
<1>2. CASE CreateDraft(c) \/ UpdateDraft(c) \/ ConfirmDraft(c) \/ DiscardDraft(c) \/ Read(c)
  BY <1>1, <1>2 DEF CreateDraft, UpdateDraft, ConfirmDraft, DiscardDraft, Read, Refused, server
<1>3. CASE CreateAlteration(c)
  BY <1>1, <1>3 DEF CreateAlteration, Refused, server
<1>4. CASE AddCustomer(c)
  BY <1>1, <1>4 DEF AddCustomer, Refused, server
<1> QED BY <1>2, <1>3, <1>4 DEF Serve

LEMMA OnceMore ==
  ASSUME NEW counts \in [1..MaxOrders -> Nat], NEW c, NEW n \in 1..MaxOrders
  PROVE  Once(counts, c)[n] = IF n \in c.work.of THEN counts[n] + 1 ELSE counts[n]
BY DEF Once

\* Where the count of n is not changed.
LEMMA UncountedStays ==
  ASSUME InStep, NEW n \in 1..MaxOrders, CountedFor(n), NEW c, Serve(c),
         taken'[n] = taken[n], added'[n] = added[n]
  PROVE  CountedFor(n)'
<1>1. lost' = lost
  BY ServesCount
<1>2. /\ taken'[n] <= 1 + lost' /\ added'[n] <= 1 + lost'
      /\ n > started' => taken'[n] = 0 /\ added'[n] = 0
  BY <1>1, AnswersHold DEF CountedFor
<1>3. \A e \in calls' : e.answer = "none" /\ n \in e.work.of =>
         /\ e.why = "takein" => taken'[n] <= lost'
         /\ e.why = "walkin" => added'[n] <= lost'
  BY <1>1, AnswersHold DEF CountedFor
<1>4. ASSUME NEW u \in Tabs, AlterForm(u)', n \in tab'[u].work.of
      PROVE  /\ ~Heeded(u, "takein")' => taken'[n] <= lost'
             /\ tab'[u].work.who # "known" /\ ~Heeded(u, "walkin")' => added'[n] <= lost'
  BY <1>1, <1>4, AnswersHold DEF CountedFor
<1> QED BY <1>2, <1>3, <1>4 DEF CountedFor

LEMMA ServesKeepCounted ==
  ASSUME InStep, OrdersApart, OneHolder, Counted, NEW c, Serve(c)
  PROVE  Counted'
<1> SUFFICES ASSUME NEW n \in 1..MaxOrders PROVE CountedFor(n)'
  BY DEF Counted, CountedFor
<1>1. CountedFor(n)
  BY DEF Counted, CountedFor
<1>2. /\ lost' = lost /\ c \in calls /\ c.answer = "none"
      /\ taken[n] \in Nat /\ added[n] \in Nat /\ lost \in Nat /\ started \in Nat
      /\ taken \in [1..MaxOrders -> Nat] /\ added \in [1..MaxOrders -> Nat]
  BY ServesCount DEF InStep, Records
<1>3. CASE (taken' = taken /\ added' = added) \/ n \notin c.work.of
  <2>1. taken'[n] = taken[n] /\ added'[n] = added[n]
    <3>1. CASE taken' = taken /\ added' = added
      BY <3>1
    <3>2. CASE n \notin c.work.of
      <4>1. Once(taken, c)[n] = taken[n]
        BY <1>2, <3>2 DEF Once
      <4>2. Once(added, c)[n] = added[n]
        BY <1>2, <3>2 DEF Once
      <4> QED BY <4>1, <4>2, ServesCount
    <3> QED BY <1>3, <3>1, <3>2
  <2> QED BY <1>1, <2>1, UncountedStays
<1>4. CASE /\ c.why = "takein" /\ taken' = Once(taken, c) /\ added' = added /\ Done(c)
           /\ n \in c.work.of
  <2>1. taken'[n] = taken[n] + 1 /\ taken[n] <= lost /\ added'[n] = added[n]
    BY <1>1, <1>2, <1>4, OnceMore DEF CountedFor
  <2>2. n <= started
    BY <1>2, <1>4 DEF OrdersApart, Altered, TakingIn
  <2>3. /\ \A t \in Tabs : AlterForm(t) /\ n \in tab[t].work.of => c.tab = t
        /\ \A e \in calls : e.why = "takein" /\ e.answer = "none" /\ n \in e.work.of => e = c
    BY <1>2, <1>4, TakenFromOneHolder DEF TakingIn
  <2>4. \A e \in calls' : e.answer = "none" => e \in calls /\ e # c
    BY AnswersHold
  <2>5. c.tab \in Tabs => Heeded(c.tab, "takein")'
    <3> SUFFICES ASSUME c.tab \in Tabs PROVE Heeded(c.tab, "takein")'
      OBVIOUS
    <3> DEFINE a == [c EXCEPT !.answer = "ok"]
    <3>1. a \in calls'
      BY <1>4, WizardAssumption DEF Done, Answered
    <3>2. a.why = "takein" /\ a.answer = "ok" /\ a.tab = c.tab
      BY <1>2, <1>4 DEF InStep, Records, IsCall, CallFields
    <3> HIDE DEF a
    <3> QED BY <3>1, <3>2 DEF Heeded, Mine
  <2>6. /\ taken'[n] <= 1 + lost' /\ added'[n] <= 1 + lost'
        /\ n > started' => taken'[n] = 0 /\ added'[n] = 0
    BY <1>1, <1>2, <2>1, <2>2, AnswersHold DEF CountedFor
  <2>7. \A e \in calls' : e.answer = "none" /\ n \in e.work.of =>
           /\ e.why = "takein" => taken'[n] <= lost'
           /\ e.why = "walkin" => added'[n] <= lost'
    BY <1>1, <1>2, <2>1, <2>3, <2>4 DEF CountedFor
  <2>8. ASSUME NEW u \in Tabs, AlterForm(u)', n \in tab'[u].work.of
        PROVE  /\ ~Heeded(u, "takein")' => taken'[n] <= lost'
               /\ tab'[u].work.who # "known" /\ ~Heeded(u, "walkin")' => added'[n] <= lost'
    <3>1. AlterForm(u) /\ tab' = tab /\ (Heeded(u, "walkin") => Heeded(u, "walkin")')
      BY <2>8, AnswersHold
    <3>2. c.tab = u
      BY <2>3, <2>8, <3>1
    <3> QED BY <1>1, <1>2, <2>1, <2>5, <2>8, <3>1, <3>2 DEF CountedFor
  <2> QED BY <2>6, <2>7, <2>8 DEF CountedFor
<1>5. CASE /\ c.why = "walkin" /\ added' = Once(added, c) /\ taken' = taken /\ Done(c)
           /\ n \in c.work.of
  <2>1. added'[n] = added[n] + 1 /\ added[n] <= lost /\ taken'[n] = taken[n]
    BY <1>1, <1>2, <1>5, OnceMore DEF CountedFor
  <2>2. n <= started
    <3>1. Altered(n)
      BY <1>2, <1>5 DEF Altered, TakingIn
    <3>2. n \in 1..started
      BY <3>1 DEF OrdersApart
    <3> QED BY <1>2, <3>2
  <2>3. /\ \A t \in Tabs : AlterForm(t) /\ n \in tab[t].work.of => c.tab = t
        /\ \A e \in calls : e.why = "walkin" /\ e.answer = "none" /\ n \in e.work.of => e = c
    BY <1>2, <1>5, TakenFromOneHolder DEF TakingIn
  <2>4. \A e \in calls' : e.answer = "none" => e \in calls /\ e # c
    BY AnswersHold
  <2>5. c.tab \in Tabs => Heeded(c.tab, "walkin")'
    <3> SUFFICES ASSUME c.tab \in Tabs PROVE Heeded(c.tab, "walkin")'
      OBVIOUS
    <3> DEFINE a == [c EXCEPT !.answer = "ok"]
    <3>1. a \in calls'
      BY <1>5, WizardAssumption DEF Done, Answered
    <3>2. a.why = "walkin" /\ a.answer = "ok" /\ a.tab = c.tab
      BY <1>2, <1>5 DEF InStep, Records, IsCall, CallFields
    <3> HIDE DEF a
    <3> QED BY <3>1, <3>2 DEF Heeded, Mine
  <2>6. /\ taken'[n] <= 1 + lost' /\ added'[n] <= 1 + lost'
        /\ n > started' => taken'[n] = 0 /\ added'[n] = 0
    BY <1>1, <1>2, <2>1, <2>2, AnswersHold DEF CountedFor
  <2>7. \A e \in calls' : e.answer = "none" /\ n \in e.work.of =>
           /\ e.why = "takein" => taken'[n] <= lost'
           /\ e.why = "walkin" => added'[n] <= lost'
    BY <1>1, <1>2, <2>1, <2>3, <2>4 DEF CountedFor
  <2>8. ASSUME NEW u \in Tabs, AlterForm(u)', n \in tab'[u].work.of
        PROVE  /\ ~Heeded(u, "takein")' => taken'[n] <= lost'
               /\ tab'[u].work.who # "known" /\ ~Heeded(u, "walkin")' => added'[n] <= lost'
    <3>1. AlterForm(u) /\ tab' = tab /\ (Heeded(u, "takein") => Heeded(u, "takein")')
      BY <2>8, AnswersHold
    <3>2. c.tab = u
      BY <2>3, <2>8, <3>1
    <3> QED BY <1>1, <1>2, <2>1, <2>5, <2>8, <3>1, <3>2 DEF CountedFor
  <2> QED BY <2>6, <2>7, <2>8 DEF CountedFor
<1>6. CASE /\ c.why = "ensure" /\ (\A m \in c.work.of : added[m] = 0)
           /\ added' = Once(added, c) /\ taken' = taken /\ n \in c.work.of
  <2>1. added'[n] = 1 /\ taken'[n] = taken[n]
    <3>1. Once(added, c)[n] = added[n] + 1
      BY <1>2, <1>6, OnceMore
    <3>2. added[n] = 0
      BY <1>6
    <3> QED BY <1>2, <1>6, <3>1, <3>2
  <2>2. Stitched(n)
    BY <1>2, <1>6 DEF Stitched, TakingIn
  <2>3. ~Altered(n) /\ n <= started
    BY <1>2, <2>2 DEF OrdersApart
  <2>4. /\ \A t \in Tabs : AlterForm(t) => n \notin tab[t].work.of
        /\ \A e \in calls : e.why \in TakingIn => n \notin e.work.of
    BY <2>3 DEF Altered
  <2>5. \A e \in calls' : e.answer = "none" => e \in calls /\ e # c
    BY AnswersHold
  <2>6. /\ taken'[n] <= 1 + lost' /\ added'[n] <= 1 + lost'
        /\ n > started' => taken'[n] = 0 /\ added'[n] = 0
    BY <1>1, <1>2, <2>1, <2>3, AnswersHold DEF CountedFor
  <2>7. \A e \in calls' : e.answer = "none" /\ n \in e.work.of => e.why \notin TakingIn
    BY <2>4, <2>5
  <2>8. \A u \in Tabs : AlterForm(u)' => n \notin tab'[u].work.of
    BY <2>4, AnswersHold
  <2> QED BY <2>6, <2>7, <2>8 DEF CountedFor, TakingIn
<1> QED BY <1>3, <1>4, <1>5, <1>6, ServesCount

\* An answer is lost: each count may be one more than it was allowed to be.
LEMMA LossesKeepCounted ==
  ASSUME InStep, Counted, NEW c, Lose(c)
  PROVE  Counted'
<1>1. /\ lost' = lost + 1 /\ taken' = taken /\ added' = added /\ started' = started
      /\ lost \in Nat /\ taken \in [1..MaxOrders -> Nat] /\ added \in [1..MaxOrders -> Nat]
  BY DEF Lose, server, InStep, Records
<1>2. \A n \in 1..MaxOrders : /\ taken[n] \in Nat /\ added[n] \in Nat
                              /\ taken[n] <= 1 + lost /\ added[n] <= 1 + lost
                              /\ n > started => taken[n] = 0 /\ added[n] = 0
  BY <1>1 DEF Counted
<1> QED BY <1>1, <1>2 DEF Counted

LEMMA NextKeepsTakenApart ==
  ASSUME InStep, TakenApart, ~Overlap, [Next]_vars
  PROVE  TakenApart'
<1>1. CASE \E t \in Tabs : Acts(t) \/ Tick(t) \/ \E c \in calls : Land(t, c)
  BY <1>1, TabsTurn, TurnsKeepOrdersApart, TurnsKeepOneHolder, TurnsKeepCounted DEF TakenApart
<1>2. CASE \E c \in calls : Serve(c) \/ Lose(c)
  BY <1>2, AnswersKeepOrdersApart, AnswersKeepOneHolder, ServesKeepCounted, LossesKeepCounted
     DEF TakenApart
<1>3. CASE UNCHANGED vars
  BY <1>3 DEF vars, TakenApart, OrdersApart, Stitched, Altered, OneHolder, Outlived, Counted,
     Heeded, OnForm, AlterForm, Mine
<1> QED BY <1>1, <1>2, <1>3 DEF Next

LEMMA InitTakenApart ==
  ASSUME Init
  PROVE  TakenApart
<1>1. \A t \in Tabs : ~OnForm(t) /\ ~AlterForm(t)
  BY InitSays DEF AlterForm
<1>2. \A n : ~Altered(n)
  BY <1>1, InitSays DEF Altered, TakingIn
<1>3. ASSUME NEW n, Stitched(n) PROVE n \in 1..started
  <2>1. \E d \in Drafts : n \in drafts[d].work.of
    BY <1>1, <1>3, InitSays DEF Stitched
  <2>2. n = 1 /\ started = 1
    BY <2>1, InitSays
  <2> QED BY <2>2
<1>4. OrdersApart
  BY <1>2, <1>3 DEF OrdersApart
<1>5. OneHolder
  BY <1>1, InitSays DEF OneHolder, Outlived, TakingIn
<1>6. Counted
  BY <1>1, InitSays DEF Counted
<1> QED BY <1>4, <1>5, <1>6 DEF TakenApart

\* However many tabs there are and however the answers come, a garment is
\* taken in, and its walk-in customer added, once more only for each answer
\* that was lost, so long as the person waits for an answer before leaving a
\* form or opening another (runOnce, createOutsideAlterationFromWizard).
THEOREM GarmentsAreTakenInOnce ==
  ASSUME ~Overlap
  PROVE  Spec => []TakenInOnce
<1> DEFINE Inv == InStep /\ TakenApart
<1>1. Init => Inv
  BY InitInStep, InitTakenApart
<1>2. Inv /\ [Next]_vars => Inv'
  BY NextKeepsInStep, NextKeepsTakenApart
<1>3. Inv => TakenInOnce
  BY DEF InStep, Records, TakenApart, Counted, TakenInOnce
<1> HIDE DEF Inv
<1> QED BY <1>1, <1>2, <1>3, PTL DEF Spec

-----------------------------------------------------------------------------
(* Placed orders are complete.                                               *)

LEMMA StillSaved ==
  ASSUME InStep, Keeping, NEW e, NEW u \in Tabs, SavedBy(e, u), tab'[u].page \in Nat,
         tab'[u].page >= tab[u].page,
         e.tab = u => \A x \in Mine(u)' : x.why \in Saves => x \in Mine(u)
  PROVE  SavedBy(e, u)'
<1>1. drafts' = drafts /\ tab[u].page \in Nat
  BY DEF Keeping, InStep, Records, IsTab
<1>2. CASE /\ e.tab = u
           /\ \A x \in Mine(u) : x.why \in Saves /\ x.answer = "none" /\ x.draft = e.draft
                                   => x.version # drafts[e.draft].version
  BY <1>1, <1>2 DEF SavedBy
<1>3. CASE e.tab = Nobody /\ e.page \in Nat /\ e.page < tab[u].page
  BY <1>1, <1>3 DEF SavedBy
<1> QED BY <1>2, <1>3 DEF SavedBy

\* What a tab asks for, or is told, leaves what it is about to place alone.
LEMMA TurnsKeepSaved ==
  ASSUME InStep, PlacesWhole, NEW t \in Tabs, Turns(t), NEW e \in calls, e \in calls',
         AboutToBePlaced(e)
  PROVE  \E u \in Tabs : SavedBy(e, u)'
<1>1. PICK u \in Tabs : SavedBy(e, u)
  BY DEF PlacesWhole
<1>2. Keeping /\ Turned(t)
  BY FormsHold
<1>3. /\ tab'[u].page \in Nat /\ tab[u].page \in Nat
      /\ tab'[u].page >= tab[u].page
  <2>1. CASE u # t
    BY <1>2, <2>1 DEF Turned, InStep, Records, IsTab
  <2>2. CASE u = t
    <3>1. tab'[t].page \in Nat /\ tab[t].page \in Nat
      BY <1>2 DEF Turned, InStep, Records, IsTab
    <3>2. tab'[t].page = tab[t].page \/ tab'[t].page = tab[t].page + 1
      BY DEF Turns, Pens, Clicks, Hears, Away, Opened, Reloads, SameForm, SamePage
    <3> QED BY <2>2, <3>1, <3>2
  <2> QED BY <2>1, <2>2
<1>4. ASSUME e.tab = u, NEW x \in Mine(u)', x.why \in Saves
      PROVE  x \in Mine(u)
  <2>1. CASE u # t
    <3>1. x \in calls \/ Reloads(t)
      BY <1>4, <2>1 DEF Mine, Turns, Pens, Clicks, Hears, Away, Opened, Asked
    <3>2. CASE Reloads(t)
      <4>1. \A c \in Mine(t) : Orphan(c).tab = Nobody
        BY Orphans DEF Mine, InStep, Records
      <4> QED BY <1>4, <2>1, <3>2, <4>1, WizardAssumption DEF Mine, Reloads, Asked
    <3> QED BY <1>4, <3>1, <3>2 DEF Mine
  <2>2. CASE u = t
    <3>1. e \in Mine(t) /\ tab[t].busy
      BY <1>4, <2>2 DEF Mine, AboutToBePlaced, InStep, OnePress, Pressed
    <3>2. CASE Pens(t) \/ Opened(t)
      BY <1>4, <2>2, <3>2 DEF Mine, Pens, Opened
    <3>3. CASE \E y : Clicks(t, y)
      BY <1>4, <2>2, <3>1, <3>3 DEF Mine, Clicks
    <3>4. CASE \E c, N : Hears(t, c, N)
      BY <1>4, <2>2, <3>4 DEF Mine, Hears, Saves
    <3>5. CASE \E N : Away(t, N)
      BY <1>4, <2>2, <3>5 DEF Mine, Away, Saves, Elsewhere
    <3>6. CASE Reloads(t)
      <4>1. \A c \in Mine(t) : Orphan(c).tab = Nobody
        BY Orphans DEF Mine, InStep, Records
      <4> QED BY <1>4, <2>2, <3>6, <4>1, WizardAssumption DEF Mine, Reloads, Saves
    <3> QED BY <3>2, <3>3, <3>4, <3>5, <3>6 DEF Turns
  <2> QED BY <2>1, <2>2
<1>5. SavedBy(e, u)'
  BY <1>1, <1>2, <1>3, <1>4, StillSaved
<1> QED BY <1>5

\* A submit's save that was answered becomes the placing of what it saved; a
\* page that is gone leaves its placing behind.
LEMMA TurnsKeepPlacesWhole ==
  ASSUME InStep, PlacesWhole, NEW t \in Tabs, Turns(t)
  PROVE  PlacesWhole'
<1>1. Keeping /\ Turned(t) /\ drafts' = drafts
  BY FormsHold DEF Keeping
<1>2. \A d \in Drafts : drafts'[d].placed > 0 =>
         /\ ~drafts'[d].live /\ drafts'[d].version >= 1
         /\ \A x \in drafts'[d].by : drafts'[d].by = {x} => Complete(drafts'[d].work)
  BY <1>1 DEF PlacesWhole
<1>3. ASSUME NEW e \in calls'
      PROVE  /\ e.why = "submit" => Complete(e.work)
             /\ AboutToBePlaced(e) => \E u \in Tabs : SavedBy(e, u)'
  <2>1. CASE e \in calls
    BY <1>3, <2>1, TurnsKeepSaved DEF PlacesWhole
  <2>2. CASE \E x : Clicks(t, x) /\ e = x
    BY <2>2 DEF Clicks, AboutToBePlaced, Saves
  <2>3. CASE e \notin calls /\ \E c, N : Hears(t, c, N)
    <3>1. PICK c, N : Hears(t, c, N)
      BY <2>3
    <3>2. e \in N
      BY <1>3, <2>3, <3>1 DEF Hears
    <3>3. /\ c \in Mine(t) /\ c.answer = "ok" /\ e.tab = t /\ e.page = tab[t].page
          /\ \/ c.why = "submit" /\ e.why = "place" /\ e.draft = c.draft
             \/ e.why = "takein"
      BY <3>1, <3>2 DEF Hears, Asked
    <3>4. CASE c.why = "submit" /\ e.why = "place" /\ e.draft = c.draft
      <4>1. AboutToBePlaced(c) /\ c \in calls /\ c.tab = t
        BY <3>3, <3>4 DEF AboutToBePlaced, Mine
      <4>2. SavedBy(c, t)
        BY <4>1, WizardAssumption DEF PlacesWhole, SavedBy
      <4>3. e.page = c.page
        BY <3>3, <3>4 DEF InStep, OnePress, Saves
      <4>4. SavedBy(e, t)
        BY <3>3, <3>4, <4>1, <4>2, <4>3, WizardAssumption DEF SavedBy
      <4>5. \A x \in Mine(t)' : x.why \in Saves => x \in Mine(t)
        BY <3>1, <3>2, <3>3, <3>4 DEF Hears, Mine, Saves
      <4>6. tab'[t].page = tab[t].page /\ tab[t].page \in Nat
        BY <3>1 DEF Hears, SamePage, InStep, Records, IsTab
      <4>7. SavedBy(e, t)'
        BY <1>1, <4>4, <4>5, <4>6, StillSaved
      <4> QED BY <3>4, <4>7
    <3>5. CASE e.why = "takein"
      BY <3>5 DEF AboutToBePlaced
    <3> QED BY <3>3, <3>4, <3>5
  <2>4. CASE e \notin calls /\ \E N : Away(t, N)
    BY <1>3, <2>4 DEF Away, Elsewhere, AboutToBePlaced
  <2>5. CASE e \notin calls /\ Reloads(t)
    <3>1. CASE e.why = "reopen"
      BY <3>1 DEF AboutToBePlaced
    <3>2. CASE \E c \in Mine(t) : e = Orphan(c)
      <4>1. PICK c \in Mine(t) : e = Orphan(c)
        BY <3>2
      <4>2. /\ e.tab = Nobody /\ e.why = c.why /\ e.answer = c.answer /\ e.page = c.page
            /\ e.draft = c.draft /\ e.work = c.work /\ c \in calls
        BY <4>1, Orphans DEF Mine, InStep, Records
      <4>3. e.why = "submit" => Complete(e.work)
        BY <4>2 DEF PlacesWhole
      <4>4. ASSUME AboutToBePlaced(e) PROVE SavedBy(e, t)'
        <5>1. c.why = "place" /\ AboutToBePlaced(c)
          BY <4>2, <4>4, WizardAssumption DEF AboutToBePlaced
        <5>2. SavedBy(c, t) /\ c.page = tab[t].page
          <6>1. PICK u \in Tabs : SavedBy(c, u)
            BY <4>2, <5>1 DEF PlacesWhole
          <6>2. u = t
            BY <4>1, <6>1, WizardAssumption DEF SavedBy, Mine
          <6>3. c.page = tab[t].page
            BY <4>1, <5>1 DEF InStep, OnePress
          <6> QED BY <6>1, <6>2, <6>3
        <5>3. tab[t].page \in Nat /\ tab'[t].page = tab[t].page + 1
          BY <2>5 DEF InStep, Records, IsTab, Reloads
        <5>4. e.page \in Nat /\ e.page < tab'[t].page
          BY <4>2, <5>2, <5>3
        <5> QED BY <1>1, <4>2, <5>2, <5>4 DEF SavedBy
      <4> QED BY <4>3, <4>4
    <3> QED BY <1>3, <2>5, <3>1, <3>2 DEF Reloads
  <2> QED BY <1>3, <2>1, <2>2, <2>3, <2>4, <2>5 DEF Turns, Pens, Clicks, Opened
<1> QED BY <1>2, <1>3 DEF PlacesWhole

\* What becomes of a draft: nothing, it is spent or discarded, it is
\* overwritten at the version the save has, or it is made.
Overwrites(c, d) ==
  /\ c \in calls /\ c.why \in Saves /\ c.answer = "none" /\ c.draft = d
  /\ c.version = drafts[d].version /\ drafts[d].live
  /\ drafts'[d].work = c.work /\ drafts'[d].version = drafts[d].version + 1
  /\ drafts'[d].by = drafts[d].by \cup {<<c.tab, c.page>>}
  /\ drafts'[d].placed = drafts[d].placed
Makes(c, d) ==
  /\ c \in calls /\ c.why \in Saves /\ c.answer = "none" /\ c.draft = None
  /\ drafts[d].version = 0 /\ drafts'[d].version = 1 /\ drafts'[d].placed = 0
  /\ drafts'[d].work = c.work /\ drafts'[d].by = {<<c.tab, c.page>>}
Keeps(c, d) ==
  /\ drafts'[d].work = drafts[d].work /\ drafts'[d].by = drafts[d].by
  /\ drafts'[d].version = drafts[d].version
  /\ drafts'[d].live => drafts[d].live
  /\ \/ drafts'[d].placed = drafts[d].placed
     \/ /\ c \in calls /\ c.why = "place" /\ c.answer = "none" /\ c.draft = d
        /\ ~drafts'[d].live
LEMMA DraftsServed ==
  ASSUME InStep, NEW c, Serve(c) \/ Lose(c), NEW d \in Drafts
  PROVE  Keeps(c, d) \/ Overwrites(c, d) \/ Makes(c, d)
<1>1. c \in calls /\ DOMAIN drafts = Drafts /\ \A e \in Drafts : IsDraft(drafts[e])
  BY DEF Serve, Lose, InStep, Records
<1>2. CASE drafts' = drafts
  BY <1>2 DEF Keeps
<1>3. CASE CreateDraft(c) /\ c.answer = "none"
  <2>1. PICK e \in Drafts :
          /\ Unmade(e)
          /\ drafts' = [drafts EXCEPT ![e] = [live |-> TRUE, work |-> c.work,
                       version |-> 1, by |-> {<<c.tab, c.page>>}, placed |-> 0]]
    BY <1>3 DEF CreateDraft
  <2>2. CASE d = e
    <3>1. drafts'[d] = [live |-> TRUE, work |-> c.work,
                       version |-> 1, by |-> {<<c.tab, c.page>>}, placed |-> 0]
      BY <1>1, <2>1, <2>2
    <3> QED BY <1>1, <1>3, <2>1, <2>2, <3>1 DEF CreateDraft, Makes, Unmade
  <2>3. CASE d # e
    <3>1. drafts'[d] = drafts[d]
      BY <1>1, <2>1, <2>3
    <3> QED BY <3>1 DEF Keeps
  <2> QED BY <2>2, <2>3
<1>4. CASE UpdateDraft(c) /\ c.answer = "none"
  <2>1. CASE /\ drafts' = [drafts EXCEPT ![c.draft] = Overwritten(@, c)]
             /\ drafts[c.draft].live /\ ~StaleVersion(c)
    <3>1. CASE d = c.draft
      <4>1. drafts'[d] = Overwritten(drafts[d], c) /\ IsDraft(drafts[d])
        BY <1>1, <2>1, <3>1
      <4>2. /\ drafts'[d].work = c.work /\ drafts'[d].version = drafts[d].version + 1
            /\ drafts'[d].by = drafts[d].by \cup {<<c.tab, c.page>>}
            /\ drafts'[d].placed = drafts[d].placed
        BY <4>1 DEF Overwritten, IsDraft, DraftFields
      <4> QED BY <1>1, <1>4, <2>1, <3>1, <4>2 DEF UpdateDraft, Overwrites, StaleVersion
    <3>2. CASE d # c.draft
      <4>1. drafts'[d] = drafts[d]
        BY <1>1, <2>1, <3>2
      <4> QED BY <4>1 DEF Keeps
    <3> QED BY <3>1, <3>2
  <2> QED BY <1>2, <1>4, <2>1 DEF UpdateDraft, Refused, server
<1>5. CASE ConfirmDraft(c) /\ c.answer = "none"
  <2>1. CASE drafts' = [drafts EXCEPT ![c.draft] = Spent(@)]
    <3>1. CASE d = c.draft
      <4>1. drafts'[d] = Spent(drafts[d]) /\ IsDraft(drafts[d])
        BY <1>1, <2>1, <3>1
      <4>2. /\ drafts'[d].work = drafts[d].work /\ drafts'[d].by = drafts[d].by
            /\ drafts'[d].version = drafts[d].version /\ drafts'[d].live = FALSE
        BY <4>1 DEF Spent, IsDraft, DraftFields
      <4> QED BY <1>1, <1>5, <3>1, <4>2 DEF ConfirmDraft, Keeps
    <3>2. CASE d # c.draft
      <4>1. drafts'[d] = drafts[d]
        BY <1>1, <2>1, <3>2
      <4> QED BY <4>1 DEF Keeps
    <3> QED BY <3>1, <3>2
  <2> QED BY <1>2, <1>5, <2>1 DEF ConfirmDraft, Refused, server
<1>6. CASE DiscardDraft(c)
  <2>1. CASE d = c.draft
    <3>1. drafts'[d] = [drafts[d] EXCEPT !.live = FALSE] /\ IsDraft(drafts[d])
      BY <1>1, <1>6, <2>1 DEF DiscardDraft
    <3>2. /\ drafts'[d].work = drafts[d].work /\ drafts'[d].by = drafts[d].by
          /\ drafts'[d].version = drafts[d].version /\ drafts'[d].live = FALSE
          /\ drafts'[d].placed = drafts[d].placed
      BY <3>1 DEF IsDraft, DraftFields
    <3> QED BY <3>2 DEF Keeps
  <2>2. CASE d # c.draft
    <3>1. drafts'[d] = drafts[d]
      BY <1>1, <1>6, <2>2 DEF DiscardDraft
    <3> QED BY <3>1 DEF Keeps
  <2> QED BY <2>1, <2>2
<1>7. CASE CreateAlteration(c) \/ AddCustomer(c) \/ Read(c) \/ Lose(c)
  BY <1>2, <1>7 DEF CreateAlteration, AddCustomer, Read, Lose, Refused, server
<1> QED BY <1>3, <1>4, <1>5, <1>6, <1>7 DEF Serve

\* No save names a version its draft has not reached.
LEMMA SavesAreBehind ==
  ASSUME InStep, NEW e \in calls, e.why \in Saves, e.draft \in Drafts
  PROVE  e.draft # None /\ e.version <= drafts[e.draft].version /\ drafts[e.draft].version >= 1
BY DEF InStep, TellsApart, CallsRefer, Refers, Drafts, None

\* What the page is about to place, other saves of the same page can no longer
\* change; where another page changes it, the draft is that page's as well.
LEMMA AnswersKeepSaved ==
  ASSUME InStep, NEW c, Serve(c) \/ Lose(c), NEW e, NEW u \in Tabs, SavedBy(e, u)
  PROVE  SavedBy(e, u)'
<1> DEFINE d == e.draft
<1>1. d \in Drafts /\ drafts[d].version >= 1 /\ <<u, e.page>> \in drafts[d].by
  BY DEF SavedBy
<1>2. tab' = tab /\ drafts[d].version \in Nat
  BY <1>1, AnswersHold DEF InStep, Records, IsDraft
<1>3. \A x \in Mine(u)' : x.answer = "none" => x \in Mine(u)
  BY AnswersHold DEF Mine
<1>4. CASE Keeps(c, d)
  BY <1>1, <1>2, <1>3, <1>4 DEF Keeps, SavedBy
<1>5. CASE Overwrites(c, d)
  <2>1. \A x \in Mine(u)' : x.why \in Saves /\ x.answer = "none" /\ x.draft = d
                              => x.version # drafts'[d].version
    <3> SUFFICES ASSUME NEW x \in Mine(u)', x.why \in Saves, x.answer = "none", x.draft = d
                 PROVE  x.version # drafts'[d].version
      OBVIOUS
    <3>1. x \in calls
      BY <1>3 DEF Mine
    <3>2. x.version \in Nat /\ x.version <= drafts[d].version
      BY <1>1, <3>1, SavesAreBehind DEF InStep, Records, IsCall
    <3> QED BY <1>2, <1>5, <3>2 DEF Overwrites
  <2>2. drafts'[d].by # {<<u, e.page>>}
    <3>0. <<c.tab, c.page>> \in drafts'[d].by
      BY <1>5 DEF Overwrites
    <3>1. SUFFICES ASSUME <<c.tab, c.page>> = <<u, e.page>> PROVE FALSE
      BY <3>0
    <3>2. c \in Mine(u) /\ c.page = e.page /\ c.why \in Saves
      BY <1>5, <3>1 DEF Mine, Overwrites
    <3>3. c.page = tab[u].page
      BY <3>2 DEF InStep, OnePress
    <3>4. tab[u].page \in Nat
      BY DEF InStep, Records, IsTab
    <3> QED BY <1>5, <3>2, <3>3, <3>4 DEF SavedBy, Overwrites
  <2>3. drafts'[d].version >= 1 /\ <<u, e.page>> \in drafts'[d].by
    BY <1>1, <1>2, <1>5 DEF Overwrites
  <2> QED BY <1>1, <1>2, <2>1, <2>2, <2>3 DEF SavedBy
<1>6. ~Makes(c, d)
  BY <1>1, <1>2 DEF Makes
<1> HIDE DEF d
<1> QED BY <1>1, <1>4, <1>5, <1>6, DraftsServed

\* A submit's save that the server took: the draft is what the submit wrote,
\* and no save under way can still change it.
LEMMA SubmitsSave ==
  ASSUME InStep, PlacesWhole, NEW c, Serve(c) \/ Lose(c), NEW e \in calls',
         e \notin calls \ {c}, AboutToBePlaced(e)
  PROVE  SavedBy(e, c.tab)' /\ c.tab \in Tabs
<1>1. c \in calls /\ IsCall(c) /\ calls' \ {e} \subseteq calls'
  BY DEF Serve, Lose, InStep, Records
<1>2. e.answer # "none" /\ e.tab = c.tab /\ e.why = c.why /\ e.work = c.work
  BY AnswersHold
<1>3. e.why = "submit" /\ e.answer = "ok" /\ c.tab \in Tabs /\ c.tab # Nobody
  BY <1>2, WizardAssumption DEF AboutToBePlaced
<1>4. Complete(c.work)
  BY <1>1, <1>2, <1>3 DEF PlacesWhole
<1>5. ~Lose(c)
  <2> SUFFICES ASSUME Lose(c) PROVE FALSE
    OBVIOUS
  <2>1. e = [c EXCEPT !.answer = "failed"]
    BY DEF Lose
  <2>2. e.answer = "failed"
    BY <1>1, <2>1 DEF IsCall, CallFields
  <2> QED BY <1>3, <2>2
<1>6. c.answer = "none" /\ (CreateDraft(c) \/ UpdateDraft(c))
  BY <1>2, <1>3, <1>5
     DEF Serve, ConfirmDraft, DiscardDraft, CreateAlteration, AddCustomer, Read
<1>7. \E d \in Drafts : /\ e.draft = d /\ e.page = c.page
                        /\ Overwrites(c, d) \/ Makes(c, d)
  <2>1. CASE CreateDraft(c)
    <3>1. PICK d \in Drafts :
            /\ Unmade(d)
            /\ drafts' = [drafts EXCEPT ![d] = [live |-> TRUE, work |-> c.work,
                            version |-> 1, by |-> {<<c.tab, c.page>>}, placed |-> 0]]
            /\ Answered(c, [c EXCEPT !.answer = "ok", !.draft = d, !.version = 1])
      BY <2>1 DEF CreateDraft
    <3>2. e = [c EXCEPT !.answer = "ok", !.draft = d, !.version = 1]
      BY <3>1 DEF Answered
    <3>3. e.draft = d /\ e.page = c.page
      BY <1>1, <3>2 DEF IsCall, CallFields
    <3>4. drafts'[d] = [live |-> TRUE, work |-> c.work,
                            version |-> 1, by |-> {<<c.tab, c.page>>}, placed |-> 0]
      BY <3>1 DEF InStep, Records
    <3>5. /\ drafts'[d].version = 1 /\ drafts'[d].placed = 0
          /\ drafts'[d].work = c.work /\ drafts'[d].by = {<<c.tab, c.page>>}
      BY <3>4
    <3>6. drafts[d].version = 0 /\ c.why \in Saves /\ c.draft = None
      BY <2>1, <3>1 DEF CreateDraft, Unmade
    <3>7. Makes(c, d)
      BY <1>1, <1>6, <3>5, <3>6 DEF Makes
    <3> QED BY <3>3, <3>7
  <2>2. CASE UpdateDraft(c)
    <3>1. \A why : Refused(c, why) => e = [c EXCEPT !.answer = why]
      BY DEF Refused, Answered
    <3>2. \A why : Refused(c, why) => e.answer = why
      BY <1>1, <3>1 DEF IsCall, CallFields
    <3>3. /\ drafts[c.draft].live
          /\ drafts' = [drafts EXCEPT ![c.draft] = Overwritten(@, c)]
          /\ Answered(c, [c EXCEPT !.answer = "ok", !.version = @ + 1])
      BY <1>3, <2>2, <3>2 DEF UpdateDraft
    <3>4. e = [c EXCEPT !.answer = "ok", !.version = @ + 1]
      BY <3>3 DEF Answered
    <3>5. e.draft = c.draft /\ e.page = c.page
      BY <1>1, <3>4 DEF IsCall, CallFields
    <3>6. c.draft \in Drafts /\ IsDraft(drafts[c.draft])
      BY <1>1, <2>2 DEF UpdateDraft, InStep, TellsApart, CallsRefer, Refers, Records
    <3>7. drafts'[c.draft] = Overwritten(drafts[c.draft], c)
      BY <3>3, <3>6 DEF InStep, Records
    <3>8. /\ drafts'[c.draft].version = drafts[c.draft].version + 1
          /\ drafts[c.draft].version \in Nat
      BY <3>6, <3>7 DEF Overwritten, IsDraft, DraftFields
    <3>9. Overwrites(c, c.draft)
      <4>1. drafts'[c.draft].version # drafts[c.draft].version
        BY <3>8
      <4>2. c.draft # None
        BY <3>6 DEF Drafts, None
      <4> QED BY <3>6, <4>1, <4>2, DraftsServed DEF Keeps, Makes
    <3> QED BY <3>5, <3>6, <3>9
  <2> QED BY <1>6, <2>1, <2>2
<1>8. PICK d \in Drafts : /\ e.draft = d /\ e.page = c.page
                          /\ Overwrites(c, d) \/ Makes(c, d)
  BY <1>7
<1>9. /\ drafts[d].version \in Nat /\ drafts'[d].version = drafts[d].version + 1
      /\ drafts'[d].work = c.work /\ <<c.tab, c.page>> \in drafts'[d].by
  BY <1>8 DEF Overwrites, Makes, InStep, Records, IsDraft
<1>10. \A x \in Mine(c.tab)' : x.why \in Saves /\ x.answer = "none" /\ x.draft = d
                                => x.version # drafts'[d].version
  <2> SUFFICES ASSUME NEW x \in Mine(c.tab)', x.why \in Saves, x.answer = "none", x.draft = d
               PROVE  x.version # drafts'[d].version
    OBVIOUS
  <2>1. x \in calls
    BY AnswersHold DEF Mine
  <2>2. x.version \in Nat /\ x.version <= drafts[d].version
    BY <2>1, SavesAreBehind DEF InStep, Records, IsCall
  <2> QED BY <1>9, <2>2
<1>11. drafts'[d].version >= 1
  BY <1>9
<1> QED BY <1>2, <1>3, <1>4, <1>8, <1>9, <1>10, <1>11 DEF SavedBy

LEMMA AnswersKeepPlacesWhole ==
  ASSUME InStep, PlacesWhole, NEW c, Serve(c) \/ Lose(c)
  PROVE  PlacesWhole'
<1>1. ASSUME NEW e \in calls'
      PROVE  /\ e.why = "submit" => Complete(e.work)
             /\ AboutToBePlaced(e) => \E u \in Tabs : SavedBy(e, u)'
  <2>1. e.why = "submit" => Complete(e.work)
    BY <1>1, AnswersHold DEF PlacesWhole
  <2>2. CASE e \in calls \ {c}
    BY <2>1, <2>2, AnswersKeepSaved DEF PlacesWhole
  <2>3. CASE e \notin calls \ {c}
    BY <1>1, <2>1, <2>3, SubmitsSave
  <2> QED BY <2>2, <2>3
<1>2. ASSUME NEW d \in Drafts, drafts'[d].placed > 0
      PROVE  /\ ~drafts'[d].live /\ drafts'[d].version >= 1
             /\ \A x \in drafts'[d].by : drafts'[d].by = {x} => Complete(drafts'[d].work)
  <2>1. drafts[d].placed \in Nat /\ drafts[d].version \in Nat
    BY DEF InStep, Records, IsDraft
  <2>2. CASE drafts[d].placed > 0
    <3>1. /\ ~drafts[d].live /\ drafts[d].version >= 1
          /\ \A x \in drafts[d].by : drafts[d].by = {x} => Complete(drafts[d].work)
      BY <2>2 DEF PlacesWhole
    <3>2. Keeps(c, d)
      BY <1>2, <2>1, <3>1, DraftsServed DEF Overwrites, Makes
    <3> QED BY <3>1, <3>2 DEF Keeps
  <2>3. CASE ~(drafts[d].placed > 0)
    <3>1. /\ Keeps(c, d) /\ c \in calls /\ c.why = "place" /\ c.answer = "none"
          /\ c.draft = d /\ ~drafts'[d].live
      BY <1>2, <2>1, <2>3, DraftsServed DEF Overwrites, Makes, Keeps
    <3>2. PICK u \in Tabs : SavedBy(c, u)
      BY <3>1 DEF PlacesWhole, AboutToBePlaced
    <3>3. /\ drafts[d].version >= 1 /\ <<u, c.page>> \in drafts[d].by
          /\ drafts[d].by = {<<u, c.page>>} => Complete(drafts[d].work)
      BY <3>1, <3>2 DEF SavedBy
    <3>4. \A x \in drafts[d].by : drafts[d].by = {x} => Complete(drafts[d].work)
      BY <3>3
    <3> QED BY <3>1, <3>3, <3>4 DEF Keeps
  <2> QED BY <2>2, <2>3
<1> QED BY <1>1, <1>2 DEF PlacesWhole

LEMMA NextKeepsPlacesWhole ==
  ASSUME InStep, PlacesWhole, ~Overlap, [Next]_vars
  PROVE  PlacesWhole'
<1>1. CASE \E t \in Tabs : Acts(t) \/ Tick(t) \/ \E c \in calls : Land(t, c)
  BY <1>1, TabsTurn, TurnsKeepPlacesWhole
<1>2. CASE \E c \in calls : Serve(c) \/ Lose(c)
  BY <1>2, AnswersKeepPlacesWhole
<1>3. CASE UNCHANGED vars
  BY <1>3 DEF vars, PlacesWhole, SavedBy, Mine
<1> QED BY <1>1, <1>2, <1>3 DEF Next

LEMMA InitPlacesWhole ==
  ASSUME Init
  PROVE  PlacesWhole
BY InitSays DEF PlacesWhole, AboutToBePlaced

\* What one page alone saved and placed had a customer, garments and their
\* measurements, whatever is written, saved or loaded again while the order is
\* being placed, so long as the person waits for an answer before leaving a
\* form or opening another (performNext, submitOrderAndConfirm).
THEOREM PlacedOrdersAreComplete ==
  ASSUME ~Overlap
  PROVE  Spec => []PlacedIsComplete
<1> DEFINE Inv == InStep /\ PlacesWhole
<1>1. Init => Inv
  BY InitInStep, InitPlacesWhole
<1>2. Inv /\ [Next]_vars => Inv'
  BY NextKeepsInStep, NextKeepsPlacesWhole
<1>3. Inv => PlacedIsComplete
  <2> SUFFICES ASSUME Inv, NEW d \in Drafts, drafts[d].placed > 0, Cardinality(drafts[d].by) = 1
               PROVE  Complete(drafts[d].work)
    BY DEF PlacedIsComplete
  <2>1. IsFiniteSet(drafts[d].by)
    BY DEF InStep, Records, IsDraft
  <2>2. \E x : drafts[d].by = {x}
    BY <2>1, FS_Singleton
  <2> QED BY <2>2 DEF PlacesWhole
<1> HIDE DEF Inv
<1> QED BY <1>1, <1>2, <1>3, PTL DEF Spec
=============================================================================
