------------------------------- MODULE Screens -------------------------------
(***************************************************************************)
(* A screen of the web application while its person works on it: what it   *)
(* has asked the server for, what it shows, which of its controls are off, *)
(* and which of its forms are open.                                        *)
(*                                                                         *)
(* React runs one handler at a time up to its next await, so a step here   *)
(* is: a person's click, the server dealing with one request, or a reply   *)
(* landing and the code behind its await running.  Replies land in any     *)
(* order.  What each screen reads and what its handlers do is in tables    *)
(* (the constant Panels) written screen by screen from the source and       *)
(* explained in ScreenParts; this module gives them their meaning.         *)
(***************************************************************************)
EXTENDS Naturals, FiniteSets, ScreenParts

CONSTANTS Panels,     \* the screens: [turnlocks, reads, ops] by name
          Subjects,   \* what can be chosen: weeks, people, filters
          Rows,       \* the rows of a list
          MaxActs,    \* a person's acts in one behaviour: a choice, a form
                      \* opened, a control used
          Overtaken,      \* the screens where a reload may miss a save,
          LastReplyWins,  \* a late reply may cover what is chosen, and
          Unheld,         \* an old answer may close a newer form: each of
                          \* these only for who does not wait
          LastBusyOnly    \* the controls whose flag another press lowers:
                          \* it holds one row, or is raised after an await

VARIABLES panel,      \* the screen that is mounted
          subject,    \* what is chosen on it
          shown,      \* for each read, what was last put on the screen
          flags,      \* the flags that are up: [f, i, r] name, form, row
          open,       \* for each form, [n, on]: how often opened, if open
          gets,       \* reads in flight
          calls,      \* operations in flight, or waiting for their reload
          clock,      \* changes made at the server so far
          confirmed,  \* the clock at the last save its person was told of:
                      \* the last operation of a chain tells
          acts,       \* the person's acts so far
          rushed      \* they acted while something was under way (ghost)

screensVars == <<panel, subject, shown, flags, open, gets, calls, clock, confirmed,
          acts, rushed>>

\* Everything asked for has been answered.
AtRest == gets = {} /\ calls = {}

Person == acts < MaxActs /\ acts' = acts + 1 /\ rushed' = (rushed \/ ~AtRest)

\* The table of the screen that is mounted, T in what follows.
Tables == Panels
Here == Tables[panel]
Forms(T) == {T.ops[o].form : o \in DOMAIN T.ops} \ {""}

-----------------------------------------------------------------------------
\* Flags: useState booleans, ids and sets of ids.
Blank == "none"
RowsFor(op) == IF op.rows \in {"no", "new"} THEN {Blank} ELSE Rows
Tags(names, i, r) == {[f |-> f, i |-> i, r |-> r] : f \in names}
Home(op, i) == IF op.own THEN i ELSE 0

Raised(F, op, i, r) ==
  {t \in F : ~(op.rows \in {"one", "new"} /\ t.f \in op.sets /\ t.i = Home(op, i))}
    \cup Tags(op.sets, Home(op, i), r)

\* setBusy(false) and setBusyId(null) lower it whoever raised it.
Lowered(F, names, op, i, r) ==
  {t \in F : ~ /\ t.f \in names /\ t.i = Home(op, i)
               /\ op.rows = "each" => t.r = r}

\* Mutant of Off: a control looks only at what its own row is doing.
OffForItsRow(op, i, r) ==
  \E t \in flags : t.i \in {0, i} /\ t.f \in op.rowchecks /\ t.r = r

Off(op, i, r) ==
  \E t \in flags : /\ t.i \in {0, i}
                   /\ t.f \in op.checks \/ (t.f \in op.rowchecks /\ t.r = r)

-----------------------------------------------------------------------------
\* What a read has on the screen: a loader or an error, or [s, v].
Nothing == [s |-> Blank, v |-> 0, ok |-> FALSE]
Just(s, v) == [s |-> s, v |-> v, ok |-> TRUE]

\* Reads in flight: [r, s, n, from, live].  The server deals with one at some
\* moment between its asking, when the clock was from, and its landing.
Key(T, r, s) == IF T.reads[r].keyed THEN s ELSE Blank
\* Mutant of Heeded: whatever comes in is shown.
HeededAnyway(T, g) == g \in gets

Heeded(T, g) ==
  /\ T.reads[g.r].latest => g.live
  /\ T.reads[g.r].matches => g.s = Key(T, g.r, subject)
Joined(T, g, R, s) ==
  g.r \in R /\ g.s = Key(T, g.r, s) /\ Way[T.reads[g.r].call] \in {"read", "json"}

Slot(G, r) == CHOOSE n \in 1..(Cardinality(G) + 1) :
                /\ \A g \in G : g.r = r => g.n # n
                /\ \A k \in 1..(n - 1) : \E g \in G : g.r = r /\ g.n = k

\* Mutant of AskedFor: what is on the screen already is not read again.
AskedIfMissing(T, G, R, s) ==
  G \cup {[r |-> r, s |-> Key(T, r, s), n |-> Slot(G, r), from |-> clock, live |-> TRUE] :
            r \in {q \in R : ~shown[q].ok}}

\* The reads R are asked for, for s: guardedFetch.
AskedFor(T, G, R, s) ==
  {[g EXCEPT !.live = IF g.r \in R THEN Joined(T, g, R, s) ELSE @] : g \in G}
    \cup {[r |-> r, s |-> Key(T, r, s), n |-> Slot(G, r), from |-> clock,
           live |-> TRUE] :
             r \in {q \in R : \A g \in G : g.r = q => ~Joined(T, g, R, s)}}

ReadFlags(T, R) == UNION {Tags(T.reads[r].sets, 0, Blank) : r \in R}

-----------------------------------------------------------------------------
ScreensInit ==
  /\ clock = 0
  /\ panel \in DOMAIN Panels
  /\ subject \in Subjects
  /\ shown = [r \in DOMAIN Here.reads |-> Nothing]
  /\ flags = ReadFlags(Here, DOMAIN Here.reads)
  /\ open = [f \in Forms(Here) |-> [n |-> 0, on |-> FALSE]]
  /\ gets = AskedFor(Here, {}, DOMAIN Here.reads, subject)
  /\ calls = {}
  /\ confirmed = [r \in DOMAIN Here.reads |-> [s \in Subjects \cup {Blank} |-> 0]]
  /\ acts = 0 /\ rushed = FALSE

\* Another week, person or filter is chosen; a form lies over the screen.
Choose(T, s) ==
  /\ Person /\ s # subject
  /\ \A f \in Forms(T) : ~open[f].on
  /\ \A t \in flags : t.f \notin T.turnlocks
  /\ LET R == {r \in DOMAIN T.reads : T.reads[r].keyed} IN
       /\ R # {}
       /\ gets' = AskedFor(T, gets, R, s)
       /\ flags' = flags \cup ReadFlags(T, R)
  /\ subject' = s
  /\ UNCHANGED <<panel, shown, open, calls, clock, confirmed>>

OpenForm(T, f) ==
  /\ Person /\ \A g \in Forms(T) : ~open[g].on
  /\ \A o \in DOMAIN T.ops, t \in flags :
       T.ops[o].form = f => ~(t.f \in T.ops[o].opener /\ t.i = 0)
  /\ open' = [open EXCEPT ![f] = [n |-> acts', on |-> TRUE]]
  /\ UNCHANGED <<panel, subject, shown, flags, gets, calls, clock, confirmed>>

\* Mutant of Dismiss: a form closes whatever it is sending.
DismissAnyTime(T, f) ==
  /\ open[f].on
  /\ open' = [open EXCEPT ![f].on = FALSE]
  /\ flags' = {t \in flags : t.i = 0}
  /\ rushed' = (rushed \/ ~AtRest)
  /\ UNCHANGED <<panel, subject, shown, gets, calls, clock, confirmed, acts>>

\* Cancel, the cross or the backdrop.
Dismiss(T, f) ==
  /\ open[f].on
  /\ \A o \in DOMAIN T.ops, t \in flags :
       T.ops[o].form = f => ~(t.f \in T.ops[o].locked /\ t.i \in {0, open[f].n})
  /\ open' = [open EXCEPT ![f].on = FALSE]
  /\ flags' = {t \in flags : t.i = 0}
  /\ rushed' = (rushed \/ ~AtRest)
  /\ UNCHANGED <<panel, subject, shown, gets, calls, clock, confirmed, acts>>

\* A control is used: the handler up to its await.
Click(T, o, r) ==
  LET op == T.ops[o]
      i  == IF op.form = "" THEN 0 ELSE open[op.form].n
      c  == [o |-> o, by |-> o, s |-> subject, i |-> i, row |-> r, at |-> "out",
             v |-> 0, awaits |-> {},
             n |-> acts + 1]
  IN  /\ Person
      /\ IF op.form = "" THEN \A f \in Forms(T) : ~open[f].on
                         ELSE open[op.form].on
      /\ ~Off(op, i, r)
      \* an identical write in flight answers for this one
      /\ Way[op.call] = "json" =>
           ~\E d \in calls : /\ d.o = o /\ d.s = subject /\ d.row = r
                             /\ d.at # "reloading"
      /\ calls' = calls \cup {c}
      /\ flags' = Raised(flags, op, i, r)
      /\ UNCHANGED <<panel, subject, shown, open, gets, clock, confirmed>>

\* The server does what is asked, or refuses; the answer of either may be lost.
Deal(T, c) ==
  /\ c.at = "out"
  /\ \E done \in BOOLEAN :
       /\ clock' = IF done /\ T.ops[c.o].changes # {} THEN clock + 1 ELSE clock
       /\ calls' = (calls \ {c}) \cup
                     {[c EXCEPT !.at = IF done THEN "done" ELSE "refused", !.v = clock']}
  /\ UNCHANGED <<panel, subject, shown, flags, open, gets, confirmed, acts, rushed>>

\* A read lands; operations that waited for it alone are over.
LandGet(T, g) ==
  LET over == {c \in calls : c.awaits = {<<g.r, g.n>>}} IN
  /\ gets' = gets \ {g}
  /\ IF ~Heeded(T, g) THEN UNCHANGED shown
     ELSE \/ \E v \in g.from..clock :
               shown' = [shown EXCEPT ![g.r] = Just(g.s, v)]
          \/ shown' = [shown EXCEPT ![g.r] = Nothing]
  /\ calls' = {[c EXCEPT !.awaits = @ \ {<<g.r, g.n>>}] : c \in calls \ over}
  /\ flags' = {t \in flags :
                 /\ Heeded(T, g) => t \notin ReadFlags(T, {g.r})
                 /\ \A c \in over : LET op == T.ops[c.o] IN
                      t \in Lowered(flags, op.sets, op, c.i, c.row)}
  /\ UNCHANGED <<panel, subject, open, clock, confirmed, acts, rushed>>

\* A form's own flags vanish with it.
Kept(T, F) ==
  {t \in F : t.i = 0 \/ \E f \in Forms(T) : open'[f] = [n |-> t.i, on |-> TRUE]}

\* Mutant of Fail: a refusal leaves the control off.
FailHalfway(T, c) ==
  /\ c.at \in {"done", "refused"}
  /\ calls' = calls \ {c}
  /\ gets' = AskedFor(T, gets, T.ops[c.o].retries, subject)
  /\ UNCHANGED <<panel, subject, shown, flags, open, clock, confirmed, acts, rushed>>

\* An operation's answer lands: the handler behind its await.
Fail(T, c) ==
  LET op == T.ops[c.o] IN
  /\ c.at \in {"done", "refused"}
  /\ calls' = calls \ {c}
  /\ open' = [f \in DOMAIN open |->
                [open[f] EXCEPT !.on = @ /\ ~(op.drops /\ f = op.form)]]
  /\ flags' = Kept(T, Lowered(flags, op.sets, op, c.i, c.row))
                \cup ReadFlags(T, op.retries)
  /\ gets' = AskedFor(T, gets, op.retries, subject)
  /\ UNCHANGED <<panel, subject, shown, clock, confirmed, acts, rushed>>

Succeed(T, c) ==
  LET op    == T.ops[c.o]
      again == AskedFor(T, AskedFor(T, gets, op.reloads, c.s), op.refreshes, subject)
      awaited == {<<g.r, g.n>> : g \in {h \in again :
                     h.r \in op.reloads /\ h.s = Key(T, h.r, c.s)}}
      waiting == op.waits /\ op.reloads # {}
      taken == {r \in op.adopts : op.mine => shown[r].ok /\ Key(T, r, c.s) = shown[r].s}
      left  == IF waiting THEN flags
                          ELSE Lowered(flags, op.sets, op, c.i, c.row)
      then  == T.ops[op.next]
  IN  /\ c.at = "done"
      /\ shown' = [r \in DOMAIN shown |->
                     IF r \in taken THEN Just(Key(T, r, c.s), c.v)
                                    ELSE shown[r]]
      /\ confirmed' = [r \in DOMAIN confirmed |->
                         [confirmed[r] EXCEPT ![Key(T, r, c.s)] =
                            IF r \in op.changes /\ op.next = "" /\ c.v > @ THEN c.v ELSE @]]
      /\ gets' = again
      /\ calls' = (calls \ {c}) \cup
                    (IF waiting THEN {[c EXCEPT !.at = "reloading", !.awaits = awaited]}
                                ELSE {}) \cup
                    (IF op.next # "" THEN {[c EXCEPT !.o = op.next, !.at = "out",
                                                     !.v = 0]}
                                     ELSE {})
      /\ open' = [f \in DOMAIN open |->
                    [open[f] EXCEPT !.on = @ /\ f \notin op.shuts
                                           /\ ~(op.closes /\ f = op.form)]]
      /\ flags' = Kept(T, IF op.next = "" THEN left ELSE Raised(left, then, c.i, c.row))
                    \cup ReadFlags(T, op.reloads \cup op.refreshes)
      /\ UNCHANGED <<panel, subject, clock, acts, rushed>>

ScreensNext ==
  \/ \E s \in Subjects : Choose(Here, s)
  \/ \E f \in Forms(Here) : OpenForm(Here, f) \/ Dismiss(Here, f)
  \/ \E o \in DOMAIN Here.ops : \E r \in RowsFor(Here.ops[o]) : Click(Here, o, r)
  \/ \E g \in gets : LandGet(Here, g)
  \/ \E c \in calls : Deal(Here, c) \/ Fail(Here, c) \/ Succeed(Here, c)

ScreensSpec == ScreensInit /\ [][ScreensNext]_screensVars

-----------------------------------------------------------------------------
\* Nobody's two presses of one control make two requests out of it: while an
\* operation that turns its own control off is under way, the same one is not
\* sent again from the same form for the same row and choice (a second payment
\* recorded, a second member of staff created).  It holds of every control but
\* those of LastBusyOnly.
Guarded(op) == op.sets \cap (op.checks \cup op.rowchecks) # {} /\ Way[op.call] # "json"
NoTwinWrites ==
  \A c, d \in calls :
    (/\ c # d /\ c.o = d.o /\ c.by = d.by /\ c.i = d.i /\ c.row = d.row /\ c.s = d.s
     /\ Guarded(Here.ops[c.o]) /\ <<panel, c.o>> \notin LastBusyOnly)
    => "reloading" \in {c.at, d.at}

\* Once nothing is under way, a screen that shows no error shows every change
\* its person was told is saved; on the screens Overtaken, where a reload may
\* be answered by a read sent before the save, when its person waited.
ShowsOwnWrites ==
  (AtRest /\ (panel \in Overtaken => ~rushed)) => \A r \in DOMAIN shown :
    shown[r].ok => shown[r].v >= confirmed[r][shown[r].s]

\* Once nothing is under way, what is shown belongs to what is chosen: a late
\* reply for last week is not left on the screen under this week's name; on
\* the screens LastReplyWins, when its person waited.
ShowsItsSubject ==
  (AtRest /\ (panel \in LastReplyWins => ~rushed)) => \A r \in DOMAIN shown :
    shown[r].ok => shown[r].s = Key(Here, r, subject)

\* A form is closed by its person, or by the success of what was sent from it,
\* never by the answer to something sent from the one opened before it; on the
\* screens Unheld, whose forms can be dismissed while sending, when its person
\* waited.
ClosesItsOwnForm ==
  [][\A c \in calls, f \in Forms(Here) :
       (/\ open[f].on /\ ~open'[f].on /\ c \notin calls' /\ c.at = "done"
        /\ panel \in Unheld => ~rushed)
         => c.i = open[f].n]_screensVars

\* Once nothing is under way nothing is turned off: a refusal, a lost answer
\* or a dropped reply gives the person the control back.
NothingStaysBusy == AtRest => flags = {}

-----------------------------------------------------------------------------
(* What the tables have in common.                                           *)

\* Two operations whose flags lie side by side: on the screen, or in one form.
Together(p, q) == p.own = q.own /\ (p.own => p.form = q.form)
Sharers(T, o, f) ==
  {p \in DOMAIN T.ops : f \in T.ops[p].sets /\ Together(T.ops[p], T.ops[o])}

\* f turns off whatever raises it: for every row, or for the row worked on.
Shut(T, o, f) == \A p \in Sharers(T, o, f) : f \in T.ops[p].checks
ShutByRow(T, o, f) ==
  \A p \in Sharers(T, o, f) :
    f \in T.ops[p].checks \cup T.ops[p].rowchecks /\ T.ops[p].rows = "each"

\* Operation o keeps f up as long as it is under way: nothing that raises it
\* too can begin meanwhile, no read lowers it, and a chain hands it on.
Keeps(T, o, f) ==
  /\ f \in T.ops[o].sets
  /\ Shut(T, o, f) \/ ShutByRow(T, o, f)
  /\ T.ops[o].own \/ \A r \in DOMAIN T.reads : f \notin T.reads[r].sets
  /\ \A p \in DOMAIN T.ops : T.ops[p].next \in Sharers(T, o, f) =>
       p \in Sharers(T, o, f) /\ ~(T.ops[p].waits /\ T.ops[p].reloads # {})

WellFormed(T, op) ==
  /\ op.own \in BOOLEAN /\ (op.own => op.form # "")
  /\ op.reloads \cup op.refreshes \cup op.retries \subseteq DOMAIN T.reads
  /\ op.next # "" => /\ op.next \in DOMAIN T.ops /\ T.ops[op.next].next = ""
                     /\ T.ops[op.next].own => op.own /\ op.form = T.ops[op.next].form

\* What closes a form is sent from it under a flag that keeps it open, and
\* which anything else that closes it raises as well.
Closer(op) == ((op.closes \/ op.drops) /\ op.form # "") \/ op.shuts # {}
Chained(T, op) == op.next # "" /\ Closer(T.ops[op.next])
HoldsItsForm(T, o) ==
  LET op == T.ops[o] IN
  /\ op.form # ""
  /\ \E f \in op.sets :
       /\ Keeps(T, o, f) /\ Shut(T, o, f)
       /\ \E q \in DOMAIN T.ops : T.ops[q].form = op.form /\ f \in T.ops[q].locked
       /\ \A q \in DOMAIN T.ops :
            Closer(T.ops[q]) /\ T.ops[q].form = op.form => q \in Sharers(T, o, f)
  /\ Chained(T, op) =>
       op.form = T.ops[op.next].form /\ ~op.closes /\ op.shuts = {}

\* The late replies of read r are told from those for what is chosen by then.
TellsApart(T, r) ==
  /\ \/ ~T.reads[r].keyed
     \/ (T.reads[r].matches /\ ~T.reads[r].latest)
     \/ (T.reads[r].latest /\ \A o \in DOMAIN T.ops : r \notin T.ops[o].reloads)
  /\ T.reads[r].keyed => \A o \in DOMAIN T.ops : r \in T.ops[o].adopts => T.ops[o].mine

\* A save tells the reads it makes out of date; a chain, at its end.
Tells(T, op) ==
  IF op.next = "" THEN op.changes \cap DOMAIN T.reads
                         \subseteq op.reloads \cup op.refreshes \cup op.adopts
                  ELSE op.reloads \cup op.refreshes = {}

\* A read that no answer finds out of date, whoever hurries: nothing changes
\* it, ...
Unchanged(T, r) ==
  \A o \in DOMAIN T.ops : r \in T.ops[o].changes => T.ops[o].next # ""

\* ... or every save asks anew for it and only the newest answer counts, ...
AlwaysNew(T, r) ==
  /\ T.reads[r].latest /\ ~T.reads[r].matches
  /\ Way[T.reads[r].call] \notin {"read", "json"}
  /\ \A o \in DOMAIN T.ops :
       /\ r \notin T.ops[o].adopts
       /\ r \in T.ops[o].changes /\ T.ops[o].next = "" => r \in T.ops[o].refreshes

\* ... or it is made once, under a flag k before which nothing that touches it
\* can begin, and whatever does goes one by one under a flag j.
Touches(T, o, r) == r \in T.ops[o].changes \cup T.ops[o].adopts
Leads(T, o, r) ==
  Touches(T, o, r) \/ (T.ops[o].next # "" /\ Touches(T, T.ops[o].next, r))
Gate(T, r, k) ==
  /\ k \in T.reads[r].sets
  /\ \A q \in DOMAIN T.reads \ {r} : k \notin T.reads[q].sets
  /\ \A o \in DOMAIN T.ops :
       /\ k \in T.ops[o].sets => T.ops[o].own
       /\ Leads(T, o, r) =>
            k \in T.ops[o].checks \/ (T.ops[o].form # "" /\ k \in T.ops[o].opener)
ReadOnce(T, r) ==
  /\ ~T.reads[r].keyed
  /\ \A o \in DOMAIN T.ops :
       r \notin T.ops[o].reloads \cup T.ops[o].refreshes \cup T.ops[o].retries
  /\ \E k \in T.reads[r].sets : Gate(T, r, k)
  /\ \A o \in DOMAIN T.ops : Touches(T, o, r) =>
       /\ r \in T.ops[o].adopts
       /\ \E j \in T.ops[o].sets :
            /\ Keeps(T, o, j) /\ Shut(T, o, j) /\ ~T.ops[o].own
            /\ \A p \in DOMAIN T.ops : Touches(T, p, r) => p \in Sharers(T, o, j)

ASSUME ScreensAssumption ==
  /\ MaxActs \in Nat
  /\ \A p \in DOMAIN Panels : LET T == Panels[p] IN
       /\ "" \notin DOMAIN T.ops
       /\ \A o \in DOMAIN T.ops : LET op == T.ops[o] IN
            /\ WellFormed(T, op) /\ Tells(T, op)
            /\ \A r \in op.reloads :
                 ~(T.reads[r].keyed /\ T.reads[r].matches /\ T.reads[r].sets # {})
            /\ Guarded(op) /\ <<p, o>> \notin LastBusyOnly => \E f \in op.sets : Keeps(T, o, f)
            /\ (Closer(op) \/ Chained(T, op)) /\ p \notin Unheld => HoldsItsForm(T, o)
       /\ p \notin LastReplyWins => \A r \in DOMAIN T.reads : TellsApart(T, r)
       /\ p \notin Overtaken => \A r \in DOMAIN T.reads :
            Unchanged(T, r) \/ AlwaysNew(T, r) \/ ReadOnce(T, r)

=============================================================================
