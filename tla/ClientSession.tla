---------------------------- MODULE ClientSession ----------------------------
(***************************************************************************)
(* Who a browser is signed in as (frontend/src/services/api.js, the sign-  *)
(* in screens of App.jsx).  The token is kept in localStorage, one for all *)
(* tabs; the server keeps one token per person (get_or_create) and         *)
(* replaces it when a password changes.  A tab's reads of one address are  *)
(* one request (guardedFetch); an answer of 401 anywhere is taken as a     *)
(* claim, and asks /auth/me/ before the session is ended                   *)
(* (handleSessionEnded).                                                   *)
(***************************************************************************)
EXTENDS Integers

CONSTANTS Tabs, People,
          None,          \* no token, nobody
          MaxTokens,     \* bound: tokens the server makes for one person
          MaxStrays,     \* bound: 401s that are not the server's word
          Temporary      \* people whose first password was e-mailed to them

Tokens == People \X (1..MaxTokens)

VARIABLES token,    \* localStorage's token
          current,  \* [People -> the number of the token the server honours, 0: none]
          made,     \* [People -> the number of tokens made]
          temporary,\* people who have yet to choose a password
          strays,
          screen,   \* per tab: [view, who, checking]
          reads,    \* per tab and address: the GET in flight (inFlightReads)
          posts     \* per tab and busy flag: the POST in flight

server  == <<current, made, temporary>>
vars == <<token, current, made, temporary, strays, screen, reads, posts>>

Views == {"loading", "login", "forgot", "reset", "change", "workspace"}
Urls == {"data", "me"}
Flags == {"authBusy", "logoutBusy", "pwBusy"}
Answers == {"none", "yes", "no", "stray", "down"}
Callers == [why : {"screen", "start", "check"}, as : Tokens \cup {None}]
Reads == [sent : Tokens \cup {None}, got : Answers, by : SUBSET Callers]
Posts == [kind : {"login", "logout", "change", "forgot", "reset"},
          who : People \cup {None}, sent : Tokens \cup {None},
          got : Answers, gave : Tokens \cup {None}]

\* None is none of the other values.
ASSUME SessionAssumption ==
  /\ MaxTokens \in Nat /\ MaxStrays \in Nat
  /\ None \notin Tokens /\ None \notin People
  /\ None \notin Reads /\ None \notin Posts
  /\ Temporary \subseteq People

Honoured(k) == \E p \in People : current[p] > 0 /\ k = <<p, current[p]>>

-----------------------------------------------------------------------------
NewTab(v) == [view |-> v, who |-> None, checking |-> FALSE]

Init ==
  /\ token = None
  /\ current = [p \in People |-> 0] /\ made = [p \in People |-> 0]
  /\ temporary = Temporary /\ strays = 0
  /\ screen \in [Tabs -> {NewTab("loading"), NewTab("reset")}]
  /\ reads = [t \in Tabs |-> [u \in Urls |-> None]]
  /\ posts = [t \in Tabs |-> [f \in Flags |-> None]]

\* guardedFetch on a GET: the one in flight for this address, or a new one.
NewRead(as, caller) == [sent |-> as, got |-> "none", by |-> {caller}]
JoinedRead(c, caller) == [c EXCEPT !.by = c.by \cup {caller}]

Asked(mine, u, why, as) ==
  LET caller == [why |-> why, as |-> as] IN
    [mine EXCEPT ![u] = IF mine[u] = None
                          THEN NewRead(as, caller)
                          ELSE JoinedRead(mine[u], caller)]

\* window.location.reload: nothing of the page is left.
Reloaded(t) ==
  /\ screen' = [screen EXCEPT ![t] = NewTab("loading")]
  /\ reads' = [reads EXCEPT ![t] = [u \in Urls |-> None]]
  /\ posts' = [posts EXCEPT ![t] = [f \in Flags |-> None]]

\* handleSessionEnded, on a 401; mine: the tab's reads, without the one that
\* brought it.
Doubted(t, mine) ==
  \/ /\ screen[t].checking
     /\ reads' = [reads EXCEPT ![t] = mine]
     /\ UNCHANGED <<token, screen>>
  \/ /\ ~screen[t].checking /\ token # None
     /\ screen' = [screen EXCEPT ![t].checking = TRUE]
     /\ reads' = [reads EXCEPT ![t] = Asked(mine, "me", "check", token)]
     /\ UNCHANGED token

\* Mutant of OverAlready: the token is not asked about.
OverAtOnce(t) == ~screen[t].checking
\* The same with no token stored: there is nothing to ask.
OverAlready(t) == ~screen[t].checking /\ token = None

-----------------------------------------------------------------------------
(* The page asks.                                                          *)

\* checkAuthSession, api.getMe: who is signed in, as the page opens.
Start(t) ==
  /\ screen[t].view = "loading"
  /\ IF token = None
       THEN screen' = [screen EXCEPT ![t].view = "login"] /\ UNCHANGED reads
       ELSE /\ reads[t]["me"] = None
            /\ reads' = [reads EXCEPT ![t] = Asked(@, "me", "start", token)]
            /\ UNCHANGED screen
  /\ UNCHANGED <<token, server, strays, posts>>

\* A screen reads, or reads again by its timer.
AskData(t) ==
  /\ screen[t].view = "workspace"
  /\ reads' = [reads EXCEPT ![t] = Asked(@, "data", "screen", token)]
  /\ reads' # reads
  /\ UNCHANGED <<token, server, strays, screen, posts>>

Reload(t) ==
  /\ screen[t].view # "loading" /\ Reloaded(t)
  /\ UNCHANGED <<token, server, strays>>

Send(t, flag, kind, who) ==
  /\ posts[t][flag] = None
  /\ posts' = [posts EXCEPT ![t][flag] =
                 [kind |-> kind, who |-> who, got |-> "none", gave |-> None,
                  sent |-> IF kind \in {"logout", "change"} THEN token ELSE None]]
  /\ UNCHANGED <<token, server, strays, screen, reads>>

Login(t, p) == screen[t].view = "login" /\ Send(t, "authBusy", "login", p)

RequestReset(t) == screen[t].view = "forgot" /\ Send(t, "authBusy", "forgot", None)

ResetPassword(t, p) == screen[t].view = "reset" /\ Send(t, "authBusy", "reset", p)

\* The first password's replacement, and the one in My details.
ChangePassword(t) ==
  \/ screen[t].view = "change" /\ Send(t, "authBusy", "change", screen[t].who)
  \/ screen[t].view = "workspace" /\ Send(t, "pwBusy", "change", screen[t].who)

Logout(t) ==
  /\ screen[t].view \in {"change", "workspace"}
  /\ Send(t, "logoutBusy", "logout", None)

\* "Forgot password?" and "Back to sign in", which no flag holds back.
Turn(t, v) ==
  /\ \/ screen[t].view = "login" /\ v = "forgot"
     \/ screen[t].view \in {"forgot", "reset"} /\ v = "login"
  /\ screen' = [screen EXCEPT ![t].view = v]
  /\ UNCHANGED <<token, server, strays, reads, posts>>

-----------------------------------------------------------------------------
(* The server answers (crm_api/auth_views.py).                             *)

Answer(t, u, got) ==
  /\ reads[t][u] # None /\ reads[t][u].got = "none"
  /\ reads' = [reads EXCEPT ![t][u].got = got]
  /\ UNCHANGED <<token, server, screen, posts>>

Serve(t, u) ==
  /\ reads[t][u] # None
  /\ Answer(t, u, IF Honoured(reads[t][u].sent) THEN "yes" ELSE "no")
  /\ UNCHANGED strays

\* A 401 that is not the server's word on the token; no answer at all.
ServeStray(t, u) == strays < MaxStrays /\ strays' = strays + 1 /\ Answer(t, u, "stray")

ServeDown(t, u) == Answer(t, u, "down") /\ UNCHANGED strays

\* A token for p: the one there is, or a new one.
Minted(p, anew) ==
  /\ anew \/ current[p] = 0
  /\ made[p] < MaxTokens
  /\ made' = [made EXCEPT ![p] = @ + 1]
  /\ current' = [current EXCEPT ![p] = made[p] + 1]

Ended(p) == current' = [current EXCEPT ![p] = 0] /\ UNCHANGED made

Handled(c) ==
  CASE c.kind = "login" -> /\ \/ Minted(c.who, FALSE)
                              \/ current[c.who] > 0 /\ UNCHANGED <<current, made>>
                           /\ UNCHANGED temporary
    [] c.kind = "change" -> /\ Minted(c.sent[1], TRUE)
                            /\ temporary' = temporary \ {c.sent[1]}
    [] c.kind = "logout" -> Ended(c.sent[1]) /\ UNCHANGED temporary
    [] c.kind = "reset" -> Ended(c.who) /\ temporary' = temporary \ {c.who}
    [] c.kind = "forgot" -> UNCHANGED server

Gave(c) ==
  CASE c.kind = "login" -> <<c.who, current'[c.who]>>
    [] c.kind = "change" -> <<c.sent[1], current'[c.sent[1]]>>
    [] OTHER -> None

ServePost(t, f) ==
  LET c == posts[t][f] IN
    /\ c # None /\ c.got = "none"
    /\ \/ /\ c.kind \in {"logout", "change"} => Honoured(c.sent)
          /\ Handled(c)
          /\ posts' = [posts EXCEPT ![t][f] = [c EXCEPT !.got = "yes", !.gave = Gave(c)]]
       \/ /\ c.kind \in {"logout", "change"} /\ ~Honoured(c.sent)
          /\ posts' = [posts EXCEPT ![t][f].got = "no"]
          /\ UNCHANGED server
       \/ /\ posts' = [posts EXCEPT ![t][f].got = "down"]
          /\ UNCHANGED server
    /\ UNCHANGED <<token, strays, screen, reads>>

\* The same person signs out, or has the password reset, on another device.
EndElsewhere(p) ==
  /\ current[p] > 0 /\ Ended(p)
  /\ UNCHANGED <<token, temporary, strays, screen, reads, posts>>

-----------------------------------------------------------------------------
(* The answer reaches the page.                                            *)

\* Mutant of Rest: a read that never reached the server stays in flight.
RestIfAnswered(t, u) == [reads[t] EXCEPT ![u] = IF @.got = "down" THEN @ ELSE None]
\* The map's entry is dropped, whether the request succeeded or not.
Rest(t, u) == [reads[t] EXCEPT ![u] = None]

Refused(c) == c.got \in {"no", "stray"}
Whys(c) == {caller.why : caller \in c.by}
For(c, why) == why \in Whys(c)

\* describeApiError for the screens' reads: only a 401 has an effect here.
LandData(t) ==
  LET c == reads[t]["data"] IN
    /\ c # None /\ c.got # "none"
    /\ \/ ~Refused(c) /\ reads' = [reads EXCEPT ![t] = Rest(t, "data")]
                      /\ UNCHANGED <<token, screen, posts>>
       \/ Refused(c) /\ Doubted(t, Rest(t, "data")) /\ UNCHANGED posts
       \/ Refused(c) /\ OverAlready(t) /\ Reloaded(t) /\ token' = None
    /\ UNCHANGED <<server, strays>>

\* enterWorkspace: the first password is replaced before anything else.
Entered(t, p) ==
  [screen[t] EXCEPT !.who = p,
                    !.view = IF p \in temporary THEN "change" ELSE "workspace"]

\* What the answer of /auth/me/ does to the page that asked at its start.
Opened(t, c) ==
  IF ~For(c, "start") THEN screen[t]
    ELSE IF c.got = "yes" THEN Entered(t, c.sent[1])
    ELSE [screen[t] EXCEPT !.view = "login"]

\* Mutant of StillChecking: the guard stays up when the check cannot be answered.
StillCheckingWhenDown(t, c) == screen[t].checking /\ ~(For(c, "check") /\ c.got # "down")
\* The check is over: its guard is lowered, also when the network failed.
StillChecking(t, c) == screen[t].checking /\ ~For(c, "check")

\* getMe and the check of handleSessionEnded, which may be one request.
LandMe(t) ==
  LET c == reads[t]["me"] IN
    /\ c # None /\ c.got # "none"
    /\ token' = IF Refused(c) THEN None ELSE token
    /\ \/ /\ Refused(c) /\ For(c, "check") /\ Reloaded(t)
       \/ /\ ~(Refused(c) /\ For(c, "check"))
          /\ screen' = [screen EXCEPT ![t] =
               [Opened(t, c) EXCEPT !.checking = StillChecking(t, c)]]
          /\ reads' = [reads EXCEPT ![t] = Rest(t, "me")]
          /\ UNCHANGED posts
    /\ UNCHANGED <<server, strays>>

Settled(t, f) == posts' = [posts EXCEPT ![t][f] = None]

\* api.login, handleLoginSubmit.
LandLogin(t) ==
  LET c == posts[t]["authBusy"] IN
    /\ c # None /\ c.got # "none" /\ c.kind = "login"
    /\ IF c.got = "yes"
         THEN /\ token' = c.gave
              /\ screen' = [screen EXCEPT ![t] =
                   [Entered(t, c.who) EXCEPT !.checking = FALSE]]
         ELSE UNCHANGED <<token, screen>>
    /\ Settled(t, "authBusy")
    /\ UNCHANGED <<server, strays, reads>>

\* handleForgotSubmit, handleResetSubmit.
LandReset(t) ==
  LET c == posts[t]["authBusy"] IN
    /\ c # None /\ c.got # "none" /\ c.kind \in {"forgot", "reset"}
    /\ token' = IF c.kind = "reset" /\ c.got = "yes" THEN None ELSE token
    /\ Settled(t, "authBusy")
    /\ UNCHANGED <<server, strays, screen, reads>>

\* api.changeMyPassword; the sign-in screen's one goes on to the workspace.
LandChange(t, f) ==
  LET c == posts[t][f] IN
    /\ c # None /\ c.got # "none" /\ c.kind = "change"
    /\ \/ /\ c.got = "yes"
          /\ token' = c.gave
          /\ screen' = IF f = "authBusy"
                         THEN [screen EXCEPT ![t] = Entered(t, c.sent[1])]
                         ELSE screen
          /\ Settled(t, f) /\ UNCHANGED reads
       \/ /\ c.got = "no" /\ Doubted(t, reads[t]) /\ Settled(t, f)
       \/ /\ c.got = "no" /\ OverAlready(t) /\ Reloaded(t) /\ token' = None
       \/ /\ c.got = "down" /\ Settled(t, f) /\ UNCHANGED <<token, screen, reads>>
    /\ UNCHANGED <<server, strays>>

\* api.logout, handleLogout: whatever the server said.
LandLogout(t) ==
  LET c == posts[t]["logoutBusy"] IN
    /\ c # None /\ c.got # "none"
    /\ token' = None
    /\ screen' = [screen EXCEPT ![t].who = None, ![t].view = "login"]
    /\ Settled(t, "logoutBusy")
    /\ UNCHANGED <<server, strays, reads>>

-----------------------------------------------------------------------------
\* The pages in front of the workspace; ChangePage is in the workspace too.
LoginPage(t) == Turn(t, "forgot") \/ \E p \in People : Login(t, p)
ForgotPage(t) == RequestReset(t) \/ (screen[t].view = "forgot" /\ Turn(t, "login"))
ResetPage(t) ==
  \/ \E p \in People : ResetPassword(t, p)
  \/ screen[t].view = "reset" /\ Turn(t, "login")
ChangePage(t) == ChangePassword(t) \/ Logout(t)

Page(t) ==
  \/ Start(t) \/ AskData(t) \/ Reload(t)
  \/ LoginPage(t) \/ ForgotPage(t) \/ ResetPage(t) \/ ChangePage(t)

Server(t) ==
  \/ \E u \in Urls : Serve(t, u) \/ ServeStray(t, u) \/ ServeDown(t, u)
  \/ \E f \in Flags : ServePost(t, f)

Landing(t) ==
  \/ LandData(t) \/ LandMe(t) \/ LandLogin(t) \/ LandReset(t) \/ LandLogout(t)
  \/ \E f \in Flags : LandChange(t, f)

Next ==
  \/ \E t \in Tabs : Page(t) \/ Server(t) \/ Landing(t)
  \/ \E p \in People : EndElsewhere(p)

\* The screens' timers go on asking, answers arrive, and the network is not
\* down, or flaky, for ever.
Fairness ==
  \A t \in Tabs :
    /\ WF_vars(AskData(t)) /\ WF_vars(LandData(t)) /\ WF_vars(LandMe(t))
    /\ \A u \in Urls : SF_vars(Serve(t, u))

Spec == Init /\ [][Next]_vars
FairSpec == Spec /\ Fairness

-----------------------------------------------------------------------------
TypeOK ==
  /\ token \in Tokens \cup {None}
  /\ current \in [People -> 0..MaxTokens] /\ made \in [People -> 0..MaxTokens]
  /\ temporary \subseteq People /\ strays \in 0..MaxStrays
  /\ screen \in [Tabs -> [view : Views, who : People \cup {None}, checking : BOOLEAN]]
  /\ reads \in [Tabs -> [Urls -> Reads \cup {None}]]
  /\ posts \in [Tabs -> [Flags -> Posts \cup {None}]]

\* The guard of handleSessionEnded is never left up: while it is, a check is
\* on its way whose answer lowers it or reloads the page.  A guard left up
\* would be a tab that never again notices that its session is over.
AGuardHasItsCheck ==
  \A t \in Tabs : screen[t].checking =>
    reads[t]["me"] # None /\ For(reads[t]["me"], "check")

\* A session the server honours is given up only by a sign-out, a password
\* reset, or an answer about /auth/me/ that is not the server's word on that
\* token: a stray one, or one to a request sent with an earlier token.  One
\* stray 401 on any other read never ends it.
StraysEndNothing ==
  [][ Honoured(token) /\ token' = None =>
        \E t \in Tabs :
          \/ LandLogout(t) \/ LandReset(t)
          \/ LandMe(t) /\ (reads[t]["me"].got = "stray" \/ reads[t]["me"].sent # token)
    ]_vars

\* A workspace does not stay up for ever on a session the server has ended.
DeadWorkspacesClose ==
  \A t \in Tabs :
    (screen[t].view = "workspace" /\ ~Honoured(token))
      ~> (screen[t].view # "workspace" \/ Honoured(token))
=============================================================================
