--------------------------- MODULE Browser_proofs ---------------------------
(***************************************************************************)
(* What the web application keeps to in the browser.                       *)
(*                                                                         *)
(* First the session (ClientSession): for any number of tabs, people,      *)
(* tokens and stray refusals, the guard of handleSessionEnded always has   *)
(* its check on the way, and a session the server honours is never ended   *)
(* by a stray refusal of some other read.  The second rests on a refusal   *)
(* being final: a token once refused was made before, and the server only  *)
(* ever honours one made since.                                            *)
(*                                                                         *)
(* Then the screens (Screens): for any tables within ScreensAssumption,    *)
(* any choices, rows and number of acts.  In turn: which flags are up and  *)
(* who lowers them, which form an answer may close, whose reads are shown, *)
(* and which saves those reads know of.                                    *)
(***************************************************************************)
EXTENDS ClientSession, Screens, TLAPS

Known(k) == k # None => k[2] <= made[k[1]]

\* What was answered: by whom, and with which tokens.
ReadsTell ==
  \A t \in Tabs, u \in Urls : reads[t][u] # None =>
    /\ Known(reads[t][u].sent)
    /\ reads[t][u].got = "yes" => reads[t][u].sent \in Tokens
    /\ reads[t][u].got = "no" => ~Honoured(reads[t][u].sent)

PostsTell ==
  \A t \in Tabs, f \in Flags : posts[t][f] # None =>
    LET c == posts[t][f] IN
      /\ Known(c.sent) /\ Known(c.gave)
      /\ c.kind \in {"login", "reset"} => c.who \in People
      /\ c.got = "yes" /\ c.kind \in {"login", "change"} => c.gave \in Tokens
      /\ c.got = "yes" /\ c.kind = "change" => c.sent \in Tokens

TokensTell == Known(token) /\ \A p \in People : current[p] <= made[p]

IInv == TypeOK /\ AGuardHasItsCheck /\ ReadsTell /\ PostsTell /\ TokensTell

-----------------------------------------------------------------------------
LEMMA InitEstablishes == Init => IInv
  <1> SUFFICES ASSUME Init PROVE IInv
    OBVIOUS
  <1> USE SessionAssumption
  <1>1. TypeOK
    <2>1. screen \in [Tabs -> [view : Views, who : People \cup {None}, checking : BOOLEAN]]
      <3>1. \A v \in Views : NewTab(v) \in [view : Views, who : People \cup {None}, checking : BOOLEAN]
        BY DEF NewTab
      <3>2. "loading" \in Views /\ "reset" \in Views
        BY DEF Views
      <3> QED BY <3>1, <3>2 DEF Init
    <2>2. current \in [People -> 0..MaxTokens] /\ made \in [People -> 0..MaxTokens]
      BY DEF Init
    <2> QED BY <2>1, <2>2 DEF Init, TypeOK
  <1>2. AGuardHasItsCheck /\ ReadsTell /\ PostsTell /\ TokensTell
    BY DEF Init, AGuardHasItsCheck, ReadsTell, PostsTell, TokensTell, Known, NewTab, Tokens
  <1> QED BY <1>1, <1>2 DEF IInv

\* A request that joins the one in flight, or goes out, with a known token.
LEMMA NewReadTells ==
  ASSUME NEW as \in Tokens \cup {None}, NEW caller \in Callers
  PROVE  LET r == NewRead(as, caller) IN
           r \in Reads /\ r # None /\ r.sent = as /\ r.got = "none" /\ r.by = {caller}
  <1>1. {caller} \in SUBSET Callers /\ "none" \in Answers
    BY DEF Answers
  <1>2. NewRead(as, caller) \in Reads
    BY <1>1 DEF NewRead, Reads
  <1> QED BY <1>2, SessionAssumption DEF NewRead

LEMMA JoinedTells ==
  ASSUME NEW c \in Reads, NEW caller \in Callers
  PROVE  LET r == JoinedRead(c, caller) IN
           r \in Reads /\ r # None /\ r.sent = c.sent /\ r.got = c.got /\ r.by = c.by \cup {caller}
  <1>1. JoinedRead(c, caller) \in Reads
    BY DEF Reads, JoinedRead
  <1> QED BY <1>1, SessionAssumption DEF Reads, JoinedRead

Gained(mine, r, u, why, as) ==
  /\ r \in [Urls -> Reads \cup {None}]
  /\ r[u] # None /\ For(r[u], why)
  /\ \A v \in Urls : mine[v] # None =>
       /\ r[v].sent = mine[v].sent /\ r[v].got = mine[v].got
       /\ r[v] # None /\ Whys(mine[v]) \subseteq Whys(r[v])
  /\ \A v \in Urls : mine[v] = None /\ r[v] # None =>
       r[v].sent = as /\ r[v].got = "none"

LEMMA AskedTells ==
  ASSUME NEW mine \in [Urls -> Reads \cup {None}], NEW u \in Urls,
         NEW why \in {"screen", "start", "check"}, NEW as \in Tokens \cup {None}
  PROVE  Gained(mine, Asked(mine, u, why, as), u, why, as)
  <1> DEFINE r == Asked(mine, u, why, as)
             caller == [why |-> why, as |-> as]
  <1>1. caller \in Callers
    BY DEF Callers
  <1>2. r = [mine EXCEPT ![u] = IF mine[u] = None THEN NewRead(as, caller)
               ELSE JoinedRead(mine[u], caller)]
    BY DEF Asked
  <1>3. CASE mine[u] = None
    <2>1. r[u] = NewRead(as, caller) /\ \A v \in Urls \ {u} : r[v] = mine[v]
      BY <1>2, <1>3
    <2>a. /\ NewRead(as, caller) \in Reads /\ NewRead(as, caller) # None
          /\ NewRead(as, caller).sent = as /\ NewRead(as, caller).got = "none"
          /\ NewRead(as, caller).by = {caller}
      BY <1>1, NewReadTells
    <2>b. caller.why = why
      OBVIOUS
    <2> HIDE DEF caller, r
    <2>2. r \in [Urls -> Reads \cup {None}] /\ r[u] # None
      BY <1>2, <1>3, <2>a
    <2>3. r[u].sent = as /\ r[u].got = "none" /\ For(r[u], why)
      BY <2>1, <2>a, <2>b DEF For, Whys
    <2> QED BY <1>3, <2>1, <2>2, <2>3 DEF r, Gained
  <1>4. CASE mine[u] # None
    <2> DEFINE c == mine[u]
    <2>1. r[u] = JoinedRead(c, caller) /\ \A v \in Urls \ {u} : r[v] = mine[v]
      BY <1>2, <1>4
    <2>2. c \in Reads
      BY <1>4
    <2>a. LET j == JoinedRead(c, caller) IN
            j \in Reads /\ j # None /\ j.sent = c.sent /\ j.got = c.got
            /\ j.by = c.by \cup {caller}
      BY <1>1, <2>2, JoinedTells
    <2>3. r[u] \in Reads /\ r[u] # None /\ r[u].sent = c.sent /\ r[u].got = c.got
            /\ r[u].by = c.by \cup {caller}
      BY <2>1, <2>a
    <2>b. caller.why = why
      OBVIOUS
    <2>d. c.by \subseteq r[u].by /\ caller \in r[u].by
      BY <2>3
    <2> HIDE DEF caller, r
    <2>4. r \in [Urls -> Reads \cup {None}]
      <3>1. r = [mine EXCEPT ![u] = r[u]]
        BY <1>2, <1>4, <2>1
      <3> QED BY <2>3, <3>1
    <2>5. For(r[u], why) /\ Whys(c) \subseteq Whys(r[u])
      BY <2>d, <2>b DEF For, Whys
    <2> QED BY <1>4, <2>1, <2>3, <2>4, <2>5 DEF r, Gained
  <1> QED BY <1>3, <1>4

-----------------------------------------------------------------------------
\* A tab's reads, or some of them dropped.
Part(t, mine) ==
  /\ mine \in [Urls -> Reads \cup {None}]
  /\ \A v \in Urls : mine[v] = reads[t][v] \/ mine[v] = None

\* Every read of r is one of the tab's, or a new one sent with the token.
Follows(t, r) ==
  \A v \in Urls : r[v] # None =>
    \/ reads[t][v] # None /\ r[v].sent = reads[t][v].sent /\ r[v].got = reads[t][v].got
    \/ r[v].sent = token /\ r[v].got = "none"

TokensStand == UNCHANGED <<current, made>>

\* While no token is made or ended, what is known stays known.
LEMMA StandingTells ==
  ASSUME TokensStand
  PROVE  \A k : (Known(k) <=> Known(k)') /\ (Honoured(k) <=> Honoured(k)')
  BY DEF TokensStand, Known, Honoured

\* Dropping reads, or asking one more, keeps what the reads tell.
LEMMA ReadsKept ==
  ASSUME IInv, TokensStand, NEW t \in Tabs, NEW mine, Part(t, mine),
         \/ reads' = [reads EXCEPT ![t] = mine]
         \/ \E u \in Urls, why \in {"screen", "start", "check"} :
              reads' = [reads EXCEPT ![t] = Asked(mine, u, why, token)]
  PROVE  reads' \in [Tabs -> [Urls -> Reads \cup {None}]] /\ ReadsTell'
  <1> USE DEF Part
  <1>0. token \in Tokens \cup {None} /\ Known(token) /\ reads \in [Tabs -> [Urls -> Reads \cup {None}]]
    BY DEF IInv, TypeOK, TokensTell
  <1>1. \E r \in [Urls -> Reads \cup {None}] :
          reads' = [reads EXCEPT ![t] = r] /\ Follows(t, r)
    <2>1. CASE reads' = [reads EXCEPT ![t] = mine]
      BY <2>1 DEF Follows
    <2>2. ASSUME NEW u \in Urls, NEW why \in {"screen", "start", "check"},
                 reads' = [reads EXCEPT ![t] = Asked(mine, u, why, token)]
          PROVE  \E r \in [Urls -> Reads \cup {None}] :
                   reads' = [reads EXCEPT ![t] = r] /\ Follows(t, r)
      <3> DEFINE r == Asked(mine, u, why, token)
      <3>1. Gained(mine, r, u, why, token)
        BY <1>0, AskedTells
      <3> HIDE DEF r
      <3>2. reads' = [reads EXCEPT ![t] = r]
        BY <2>2 DEF r
      <3>3. Follows(t, r)
        BY <3>1 DEF Follows, Gained
      <3> QED BY <3>1, <3>2, <3>3 DEF Gained
    <2> QED BY <2>1, <2>2
  <1>2. PICK r \in [Urls -> Reads \cup {None}] :
            reads' = [reads EXCEPT ![t] = r] /\ Follows(t, r)
    BY <1>1
  <1>3. reads' \in [Tabs -> [Urls -> Reads \cup {None}]]
    BY <1>0, <1>2
  <1>4. ASSUME NEW s \in Tabs, NEW v \in Urls, reads'[s][v] # None
        PROVE  /\ Known(reads'[s][v].sent)
               /\ reads'[s][v].got = "yes" => reads'[s][v].sent \in Tokens
               /\ reads'[s][v].got = "no" => ~Honoured(reads'[s][v].sent)
    <2>1. CASE s = t
      <3>1. reads'[s][v] = r[v]
        BY <1>0, <1>2, <2>1
      <3>2. CASE reads[t][v] # None /\ r[v].sent = reads[t][v].sent /\ r[v].got = reads[t][v].got
        BY <3>1, <3>2 DEF IInv, ReadsTell
      <3>3. CASE r[v].sent = token /\ r[v].got = "none"
        BY <1>0, <3>1, <3>3
      <3> QED BY <1>2, <1>4, <3>1, <3>2, <3>3 DEF Follows
    <2>2. CASE s # t
      BY <1>0, <1>2, <1>4, <2>2 DEF IInv, ReadsTell
    <2> QED BY <2>1, <2>2
  <1>5. ReadsTell'
    BY <1>4, StandingTells DEF ReadsTell
  <1> QED BY <1>3, <1>5

\* Calls that are dropped, or left as they are, tell what they told.
LEMMA PostsKept ==
  ASSUME IInv, TokensStand,
         \A s \in Tabs, f \in Flags : posts'[s][f] = posts[s][f] \/ posts'[s][f] = None
  PROVE  PostsTell'
  BY StandingTells DEF IInv, PostsTell

\* A guard that stays up keeps the check it had.
CheckStays(s) ==
  reads[s]["me"] # None /\ For(reads[s]["me"], "check") =>
    (reads[s]["me"] # None /\ For(reads[s]["me"], "check"))'

LEMMA GuardKept ==
  ASSUME IInv, \A s \in Tabs : screen'[s].checking => screen[s].checking /\ CheckStays(s)
  PROVE  AGuardHasItsCheck'
  BY DEF IInv, AGuardHasItsCheck, CheckStays

\* Asking keeps every check there was.
LEMMA AskingKeepsChecks ==
  ASSUME IInv, NEW t \in Tabs, NEW u \in Urls, NEW why \in {"screen", "start", "check"},
         NEW mine, Part(t, mine), mine["me"] = reads[t]["me"],
         reads' = [reads EXCEPT ![t] = Asked(mine, u, why, token)]
  PROVE  /\ \A s \in Tabs : CheckStays(s)
         /\ reads'[t][u] # None /\ For(reads'[t][u], why)
  <1> DEFINE r == Asked(mine, u, why, token)
  <1>0. token \in Tokens \cup {None} /\ reads \in [Tabs -> [Urls -> Reads \cup {None}]] /\ "me" \in Urls
    BY DEF IInv, TypeOK, Urls
  <1>a. mine \in [Urls -> Reads \cup {None}]
    BY DEF Part
  <1>b. Gained(mine, r, u, why, token)
    BY <1>0, <1>a, AskedTells
  <1> HIDE DEF r
  <1>1. /\ r[u] # None /\ For(r[u], why)
        /\ \A v \in Urls : mine[v] # None => r[v] # None /\ (For(mine[v], "check") => For(r[v], "check"))
    BY <1>b DEF Gained, For
  <1>2. reads' = [reads EXCEPT ![t] = r]
    BY DEF r
  <1>3. reads'[t] = r /\ \A s \in Tabs \ {t} : reads'[s] = reads[s]
    BY <1>0, <1>2
  <1>4. CheckStays(t)
    BY <1>0, <1>1, <1>3 DEF CheckStays
  <1>5. \A s \in Tabs \ {t} : CheckStays(s)
    BY <1>3 DEF CheckStays, For, Whys
  <1> QED BY <1>1, <1>3, <1>4, <1>5

LEMMA RestIsPart ==
  ASSUME IInv, NEW t \in Tabs, NEW u \in Urls
  PROVE  /\ Part(t, reads[t]) /\ Part(t, Rest(t, u))
         /\ u = "data" => Rest(t, u)["me"] = reads[t]["me"]
  BY DEF IInv, TypeOK, Part, Rest, Urls

\* A page that is loaded anew has nothing under way.
LEMMA ReloadKeeps ==
  ASSUME IInv, TokensStand, NEW t \in Tabs, Reloaded(t), Known(token)', token' \in Tokens \cup {None},
         UNCHANGED <<temporary, strays>>
  PROVE  IInv'
  <1>1. [u \in Urls |-> None] \in [Urls -> Reads \cup {None}] /\ Part(t, [u \in Urls |-> None])
    BY DEF Part
  <1>2. reads' \in [Tabs -> [Urls -> Reads \cup {None}]] /\ ReadsTell'
    BY <1>1, ReadsKept DEF Reloaded
  <1>3. NewTab("loading") \in [view : Views, who : People \cup {None}, checking : BOOLEAN]
    BY DEF NewTab, Views
  <1>4. TypeOK'
    BY <1>2, <1>3 DEF IInv, TypeOK, Reloaded, TokensStand
  <1>5. \A s \in Tabs, f \in Flags : posts'[s][f] = posts[s][f] \/ posts'[s][f] = None
    BY DEF Reloaded, IInv, TypeOK
  <1>6. \A s \in Tabs : screen'[s].checking => screen[s].checking /\ CheckStays(s)
    BY DEF Reloaded, IInv, TypeOK, NewTab, CheckStays, For, Whys
  <1>7. TokensTell'
    BY StandingTells DEF TokensTell, IInv, TokensStand
  <1> QED BY <1>2, <1>4, <1>5, <1>6, <1>7, PostsKept, GuardKept DEF IInv

\* A 401: the guard is up already, or goes up with the check it stands for.
LEMMA DoubtKeeps ==
  ASSUME IInv, TokensStand, NEW t \in Tabs, NEW mine, Part(t, mine), mine["me"] = reads[t]["me"],
         Doubted(t, mine), posts' \in [Tabs -> [Flags -> Posts \cup {None}]], PostsTell',
         UNCHANGED <<temporary, strays>>
  PROVE  IInv'
  <1>0. "me" \in Urls
    BY DEF Urls
  <1>1. reads' \in [Tabs -> [Urls -> Reads \cup {None}]] /\ ReadsTell'
    <2>1. CASE reads' = [reads EXCEPT ![t] = mine]
      BY <2>1, ReadsKept
    <2>2. CASE reads' = [reads EXCEPT ![t] = Asked(mine, "me", "check", token)]
      BY <1>0, <2>2, ReadsKept
    <2> QED BY <2>1, <2>2 DEF Doubted
  <1>2. token' = token /\ TokensTell'
    BY StandingTells DEF Doubted, IInv, TokensTell, TokensStand
  <1>3. screen' \in [Tabs -> [view : Views, who : People \cup {None}, checking : BOOLEAN]]
    <2>1. screen' = screen \/ screen' = [screen EXCEPT ![t].checking = TRUE]
      BY DEF Doubted
    <2>2. screen \in [Tabs -> [view : Views, who : People \cup {None}, checking : BOOLEAN]]
      BY DEF IInv, TypeOK
    <2> QED BY <2>1, <2>2
  <1>4. AGuardHasItsCheck'
    <2>1. CASE screen' = screen /\ reads' = [reads EXCEPT ![t] = mine]
      <3>1. \A s \in Tabs : CheckStays(s)
        BY <2>1 DEF CheckStays, For, Whys, IInv, TypeOK
      <3> QED BY <2>1, <3>1, GuardKept
    <2>2. CASE /\ screen' = [screen EXCEPT ![t].checking = TRUE]
               /\ reads' = [reads EXCEPT ![t] = Asked(mine, "me", "check", token)]
      <3>1. (\A s \in Tabs : CheckStays(s)) /\ reads'[t]["me"] # None /\ For(reads'[t]["me"], "check")
        BY <1>0, <2>2, AskingKeepsChecks
      <3>2. \A s \in Tabs \ {t} : screen'[s] = screen[s]
        BY <2>2 DEF IInv, TypeOK
      <3>3. For(reads[t]["me"], "check")' = For(reads'[t]["me"], "check")
        BY DEF For, Whys
      <3> QED BY <3>1, <3>2, <3>3 DEF AGuardHasItsCheck, IInv, CheckStays
    <2> QED BY <2>1, <2>2 DEF Doubted
  <1> QED BY <1>1, <1>2, <1>3, <1>4 DEF IInv, TypeOK, TokensStand

-----------------------------------------------------------------------------
(* The page asks.                                                          *)

LEMMA StartKeeps == ASSUME IInv, NEW t \in Tabs, Start(t) PROVE IInv'
  <1>0. TokensStand /\ UNCHANGED <<token, temporary, strays, posts>> /\ Part(t, reads[t]) /\ "me" \in Urls
    BY RestIsPart DEF Start, server, TokensStand, Urls
  <1>1. TokensTell' /\ PostsTell'
    BY <1>0, StandingTells, PostsKept DEF IInv, TokensTell, TokensStand
  <1>2. CASE UNCHANGED reads /\ screen' = [screen EXCEPT ![t].view = "login"]
    <2>1. TypeOK'
      BY <1>0, <1>2 DEF IInv, TypeOK, TokensStand, Views
    <2>2. ReadsTell'
      BY <1>0, <1>2, StandingTells DEF IInv, ReadsTell
    <2>3. \A s \in Tabs : screen'[s].checking = screen[s].checking /\ CheckStays(s)
      BY <1>2 DEF IInv, TypeOK, CheckStays, For, Whys
    <2> QED BY <1>1, <2>1, <2>2, <2>3, GuardKept DEF IInv
  <1>3. CASE UNCHANGED screen /\ reads' = [reads EXCEPT ![t] = Asked(reads[t], "me", "start", token)]
    <2>1. reads' \in [Tabs -> [Urls -> Reads \cup {None}]] /\ ReadsTell'
      BY <1>0, <1>3, ReadsKept
    <2>2. \A s \in Tabs : CheckStays(s)
      BY <1>0, <1>3, AskingKeepsChecks
    <2> QED BY <1>0, <1>1, <1>3, <2>1, <2>2, GuardKept DEF IInv, TypeOK, TokensStand
  <1> QED BY <1>2, <1>3 DEF Start

LEMMA AskDataKeeps == ASSUME IInv, NEW t \in Tabs, AskData(t) PROVE IInv'
  <1>0. /\ TokensStand /\ UNCHANGED <<token, temporary, strays, posts, screen>>
        /\ Part(t, reads[t]) /\ "data" \in Urls
        /\ reads' = [reads EXCEPT ![t] = Asked(reads[t], "data", "screen", token)]
    BY RestIsPart DEF AskData, server, TokensStand, Urls
  <1>1. TokensTell' /\ PostsTell'
    BY <1>0, StandingTells, PostsKept DEF IInv, TokensTell, TokensStand
  <1>2. reads' \in [Tabs -> [Urls -> Reads \cup {None}]] /\ ReadsTell'
    BY <1>0, ReadsKept
  <1>3. \A s \in Tabs : CheckStays(s)
    BY <1>0, AskingKeepsChecks
  <1> QED BY <1>0, <1>1, <1>2, <1>3, GuardKept DEF IInv, TypeOK, TokensStand

LEMMA SendKeeps ==
  ASSUME IInv, NEW t \in Tabs, NEW f \in Flags,
         NEW kind \in {"login", "logout", "change", "forgot", "reset"},
         NEW who \in People \cup {None}, kind \in {"login", "reset"} => who \in People,
         Send(t, f, kind, who)
  PROVE  IInv'
  <1> DEFINE sent == IF kind \in {"logout", "change"} THEN token ELSE None
             call == [kind |-> kind, who |-> who, got |-> "none", gave |-> None, sent |-> sent]
  <1>0. /\ TokensStand /\ UNCHANGED <<token, temporary, strays, screen, reads>>
        /\ posts' = [posts EXCEPT ![t][f] = call]
    BY DEF Send, server, TokensStand
  <1>1. call \in Posts
    BY DEF IInv, TypeOK, Posts, Answers
  <1>2. Known(call.sent) /\ Known(call.gave)
    BY DEF IInv, TokensTell, Known
  <1> HIDE DEF call
  <1>3. /\ posts'[t][f] = call
        /\ \A s \in Tabs, g \in Flags : s # t \/ g # f => posts'[s][g] = posts[s][g]
        /\ posts' \in [Tabs -> [Flags -> Posts \cup {None}]]
    BY <1>0, <1>1 DEF IInv, TypeOK
  <1>4. PostsTell'
    <2>1. /\ call.kind \in {"login", "reset"} => call.who \in People
          /\ call.got = "none"
      BY DEF call
    <2> QED BY <1>0, <1>2, <1>3, <2>1, StandingTells DEF IInv, PostsTell
  <1>5. TokensTell' /\ ReadsTell'
    BY <1>0, StandingTells DEF IInv, TokensTell, ReadsTell, TokensStand
  <1>6. \A s \in Tabs : CheckStays(s)
    BY <1>0 DEF CheckStays, For, Whys
  <1> QED BY <1>0, <1>3, <1>4, <1>5, <1>6, GuardKept DEF IInv, TypeOK, TokensStand

LEMMA PageKeeps == ASSUME IInv, NEW t \in Tabs, Page(t) PROVE IInv'
  <1>1. CASE Reload(t)
    BY <1>1, ReloadKeeps, StandingTells DEF Reload, server, TokensStand, IInv, TypeOK, TokensTell
  <1>2. ASSUME NEW v \in {"login", "forgot"}, Turn(t, v) PROVE IInv'
    <2>0. /\ TokensStand /\ UNCHANGED <<token, temporary, strays, reads, posts>>
          /\ screen' = [screen EXCEPT ![t].view = v]
      BY <1>2 DEF Turn, server, TokensStand
    <2>1. TokensTell' /\ PostsTell' /\ ReadsTell'
      BY <2>0, StandingTells, PostsKept DEF IInv, TokensTell, ReadsTell, TokensStand
    <2>2. TypeOK'
      BY <2>0 DEF IInv, TypeOK, TokensStand, Views
    <2>3. \A s \in Tabs : screen'[s].checking = screen[s].checking /\ CheckStays(s)
      BY <2>0 DEF IInv, TypeOK, CheckStays, For, Whys
    <2> QED BY <2>1, <2>2, <2>3, GuardKept DEF IInv
  <1>3. ASSUME NEW p \in People, Login(t, p) PROVE IInv'
    BY <1>3, SendKeeps DEF Login, Flags
  <1>4. ASSUME NEW p \in People, ResetPassword(t, p) PROVE IInv'
    BY <1>4, SendKeeps DEF ResetPassword, Flags
  <1>5. CASE RequestReset(t)
    BY <1>5, SendKeeps DEF RequestReset, Flags
  <1>6. CASE Logout(t)
    BY <1>6, SendKeeps DEF Logout, Flags
  <1>7. CASE ChangePassword(t)
    <2>1. screen[t].who \in People \cup {None}
      BY DEF IInv, TypeOK
    <2> QED BY <1>7, <2>1, SendKeeps DEF ChangePassword, Flags
  <1> QED BY <1>1, <1>2, <1>3, <1>4, <1>5, <1>6, <1>7, StartKeeps, AskDataKeeps
     DEF Page, LoginPage, ForgotPage, ResetPage, ChangePage

-----------------------------------------------------------------------------
(* The server answers.                                                     *)

LEMMA HonouredIsAToken ==
  ASSUME IInv, NEW k, Honoured(k)
  PROVE  k \in Tokens /\ k[1] \in People /\ k = <<k[1], current[k[1]]>>
  <1>1. PICK p \in People : current[p] > 0 /\ k = <<p, current[p]>>
    BY DEF Honoured
  <1>2. current[p] \in 1..MaxTokens
    BY <1>1, SessionAssumption DEF IInv, TypeOK
  <1> QED BY <1>1, <1>2 DEF Tokens

LEMMA AnswerKeeps ==
  ASSUME IInv, NEW t \in Tabs, NEW u \in Urls, NEW got \in Answers, Answer(t, u, got),
         got = "yes" => Honoured(reads[t][u].sent),
         got = "no" => ~Honoured(reads[t][u].sent),
         strays' \in 0..MaxStrays
  PROVE  IInv'
  <1> DEFINE c == reads[t][u]
             new == [c EXCEPT !.got = got]
  <1>0. /\ TokensStand /\ UNCHANGED <<token, temporary, screen, posts>>
        /\ reads' = [reads EXCEPT ![t][u] = new] /\ c # None /\ c \in Reads
    BY DEF Answer, server, TokensStand, IInv, TypeOK
  <1>1. new \in Reads /\ new # None /\ new.sent = c.sent /\ new.got = got /\ new.by = c.by
    BY <1>0, SessionAssumption DEF Reads
  <1>2. Known(c.sent)
    BY <1>0 DEF IInv, ReadsTell
  <1>3. got = "yes" => c.sent \in Tokens
    BY HonouredIsAToken
  <1> HIDE DEF new
  <1>4. /\ reads'[t][u] = new
        /\ \A s \in Tabs, v \in Urls : s # t \/ v # u => reads'[s][v] = reads[s][v]
        /\ reads' \in [Tabs -> [Urls -> Reads \cup {None}]]
    BY <1>0, <1>1 DEF IInv, TypeOK
  <1>5. ReadsTell'
    BY <1>0, <1>1, <1>2, <1>3, <1>4, StandingTells DEF IInv, ReadsTell
  <1>6. TokensTell' /\ PostsTell'
    BY <1>0, StandingTells, PostsKept DEF IInv, TokensTell, TokensStand
  <1>7. \A s \in Tabs : CheckStays(s)
    <2>1. \A s \in Tabs : reads[s]["me"] # None =>
            reads'[s]["me"] # None /\ reads'[s]["me"].by = reads[s]["me"].by
      BY <1>0, <1>1, <1>4 DEF Urls
    <2> QED BY <2>1 DEF CheckStays, For, Whys
  <1> QED BY <1>0, <1>4, <1>5, <1>6, <1>7, GuardKept DEF IInv, TypeOK, TokensStand

\* A token once made and refused is never honoured again.
LEMMA NeverAgain ==
  ASSUME IInv, NEW p \in People, Minted(p, TRUE) \/ Minted(p, FALSE) \/ Ended(p)
  PROVE  /\ \A k \in Tokens \cup {None} :
              Known(k) => Known(k)' /\ (~Honoured(k) => ~Honoured(k)')
         /\ current' \in [People -> 0..MaxTokens] /\ made' \in [People -> 0..MaxTokens]
         /\ \A q \in People : current'[q] <= made'[q]
  <1> USE SessionAssumption
  <1>1. current \in [People -> 0..MaxTokens] /\ made \in [People -> 0..MaxTokens]
        /\ \A q \in People : current[q] <= made[q]
    BY DEF IInv, TypeOK, TokensTell
  <1>2. /\ \A q \in People : made[q] <= made'[q]
        /\ \A q \in People : current'[q] = current[q] \/ current'[q] = 0 \/ current'[q] = made[q] + 1
        /\ current' \in [People -> 0..MaxTokens] /\ made' \in [People -> 0..MaxTokens]
        /\ \A q \in People : current'[q] <= made'[q]
    BY <1>1 DEF Minted, Ended
  <1>3. ASSUME NEW k \in Tokens \cup {None}, Known(k)
        PROVE  Known(k)' /\ (~Honoured(k) => ~Honoured(k)')
    <2>1. CASE k = None
      BY <2>1, <1>2 DEF Known, Honoured, Tokens
    <2>2. CASE k \in Tokens
      <3>1. PICK q \in People, n \in 1..MaxTokens : k = <<q, n>>
        BY <2>2 DEF Tokens
      <3>2. k # None /\ n <= made[q]
        BY <1>3, <2>2, <3>1 DEF Known
      <3>3. Known(k)'
        BY <1>1, <1>2, <3>1, <3>2 DEF Known
      <3>4. Honoured(k)' => Honoured(k)
        BY <1>1, <1>2, <3>1, <3>2 DEF Honoured
      <3> QED BY <3>3, <3>4
    <2> QED BY <2>1, <2>2
  <1> QED BY <1>2, <1>3

KnownThen(k) == k # None => k[2] <= made'[k[1]]

\* What the server did with a call leaves every earlier token as it was, or
\* no longer honoured.
LEMMA HandlingKeeps ==
  ASSUME IInv, NEW c \in Posts, Handled(c),
         c.kind \in {"login", "reset"} => c.who \in People,
         c.kind \in {"logout", "change"} => Honoured(c.sent)
  PROVE  /\ \A k \in Tokens \cup {None} :
              Known(k) => Known(k)' /\ (~Honoured(k) => ~Honoured(k)')
         /\ current' \in [People -> 0..MaxTokens] /\ made' \in [People -> 0..MaxTokens]
         /\ \A q \in People : current'[q] <= made'[q]
         /\ temporary' \subseteq People
         /\ Gave(c) \in Tokens \cup {None} /\ KnownThen(Gave(c))
         /\ c.kind \in {"login", "change"} => Gave(c) \in Tokens
  <1> USE SessionAssumption
  <1>0. /\ temporary \subseteq People /\ current \in [People -> 0..MaxTokens]
        /\ made \in [People -> 0..MaxTokens] /\ \A q \in People : current[q] <= made[q]
    BY DEF IInv, TypeOK, TokensTell
  <1>s. c.kind \in {"logout", "change"} => c.sent[1] \in People
    BY HonouredIsAToken
  <1>1. CASE c.kind = "login"
    <2>1. CASE Minted(c.who, FALSE)
      <3>1. current'[c.who] \in 1..MaxTokens /\ current'[c.who] <= made'[c.who]
        BY <1>0, <1>1, <2>1 DEF Minted
      <3>2. Gave(c) = <<c.who, current'[c.who]>>
        BY <1>1 DEF Gave
      <3>3. Gave(c) \in Tokens /\ KnownThen(Gave(c))
        BY <1>1, <3>1, <3>2 DEF Tokens, KnownThen
      <3> QED BY <1>0, <1>1, <2>1, <3>3, NeverAgain DEF Handled
    <2>2. CASE current[c.who] > 0 /\ TokensStand
      <3>1. current'[c.who] \in 1..MaxTokens /\ current'[c.who] <= made'[c.who]
        BY <1>0, <1>1, <2>2 DEF TokensStand
      <3>2. Gave(c) = <<c.who, current'[c.who]>>
        BY <1>1 DEF Gave
      <3>3. Gave(c) \in Tokens /\ KnownThen(Gave(c))
        BY <1>1, <3>1, <3>2 DEF Tokens, KnownThen
      <3>4. temporary' = temporary
        BY <1>1 DEF Handled
      <3>5. \A k \in Tokens \cup {None} : Known(k) => Known(k)' /\ (~Honoured(k) => ~Honoured(k)')
        BY <2>2, StandingTells
      <3> QED BY <1>0, <2>2, <3>3, <3>4, <3>5 DEF TokensStand
    <2> QED BY <1>1, <2>1, <2>2 DEF Handled, TokensStand
  <1>2. CASE c.kind = "change"
    <2>1. Minted(c.sent[1], TRUE) /\ temporary' = temporary \ {c.sent[1]}
      BY <1>2 DEF Handled
    <2>2. current'[c.sent[1]] \in 1..MaxTokens /\ current'[c.sent[1]] <= made'[c.sent[1]]
      BY <1>0, <1>2, <1>s, <2>1 DEF Minted
    <2>3. Gave(c) = <<c.sent[1], current'[c.sent[1]]>>
      BY <1>2 DEF Gave
    <2>4. Gave(c) \in Tokens /\ KnownThen(Gave(c))
      BY <1>2, <1>s, <2>2, <2>3 DEF Tokens, KnownThen
    <2> QED BY <1>0, <1>2, <1>s, <2>1, <2>4, NeverAgain
  <1>3. CASE c.kind = "logout"
    <2>1. Ended(c.sent[1]) /\ temporary' = temporary /\ Gave(c) = None
      BY <1>3 DEF Handled, Gave
    <2> QED BY <1>0, <1>3, <1>s, <2>1, NeverAgain DEF KnownThen
  <1>4. CASE c.kind = "reset"
    <2>1. Ended(c.who) /\ temporary' = temporary \ {c.who} /\ Gave(c) = None
      BY <1>4 DEF Handled, Gave
    <2> QED BY <1>0, <1>4, <2>1, NeverAgain DEF KnownThen
  <1>5. CASE c.kind = "forgot"
    <2>1. TokensStand /\ temporary' = temporary /\ Gave(c) = None
      BY <1>5 DEF Handled, Gave, server, TokensStand
    <2>2. \A k \in Tokens \cup {None} : Known(k) => Known(k)' /\ (~Honoured(k) => ~Honoured(k)')
      BY <2>1, StandingTells
    <2> QED BY <1>0, <1>5, <2>1, <2>2 DEF TokensStand, KnownThen
  <1> QED BY <1>1, <1>2, <1>3, <1>4, <1>5 DEF Posts

LEMMA ServePostKeeps ==
  ASSUME IInv, NEW t \in Tabs, NEW f \in Flags, ServePost(t, f) PROVE IInv'
  <1> DEFINE c == posts[t][f]
  <1>0. /\ c # None /\ c \in Posts /\ c.got = "none"
        /\ UNCHANGED <<token, strays, screen, reads>>
        /\ Known(c.sent) /\ Known(c.gave)
        /\ c.kind \in {"login", "reset"} => c.who \in People
    BY DEF ServePost, IInv, TypeOK, PostsTell
  <1>g. /\ posts \in [Tabs -> [Flags -> Posts \cup {None}]]
        /\ \A s \in Tabs, h \in Flags : posts[s][h] # None =>
             posts[s][h].sent \in Tokens \cup {None} /\ posts[s][h].gave \in Tokens \cup {None}
        /\ \A s \in Tabs, v \in Urls : reads[s][v] # None => reads[s][v].sent \in Tokens \cup {None}
        /\ token \in Tokens \cup {None}
    BY DEF IInv, TypeOK, Posts, Reads
  <1>c. AGuardHasItsCheck'
    BY <1>0, GuardKept DEF CheckStays, For, Whys
  <1>1. CASE /\ c.kind \in {"logout", "change"} => Honoured(c.sent)
             /\ Handled(c)
             /\ posts' = [posts EXCEPT ![t][f] = [c EXCEPT !.got = "yes", !.gave = Gave(c)]]
    <2>1. /\ \A k \in Tokens \cup {None} :
               Known(k) => Known(k)' /\ (~Honoured(k) => ~Honoured(k)')
          /\ current' \in [People -> 0..MaxTokens] /\ made' \in [People -> 0..MaxTokens]
          /\ \A q \in People : current'[q] <= made'[q]
          /\ temporary' \subseteq People
          /\ Gave(c) \in Tokens \cup {None} /\ KnownThen(Gave(c))
          /\ c.kind \in {"login", "change"} => Gave(c) \in Tokens
      BY <1>0, <1>1, HandlingKeeps
    <2>2. PICK g \in Tokens \cup {None} :
            /\ posts' = [posts EXCEPT ![t][f] = [c EXCEPT !.got = "yes", !.gave = g]]
            /\ KnownThen(g) /\ (c.kind \in {"login", "change"} => g \in Tokens)
      BY <1>1, <2>1
    <2> DEFINE new == [c EXCEPT !.got = "yes", !.gave = g]
    <2>3. new \in Posts /\ new.sent = c.sent /\ new.kind = c.kind /\ new.who = c.who
            /\ new.gave = g /\ new.got = "yes"
      BY <1>0 DEF Posts, Answers
    <2> HIDE DEF new
    <2>4. /\ posts'[t][f] = new
          /\ \A s \in Tabs, h \in Flags : s # t \/ h # f => posts'[s][h] = posts[s][h]
          /\ posts' \in [Tabs -> [Flags -> Posts \cup {None}]]
      BY <1>g, <2>2, <2>3 DEF new
    <2>5. c.kind = "change" => c.sent \in Tokens
      BY <1>1, HonouredIsAToken
    <2>6. PostsTell'
      <3>1. \A k \in Tokens \cup {None} : Known(k) => KnownThen(k)
        BY <2>1 DEF Known, KnownThen
      <3>2. ASSUME NEW s \in Tabs, NEW h \in Flags, posts'[s][h] # None
            PROVE  LET d == posts'[s][h] IN
                     /\ KnownThen(d.sent) /\ KnownThen(d.gave)
                     /\ d.kind \in {"login", "reset"} => d.who \in People
                     /\ d.got = "yes" /\ d.kind \in {"login", "change"} => d.gave \in Tokens
                     /\ d.got = "yes" /\ d.kind = "change" => d.sent \in Tokens
        <4>1. CASE s = t /\ h = f
          <5>1. KnownThen(c.sent)
            BY <1>0, <1>g, <3>1
          <5> QED BY <1>0, <2>2, <2>3, <2>4, <2>5, <4>1, <5>1
        <4>2. CASE s # t \/ h # f
          <5>1. posts'[s][h] = posts[s][h] /\ posts[s][h] # None
            BY <2>4, <3>2, <4>2
          <5> QED BY <1>g, <3>1, <5>1 DEF IInv, PostsTell
        <4> QED BY <4>1, <4>2
      <3> QED BY <3>2 DEF PostsTell, Known, KnownThen
    <2>7. ReadsTell' /\ TokensTell'
      <3>1. \A k \in Tokens \cup {None} : Known(k) => Known(k)'
        BY <2>1
      <3>2. \A k \in Tokens \cup {None} : ~Honoured(k) /\ Known(k) => ~Honoured(k)'
        BY <2>1
      <3>3. ASSUME NEW s \in Tabs, NEW v \in Urls, reads[s][v] # None
            PROVE  /\ Known(reads[s][v].sent)'
                   /\ reads[s][v].got = "yes" => reads[s][v].sent \in Tokens
                   /\ reads[s][v].got = "no" => ~Honoured(reads[s][v].sent)'
        <4>1. reads[s][v].sent \in Tokens \cup {None} /\ Known(reads[s][v].sent)
          BY <1>g, <3>3 DEF IInv, ReadsTell
        <4>2. reads[s][v].got = "no" => ~Honoured(reads[s][v].sent)
          BY <3>3 DEF IInv, ReadsTell
        <4>3. reads' = reads
          BY <1>0
        <4>4. PICK k \in Tokens \cup {None} : k = reads[s][v].sent
          BY <4>1
        <4>5. Known(k)' /\ (reads[s][v].got = "no" => ~Honoured(k)')
          BY <3>1, <3>2, <4>1, <4>2, <4>4
        <4> QED BY <3>3, <4>3, <4>4, <4>5 DEF IInv, ReadsTell, Known, Honoured
      <3>4. ReadsTell'
        BY <1>0, <3>3 DEF ReadsTell, Known, Honoured
      <3>5. Known(token)'
        <4>1. PICK k \in Tokens \cup {None} : k = token
          BY <1>g
        <4>2. Known(k)'
          BY <3>1, <4>1 DEF IInv, TokensTell
        <4> QED BY <1>0, <4>1, <4>2 DEF Known
      <3> QED BY <2>1, <3>4, <3>5 DEF TokensTell
    <2> QED BY <1>0, <1>c, <2>1, <2>4, <2>6, <2>7 DEF IInv, TypeOK
  <1>2. ASSUME NEW got \in {"no", "down"}, TokensStand, temporary' = temporary,
               posts' = [posts EXCEPT ![t][f].got = got]
        PROVE  IInv'
    <2> DEFINE new == [c EXCEPT !.got = got]
    <2>1. new \in Posts /\ new.sent = c.sent /\ new.kind = c.kind /\ new.who = c.who
            /\ new.gave = c.gave /\ new.got = got
      BY <1>0 DEF Posts, Answers
    <2> HIDE DEF new
    <2>2. /\ posts'[t][f] = new
          /\ \A s \in Tabs, h \in Flags : s # t \/ h # f => posts'[s][h] = posts[s][h]
          /\ posts' \in [Tabs -> [Flags -> Posts \cup {None}]]
      BY <1>g, <1>2, <2>1 DEF new
    <2>3. PostsTell'
      BY <1>0, <1>2, <2>1, <2>2, StandingTells DEF IInv, PostsTell
    <2>4. ReadsTell' /\ TokensTell'
      BY <1>0, <1>2, StandingTells DEF IInv, ReadsTell, TokensTell, TokensStand
    <2> QED BY <1>0, <1>2, <1>c, <2>2, <2>3, <2>4 DEF IInv, TypeOK, TokensStand
  <1> QED BY <1>1, <1>2 DEF ServePost, server, TokensStand

LEMMA ElsewhereKeeps == ASSUME IInv, NEW p \in People, EndElsewhere(p) PROVE IInv'
  <1>0. /\ Ended(p) /\ UNCHANGED <<token, temporary, strays, screen, reads, posts>>
    BY DEF EndElsewhere
  <1>1. /\ \A k \in Tokens \cup {None} :
             Known(k) => Known(k)' /\ (~Honoured(k) => ~Honoured(k)')
        /\ current' \in [People -> 0..MaxTokens] /\ made' = made
        /\ \A q \in People : current'[q] <= made'[q]
    BY <1>0, NeverAgain DEF Ended
  <1>2. \A k : Known(k)' <=> Known(k)
    BY <1>1 DEF Known
  <1>3. PostsTell' /\ TokensTell'
    BY <1>0, <1>1, <1>2 DEF IInv, PostsTell, TokensTell
  <1>4. ASSUME NEW s \in Tabs, NEW v \in Urls, reads[s][v] # None, reads[s][v].got = "no"
        PROVE  ~Honoured(reads[s][v].sent)'
    <2>1. PICK k \in Tokens \cup {None} : k = reads[s][v].sent
      BY <1>4 DEF IInv, TypeOK, Reads
    <2>2. ~Honoured(k)'
      BY <1>1, <1>4, <2>1 DEF IInv, ReadsTell
    <2> QED BY <1>0, <2>1, <2>2 DEF Honoured
  <1>5. ReadsTell'
    BY <1>0, <1>2, <1>4 DEF IInv, ReadsTell, Known, Honoured
  <1>6. AGuardHasItsCheck'
    BY <1>0, GuardKept DEF CheckStays, For, Whys
  <1> QED BY <1>0, <1>1, <1>3, <1>5, <1>6 DEF IInv, TypeOK

-----------------------------------------------------------------------------
(* The answer reaches the page.                                            *)

\* A call settles; everything else of the state keeps, if token and screen do.
LEMMA LandingKeeps ==
  ASSUME IInv, TokensStand, UNCHANGED <<temporary, strays, reads>>,
         \A s \in Tabs, f \in Flags : posts'[s][f] = posts[s][f] \/ posts'[s][f] = None,
         posts' \in [Tabs -> [Flags -> Posts \cup {None}]],
         token' \in Tokens \cup {None}, Known(token)',
         screen' \in [Tabs -> [view : Views, who : People \cup {None}, checking : BOOLEAN]],
         \A s \in Tabs : screen'[s].checking => screen[s].checking
  PROVE  IInv'
  <1>1. PostsTell' /\ ReadsTell' /\ TokensTell'
    BY PostsKept, StandingTells DEF IInv, ReadsTell, TokensTell, TokensStand
  <1>2. AGuardHasItsCheck'
    BY GuardKept DEF CheckStays, For, Whys
  <1> QED BY <1>1, <1>2 DEF IInv, TypeOK, TokensStand

LEMMA SettledDrops ==
  ASSUME IInv, NEW t \in Tabs, NEW f \in Flags, Settled(t, f)
  PROVE  /\ posts' \in [Tabs -> [Flags -> Posts \cup {None}]]
         /\ \A s \in Tabs, g \in Flags : posts'[s][g] = posts[s][g] \/ posts'[s][g] = None
  BY DEF Settled, IInv, TypeOK

LEMMA EnteredIsAScreen ==
  ASSUME IInv, NEW t \in Tabs, NEW p \in People
  PROVE  LET e == Entered(t, p) IN
           /\ e \in [view : Views, who : People \cup {None}, checking : BOOLEAN]
           /\ e.checking = screen[t].checking
  BY DEF IInv, TypeOK, Entered, Views

LEMMA LandDataKeeps == ASSUME IInv, NEW t \in Tabs, LandData(t) PROVE IInv'
  <1>0. /\ TokensStand /\ UNCHANGED <<temporary, strays>>
        /\ Part(t, Rest(t, "data")) /\ Rest(t, "data")["me"] = reads[t]["me"]
    BY RestIsPart DEF LandData, server, TokensStand, Urls
  <1>1. CASE reads' = [reads EXCEPT ![t] = Rest(t, "data")] /\ UNCHANGED <<token, screen, posts>>
    <2>1. reads' \in [Tabs -> [Urls -> Reads \cup {None}]] /\ ReadsTell'
      BY <1>0, <1>1, ReadsKept
    <2>2. \A s \in Tabs : CheckStays(s)
      BY <1>0, <1>1 DEF CheckStays, For, Whys, IInv, TypeOK
    <2>3. PostsTell' /\ TokensTell'
      BY <1>0, <1>1, PostsKept, StandingTells DEF IInv, TokensTell, TokensStand
    <2> QED BY <1>0, <1>1, <2>1, <2>2, <2>3, GuardKept DEF IInv, TypeOK, TokensStand
  <1>2. CASE Doubted(t, Rest(t, "data")) /\ UNCHANGED posts
    <2>1. PostsTell' /\ posts' \in [Tabs -> [Flags -> Posts \cup {None}]]
      BY <1>0, <1>2, PostsKept DEF IInv, TypeOK
    <2> QED BY <1>0, <1>2, <2>1, DoubtKeeps
  <1>3. CASE Reloaded(t) /\ token' = None
    BY <1>0, <1>3, ReloadKeeps DEF Known
  <1> QED BY <1>1, <1>2, <1>3 DEF LandData

LEMMA LandMeKeeps == ASSUME IInv, NEW t \in Tabs, LandMe(t) PROVE IInv'
  <1> DEFINE c == reads[t]["me"]
             opened == [Opened(t, c) EXCEPT !.checking = StillChecking(t, c)]
  <1>0. /\ TokensStand /\ UNCHANGED <<temporary, strays>> /\ "me" \in Urls
        /\ c # None /\ c \in Reads /\ Part(t, Rest(t, "me"))
        /\ token' \in {None, token}
    BY RestIsPart DEF LandMe, server, TokensStand, IInv, TypeOK, Urls
  <1>1. token' \in Tokens \cup {None} /\ Known(token)'
    BY <1>0, StandingTells DEF IInv, TypeOK, TokensTell, Known, TokensStand
  <1>2. CASE Reloaded(t)
    BY <1>0, <1>1, <1>2, ReloadKeeps
  <1>3. CASE /\ screen' = [screen EXCEPT ![t] = opened]
             /\ reads' = [reads EXCEPT ![t] = Rest(t, "me")]
             /\ UNCHANGED posts
    <2>1. reads' \in [Tabs -> [Urls -> Reads \cup {None}]] /\ ReadsTell'
      BY <1>0, <1>3, ReadsKept
    <2>2. Opened(t, c) \in [view : Views, who : People \cup {None}, checking : BOOLEAN]
      <3>1. c.got = "yes" => c.sent[1] \in People
        BY <1>0 DEF IInv, ReadsTell, Tokens
      <3>2. screen[t] \in [view : Views, who : People \cup {None}, checking : BOOLEAN]
        BY DEF IInv, TypeOK
      <3>3. c.got = "yes" =>
              Entered(t, c.sent[1]) \in [view : Views, who : People \cup {None}, checking : BOOLEAN]
        BY <3>1, EnteredIsAScreen
      <3> QED BY <3>2, <3>3 DEF Opened, Views
    <2>3. StillChecking(t, c) = (screen[t].checking /\ ~For(c, "check")) /\ StillChecking(t, c) \in BOOLEAN
      BY DEF StillChecking, For
    <2>4. opened \in [view : Views, who : People \cup {None}, checking : BOOLEAN]
            /\ opened.checking = StillChecking(t, c)
      BY <2>2, <2>3
    <2> HIDE DEF opened
    <2>5. /\ screen' \in [Tabs -> [view : Views, who : People \cup {None}, checking : BOOLEAN]]
          /\ screen'[t] = opened /\ \A s \in Tabs \ {t} : screen'[s] = screen[s]
      BY <1>3, <2>4 DEF IInv, TypeOK
    <2>6. ~screen'[t].checking
      BY <1>0, <2>3, <2>4, <2>5 DEF IInv, AGuardHasItsCheck
    <2>7. \A s \in Tabs \ {t} : CheckStays(s)
      BY <1>3 DEF CheckStays, For, Whys, IInv, TypeOK
    <2>8. \A s \in Tabs : screen'[s].checking => screen[s].checking /\ CheckStays(s)
      BY <2>5, <2>6, <2>7
    <2>9. PostsTell' /\ TokensTell'
      BY <1>0, <1>1, <1>3, PostsKept DEF IInv, TokensTell, TokensStand
    <2> QED BY <1>0, <1>1, <1>3, <2>1, <2>5, <2>8, <2>9, GuardKept DEF IInv, TypeOK, TokensStand
  <1> QED BY <1>2, <1>3 DEF LandMe

LEMMA LandLoginKeeps == ASSUME IInv, NEW t \in Tabs, LandLogin(t) PROVE IInv'
  <1> DEFINE c == posts[t]["authBusy"]
             entered == [Entered(t, c.who) EXCEPT !.checking = FALSE]
  <1>0. /\ TokensStand /\ UNCHANGED <<temporary, strays, reads>> /\ "authBusy" \in Flags
        /\ c # None /\ c.kind = "login" /\ c.who \in People /\ Settled(t, "authBusy")
        /\ Known(c.gave) /\ (c.got = "yes" => c.gave \in Tokens)
    BY DEF LandLogin, server, TokensStand, IInv, PostsTell, Flags
  <1>1. /\ posts' \in [Tabs -> [Flags -> Posts \cup {None}]]
        /\ \A s \in Tabs, f \in Flags : posts'[s][f] = posts[s][f] \/ posts'[s][f] = None
    BY <1>0, SettledDrops
  <1>2. CASE c.got = "yes" /\ token' = c.gave /\ screen' = [screen EXCEPT ![t] = entered]
    <2>1. entered \in [view : Views, who : People \cup {None}, checking : BOOLEAN] /\ ~entered.checking
      BY <1>0, EnteredIsAScreen
    <2> HIDE DEF entered
    <2>2. /\ screen' \in [Tabs -> [view : Views, who : People \cup {None}, checking : BOOLEAN]]
          /\ \A s \in Tabs : screen'[s].checking => screen[s].checking
      BY <1>2, <2>1 DEF IInv, TypeOK
    <2>3. token' \in Tokens \cup {None} /\ Known(token)'
      BY <1>0, <1>2 DEF Known, TokensStand
    <2> QED BY <1>0, <1>1, <2>2, <2>3, LandingKeeps
  <1>3. CASE UNCHANGED <<token, screen>>
    BY <1>0, <1>1, <1>3, LandingKeeps DEF IInv, TypeOK, TokensTell, Known, TokensStand
  <1> QED BY <1>2, <1>3 DEF LandLogin

LEMMA LandResetKeeps == ASSUME IInv, NEW t \in Tabs, LandReset(t) PROVE IInv'
  <1>0. /\ TokensStand /\ UNCHANGED <<temporary, strays, reads, screen>> /\ "authBusy" \in Flags
        /\ Settled(t, "authBusy") /\ token' \in {token, None}
    BY DEF LandReset, server, TokensStand, Flags
  <1>1. /\ posts' \in [Tabs -> [Flags -> Posts \cup {None}]]
        /\ \A s \in Tabs, f \in Flags : posts'[s][f] = posts[s][f] \/ posts'[s][f] = None
    BY <1>0, SettledDrops
  <1> QED BY <1>0, <1>1, LandingKeeps DEF IInv, TypeOK, TokensTell, Known, TokensStand

LEMMA LandLogoutKeeps == ASSUME IInv, NEW t \in Tabs, LandLogout(t) PROVE IInv'
  <1>0. /\ TokensStand /\ UNCHANGED <<temporary, strays, reads>> /\ "logoutBusy" \in Flags
        /\ Settled(t, "logoutBusy") /\ token' = None
        /\ screen' = [screen EXCEPT ![t].who = None, ![t].view = "login"]
    BY DEF LandLogout, server, TokensStand, Flags
  <1>1. /\ posts' \in [Tabs -> [Flags -> Posts \cup {None}]]
        /\ \A s \in Tabs, f \in Flags : posts'[s][f] = posts[s][f] \/ posts'[s][f] = None
    BY <1>0, SettledDrops
  <1>2. /\ screen' \in [Tabs -> [view : Views, who : People \cup {None}, checking : BOOLEAN]]
        /\ \A s \in Tabs : screen'[s].checking => screen[s].checking
    <2> DEFINE out == [screen[t] EXCEPT !.who = None, !.view = "login"]
    <2>1. out \in [view : Views, who : People \cup {None}, checking : BOOLEAN]
            /\ out.checking = screen[t].checking
      BY DEF IInv, TypeOK, Views
    <2>2. screen' = [screen EXCEPT ![t] = out]
      BY <1>0 DEF IInv, TypeOK
    <2> HIDE DEF out
    <2> QED BY <2>1, <2>2 DEF IInv, TypeOK
  <1> QED BY <1>0, <1>1, <1>2, LandingKeeps DEF Known

LEMMA LandChangeKeeps ==
  ASSUME IInv, NEW t \in Tabs, NEW f \in Flags, LandChange(t, f) PROVE IInv'
  <1> DEFINE c == posts[t][f]
  <1>0. /\ TokensStand /\ UNCHANGED <<temporary, strays>>
        /\ c # None /\ c.kind = "change" /\ Known(c.gave)
        /\ c.got = "yes" => c.gave \in Tokens /\ c.sent \in Tokens
    BY DEF LandChange, server, TokensStand, IInv, PostsTell
  <1>1. Settled(t, f) =>
          /\ posts' \in [Tabs -> [Flags -> Posts \cup {None}]]
          /\ \A s \in Tabs, g \in Flags : posts'[s][g] = posts[s][g] \/ posts'[s][g] = None
    BY SettledDrops
  <1>2. CASE /\ c.got = "yes" /\ token' = c.gave /\ Settled(t, f) /\ UNCHANGED reads
             /\ screen' = IF f = "authBusy" THEN [screen EXCEPT ![t] = Entered(t, c.sent[1])] ELSE screen
    <2>1. c.sent[1] \in People
      BY <1>0, <1>2 DEF Tokens
    <2>2. PICK e \in [view : Views, who : People \cup {None}, checking : BOOLEAN] :
            e = Entered(t, c.sent[1]) /\ e.checking = screen[t].checking
      BY <2>1, EnteredIsAScreen
    <2>3. screen' = screen \/ screen' = [screen EXCEPT ![t] = e]
      BY <1>2, <2>2
    <2>4. /\ screen' \in [Tabs -> [view : Views, who : People \cup {None}, checking : BOOLEAN]]
          /\ \A s \in Tabs : screen'[s].checking => screen[s].checking
      BY <2>2, <2>3 DEF IInv, TypeOK
    <2>5. token' \in Tokens \cup {None} /\ Known(token)'
      BY <1>0, <1>2 DEF Known, TokensStand
    <2> QED BY <1>0, <1>1, <1>2, <2>4, <2>5, LandingKeeps
  <1>3. CASE Doubted(t, reads[t]) /\ Settled(t, f)
    <2>1. Part(t, reads[t])
      BY RestIsPart DEF Urls
    <2>2. PostsTell'
      BY <1>0, <1>1, <1>3, PostsKept
    <2> QED BY <1>0, <1>1, <1>3, <2>1, <2>2, DoubtKeeps
  <1>4. CASE Reloaded(t) /\ token' = None
    BY <1>0, <1>4, ReloadKeeps DEF Known
  <1>5. CASE Settled(t, f) /\ UNCHANGED <<token, screen, reads>>
    BY <1>0, <1>1, <1>5, LandingKeeps DEF IInv, TypeOK, TokensTell, Known, TokensStand
  <1> QED BY <1>2, <1>3, <1>4, <1>5 DEF LandChange

-----------------------------------------------------------------------------
LEMMA StepKeeps == ASSUME IInv, [Next]_vars PROVE IInv'
  <1>1. ASSUME NEW t \in Tabs, Server(t) PROVE IInv'
    <2>1. ASSUME NEW u \in Urls, Serve(t, u) PROVE IInv'
      <3>1. CASE Honoured(reads[t][u].sent)
        BY <2>1, <3>1, AnswerKeeps DEF Serve, Answers, IInv, TypeOK
      <3>2. CASE ~Honoured(reads[t][u].sent)
        BY <2>1, <3>2, AnswerKeeps DEF Serve, Answers, IInv, TypeOK
      <3> QED BY <3>1, <3>2
    <2>2. ASSUME NEW u \in Urls, ServeStray(t, u) PROVE IInv'
      <3>1. strays' \in 0..MaxStrays
        BY <2>2, SessionAssumption DEF ServeStray, IInv, TypeOK
      <3> QED BY <2>2, <3>1, AnswerKeeps DEF ServeStray, Answers
    <2>3. ASSUME NEW u \in Urls, ServeDown(t, u) PROVE IInv'
      BY <2>3, AnswerKeeps DEF ServeDown, Answers, IInv, TypeOK
    <2> QED BY <1>1, <2>1, <2>2, <2>3, ServePostKeeps DEF Server
  <1>2. ASSUME NEW t \in Tabs, Landing(t) PROVE IInv'
    BY <1>2, LandDataKeeps, LandMeKeeps, LandLoginKeeps, LandResetKeeps, LandLogoutKeeps,
       LandChangeKeeps DEF Landing
  <1>3. CASE UNCHANGED vars
    BY <1>3 DEF vars, server, IInv, TypeOK, AGuardHasItsCheck, ReadsTell, PostsTell, TokensTell,
                Known, Honoured, For, Whys
  <1> QED BY <1>1, <1>2, <1>3, PageKeeps, ElsewhereKeeps DEF Next

LEMMA Invariance == Spec => []IInv
  BY InitEstablishes, StepKeeps, PTL DEF Spec

\* The guard of handleSessionEnded always has its check on the way.
THEOREM GuardsAreLowered == Spec => []AGuardHasItsCheck
  <1>1. IInv => AGuardHasItsCheck
    BY DEF IInv
  <1> QED BY <1>1, Invariance, PTL

\* Of the steps that touch the stored token only three give up a session, and
\* of these the answer about /auth/me/ does so rightly: a refusal by the
\* server of the token that is stored is final.
LEMMA RefusalsAreFinal ==
  ASSUME IInv, [Next]_vars, Honoured(token), token' = None
  PROVE  \E t \in Tabs :
          \/ LandLogout(t) \/ LandReset(t)
          \/ LandMe(t) /\ (reads[t]["me"].got = "stray" \/ reads[t]["me"].sent # token)
  <1>0. token # None /\ token' # token
    BY HonouredIsAToken, SessionAssumption
  <1>1. ASSUME NEW t \in Tabs, Page(t) PROVE FALSE
    BY <1>0, <1>1 DEF Page, LoginPage, ForgotPage, ResetPage, ChangePage, Start, AskData, Reload, Login, ResetPassword, RequestReset,
                      ChangePassword, Logout, Turn, Send
  <1>2. ASSUME NEW t \in Tabs, Server(t) PROVE FALSE
    BY <1>0, <1>2 DEF Server, Serve, ServeStray, ServeDown, Answer, ServePost
  <1>3. ASSUME NEW t \in Tabs, LandData(t) PROVE FALSE
    BY <1>0, <1>3 DEF LandData, Doubted, OverAlready
  <1>4. ASSUME NEW t \in Tabs, LandLogin(t) PROVE FALSE
    BY <1>0, <1>4, SessionAssumption DEF LandLogin, IInv, PostsTell, Flags
  <1>5. ASSUME NEW t \in Tabs, NEW f \in Flags, LandChange(t, f) PROVE FALSE
    BY <1>0, <1>5, SessionAssumption DEF LandChange, Doubted, OverAlready, IInv, PostsTell
  <1>6. ASSUME NEW t \in Tabs, LandMe(t)
        PROVE  reads[t]["me"].got = "stray" \/ reads[t]["me"].sent # token
    BY <1>0, <1>6 DEF LandMe, Refused, IInv, ReadsTell, Urls
  <1>7. ~ UNCHANGED vars /\ \A p \in People : ~EndElsewhere(p)
    BY <1>0 DEF vars, EndElsewhere
  <1> QED BY <1>1, <1>2, <1>3, <1>4, <1>5, <1>6, <1>7 DEF Next, Landing

\* One stray refusal of some other read never ends a session the server honours.
THEOREM StraysAreHarmless == Spec => StraysEndNothing
  <1>1. IInv /\ [Next]_vars =>
          [ Honoured(token) /\ token' = None =>
             \E t \in Tabs :
               \/ LandLogout(t) \/ LandReset(t)
               \/ LandMe(t) /\ (reads[t]["me"].got = "stray" \/ reads[t]["me"].sent # token)
          ]_vars
    BY RefusalsAreFinal
  <1> QED BY <1>1, Invariance, PTL DEF Spec, StraysEndNothing

-----------------------------------------------------------------------------
(* What is known of a screen with table T, forms O and acts A.               *)

Lives(T, O, j) == \E g \in Forms(T) : O[g].on /\ O[g].n = j

\* The forms: one is open at a time, and no two were opened by one act.
FormsSound(T, O, A) ==
  /\ A \in Nat
  /\ O \in [Forms(T) -> [n : Nat, on : BOOLEAN]]
  /\ \A g \in Forms(T) : O[g].n <= A /\ (O[g].on => O[g].n # 0)
  /\ \A g, h \in Forms(T) : O[g].on /\ O[h].on => g = h
  /\ \A g, h \in Forms(T) : O[g].n = O[h].n /\ O[g].n # 0 => g = h

\* j is the number of a form operation q may have been sent from.
Numbered(T, O, A, q, j) ==
  /\ j \in Nat /\ j <= A
  /\ q.own => j # 0 /\ \A g \in Forms(T) : O[g].n = j => g = q.form

CallFields == {"o", "by", "s", "i", "row", "at", "v", "awaits", "n"}
IsCall(T, O, A, c) ==
  /\ DOMAIN c = CallFields /\ c.o \in DOMAIN T.ops
  /\ Numbered(T, O, A, T.ops[c.o], c.i)

LEMMA TagOf ==
  ASSUME NEW N, NEW j, NEW r, NEW t \in Tags(N, j, r)
  PROVE  t.f \in N /\ t.i = j /\ t.r = r
BY DEF Tags

HomeOf(T, c) == Home(T.ops[c.o], c.i)
Tag(T, c, f) == [f |-> f, i |-> HomeOf(T, c), r |-> c.row]

\* Every flag call c keeps is up, unless it went with its form.
Up(T, O, F, c) ==
  \A f : Keeps(T, c.o, f) /\ (T.ops[c.o].own => Lives(T, O, c.i)) => Tag(T, c, f) \in F

\* Two calls that keep one flag in one place.
Clash(T, c, d) ==
  \E f : /\ Keeps(T, c.o, f) /\ d.o \in Sharers(T, c.o, f)
         /\ HomeOf(T, c) = HomeOf(T, d)
         /\ c.row = d.row \/ Shut(T, c.o, f)

Apart(T, C) == \A c, d \in C : c # d => ~Clash(T, c, d)

FlagsKept(T, O, A, F, C) ==
  /\ FormsSound(T, O, A)
  /\ \A c \in C : IsCall(T, O, A, c) /\ Up(T, O, F, c)
  /\ Apart(T, C)

-----------------------------------------------------------------------------
(* Operations that share a flag.                                             *)

LEMMA SharersShare ==
  ASSUME NEW T, NEW o \in DOMAIN T.ops, NEW f, NEW p \in Sharers(T, o, f)
  PROVE  /\ Sharers(T, p, f) = Sharers(T, o, f)
         /\ Shut(T, p, f) <=> Shut(T, o, f)
         /\ ShutByRow(T, p, f) <=> ShutByRow(T, o, f)
         /\ f \in T.ops[o].sets => o \in Sharers(T, p, f)
         /\ Keeps(T, o, f) => Keeps(T, p, f)
<1>1. Together(T.ops[p], T.ops[o]) /\ f \in T.ops[p].sets /\ p \in DOMAIN T.ops
  BY DEF Sharers
<1>2. Sharers(T, p, f) = Sharers(T, o, f)
  BY <1>1 DEF Sharers, Together
<1>3. T.ops[p].own = T.ops[o].own
  BY <1>1 DEF Together
<1>4. f \in T.ops[o].sets => o \in Sharers(T, p, f)
  BY <1>2 DEF Sharers, Together
<1>5. (Shut(T, p, f) <=> Shut(T, o, f)) /\ (ShutByRow(T, p, f) <=> ShutByRow(T, o, f))
  BY <1>2 DEF Shut, ShutByRow
<1>6. Keeps(T, o, f) => Keeps(T, p, f)
  BY <1>1, <1>2, <1>3, <1>5 DEF Keeps
<1> QED BY <1>2, <1>4, <1>5, <1>6

LEMMA ClashBothWays ==
  ASSUME NEW T, NEW c, NEW d, c.o \in DOMAIN T.ops, Clash(T, c, d)
  PROVE  Clash(T, d, c)
<1>1. PICK f : /\ Keeps(T, c.o, f) /\ d.o \in Sharers(T, c.o, f)
               /\ HomeOf(T, c) = HomeOf(T, d)
               /\ c.row = d.row \/ Shut(T, c.o, f)
  BY DEF Clash
<1>2. Keeps(T, d.o, f) /\ c.o \in Sharers(T, d.o, f) /\ (Shut(T, d.o, f) <=> Shut(T, c.o, f))
  BY <1>1, SharersShare DEF Keeps
<1> QED BY <1>1, <1>2 DEF Clash

\* Flags in one place belong to operations whose flags lie side by side, while
\* the form is open.
LEMMA SideBySide ==
  ASSUME NEW T, NEW O, NEW A, NEW p, NEW i, NEW q, NEW j,
         p.own \in BOOLEAN, q.own \in BOOLEAN,
         Numbered(T, O, A, p, i), Numbered(T, O, A, q, j),
         p.own => Lives(T, O, i), Home(p, i) = Home(q, j)
  PROVE  Together(q, p) /\ Together(p, q)
BY DEF Numbered, Lives, Home, Together

\* The raising and lowering by another operation q, from form j, for row r,
\* spares what call c keeps.
LEMMA OthersSpare ==
  ASSUME NEW T, NEW O, NEW A, NEW F, NEW c, NEW o \in DOMAIN T.ops, NEW j, NEW r, NEW f,
         IsCall(T, O, A, c), Numbered(T, O, A, T.ops[o], j),
         \A p \in DOMAIN T.ops : WellFormed(T, T.ops[p]),
         Keeps(T, c.o, f), T.ops[c.o].own => Lives(T, O, c.i), Tag(T, c, f) \in F,
         o \in Sharers(T, c.o, f) /\ HomeOf(T, c) = Home(T.ops[o], j) =>
           ~Shut(T, c.o, f) /\ c.row # r
  PROVE  /\ \A N : N \subseteq T.ops[o].sets => Tag(T, c, f) \in Lowered(F, N, T.ops[o], j, r)
         /\ Tag(T, c, f) \in Raised(F, T.ops[o], j, r)
<1> DEFINE q == T.ops[o]
           t == Tag(T, c, f)
<1>1. t.f = f /\ t.i = HomeOf(T, c) /\ t.r = c.row /\ t \in F
  BY DEF Tag
<1>2. ASSUME f \in q.sets, t.i = Home(q, j)
      PROVE  q.rows = "each" /\ t.r # r
  <2>1. T.ops[c.o].own \in BOOLEAN /\ q.own \in BOOLEAN
    BY DEF WellFormed, IsCall
  <2>2. Together(q, T.ops[c.o])
    <3>1. /\ Numbered(T, O, A, T.ops[c.o], c.i) /\ Numbered(T, O, A, q, j)
          /\ T.ops[c.o].own => Lives(T, O, c.i)
          /\ Home(T.ops[c.o], c.i) = Home(q, j)
      BY <1>1, <1>2 DEF HomeOf, IsCall
    <3> QED BY <2>1, <3>1, SideBySide
  <2>3. o \in Sharers(T, c.o, f)
    BY <1>2, <2>2 DEF Sharers
  <2>4. ~Shut(T, c.o, f) /\ c.row # r
    BY <1>1, <1>2, <2>3
  <2> QED BY <1>1, <2>3, <2>4 DEF Keeps, ShutByRow
<1> HIDE DEF t, q
<1>3. \A N : N \subseteq q.sets => t \in Lowered(F, N, q, j, r)
  BY <1>1, <1>2 DEF Lowered
<1>4. t \in Raised(F, q, j, r)
  BY <1>1, <1>2 DEF Raised
<1> QED BY <1>3, <1>4 DEF t, q

-----------------------------------------------------------------------------
(* From one state to the next.                                               *)

FormsMove(T, O, A, O2, A2) ==
  /\ FormsSound(T, O2, A2) /\ A2 >= A
  /\ \A g \in Forms(T) : \/ O2[g].n = O[g].n /\ (O2[g].on => O[g].on)
                         \/ O2[g].n > A

LEMMA StillNumbered ==
  ASSUME NEW T, NEW O, NEW A, NEW O2, NEW A2, FormsSound(T, O, A),
         FormsMove(T, O, A, O2, A2), NEW q, NEW j, Numbered(T, O, A, q, j)
  PROVE  /\ Numbered(T, O2, A2, q, j)
         /\ Lives(T, O2, j) => Lives(T, O, j)
<1>1. /\ A \in Nat /\ A2 \in Nat /\ j \in Nat /\ j <= A /\ A2 >= A
      /\ \A g \in Forms(T) : O[g].n \in Nat /\ O2[g].n \in Nat
      /\ \A g \in Forms(T) : (O2[g].n = O[g].n /\ (O2[g].on => O[g].on)) \/ O2[g].n > A
  BY DEF FormsSound, FormsMove, Numbered
<1>2. \A g \in Forms(T) : O2[g].n = j => O[g].n = j /\ (O2[g].on => O[g].on)
  BY <1>1
<1>3. Numbered(T, O2, A2, q, j)
  BY <1>1, <1>2 DEF Numbered
<1>4. Lives(T, O2, j) => Lives(T, O, j)
  BY <1>2 DEF Lives
<1> QED BY <1>3, <1>4

\* What one call's record says of its flags.
Like(x, a) == x.o = a.o /\ x.i = a.i /\ x.row = a.row

LEMMA LikeClash ==
  ASSUME NEW T, NEW x, NEW y, NEW a, NEW b, Like(x, a), Like(y, b), Clash(T, x, y)
  PROVE  Clash(T, a, b)
BY DEF Like, Clash, HomeOf

\* Nobody new: every call was under way before, and so were any two.
LEMMA FlagsStayKept ==
  ASSUME NEW T, NEW O, NEW A, NEW F, NEW C, NEW O2, NEW A2, NEW F2, NEW C2,
         FlagsKept(T, O, A, F, C), FormsMove(T, O, A, O2, A2),
         \A x \in C2 : DOMAIN x = CallFields /\ \E a \in C :
           /\ Like(x, a)
           /\ \A f : Keeps(T, a.o, f) /\ (T.ops[a.o].own => Lives(T, O2, a.i) /\ Lives(T, O, a.i))
                       /\ Tag(T, a, f) \in F
                         => Tag(T, a, f) \in F2,
         \A x, y \in C2 : x # y => \E a, b \in C : a # b /\ Like(x, a) /\ Like(y, b)
  PROVE  FlagsKept(T, O2, A2, F2, C2)
<1>1. ASSUME NEW x \in C2 PROVE IsCall(T, O2, A2, x) /\ Up(T, O2, F2, x)
  <2>1. PICK a \in C :
           /\ Like(x, a)
           /\ \A f : Keeps(T, a.o, f) /\ (T.ops[a.o].own => Lives(T, O2, a.i) /\ Lives(T, O, a.i))
                       /\ Tag(T, a, f) \in F
                         => Tag(T, a, f) \in F2
    OBVIOUS
  <2>2. /\ IsCall(T, O, A, a) /\ Up(T, O, F, a) /\ FormsSound(T, O, A)
    BY DEF FlagsKept
  <2>3. /\ Numbered(T, O2, A2, T.ops[a.o], a.i)
        /\ Lives(T, O2, a.i) => Lives(T, O, a.i)
    BY <2>2, StillNumbered DEF IsCall
  <2>4. IsCall(T, O2, A2, x)
    BY <2>1, <2>2, <2>3 DEF IsCall, Like
  <2>5. ASSUME NEW f, Keeps(T, x.o, f), T.ops[x.o].own => Lives(T, O2, x.i)
        PROVE  Tag(T, x, f) \in F2
    <3>1. Tag(T, x, f) = Tag(T, a, f) /\ x.o = a.o /\ x.i = a.i
      BY <2>1 DEF Like, Tag, HomeOf
    <3>2. Tag(T, a, f) \in F
      BY <2>2, <2>3, <2>5, <3>1 DEF Up
    <3> QED BY <2>1, <2>3, <2>5, <3>1, <3>2
  <2> QED BY <2>4, <2>5 DEF Up
<1>2. Apart(T, C2)
  BY LikeClash DEF FlagsKept, Apart
<1> QED BY <1>1, <1>2 DEF FlagsKept, FormsMove

\* A person's act, and what needs no call to change.
LEMMA ActsKeepFlags ==
  ASSUME NEW T, NEW O, NEW A, NEW F, NEW C, NEW O2, NEW A2, NEW F2,
         FlagsKept(T, O, A, F, C), FormsMove(T, O, A, O2, A2), F \subseteq F2
  PROVE  FlagsKept(T, O2, A2, F2, C)
<1>1. \A x \in C : DOMAIN x = CallFields /\ Like(x, x)
  BY DEF FlagsKept, IsCall, Like
<1> QED BY <1>1, FlagsStayKept

-----------------------------------------------------------------------------
(* Each step.                                                                *)

GetFields == {"r", "s", "n", "from", "live"}
Reading(T, G) == \A g \in G : DOMAIN g = GetFields /\ g.r \in DOMAIN T.reads

TableSound(T) ==
  /\ "" \notin DOMAIN T.ops
  /\ \A o \in DOMAIN T.ops : WellFormed(T, T.ops[o])

Sound(T) == FlagsKept(T, open, acts, flags, calls) /\ Reading(T, gets)
SoundNext(T) == FlagsKept(T, open', acts', flags', calls') /\ Reading(T, gets')

LEMMA StillReading ==
  ASSUME NEW T, NEW G, NEW R, NEW s, Reading(T, G), R \subseteq DOMAIN T.reads
  PROVE  Reading(T, AskedFor(T, G, R, s))
<1> SUFFICES ASSUME NEW h \in AskedFor(T, G, R, s)
             PROVE  DOMAIN h = GetFields /\ h.r \in DOMAIN T.reads
  BY DEF Reading
<1>1. CASE \E g \in G : h = [g EXCEPT !.live = IF g.r \in R THEN Joined(T, g, R, s) ELSE @]
  <2>1. PICK g \in G : h = [g EXCEPT !.live = IF g.r \in R THEN Joined(T, g, R, s) ELSE @]
    BY <1>1
  <2> QED BY <2>1 DEF Reading, GetFields
<1>2. CASE \E r \in R : h = [r |-> r, s |-> Key(T, r, s), n |-> Slot(G, r), from |-> clock,
                             live |-> TRUE]
  BY <1>2 DEF GetFields
<1> QED BY <1>1, <1>2 DEF AskedFor

LEMMA ChooseKeeps ==
  ASSUME NEW T, TableSound(T), Sound(T), NEW s, Choose(T, s)
  PROVE  SoundNext(T)
<1>1. FormsMove(T, open, acts, open, acts')
  BY DEF Sound, FlagsKept, FormsMove, FormsSound, Choose, Person
<1>2. FlagsKept(T, open', acts', flags', calls')
  <2>1. flags \subseteq flags' /\ open' = open /\ calls' = calls
    BY DEF Choose
  <2> QED BY <1>1, <2>1, ActsKeepFlags DEF Sound
<1>3. Reading(T, gets')
  BY StillReading DEF Choose, Sound
<1> QED BY <1>2, <1>3 DEF SoundNext

LEMMA OpenFormKeeps ==
  ASSUME NEW T, TableSound(T), Sound(T), NEW f \in Forms(T), OpenForm(T, f)
  PROVE  SoundNext(T)
<1>1. FormsMove(T, open, acts, open', acts')
  <2>1. /\ FormsSound(T, open, acts) /\ acts' = acts + 1
        /\ \A g \in Forms(T) : ~open[g].on
        /\ open' = [open EXCEPT ![f] = [n |-> acts', on |-> TRUE]]
    BY DEF OpenForm, Person, Sound, FlagsKept
  <2>2. open' \in [Forms(T) -> [n : Nat, on : BOOLEAN]]
    BY <2>1 DEF FormsSound
  <2>3. /\ open'[f].n = acts + 1 /\ open'[f].on
        /\ \A g \in Forms(T) \ {f} : open'[g] = open[g]
    BY <2>1 DEF FormsSound
  <2> QED BY <2>1, <2>2, <2>3 DEF FormsSound, FormsMove
<1>2. flags' = flags /\ calls' = calls /\ gets' = gets
  BY DEF OpenForm
<1> QED BY <1>1, <1>2, ActsKeepFlags DEF Sound, SoundNext

\* Forms are closed, and nothing else happens to them.
FormsClose(T) ==
  /\ acts' = acts /\ open' \in [Forms(T) -> [n : Nat, on : BOOLEAN]]
  /\ \A g \in Forms(T) : open'[g].n = open[g].n /\ (open'[g].on => open[g].on)

LEMMA ClosingMoves ==
  ASSUME NEW T, Sound(T), FormsClose(T)
  PROVE  FormsMove(T, open, acts, open', acts')
BY DEF Sound, FlagsKept, FormsMove, FormsSound, FormsClose

LEMMA DismissKeeps ==
  ASSUME NEW T, TableSound(T), Sound(T), NEW f \in Forms(T), Dismiss(T, f)
  PROVE  SoundNext(T)
<1>1. FormsSound(T, open, acts)
  BY DEF Sound, FlagsKept
<1>2. FormsClose(T) /\ \A g \in Forms(T) : ~open'[g].on
  <2>1. open' = [open EXCEPT ![f].on = FALSE] /\ open[f].on /\ acts' = acts
    BY DEF Dismiss
  <2>2. open'[f].n = open[f].n /\ ~open'[f].on
    BY <1>1, <2>1 DEF FormsSound
  <2>3. \A g \in Forms(T) \ {f} : open'[g] = open[g] /\ ~open[g].on
    BY <1>1, <2>1 DEF FormsSound
  <2>4. open' \in [Forms(T) -> [n : Nat, on : BOOLEAN]]
    BY <1>1, <2>1 DEF FormsSound
  <2> QED BY <2>1, <2>2, <2>3, <2>4 DEF FormsClose
<1>3. FormsMove(T, open, acts, open', acts')
  BY <1>2, ClosingMoves
<1>4. calls' = calls /\ gets' = gets /\ flags' = {t \in flags : t.i = 0}
  BY DEF Dismiss
<1>5. \A x \in calls : DOMAIN x = CallFields /\ Like(x, x)
  BY DEF Sound, FlagsKept, IsCall, Like
<1>6. \A x \in calls : \A k :
        (T.ops[x.o].own => Lives(T, open', x.i)) /\ Tag(T, x, k) \in flags
          => Tag(T, x, k) \in flags'
  <2> SUFFICES ASSUME NEW x \in calls, NEW k, T.ops[x.o].own => Lives(T, open', x.i),
                      Tag(T, x, k) \in flags
               PROVE  Tag(T, x, k) \in flags'
    OBVIOUS
  <2>1. ~T.ops[x.o].own
    BY <1>2 DEF Lives
  <2>2. Tag(T, x, k).i = 0
    BY <2>1 DEF Tag, HomeOf, Home
  <2> QED BY <1>4, <2>2
<1>7. FlagsKept(T, open', acts', flags', calls')
  BY <1>3, <1>4, <1>5, <1>6, FlagsStayKept DEF Sound
<1> QED BY <1>4, <1>7 DEF Sound, SoundNext

\* A control is used only where nothing that is under way keeps it off.
LEMMA ClickKeeps ==
  ASSUME NEW T, TableSound(T), Sound(T), NEW o \in DOMAIN T.ops,
         NEW r, Click(T, o, r)
  PROVE  SoundNext(T)
<1> DEFINE op == T.ops[o]
           i  == IF op.form = "" THEN 0 ELSE open[op.form].n
           c  == [o |-> o, by |-> o, s |-> subject, i |-> i, row |-> r, at |-> "out",
                  v |-> 0, awaits |-> {}, n |-> acts + 1]
<1>1. /\ FormsSound(T, open, acts) /\ WellFormed(T, op)
      /\ open' = open /\ acts' = acts + 1 /\ gets' = gets
      /\ calls' = calls \cup {c} /\ flags' = Raised(flags, op, i, r)
      /\ ~Off(op, i, r) /\ (op.form # "" => open[op.form].on)
  BY DEF Sound, FlagsKept, TableSound, Click, Person
<1>2. FormsMove(T, open, acts, open', acts')
  <2>1. FormsSound(T, open, acts) /\ open' = open /\ acts' = acts + 1
    BY <1>1
  <2> HIDE DEF op, i, c
  <2> QED BY <2>1 DEF FormsSound, FormsMove
<1>3. op.form # "" => op.form \in Forms(T)
  BY DEF Forms
<1>4. Numbered(T, open, acts, op, i) /\ (op.own => Lives(T, open, i))
  <2>1. CASE op.form = ""
    <3>1. i = 0
      BY <2>1
    <3>2. ~op.own
      <4> HIDE DEF op, i, c
      <4> QED BY <1>1, <2>1 DEF WellFormed
    <3>3. i \in Nat /\ i <= acts
      <4>1. acts \in Nat
        BY DEF Sound, FlagsKept, FormsSound
      <4> HIDE DEF op, i, c
      <4> QED BY <3>1, <4>1
    <3> HIDE DEF op, i, c
    <3> QED BY <3>2, <3>3 DEF Numbered
  <2>2. CASE op.form # ""
    <3>1. i = open[op.form].n /\ open[op.form].on /\ op.form \in Forms(T)
      BY <1>1, <1>3, <2>2
    <3> HIDE DEF i, op, c
    <3>2. i \in Nat /\ i <= acts /\ i # 0
      BY <1>1, <3>1 DEF FormsSound
    <3>3. \A g \in Forms(T) : open[g].n = i => g = op.form
      BY <1>1, <3>1, <3>2 DEF FormsSound
    <3> QED BY <3>1, <3>2, <3>3 DEF Numbered, Lives
  <2> QED BY <2>1, <2>2
<1>5. c.o = o /\ c.i = i /\ c.row = r /\ DOMAIN c = CallFields
  BY DEF CallFields
<1> HIDE DEF c, i
<1>6. ASSUME NEW d \in calls, Clash(T, d, c)
      PROVE  FALSE
  <2>1. PICK f : /\ Keeps(T, d.o, f) /\ o \in Sharers(T, d.o, f)
                 /\ HomeOf(T, d) = Home(op, i)
                 /\ d.row = r \/ Shut(T, d.o, f)
    BY <1>5, <1>6 DEF Clash, HomeOf
  <2>2. IsCall(T, open, acts, d) /\ Up(T, open, flags, d)
    BY DEF Sound, FlagsKept
  <2>3. T.ops[d.o].own = op.own
    BY <2>1 DEF Sharers, Together
  <2>4. T.ops[d.o].own => Lives(T, open, d.i)
    BY <1>4, <2>1, <2>3 DEF HomeOf, Home
  <2>5. Tag(T, d, f) \in flags
    BY <2>1, <2>2, <2>4 DEF Up
  <2>6. Tag(T, d, f).f = f /\ Tag(T, d, f).i \in {0, i} /\ Tag(T, d, f).r = d.row
    BY <2>1 DEF Tag, Home
  <2>7. \/ f \in op.checks
        \/ d.row = r /\ f \in op.checks \cup op.rowchecks
    BY <2>1 DEF Keeps, Shut, ShutByRow
  <2> QED BY <1>1, <2>5, <2>6, <2>7 DEF Off
<1>7. IsCall(T, open', acts', c)
  <2>1. Numbered(T, open', acts', op, i)
    BY <1>1, <1>2, <1>4, StillNumbered
  <2> QED BY <1>5, <2>1 DEF IsCall
<1>8. Up(T, open', flags', c)
  BY <1>1, <1>5 DEF Up, Keeps, Raised, Tag, Tags, HomeOf
<1>9. ASSUME NEW d \in calls
      PROVE  IsCall(T, open', acts', d) /\ Up(T, open', flags', d)
  <2>1. IsCall(T, open, acts, d) /\ Up(T, open, flags, d)
    BY DEF Sound, FlagsKept
  <2>2. IsCall(T, open', acts', d)
    BY <1>1, <1>2, <2>1, StillNumbered DEF IsCall
  <2>3. ASSUME NEW f, Keeps(T, d.o, f), T.ops[d.o].own => Lives(T, open, d.i)
        PROVE  Tag(T, d, f) \in flags'
    <3>1. Tag(T, d, f) \in flags
      BY <2>1, <2>3 DEF Up
    <3>2. o \in Sharers(T, d.o, f) /\ HomeOf(T, d) = Home(op, i) =>
            ~Shut(T, d.o, f) /\ d.row # r
      BY <1>5, <1>6, <2>3 DEF Clash, HomeOf
    <3>3. \A p \in DOMAIN T.ops : WellFormed(T, T.ops[p])
      BY DEF TableSound
    <3>4. Tag(T, d, f) \in Raised(flags, op, i, r)
      BY <1>4, <2>1, <2>3, <3>1, <3>2, <3>3, OthersSpare
    <3> QED BY <1>1, <3>4
  <2> QED BY <1>1, <2>2, <2>3 DEF Up
<1>10. Apart(T, calls')
  <2>1. \A d \in calls : ~Clash(T, d, c) /\ ~Clash(T, c, d)
    BY <1>5, <1>6, ClashBothWays
  <2> QED BY <1>1, <2>1 DEF Apart, Sound, FlagsKept
<1>11. FormsSound(T, open', acts')
  BY <1>2 DEF FormsMove
<1>12. \A d \in calls' : IsCall(T, open', acts', d) /\ Up(T, open', flags', d)
  BY <1>1, <1>7, <1>8, <1>9
<1> QED BY <1>1, <1>10, <1>11, <1>12 DEF SoundNext, Sound, FlagsKept

LEMMA DealKeeps ==
  ASSUME NEW T, TableSound(T), Sound(T), NEW c \in calls, Deal(T, c)
  PROVE  SoundNext(T)
<1>1. PICK done \in BOOLEAN :
        calls' = (calls \ {c}) \cup
                   {[c EXCEPT !.at = IF done THEN "done" ELSE "refused", !.v = clock']}
  BY DEF Deal
<1> DEFINE d == [c EXCEPT !.at = IF done THEN "done" ELSE "refused", !.v = clock']
<1>2. open' = open /\ acts' = acts /\ flags' = flags /\ gets' = gets
  BY DEF Deal
<1>3. \A x \in calls : DOMAIN x = CallFields /\ Like(x, x)
  BY DEF Sound, FlagsKept, IsCall, Like
<1>4. DOMAIN d = CallFields /\ Like(d, c)
  BY <1>3 DEF Like, CallFields
<1> HIDE DEF d
<1>5. FormsMove(T, open, acts, open', acts')
  BY <1>2 DEF Sound, FlagsKept, FormsMove, FormsSound
<1>6. \A x \in calls' : DOMAIN x = CallFields /\ \E a \in calls : Like(x, a)
  BY <1>1, <1>3, <1>4 DEF d
<1>7. \A x, y \in calls' : x # y => \E a, b \in calls : a # b /\ Like(x, a) /\ Like(y, b)
  <2>1. calls' = (calls \ {c}) \cup {d}
    BY <1>1 DEF d
  <2> QED BY <1>3, <1>4, <2>1
<1>8. FlagsKept(T, open', acts', flags', calls')
  BY <1>2, <1>5, <1>6, <1>7, FlagsStayKept DEF Sound
<1> QED BY <1>2, <1>8 DEF Sound, SoundNext

LEMMA LandGetKeeps ==
  ASSUME NEW T, TableSound(T), Sound(T), NEW g \in gets, LandGet(T, g)
  PROVE  SoundNext(T)
<1> DEFINE over == {c \in calls : c.awaits = {<<g.r, g.n>>}}
           Less(c) == [c EXCEPT !.awaits = @ \ {<<g.r, g.n>>}]
<1>1. /\ gets' = gets \ {g} /\ open' = open /\ acts' = acts
      /\ calls' = {Less(c) : c \in calls \ over}
      /\ flags' = {t \in flags :
                     /\ Heeded(T, g) => t \notin ReadFlags(T, {g.r})
                     /\ \A c \in over : LET op == T.ops[c.o] IN
                          t \in Lowered(flags, op.sets, op, c.i, c.row)}
  BY DEF LandGet
<1>2. g.r \in DOMAIN T.reads
  BY DEF Sound, Reading
<1>3. FormsMove(T, open, acts, open', acts')
  BY <1>1 DEF Sound, FlagsKept, FormsMove, FormsSound
<1>4. \A c \in calls : DOMAIN Less(c) = CallFields /\ Like(Less(c), c)
  BY DEF Sound, FlagsKept, IsCall, Like, CallFields
<1>5. ASSUME NEW a \in calls \ over, NEW f, Keeps(T, a.o, f),
             T.ops[a.o].own => Lives(T, open, a.i), Tag(T, a, f) \in flags
      PROVE  Tag(T, a, f) \in flags'
  <2>1. Tag(T, a, f) \notin ReadFlags(T, {g.r})
    <3>1. IsCall(T, open, acts, a)
      BY DEF Sound, FlagsKept
    <3>2. Tag(T, a, f).i = 0 => ~T.ops[a.o].own
      BY <3>1 DEF Tag, HomeOf, Home, IsCall, Numbered
    <3>3. ~T.ops[a.o].own => f \notin T.reads[g.r].sets
      BY <1>2, <1>5 DEF Keeps
    <3>4. Tag(T, a, f).f = f
      BY DEF Tag
    <3> QED BY <3>2, <3>3, <3>4 DEF ReadFlags, Tags
  <2>2. ASSUME NEW c \in over
        PROVE  Tag(T, a, f) \in Lowered(flags, T.ops[c.o].sets, T.ops[c.o], c.i, c.row)
    <3>1. /\ IsCall(T, open, acts, a) /\ IsCall(T, open, acts, c) /\ ~Clash(T, a, c)
      BY DEF Sound, FlagsKept, Apart
    <3>2. c.o \in Sharers(T, a.o, f) /\ HomeOf(T, a) = Home(T.ops[c.o], c.i) =>
            ~Shut(T, a.o, f) /\ a.row # c.row
      BY <1>5, <3>1 DEF Clash, HomeOf
    <3>3. \A p \in DOMAIN T.ops : WellFormed(T, T.ops[p])
      BY DEF TableSound
    <3> QED BY <1>5, <3>1, <3>2, <3>3, OthersSpare DEF IsCall
  <2> QED BY <1>1, <1>5, <2>1, <2>2
<1> HIDE DEF over, Less
<1>6. \A x \in calls' : DOMAIN x = CallFields /\ \E a \in calls :
        /\ Like(x, a)
        /\ \A f : Keeps(T, a.o, f) /\ (T.ops[a.o].own => Lives(T, open, a.i))
                   /\ Tag(T, a, f) \in flags
                     => Tag(T, a, f) \in flags'
  BY <1>1, <1>4, <1>5
<1>7. \A x, y \in calls' : x # y => \E a, b \in calls : a # b /\ Like(x, a) /\ Like(y, b)
  BY <1>1, <1>4
<1>8. FlagsKept(T, open', acts', flags', calls')
  <2>1. FlagsKept(T, open, acts, flags, calls) /\ open' = open /\ acts' = acts
    BY <1>1 DEF Sound
  <2> HIDE DEF Less
  <2> QED BY <1>3, <1>6, <1>7, <2>1, FlagsStayKept
<1> QED BY <1>1, <1>8 DEF Sound, SoundNext, Reading

\* What stays of the flags that vanish with their forms.
LEMMA KeptStay ==
  ASSUME NEW T, NEW F, NEW c, open' \in [Forms(T) -> [n : Nat, on : BOOLEAN]], NEW f,
         T.ops[c.o].own \in BOOLEAN, T.ops[c.o].own => Lives(T, open', c.i), Tag(T, c, f) \in F
  PROVE  Tag(T, c, f) \in Kept(T, F)
<1>1. CASE ~T.ops[c.o].own
  BY <1>1 DEF Kept, Tag, HomeOf, Home
<1>2. CASE T.ops[c.o].own
  <2>1. PICK g \in Forms(T) : open'[g].on /\ open'[g].n = c.i
    BY <1>2 DEF Lives
  <2>2. open'[g] = [n |-> c.i, on |-> TRUE]
    BY <2>1
  <2>3. Tag(T, c, f).i = c.i
    BY <1>2 DEF Tag, HomeOf, Home
  <2> QED BY <2>2, <2>3 DEF Kept
<1> QED BY <1>1, <1>2

LEMMA FailKeeps ==
  ASSUME NEW T, TableSound(T), Sound(T), NEW c \in calls, Fail(T, c)
  PROVE  SoundNext(T)
<1> DEFINE op == T.ops[c.o]
<1>1. /\ calls' = calls \ {c} /\ acts' = acts
      /\ open' = [f \in DOMAIN open |->
                    [open[f] EXCEPT !.on = @ /\ ~(op.drops /\ f = op.form)]]
      /\ flags' = Kept(T, Lowered(flags, op.sets, op, c.i, c.row)) \cup ReadFlags(T, op.retries)
      /\ gets' = AskedFor(T, gets, op.retries, subject)
  BY DEF Fail
<1>2. FormsSound(T, open, acts) /\ IsCall(T, open, acts, c) /\ WellFormed(T, op)
  BY DEF Sound, FlagsKept, IsCall, TableSound
<1> HIDE DEF op
<1>3. FormsClose(T)
  <2>1. \A g \in Forms(T) : /\ open[g] \in [n : Nat, on : BOOLEAN]
                           /\ open'[g] = [open[g] EXCEPT !.on = @ /\ ~(op.drops /\ g = op.form)]
    BY <1>1, <1>2 DEF FormsSound
  <2>2. DOMAIN open' = Forms(T) /\ open' = [g \in Forms(T) |-> open'[g]]
    BY <1>1, <1>2 DEF FormsSound
  <2> QED BY <1>1, <2>1, <2>2 DEF FormsClose
<1>4. FormsMove(T, open, acts, open', acts')
  BY <1>3, ClosingMoves
<1>5. \A x \in calls' : x \in calls /\ DOMAIN x = CallFields /\ Like(x, x)
  BY <1>1 DEF Sound, FlagsKept, IsCall, Like
<1>6. ASSUME NEW a \in calls \ {c}, NEW f, Keeps(T, a.o, f),
             T.ops[a.o].own => Lives(T, open', a.i) /\ Lives(T, open, a.i),
             Tag(T, a, f) \in flags
      PROVE  Tag(T, a, f) \in flags'
  <2>1. IsCall(T, open, acts, a) /\ ~Clash(T, a, c)
    BY DEF Sound, FlagsKept, Apart
  <2>2. c.o \in Sharers(T, a.o, f) /\ HomeOf(T, a) = Home(T.ops[c.o], c.i) =>
          ~Shut(T, a.o, f) /\ a.row # c.row
    BY <1>6, <2>1 DEF Clash, HomeOf
  <2>3. \A p \in DOMAIN T.ops : WellFormed(T, T.ops[p])
    BY DEF TableSound
  <2>4. Tag(T, a, f) \in Lowered(flags, op.sets, op, c.i, c.row)
    BY <1>2, <1>6, <2>1, <2>2, <2>3, OthersSpare DEF IsCall, op
  <2>5. T.ops[a.o].own \in BOOLEAN
    BY <2>1, <2>3 DEF IsCall, WellFormed
  <2>6. Tag(T, a, f) \in Kept(T, Lowered(flags, op.sets, op, c.i, c.row))
    BY <1>3, <1>6, <2>4, <2>5, KeptStay DEF FormsClose
  <2> QED BY <1>1, <2>6
<1>7. FlagsKept(T, open', acts', flags', calls')
  <2>1. \A x \in calls' : DOMAIN x = CallFields /\ \E a \in calls :
          /\ Like(x, a)
          /\ \A f : Keeps(T, a.o, f)
                     /\ (T.ops[a.o].own => Lives(T, open', a.i) /\ Lives(T, open, a.i))
                     /\ Tag(T, a, f) \in flags
                       => Tag(T, a, f) \in flags'
    BY <1>1, <1>5, <1>6
  <2>2. \A x, y \in calls' : x # y => \E a, b \in calls : a # b /\ Like(x, a) /\ Like(y, b)
    BY <1>5
  <2>3. FlagsKept(T, open, acts, flags, calls)
    BY DEF Sound
  <2> QED BY <1>4, <2>1, <2>2, <2>3, FlagsStayKept
<1>8. Reading(T, gets')
  <2>1. op.retries \subseteq DOMAIN T.reads
    BY <1>2 DEF WellFormed
  <2> QED BY <1>1, <2>1, StillReading DEF Sound
<1> QED BY <1>7, <1>8 DEF SoundNext

LEMMA SucceedKeeps ==
  ASSUME NEW T, TableSound(T), Sound(T), NEW c \in calls, Succeed(T, c)
  PROVE  SoundNext(T)
<1> DEFINE op == T.ops[c.o]
           again == AskedFor(T, AskedFor(T, gets, op.reloads, c.s), op.refreshes, subject)
           awaited == {<<g.r, g.n>> : g \in {h \in again :
                         h.r \in op.reloads /\ h.s = Key(T, h.r, c.s)}}
           waiting == op.waits /\ op.reloads # {}
           left == IF waiting THEN flags ELSE Lowered(flags, op.sets, op, c.i, c.row)
           then == T.ops[op.next]
           chain == op.next # ""
           waits == [c EXCEPT !.at = "reloading", !.awaits = awaited]
           next == [c EXCEPT !.o = op.next, !.at = "out", !.v = 0]
           raised == IF op.next = "" THEN left ELSE Raised(left, then, c.i, c.row)
<1>1. /\ calls' = (calls \ {c}) \cup (IF waiting THEN {waits} ELSE {})
                    \cup (IF op.next # "" THEN {next} ELSE {})
      /\ acts' = acts /\ gets' = again
      /\ open' = [f \in DOMAIN open |->
                    [open[f] EXCEPT !.on = @ /\ f \notin op.shuts
                                           /\ ~(op.closes /\ f = op.form)]]
      /\ flags' = Kept(T, raised) \cup ReadFlags(T, op.reloads \cup op.refreshes)
  BY DEF Succeed
<1>2. FormsSound(T, open, acts) /\ IsCall(T, open, acts, c) /\ WellFormed(T, op)
  BY DEF Sound, FlagsKept, IsCall, TableSound
<1>3. DOMAIN waits = CallFields /\ Like(waits, c)
  BY <1>2 DEF IsCall, Like, CallFields
<1>4. DOMAIN next = CallFields /\ next.o = op.next /\ next.i = c.i /\ next.row = c.row
  BY <1>2 DEF IsCall, CallFields
<1>5. left = IF waiting THEN flags ELSE Lowered(flags, op.sets, op, c.i, c.row)
  OBVIOUS
<1>6. raised = IF chain THEN Raised(left, then, c.i, c.row) ELSE left
  OBVIOUS
<1>7. waiting <=> (op.waits /\ op.reloads # {})
  OBVIOUS
<1>8. Reading(T, gets')
  <2>1. op.reloads \subseteq DOMAIN T.reads /\ op.refreshes \subseteq DOMAIN T.reads
    BY <1>2 DEF WellFormed
  <2>2. Reading(T, AskedFor(T, gets, op.reloads, c.s))
    BY <2>1, StillReading DEF Sound
  <2> QED BY <1>1, <2>1, <2>2, StillReading
<1>9. \A x \in calls' : \/ x \in calls \ {c}
                        \/ waiting /\ x = waits
                        \/ chain /\ x = next
  BY <1>1
<1> HIDE DEF again, awaited, waiting, left, waits, next, raised
<1>10. FormsClose(T)
  <2> HIDE DEF op, then, chain
  <2>1. \A g \in Forms(T) :
          /\ open[g] \in [n : Nat, on : BOOLEAN]
          /\ open'[g] = [open[g] EXCEPT !.on = @ /\ g \notin op.shuts /\ ~(op.closes /\ g = op.form)]
    BY <1>1, <1>2 DEF FormsSound
  <2>2. DOMAIN open' = Forms(T) /\ open' = [g \in Forms(T) |-> open'[g]]
    BY <1>1, <1>2 DEF FormsSound
  <2> QED BY <1>1, <2>1, <2>2 DEF FormsClose
<1>11. FormsMove(T, open, acts, open', acts')
  BY <1>10, ClosingMoves
<1>12. chain => /\ op.next \in DOMAIN T.ops /\ WellFormed(T, then)
               /\ Numbered(T, open, acts, then, c.i)
  <2> SUFFICES ASSUME chain
               PROVE  /\ op.next \in DOMAIN T.ops /\ WellFormed(T, then)
                      /\ Numbered(T, open, acts, then, c.i)
    OBVIOUS
  <2>1. op.next \in DOMAIN T.ops /\ (then.own => op.own /\ op.form = then.form)
    BY <1>2 DEF WellFormed
  <2>2. WellFormed(T, then)
    BY <2>1 DEF TableSound
  <2>3. Numbered(T, open, acts, op, c.i)
    BY <1>2 DEF IsCall
  <2> HIDE DEF op, then
  <2> QED BY <2>1, <2>2, <2>3 DEF Numbered
<1>13. ASSUME NEW d \in calls, d # c \/ waiting, NEW f, Keeps(T, d.o, f),
              chain, op.next \in Sharers(T, d.o, f), HomeOf(T, d) = Home(then, c.i)
       PROVE  d # c /\ ~Shut(T, d.o, f) /\ d.row # c.row
  <2>1. c.o \in Sharers(T, d.o, f) /\ ~waiting
    BY <1>2, <1>7, <1>13 DEF Keeps, IsCall
  <2>2. op.own = then.own
    BY <1>13, <2>1 DEF Sharers, Together
  <2>3. HomeOf(T, d) = HomeOf(T, c)
    BY <1>13, <2>2 DEF HomeOf, Home
  <2>4. ~Clash(T, d, c)
    BY <1>13, <2>1 DEF Sound, FlagsKept, Apart
  <2> QED BY <1>13, <2>1, <2>3, <2>4 DEF Clash
<1>14. ASSUME NEW d \in calls, d # c \/ waiting, NEW f, Keeps(T, d.o, f),
              T.ops[d.o].own => Lives(T, open', d.i)
       PROVE  Tag(T, d, f) \in flags'
  <2>1. /\ IsCall(T, open, acts, d) /\ Up(T, open, flags, d)
        /\ d # c => ~Clash(T, d, c)
    BY DEF Sound, FlagsKept, Apart
  <2>2. \A p \in DOMAIN T.ops : WellFormed(T, T.ops[p])
    BY DEF TableSound
  <2>3. T.ops[d.o].own => Lives(T, open, d.i)
    BY <1>2, <1>11, <1>14, <2>1, StillNumbered DEF IsCall
  <2>4. Tag(T, d, f) \in flags
    BY <1>14, <2>1, <2>3 DEF Up
  <2>5. Tag(T, d, f) \in left
    <3>1. CASE waiting
      BY <1>5, <2>4, <3>1
    <3>2. CASE ~waiting
      <4>1. c.o \in Sharers(T, d.o, f) /\ HomeOf(T, d) = Home(T.ops[c.o], c.i) =>
              ~Shut(T, d.o, f) /\ d.row # c.row
        BY <1>14, <2>1, <3>2 DEF Clash, HomeOf
      <4>2. Tag(T, d, f) \in Lowered(flags, op.sets, op, c.i, c.row)
        BY <1>2, <1>14, <2>1, <2>2, <2>3, <2>4, <4>1, OthersSpare DEF IsCall
      <4> QED BY <1>5, <3>2, <4>2
    <3> QED BY <3>1, <3>2
  <2>6. Tag(T, d, f) \in raised
    <3>1. CASE chain
      <4>1. op.next \in Sharers(T, d.o, f) /\ HomeOf(T, d) = Home(then, c.i) =>
              ~Shut(T, d.o, f) /\ d.row # c.row
        BY <1>13, <1>14, <3>1
      <4>2. op.next \in DOMAIN T.ops /\ Numbered(T, open, acts, then, c.i)
        BY <1>12, <3>1
      <4>3. Tag(T, d, f) \in Raised(left, then, c.i, c.row)
        BY <1>14, <2>1, <2>2, <2>3, <2>5, <4>1, <4>2, OthersSpare
      <4> QED BY <1>6, <3>1, <4>3
    <3>2. CASE ~chain
      BY <1>6, <2>5, <3>2
    <3> QED BY <3>1, <3>2
  <2>7. T.ops[d.o].own \in BOOLEAN
    BY <2>1, <2>2 DEF IsCall, WellFormed
  <2>8. Tag(T, d, f) \in Kept(T, raised)
    <3>1. open' \in [Forms(T) -> [n : Nat, on : BOOLEAN]]
      BY <1>10 DEF FormsClose
    <3>2. T.ops[d.o].own => Lives(T, open', d.i)
      BY <1>14
    <3> QED BY ONLY <2>6, <2>7, <3>1, <3>2, KeptStay
  <2> QED BY <1>1, <2>8
<1>15. ASSUME NEW d \in calls, d # c \/ waiting
       PROVE  IsCall(T, open', acts', d) /\ Up(T, open', flags', d)
  <2>1. IsCall(T, open', acts', d)
    BY <1>2, <1>11, StillNumbered DEF IsCall, Sound, FlagsKept
  <2> QED BY <1>14, <1>15, <2>1 DEF Up
<1>16. waiting => IsCall(T, open', acts', waits) /\ Up(T, open', flags', waits)
  BY <1>3, <1>15 DEF IsCall, Up, Like, Tag, HomeOf
<1>17. ASSUME chain
       PROVE  IsCall(T, open', acts', next) /\ Up(T, open', flags', next)
  <2>1. IsCall(T, open', acts', next)
    <3>1. Numbered(T, open', acts', then, c.i)
      BY <1>2, <1>11, <1>12, <1>17, StillNumbered
    <3> HIDE DEF op, then
    <3>2. T.ops[next.o] = then /\ next.i = c.i /\ DOMAIN next = CallFields
      BY <1>4 DEF then
    <3>3. next.o \in DOMAIN T.ops
      BY <1>4, <1>12, <1>17
    <3> HIDE DEF next, chain
    <3> QED BY ONLY <3>1, <3>2, <3>3 DEF IsCall
  <2>2. ASSUME NEW f, Keeps(T, next.o, f), T.ops[next.o].own => Lives(T, open', next.i)
        PROVE  Tag(T, next, f) \in flags'
    <3>1. Tag(T, next, f) \in raised
      BY <1>4, <1>6, <1>17, <2>2 DEF Raised, Tags, Tag, HomeOf, Keeps
    <3>2. T.ops[next.o].own \in BOOLEAN
      BY <1>4, <1>12, <1>17 DEF WellFormed
    <3>3. Tag(T, next, f) \in Kept(T, raised)
      BY <1>10, <2>2, <3>1, <3>2, KeptStay DEF FormsClose
    <3> QED BY <1>1, <3>3
  <2> QED BY <2>1, <2>2 DEF Up
<1>18. ASSUME NEW d, NEW b \in calls, Like(d, b), b # c \/ waiting, chain
       PROVE  ~Clash(T, d, next) /\ ~Clash(T, next, d)
  <2>1. ~Clash(T, d, next)
    BY <1>4, <1>13, <1>18 DEF Clash, Like, HomeOf
  <2>2. next.o \in DOMAIN T.ops
    BY <1>4, <1>12, <1>18
  <2> QED BY <2>1, <2>2, ClashBothWays
<1>19. \A x \in calls \ {c} : Like(x, x) /\ ~Clash(T, x, c) /\ ~Clash(T, c, x)
  BY DEF Sound, FlagsKept, Apart, Like
<1>20. Apart(T, calls')
  <2> SUFFICES ASSUME NEW x \in calls', NEW y \in calls', x # y
               PROVE  ~Clash(T, x, y)
    BY DEF Apart
  <2>1. CASE x \in calls \ {c} /\ y \in calls \ {c}
    BY <2>1 DEF Sound, FlagsKept, Apart
  <2>2. CASE chain /\ (x = next \/ y = next)
    BY <1>3, <1>9, <1>18, <1>19, <2>2
  <2>3. CASE waiting /\ x = waits /\ y \in calls \ {c}
    BY <1>3, <1>19, <2>3, LikeClash
  <2>4. CASE waiting /\ y = waits /\ x \in calls \ {c}
    BY <1>3, <1>19, <2>4, LikeClash
  <2> QED BY <1>9, <2>1, <2>2, <2>3, <2>4
<1>21. \A x \in calls' : IsCall(T, open', acts', x) /\ Up(T, open', flags', x)
  BY <1>9, <1>15, <1>16, <1>17
<1> QED BY <1>8, <1>11, <1>20, <1>21 DEF SoundNext, FlagsKept, FormsMove

-----------------------------------------------------------------------------
\* What holds of the screen that is mounted, whatever its table.
ScreenSound == panel \in DOMAIN Panels /\ Sound(Here)

LEMMA TablesSound ==
  ASSUME NEW p \in DOMAIN Panels
  PROVE  TableSound(Panels[p])
BY ScreensAssumption DEF TableSound

LEMMA SoundAtFirst == ScreensInit => ScreenSound
<1> SUFFICES ASSUME ScreensInit PROVE ScreenSound
  OBVIOUS
<1>1. open = [f \in Forms(Here) |-> [n |-> 0, on |-> FALSE]] /\ acts = 0 /\ calls = {}
  BY DEF ScreensInit
<1>2. FormsSound(Here, open, acts)
  BY <1>1 DEF FormsSound
<1>3. FlagsKept(Here, open, acts, flags, calls)
  BY <1>1, <1>2 DEF FlagsKept, Apart
<1>4. Reading(Here, gets)
  BY StillReading DEF ScreensInit, Reading
<1> QED BY <1>3, <1>4 DEF ScreenSound, Sound, ScreensInit

LEMMA SoundGoesOn == ScreenSound /\ [ScreensNext]_screensVars => ScreenSound'
<1> SUFFICES ASSUME ScreenSound, [ScreensNext]_screensVars PROVE ScreenSound'
  OBVIOUS
<1>1. CASE UNCHANGED screensVars
  BY <1>1 DEF screensVars, ScreenSound, Sound, Here, Tables
<1>2. CASE ScreensNext
  <2> DEFINE T == Here
  <2>1. TableSound(T) /\ Sound(T)
    BY TablesSound DEF ScreenSound, Here, Tables
  <2>2. panel' = panel
    BY <1>2 DEF ScreensNext, Choose, OpenForm, Dismiss, Click, Deal, LandGet, Fail, Succeed
  <2> HIDE DEF T
  <2>3. SoundNext(T)
    <3>1. ASSUME NEW s, Choose(T, s) PROVE SoundNext(T)
      BY <2>1, <3>1, ChooseKeeps
    <3>2. ASSUME NEW f \in Forms(T), OpenForm(T, f) \/ Dismiss(T, f) PROVE SoundNext(T)
      BY <2>1, <3>2, OpenFormKeeps, DismissKeeps
    <3>3. ASSUME NEW o \in DOMAIN T.ops, NEW r, Click(T, o, r) PROVE SoundNext(T)
      BY <2>1, <3>3, ClickKeeps
    <3>4. ASSUME NEW g \in gets, LandGet(T, g) PROVE SoundNext(T)
      BY <2>1, <3>4, LandGetKeeps
    <3>5. ASSUME NEW c \in calls, Deal(T, c) \/ Fail(T, c) \/ Succeed(T, c)
          PROVE  SoundNext(T)
      BY <2>1, <3>5, DealKeeps, FailKeeps, SucceedKeeps
    <3> QED BY <1>2, <3>1, <3>2, <3>3, <3>4, <3>5 DEF ScreensNext, T
  <2> QED BY <2>2, <2>3 DEF ScreenSound, Sound, SoundNext, T, Here, Tables
<1> QED BY <1>1, <1>2

\* Two presses of one control, from one form for one row and choice, are kept
\* apart by the flag that it raises and looks at.
LEMMA SoundMakesNoTwins == ScreenSound => NoTwinWrites
<1> SUFFICES ASSUME ScreenSound, NEW c \in calls, NEW d \in calls,
                    c # d, c.o = d.o, c.i = d.i, c.row = d.row,
                    Guarded(Here.ops[c.o]), <<panel, c.o>> \notin LastBusyOnly
             PROVE  FALSE
  BY DEF NoTwinWrites
<1>1. c.o \in DOMAIN Here.ops /\ Apart(Here, calls)
  BY DEF ScreenSound, Sound, FlagsKept, IsCall
<1>2. PICK f : Keeps(Here, c.o, f)
  BY <1>1, ScreensAssumption DEF ScreenSound, Here, Tables
<1>3. c.o \in Sharers(Here, c.o, f)
  BY <1>1, <1>2 DEF Sharers, Together, Keeps
<1>4. Clash(Here, c, d)
  BY <1>2, <1>3 DEF Clash, HomeOf
<1> QED BY <1>1, <1>4 DEF Apart

\* On any screen, for any rows, choices and number of presses: a control that
\* turns itself off (setBusy(true) and disabled={busy}) never has the same
\* request under way twice, but for the controls LastBusyOnly names.
THEOREM NobodyActsTwice == ScreensSpec => []NoTwinWrites
<1>1. ScreensSpec => []ScreenSound
  BY SoundAtFirst, SoundGoesOn, PTL DEF ScreensSpec
<1> QED BY <1>1, SoundMakesNoTwins, PTL

-----------------------------------------------------------------------------
(* What asking for reads leaves in flight.                                   *)

SameGet(h, g) == h.r = g.r /\ h.s = g.s /\ h.n = g.n /\ h.from = g.from

LEMMA AskedAnew ==
  ASSUME NEW T, NEW G, NEW R, NEW s, Reading(T, G), NEW r \in R
  PROVE  \E h \in AskedFor(T, G, R, s) : h.r = r /\ h.live /\ h.s = Key(T, r, s)
<1>1. CASE \A g \in G : g.r = r => ~Joined(T, g, R, s)
  <2> DEFINE h == [r |-> r, s |-> Key(T, r, s), n |-> Slot(G, r), from |-> clock, live |-> TRUE]
  <2>1. h \in AskedFor(T, G, R, s)
    BY <1>1 DEF AskedFor
  <2> QED BY <2>1
<1>2. CASE \E g \in G : g.r = r /\ Joined(T, g, R, s)
  <2>1. PICK g \in G : g.r = r /\ Joined(T, g, R, s)
    BY <1>2
  <2> DEFINE h == [g EXCEPT !.live = IF g.r \in R THEN Joined(T, g, R, s) ELSE @]
  <2>2. h \in AskedFor(T, G, R, s)
    BY DEF AskedFor
  <2>3. h.r = g.r /\ h.s = g.s /\ h.live
    BY <2>1 DEF Reading, GetFields
  <2> QED BY <2>1, <2>2, <2>3 DEF Joined
<1> QED BY <1>1, <1>2

LEMMA AskedBefore ==
  ASSUME NEW T, NEW G, NEW R, NEW s, Reading(T, G), NEW g \in G
  PROVE  \E h \in AskedFor(T, G, R, s) : SameGet(h, g) /\ (g.r \notin R => h.live = g.live)
<1> DEFINE h == [g EXCEPT !.live = IF g.r \in R THEN Joined(T, g, R, s) ELSE @]
<1>1. h \in AskedFor(T, G, R, s)
  BY DEF AskedFor
<1>2. SameGet(h, g) /\ (g.r \notin R => h.live = g.live)
  BY DEF Reading, GetFields, SameGet
<1> QED BY <1>1, <1>2

LEMMA AskedOnly ==
  ASSUME NEW T, NEW G, NEW R, NEW s, Reading(T, G), NEW h \in AskedFor(T, G, R, s)
  PROVE  \/ \E g \in G : /\ SameGet(h, g)
                        /\ h.live = IF g.r \in R THEN Joined(T, g, R, s) ELSE g.live
         \/ /\ h.r \in R /\ h.s = Key(T, h.r, s) /\ h.from = clock /\ h.live
            /\ \A g \in G : g.r = h.r => ~Joined(T, g, R, s)
<1>1. CASE \E g \in G : h = [g EXCEPT !.live = IF g.r \in R THEN Joined(T, g, R, s) ELSE @]
  BY <1>1 DEF Reading, GetFields, SameGet
<1>2. CASE \E r \in {q \in R : \A g \in G : g.r = q => ~Joined(T, g, R, s)} :
             h = [r |-> r, s |-> Key(T, r, s), n |-> Slot(G, r), from |-> clock, live |-> TRUE]
  <2>1. PICK r \in R :
          /\ \A g \in G : g.r = r => ~Joined(T, g, R, s)
          /\ h = [r |-> r, s |-> Key(T, r, s), n |-> Slot(G, r), from |-> clock, live |-> TRUE]
    BY <1>2
  <2>2. h.r = r /\ h.s = Key(T, r, s) /\ h.from = clock /\ h.live
    BY <2>1
  <2> QED BY <2>1, <2>2
<1> QED BY <1>1, <1>2, Zenon DEF AskedFor

-----------------------------------------------------------------------------
(* Who has every flag up: a call under way, or a read whose landing counts.  *)

HeedFor(T, g, s) ==
  /\ T.reads[g.r].latest => g.live
  /\ T.reads[g.r].matches => g.s = Key(T, g.r, s)

FlagsOf(T, r) == Tags(T.reads[r].sets, 0, Blank)

LEMMA ReadFlagsOf ==
  \A T, R, t : t \in ReadFlags(T, R) <=> \E r \in R : t \in FlagsOf(T, r)
BY DEF ReadFlags, FlagsOf

Owns(T, c, t) ==
  /\ t.f \in T.ops[c.o].sets /\ t.i = HomeOf(T, c)
  /\ T.ops[c.o].rows = "each" => t.r = c.row
Brings(T, g, s, t) == HeedFor(T, g, s) /\ t \in FlagsOf(T, g.r)

OwnedIn(T, F, C, G, s) ==
  \A t \in F : (\E c \in C : Owns(T, c, t)) \/ (\E g \in G : Brings(T, g, s, t))
Owned(T) == OwnedIn(T, flags, calls, gets, subject)
OwnedNext(T) == OwnedIn(T, flags', calls', gets', subject')

\* No read is asked again under another choice where only the choice's own
\* answer would lower its flag.
TableFrees(T) ==
  \A o \in DOMAIN T.ops : \A r \in T.ops[o].reloads :
    ~(T.reads[r].keyed /\ T.reads[r].matches /\ T.reads[r].sets # {})

\* Asking for the reads R, for s, while s1 is chosen: who read before still
\* does, or its read was asked for again; and who asks reads.
LEMMA AskedReads ==
  ASSUME NEW T, NEW G, NEW R, NEW s, NEW s0, NEW s1, Reading(T, G),
         s1 = s0 \/ \A r \in DOMAIN T.reads : T.reads[r].keyed => r \in R,
         s = s1 \/ \A r \in R : ~(T.reads[r].keyed /\ T.reads[r].matches /\ T.reads[r].sets # {})
  PROVE  /\ \A t : (\E g \in G : Brings(T, g, s0, t)) =>
                    \E h \in AskedFor(T, G, R, s) : Brings(T, h, s1, t)
         /\ \A t \in ReadFlags(T, R) : \E h \in AskedFor(T, G, R, s) : Brings(T, h, s1, t)
<1>1. ASSUME NEW r \in R, NEW t \in FlagsOf(T, r)
      PROVE  \E h \in AskedFor(T, G, R, s) : Brings(T, h, s1, t)
  <2>1. PICK h \in AskedFor(T, G, R, s) : h.r = r /\ h.live /\ h.s = Key(T, r, s)
    BY AskedAnew
  <2>2. T.reads[r].sets # {}
    BY <1>1 DEF FlagsOf, Tags
  <2>3. T.reads[r].matches => Key(T, r, s) = Key(T, r, s1)
    BY <2>2 DEF Key
  <2> QED BY <1>1, <2>1, <2>3 DEF Brings, HeedFor
<1>2. ASSUME NEW t, NEW g \in G, Brings(T, g, s0, t)
      PROVE  \E h \in AskedFor(T, G, R, s) : Brings(T, h, s1, t)
  <2>1. CASE g.r \in R
    BY <1>1, <1>2, <2>1 DEF Brings
  <2>2. CASE g.r \notin R
    <3>1. PICK h \in AskedFor(T, G, R, s) : SameGet(h, g) /\ h.live = g.live
      BY <2>2, AskedBefore
    <3>2. Key(T, g.r, s0) = Key(T, g.r, s1)
      BY <2>2 DEF Key, Reading
    <3> QED BY <1>2, <3>1, <3>2 DEF Brings, HeedFor, SameGet
  <2> QED BY <2>1, <2>2
<1> QED BY <1>1, <1>2, ReadFlagsOf

LEMMA LikeOwns ==
  ASSUME NEW T, NEW x, NEW a, NEW t, Like(x, a), Owns(T, a, t)
  PROVE  Owns(T, x, t)
BY DEF Like, Owns, HomeOf

LEMMA ChooseOwns ==
  ASSUME NEW T, Sound(T), Owned(T), NEW s, Choose(T, s)
  PROVE  OwnedNext(T)
<1> DEFINE R == {r \in DOMAIN T.reads : T.reads[r].keyed}
<1>1. /\ gets' = AskedFor(T, gets, R, s) /\ calls' = calls /\ subject' = s
      /\ flags' = flags \cup ReadFlags(T, R)
  BY DEF Choose
<1>2. /\ \A t : (\E g \in gets : Brings(T, g, subject, t)) => \E h \in gets' : Brings(T, h, s, t)
      /\ \A t \in ReadFlags(T, R) : \E h \in gets' : Brings(T, h, s, t)
  BY <1>1, AskedReads DEF Sound
<1> HIDE DEF R
<1> QED BY <1>1, <1>2 DEF Owned, OwnedNext, OwnedIn

LEMMA ClickOwns ==
  ASSUME NEW T, Owned(T), NEW o \in DOMAIN T.ops, NEW r, Click(T, o, r)
  PROVE  OwnedNext(T)
<1> DEFINE op == T.ops[o]
           i  == IF op.form = "" THEN 0 ELSE open[op.form].n
           c  == [o |-> o, by |-> o, s |-> subject, i |-> i, row |-> r, at |-> "out",
                  v |-> 0, awaits |-> {}, n |-> acts + 1]
<1>1. /\ calls' = calls \cup {c} /\ flags' = Raised(flags, op, i, r)
      /\ gets' = gets /\ subject' = subject
  BY DEF Click
<1>2. c.o = o /\ c.i = i /\ c.row = r
  OBVIOUS
<1> HIDE DEF c, i
<1>3. \A t \in flags' : t \in flags \/ Owns(T, c, t)
  BY <1>1, <1>2 DEF Raised, Tags, Owns, HomeOf
<1> QED BY <1>1, <1>3 DEF Owned, OwnedNext, OwnedIn

LEMMA DealOwns ==
  ASSUME NEW T, Sound(T), Owned(T), NEW c \in calls, Deal(T, c)
  PROVE  OwnedNext(T)
<1>1. PICK done \in BOOLEAN :
        calls' = (calls \ {c}) \cup
                   {[c EXCEPT !.at = IF done THEN "done" ELSE "refused", !.v = clock']}
  BY DEF Deal
<1> DEFINE d == [c EXCEPT !.at = IF done THEN "done" ELSE "refused", !.v = clock']
<1>2. Like(d, c)
  BY DEF Like, Sound, FlagsKept, IsCall, CallFields
<1>3. calls' = (calls \ {c}) \cup {d}
  BY <1>1
<1> HIDE DEF d
<1>4. \A a \in calls : \E x \in calls' : Like(x, a)
  BY <1>2, <1>3 DEF Like
<1>5. flags' = flags /\ gets' = gets /\ subject' = subject
  BY DEF Deal
<1> QED BY <1>4, <1>5, LikeOwns DEF Owned, OwnedNext, OwnedIn

LEMMA LandGetOwns ==
  ASSUME NEW T, Sound(T), Owned(T), NEW g \in gets, LandGet(T, g)
  PROVE  OwnedNext(T)
<1> DEFINE over == {c \in calls : c.awaits = {<<g.r, g.n>>}}
           Less(c) == [c EXCEPT !.awaits = @ \ {<<g.r, g.n>>}]
<1>1. /\ gets' = gets \ {g} /\ subject' = subject
      /\ calls' = {Less(c) : c \in calls \ over}
      /\ \A t \in flags' : /\ t \in flags
                           /\ Heeded(T, g) => t \notin ReadFlags(T, {g.r})
                           /\ \A c \in over :
                                t \in Lowered(flags, T.ops[c.o].sets, T.ops[c.o], c.i, c.row)
  BY DEF LandGet
<1>2. \A c \in calls : Like(Less(c), c)
  BY DEF Sound, FlagsKept, IsCall, Like, CallFields
<1>3. \A a \in calls \ over : \E x \in calls' : Like(x, a)
  BY <1>1, <1>2
<1> SUFFICES ASSUME NEW t \in flags'
             PROVE  \/ \E x \in calls' : Owns(T, x, t)
                    \/ \E h \in gets' : Brings(T, h, subject, t)
  BY <1>1 DEF OwnedNext, OwnedIn
<1>4. CASE \E c \in calls : Owns(T, c, t)
  <2>1. PICK c \in calls : Owns(T, c, t)
    BY <1>4
  <2>2. c \notin over
    BY <1>1, <2>1 DEF Owns, Lowered, HomeOf
  <2> QED BY <1>3, <2>1, <2>2, LikeOwns
<1>5. CASE \E h \in gets : Brings(T, h, subject, t)
  <2>1. PICK h \in gets : Brings(T, h, subject, t)
    BY <1>5
  <2>2. h # g
    BY <1>1, <2>1, ReadFlagsOf DEF Brings, HeedFor, Heeded
  <2> QED BY <1>1, <2>1, <2>2
<1> QED BY <1>1, <1>4, <1>5 DEF Owned, OwnedIn

LEMMA FailOwns ==
  ASSUME NEW T, Sound(T), Owned(T), NEW c \in calls, Fail(T, c)
  PROVE  OwnedNext(T)
<1> DEFINE op == T.ops[c.o]
<1>1. /\ calls' = calls \ {c} /\ subject' = subject
      /\ flags' = Kept(T, Lowered(flags, op.sets, op, c.i, c.row)) \cup ReadFlags(T, op.retries)
      /\ gets' = AskedFor(T, gets, op.retries, subject)
  BY DEF Fail
<1>2. /\ \A t : (\E g \in gets : Brings(T, g, subject, t)) =>
                  \E h \in gets' : Brings(T, h, subject, t)
      /\ \A t \in ReadFlags(T, op.retries) : \E h \in gets' : Brings(T, h, subject, t)
  BY <1>1, AskedReads DEF Sound
<1>3. \A t \in flags' : (t \in flags /\ ~Owns(T, c, t)) \/ t \in ReadFlags(T, op.retries)
  BY <1>1 DEF Kept, Lowered, Owns, HomeOf
<1> HIDE DEF op
<1> QED BY <1>1, <1>2, <1>3 DEF Owned, OwnedNext, OwnedIn

LEMMA SucceedOwns ==
  ASSUME NEW T, TableFrees(T), TableSound(T), Sound(T), Owned(T), NEW c \in calls, Succeed(T, c)
  PROVE  OwnedNext(T)
<1> DEFINE op == T.ops[c.o]
           more == AskedFor(T, gets, op.reloads, c.s)
           again == AskedFor(T, more, op.refreshes, subject)
           awaited == {<<g.r, g.n>> : g \in {h \in again :
                         h.r \in op.reloads /\ h.s = Key(T, h.r, c.s)}}
           waiting == op.waits /\ op.reloads # {}
           left == IF waiting THEN flags ELSE Lowered(flags, op.sets, op, c.i, c.row)
           then == T.ops[op.next]
           waits == [c EXCEPT !.at = "reloading", !.awaits = awaited]
           next == [c EXCEPT !.o = op.next, !.at = "out", !.v = 0]
           raised == IF op.next = "" THEN left ELSE Raised(left, then, c.i, c.row)
<1>1. /\ calls' = (calls \ {c}) \cup (IF waiting THEN {waits} ELSE {})
                    \cup (IF op.next # "" THEN {next} ELSE {})
      /\ gets' = again /\ subject' = subject
      /\ flags' = Kept(T, raised) \cup ReadFlags(T, op.reloads \cup op.refreshes)
  BY DEF Succeed
<1>2. IsCall(T, open, acts, c) /\ WellFormed(T, op)
  BY DEF Sound, FlagsKept, IsCall, TableSound
<1>3. Like(waits, c)
  BY <1>2 DEF IsCall, Like, CallFields
<1>4. next.o = op.next /\ next.i = c.i /\ next.row = c.row
  BY <1>2 DEF IsCall, CallFields
<1>5. left = IF waiting THEN flags ELSE Lowered(flags, op.sets, op, c.i, c.row)
  OBVIOUS
<1>6. raised = IF op.next # "" THEN Raised(left, then, c.i, c.row) ELSE left
  OBVIOUS
<1>7. \A d \in calls : d # c \/ waiting => \E x \in calls' : Like(x, d)
  BY <1>1, <1>3 DEF Like
<1>8. op.next # "" => next \in calls'
  BY <1>1
<1>9. /\ op.reloads \subseteq DOMAIN T.reads /\ op.refreshes \subseteq DOMAIN T.reads
      /\ \A r \in op.reloads : ~(T.reads[r].keyed /\ T.reads[r].matches /\ T.reads[r].sets # {})
  BY <1>2 DEF WellFormed, TableFrees, IsCall
<1> HIDE DEF awaited, waiting, left, waits, next, raised, op
<1>10. Reading(T, more)
  BY <1>9, StillReading DEF Sound
<1>11. /\ \A t : (\E g \in gets : Brings(T, g, subject, t)) =>
                  \E h \in more : Brings(T, h, subject, t)
       /\ \A t \in ReadFlags(T, op.reloads) : \E h \in more : Brings(T, h, subject, t)
  BY <1>9, AskedReads DEF Sound
<1>12. /\ \A t : (\E g \in more : Brings(T, g, subject, t)) =>
                  \E h \in gets' : Brings(T, h, subject, t)
       /\ \A t \in ReadFlags(T, op.refreshes) : \E h \in gets' : Brings(T, h, subject, t)
  <2> HIDE DEF more
  <2> QED BY <1>1, <1>10, AskedReads
<1> HIDE DEF more, again
<1> SUFFICES ASSUME NEW t \in flags'
             PROVE  \/ \E x \in calls' : Owns(T, x, t)
                    \/ \E h \in gets' : Brings(T, h, subject, t)
  BY <1>1 DEF OwnedNext, OwnedIn
<1>13. CASE t \in ReadFlags(T, op.reloads \cup op.refreshes)
  BY <1>11, <1>12, <1>13, ReadFlagsOf
<1>14. CASE t \in raised
  <2>1. CASE t \in left
    <3>1. t \in flags
      BY <1>5, <2>1 DEF Lowered
    <3>2. CASE \E d \in calls : Owns(T, d, t)
      <4>1. PICK d \in calls : Owns(T, d, t)
        BY <3>2
      <4>2. d # c \/ waiting
        BY <1>5, <2>1, <4>1 DEF Owns, Lowered, HomeOf, op
      <4> QED BY <1>7, <4>1, <4>2, LikeOwns
    <3>3. CASE \E g \in gets : Brings(T, g, subject, t)
      BY <1>11, <1>12, <3>3
    <3> QED BY <3>1, <3>2, <3>3 DEF Owned, OwnedIn
  <2>2. CASE t \notin left
    <3>1. op.next # "" /\ t \in Tags(then.sets, Home(then, c.i), c.row)
      BY <1>6, <1>14, <2>2 DEF Raised
    <3>2. t.f \in then.sets /\ t.i = Home(then, c.i) /\ t.r = c.row
      <4>1. t \in Tags(then.sets, Home(then, c.i), c.row)
        BY <3>1
      <4> HIDE DEF then
      <4> QED BY ONLY <4>1, TagOf
    <3>3. Owns(T, next, t)
      BY <1>4, <3>2 DEF Owns, HomeOf
    <3> QED BY <1>8, <3>1, <3>3
  <2> QED BY <2>1, <2>2
<1> QED BY <1>1, <1>13, <1>14 DEF Kept

ScreenOwned == ScreenSound /\ Owned(Here)

LEMMA OwnedAtFirst == ScreensInit => ScreenOwned
<1> SUFFICES ASSUME ScreensInit PROVE ScreenOwned
  OBVIOUS
<1>1. /\ flags = ReadFlags(Here, DOMAIN Here.reads)
      /\ gets = AskedFor(Here, {}, DOMAIN Here.reads, subject)
  BY DEF ScreensInit
<1>2. Reading(Here, {})
  BY DEF Reading
<1>3. \A t \in flags : \E h \in gets : Brings(Here, h, subject, t)
  BY <1>1, <1>2, AskedReads
<1> QED BY <1>3, SoundAtFirst DEF ScreenOwned, Owned, OwnedIn

LEMMA OwnedGoesOn == ScreenOwned /\ [ScreensNext]_screensVars => ScreenOwned'
<1> SUFFICES ASSUME ScreenOwned, [ScreensNext]_screensVars PROVE ScreenOwned'
  OBVIOUS
<1>1. CASE UNCHANGED screensVars
  BY <1>1, SoundGoesOn DEF screensVars, ScreenOwned, Owned, Here, Tables
<1>2. CASE ScreensNext
  <2> DEFINE T == Here
  <2>1. TableSound(T) /\ TableFrees(T) /\ Sound(T) /\ Owned(T)
    BY TablesSound, ScreensAssumption DEF ScreenOwned, ScreenSound, Here, Tables, TableFrees
  <2>2. panel' = panel
    BY <1>2 DEF ScreensNext, Choose, OpenForm, Dismiss, Click, Deal, LandGet, Fail, Succeed
  <2> HIDE DEF T
  <2>3. OwnedNext(T)
    <3>1. ASSUME NEW s, Choose(T, s) PROVE OwnedNext(T)
      BY <2>1, <3>1, ChooseOwns
    <3>2. ASSUME NEW f \in Forms(T), OpenForm(T, f) \/ Dismiss(T, f) PROVE OwnedNext(T)
      BY <2>1, <3>2 DEF OpenForm, Dismiss, Owned, OwnedNext, OwnedIn
    <3>3. ASSUME NEW o \in DOMAIN T.ops, NEW r, Click(T, o, r) PROVE OwnedNext(T)
      BY <2>1, <3>3, ClickOwns
    <3>4. ASSUME NEW g \in gets, LandGet(T, g) PROVE OwnedNext(T)
      BY <2>1, <3>4, LandGetOwns
    <3>5. ASSUME NEW c \in calls, Deal(T, c) \/ Fail(T, c) \/ Succeed(T, c)
          PROVE  OwnedNext(T)
      BY <2>1, <3>5, DealOwns, FailOwns, SucceedOwns
    <3> QED BY <1>2, <3>1, <3>2, <3>3, <3>4, <3>5 DEF ScreensNext, T
  <2> QED BY <2>2, <2>3, <1>2, SoundGoesOn
          DEF ScreenOwned, ScreenSound, Owned, OwnedNext, T, Here, Tables
<1> QED BY <1>1, <1>2

LEMMA OwnedComesDown == ScreenOwned => NothingStaysBusy
BY DEF ScreenOwned, Owned, OwnedIn, NothingStaysBusy, AtRest

\* Whatever is refused, lost or dropped, no control stays off for good: when
\* nothing is under way any more every setBusy(true) has met its false.
THEOREM ControlsComeBack == ScreensSpec => []NothingStaysBusy
<1>1. ScreensSpec => []ScreenOwned
  BY OwnedAtFirst, OwnedGoesOn, PTL DEF ScreensSpec
<1> QED BY <1>1, OwnedComesDown, PTL

-----------------------------------------------------------------------------
(* Whose form it is that an answer closes.                                   *)

\* An operation whose answer, or whose chain's, may yet close a form.
MayClose(T, c) ==
  (Closer(T.ops[c.o]) \/ Chained(T, T.ops[c.o])) /\ c.at # "reloading"

HoldsIn(T, O, C) ==
  \A c \in C : MayClose(T, c) =>
    LET f == T.ops[c.o].form IN f \in Forms(T) /\ O[f].on /\ O[f].n = c.i
Holding(T) == HoldsIn(T, open, calls)
HoldingNext(T) == HoldsIn(T, open', calls')

TableHolds(T) ==
  \A o \in DOMAIN T.ops :
    Closer(T.ops[o]) \/ Chained(T, T.ops[o]) => HoldsItsForm(T, o)

\* While something that may close a form is under way the form stays open,
\* and nothing else that closes it is.
LEMMA OneCloser ==
  ASSUME NEW T, TableSound(T), TableHolds(T), Sound(T), Holding(T),
         NEW c \in calls, MayClose(T, c), Closer(T.ops[c.o]),
         NEW d \in calls, MayClose(T, d)
  PROVE  c = d
<1>1. /\ c.o \in DOMAIN T.ops /\ d.o \in DOMAIN T.ops
      /\ FormsSound(T, open, acts) /\ (c # d => ~Clash(T, d, c))
  BY DEF Sound, FlagsKept, IsCall, Apart
<1>2. T.ops[c.o].form = T.ops[d.o].form /\ c.i = d.i
  BY <1>1 DEF Holding, HoldsIn, FormsSound
<1>3. PICK f : Keeps(T, d.o, f) /\ Shut(T, d.o, f) /\ c.o \in Sharers(T, d.o, f)
  BY <1>1, <1>2 DEF TableHolds, HoldsItsForm, MayClose
<1>4. HomeOf(T, d) = HomeOf(T, c)
  BY <1>2, <1>3 DEF HomeOf, Home, Sharers, Together
<1> QED BY <1>1, <1>3, <1>4 DEF Clash

LEMMA ActsHold ==
  ASSUME NEW T, TableSound(T), TableHolds(T), Sound(T), Holding(T),
         \/ \E s \in Subjects : Choose(T, s)
         \/ \E f \in Forms(T) : OpenForm(T, f) \/ Dismiss(T, f)
  PROVE  HoldingNext(T)
<1>1. CASE \E s \in Subjects : Choose(T, s)
  BY <1>1 DEF Choose, Holding, HoldingNext, HoldsIn
<1>2. ASSUME NEW f \in Forms(T), OpenForm(T, f) PROVE HoldingNext(T)
  BY <1>2 DEF OpenForm, Holding, HoldingNext, HoldsIn
<1>3. ASSUME NEW f \in Forms(T), Dismiss(T, f) PROVE HoldingNext(T)
  <2>1. /\ calls' = calls /\ open[f].on
        /\ \A o \in DOMAIN T.ops, t \in flags :
             T.ops[o].form = f => ~(t.f \in T.ops[o].locked /\ t.i \in {0, open[f].n})
    BY <1>3 DEF Dismiss
  <2> SUFFICES ASSUME NEW c \in calls, MayClose(T, c) PROVE FALSE
    BY <2>1 DEF HoldingNext, HoldsIn
  <2>2. /\ IsCall(T, open, acts, c) /\ Up(T, open, flags, c)
        /\ FormsSound(T, open, acts)
    BY DEF Sound, FlagsKept
  <2>3. T.ops[c.o].form = f /\ open[f].n = c.i
    BY <2>1, <2>2 DEF Holding, HoldsIn, FormsSound
  <2>4. PICK k : /\ Keeps(T, c.o, k)
                 /\ \E q \in DOMAIN T.ops : T.ops[q].form = f /\ k \in T.ops[q].locked
    BY <2>2, <2>3 DEF TableHolds, HoldsItsForm, MayClose, IsCall
  <2>5. Tag(T, c, k) \in flags
    BY <2>1, <2>2, <2>3, <2>4 DEF Up, Lives
  <2>6. Tag(T, c, k).f = k /\ Tag(T, c, k).i \in {0, open[f].n}
    BY <2>3 DEF Tag, HomeOf, Home
  <2> QED BY <2>1, <2>4, <2>5, <2>6
<1> QED BY <1>1, <1>2, <1>3

LEMMA ClickHolds ==
  ASSUME NEW T, TableHolds(T), Holding(T), NEW o \in DOMAIN T.ops, NEW r, Click(T, o, r)
  PROVE  HoldingNext(T)
<1> DEFINE op == T.ops[o]
           i  == IF op.form = "" THEN 0 ELSE open[op.form].n
           c  == [o |-> o, by |-> o, s |-> subject, i |-> i, row |-> r, at |-> "out",
                  v |-> 0, awaits |-> {}, n |-> acts + 1]
<1>1. /\ calls' = calls \cup {c} /\ open' = open
      /\ op.form # "" => open[op.form].on
  BY DEF Click
<1>2. c.o = o /\ c.i = i
  OBVIOUS
<1>3. op.form # "" => i = open[op.form].n /\ op.form \in Forms(T)
  BY DEF Forms
<1> HIDE DEF c, i
<1>4. MayClose(T, c) => op.form # ""
  BY <1>2 DEF MayClose, TableHolds, HoldsItsForm
<1> QED BY <1>1, <1>2, <1>3, <1>4 DEF Holding, HoldingNext, HoldsIn

LEMMA RepliesHold ==
  ASSUME NEW T, Sound(T), Holding(T),
         \/ \E c \in calls : Deal(T, c)
         \/ \E g \in gets : LandGet(T, g)
  PROVE  HoldingNext(T)
<1>1. ASSUME open' = open,
             \A x \in calls' : \E a \in calls :
               x.o = a.o /\ x.i = a.i /\ (x.at # "reloading" => a.at # "reloading")
      PROVE  HoldingNext(T)
  BY <1>1 DEF Holding, HoldingNext, HoldsIn, MayClose
<1>2. \A c \in calls : DOMAIN c = CallFields
  BY DEF Sound, FlagsKept, IsCall
<1>3. ASSUME NEW c \in calls, Deal(T, c) PROVE HoldingNext(T)
  <2>1. PICK done \in BOOLEAN :
          calls' = (calls \ {c}) \cup
                     {[c EXCEPT !.at = IF done THEN "done" ELSE "refused", !.v = clock']}
    BY <1>3 DEF Deal
  <2> DEFINE d == [c EXCEPT !.at = IF done THEN "done" ELSE "refused", !.v = clock']
  <2>2. d.o = c.o /\ d.i = c.i /\ c.at # "reloading" /\ open' = open
    BY <1>2, <1>3 DEF CallFields, Deal
  <2> QED BY <1>1, <2>1, <2>2
<1>4. ASSUME NEW g \in gets, LandGet(T, g) PROVE HoldingNext(T)
  <2> DEFINE Less(c) == [c EXCEPT !.awaits = @ \ {<<g.r, g.n>>}]
  <2>1. \A x \in calls' : \E c \in calls : x = Less(c)
    BY <1>4 DEF LandGet
  <2>2. \A c \in calls : Less(c).o = c.o /\ Less(c).i = c.i /\ Less(c).at = c.at
    BY <1>2 DEF CallFields
  <2>3. open' = open
    BY <1>4 DEF LandGet
  <2> QED BY <1>1, <2>1, <2>2, <2>3
<1> QED BY <1>3, <1>4

\* Which forms the answer of an operation leaves alone.
LEMMA AnswersSpare ==
  ASSUME NEW T, Sound(T), NEW c \in calls, Fail(T, c) \/ Succeed(T, c), NEW f \in Forms(T)
  PROVE  /\ c.at # "reloading" /\ open'[f].n = open[f].n
         /\ open'[f].on => open[f].on
         /\ ~Closer(T.ops[c.o]) => open'[f].on = open[f].on
         /\ f # T.ops[c.o].form /\ T.ops[c.o].shuts = {} => open'[f].on = open[f].on
         /\ Succeed(T, c) /\ ~T.ops[c.o].closes /\ T.ops[c.o].shuts = {} =>
              open'[f].on = open[f].on
<1> DEFINE op == T.ops[c.o]
<1>1. open \in [Forms(T) -> [n : Nat, on : BOOLEAN]] /\ f # ""
  BY DEF Sound, FlagsKept, FormsSound, Forms
<1>2. ASSUME Fail(T, c)
      PROVE  /\ c.at # "reloading" /\ open'[f].n = open[f].n
             /\ open'[f].on = (open[f].on /\ ~(op.drops /\ f = op.form))
  <2>1. /\ c.at # "reloading"
        /\ open' = [k \in DOMAIN open |->
                      [open[k] EXCEPT !.on = @ /\ ~(op.drops /\ k = op.form)]]
    BY <1>2 DEF Fail
  <2> HIDE DEF op
  <2> QED BY <1>1, <2>1
<1>3. ASSUME Succeed(T, c)
      PROVE  /\ c.at # "reloading" /\ open'[f].n = open[f].n
             /\ open'[f].on = (open[f].on /\ f \notin op.shuts /\ ~(op.closes /\ f = op.form))
  <2>1. /\ c.at # "reloading"
        /\ open' = [k \in DOMAIN open |->
                      [open[k] EXCEPT !.on = @ /\ k \notin op.shuts /\ ~(op.closes /\ k = op.form)]]
    BY <1>3 DEF Succeed
  <2> HIDE DEF op
  <2> QED BY <1>1, <2>1
<1>4. ~Closer(op) => /\ op.shuts = {} /\ ~(op.drops /\ f = op.form) /\ ~(op.closes /\ f = op.form)
  BY <1>1 DEF Closer
<1>5. open[f].on \in BOOLEAN
  BY <1>1
<1> HIDE DEF op
<1> QED BY <1>2, <1>3, <1>4, <1>5 DEF op

LEMMA FailHolds ==
  ASSUME NEW T, TableSound(T), TableHolds(T), Sound(T), Holding(T), NEW c \in calls, Fail(T, c)
  PROVE  HoldingNext(T)
<1>1. calls' = calls \ {c}
  BY DEF Fail
<1> SUFFICES ASSUME NEW d \in calls', MayClose(T, d)
             PROVE  LET f == T.ops[d.o].form IN
                      f \in Forms(T) /\ open'[f].on /\ open'[f].n = d.i
  BY DEF HoldingNext, HoldsIn
<1> DEFINE f == T.ops[d.o].form
<1>2. f \in Forms(T) /\ open[f].on /\ open[f].n = d.i
  BY <1>1 DEF Holding, HoldsIn
<1>3. ~Closer(T.ops[c.o])
  BY <1>1, <1>2, OneCloser, AnswersSpare DEF MayClose
<1> QED BY <1>2, <1>3, AnswersSpare

LEMMA SucceedHolds ==
  ASSUME NEW T, TableSound(T), TableHolds(T), Sound(T), Holding(T), NEW c \in calls, Succeed(T, c)
  PROVE  HoldingNext(T)
<1> DEFINE op == T.ops[c.o]
           next == [c EXCEPT !.o = op.next, !.at = "out", !.v = 0]
<1>1. \A x \in calls' : \/ x \in calls \ {c}
                        \/ x.at = "reloading"
                        \/ op.next # "" /\ x = next
  <2>1. DOMAIN c = CallFields
    BY DEF Sound, FlagsKept, IsCall
  <2>2. \A w : [c EXCEPT !.at = "reloading", !.awaits = w].at = "reloading"
    BY <2>1 DEF CallFields
  <2> QED BY <2>2 DEF Succeed
<1>2. next.o = op.next /\ next.i = c.i
  BY DEF Sound, FlagsKept, IsCall, CallFields
<1>3. c.o \in DOMAIN T.ops /\ WellFormed(T, op)
  BY DEF Sound, FlagsKept, IsCall, TableSound
<1> HIDE DEF next
<1>4. ASSUME NEW d \in calls \ {c}, MayClose(T, d)
      PROVE  LET f == T.ops[d.o].form IN
               f \in Forms(T) /\ open'[f].on /\ open'[f].n = d.i
  <2> DEFINE f == T.ops[d.o].form
  <2>1. f \in Forms(T) /\ open[f].on /\ open[f].n = d.i
    BY <1>4 DEF Holding, HoldsIn
  <2>2. ~Closer(T.ops[c.o])
    BY <1>4, <2>1, OneCloser, AnswersSpare DEF MayClose
  <2> QED BY <2>1, <2>2, AnswersSpare
<1>5. ASSUME op.next # "", MayClose(T, next)
      PROVE  LET f == T.ops[next.o].form IN
               f \in Forms(T) /\ open'[f].on /\ open'[f].n = next.i
  <2>1. op.next \in DOMAIN T.ops /\ T.ops[op.next].next = ""
    BY <1>3, <1>5 DEF WellFormed
  <2>2. Chained(T, op)
    BY <1>2, <1>5, <2>1 DEF Chained, MayClose
  <2>3. op.form = T.ops[op.next].form /\ ~op.closes /\ op.shuts = {}
    BY <1>3, <2>2 DEF TableHolds, HoldsItsForm
  <2>4. c.at # "reloading"
    BY DEF Succeed
  <2>5. op.form \in Forms(T) /\ open[op.form].on /\ open[op.form].n = c.i
    BY <2>2, <2>4 DEF Holding, HoldsIn, MayClose
  <2>6. open'[op.form].on = open[op.form].on /\ open'[op.form].n = open[op.form].n
    BY <2>3, <2>5, AnswersSpare
  <2>7. T.ops[next.o].form = op.form /\ next.i = c.i
    BY <1>2, <2>3
  <2> QED BY <2>5, <2>6, <2>7
<1> QED BY <1>1, <1>4, <1>5 DEF HoldingNext, HoldsIn, MayClose

\* Who waits has at most one answer to come: it is about the form that is open.
AtEase == ~rushed => \A c \in calls, f \in Forms(Here) : open[f].on => c.i = open[f].n

ScreenHolds ==
  /\ ScreenSound
  /\ panel \notin Unheld => Holding(Here)
  /\ AtEase

LEMMA EaseGoesOn ==
  ASSUME ScreenSound, AtEase, ScreensNext, ~rushed', NEW d \in calls', NEW f \in Forms(Here),
         open'[f].on
  PROVE  d.i = open'[f].n
<1> DEFINE T == Here
<1>1. /\ FormsSound(T, open, acts) /\ \A c \in calls : DOMAIN c = CallFields
  BY DEF ScreenSound, Sound, FlagsKept, IsCall
<1> HIDE DEF T
<1>2. ASSUME ~rushed, open'[f].n = open[f].n, open'[f].on => open[f].on,
             NEW a \in calls, d.i = a.i
      PROVE  d.i = open'[f].n
  BY <1>2 DEF AtEase
<1>3. ASSUME Person, calls' = calls PROVE FALSE
  BY <1>3 DEF Person, AtRest
<1>4. ASSUME NEW s, Choose(T, s) PROVE FALSE
  BY <1>3, <1>4 DEF Choose
<1>5. ASSUME NEW k \in Forms(T), OpenForm(T, k) \/ Dismiss(T, k) PROVE FALSE
  BY <1>3, <1>5 DEF OpenForm, Dismiss, AtRest
<1>6. ASSUME NEW o \in DOMAIN T.ops, NEW r, Click(T, o, r) PROVE d.i = open'[f].n
  <2> DEFINE i == IF T.ops[o].form = "" THEN 0 ELSE open[T.ops[o].form].n
             c == [o |-> o, by |-> o, s |-> subject, i |-> i, row |-> r, at |-> "out",
                   v |-> 0, awaits |-> {}, n |-> acts + 1]
  <2>1. /\ calls' = calls \cup {c} /\ open' = open /\ calls = {}
        /\ IF T.ops[o].form = "" THEN \A k \in Forms(T) : ~open[k].on
                                 ELSE open[T.ops[o].form].on
    BY <1>6 DEF Click, Person, AtRest
  <2>2. d = c /\ c.i = i
    BY <2>1
  <2>3. T.ops[o].form # "" => T.ops[o].form \in Forms(T)
    BY DEF Forms
  <2>4. T.ops[o].form # "" /\ f = T.ops[o].form
    BY <1>1, <2>1, <2>3 DEF FormsSound, T
  <2> QED BY <2>1, <2>2, <2>4
<1>7. ASSUME NEW g \in gets, LandGet(T, g) PROVE d.i = open'[f].n
  <2>1. PICK c \in calls : d = [c EXCEPT !.awaits = @ \ {<<g.r, g.n>>}]
    BY <1>7 DEF LandGet
  <2>2. d.i = c.i
    BY <1>1, <2>1 DEF CallFields
  <2>3. open' = open /\ rushed' = rushed
    BY <1>7 DEF LandGet
  <2> QED BY <1>2, <2>2, <2>3
<1>8. ASSUME NEW c \in calls, Deal(T, c) PROVE d.i = open'[f].n
  <2>1. d \in calls \/ \E x, y : d = [c EXCEPT !.at = x, !.v = y]
    BY <1>8 DEF Deal
  <2>2. \E a \in calls : d.i = a.i
    BY <1>1, <2>1 DEF CallFields
  <2>3. open' = open /\ rushed' = rushed
    BY <1>8 DEF Deal
  <2> QED BY <1>2, <2>2, <2>3
<1>9. ASSUME NEW c \in calls, Fail(T, c) \/ Succeed(T, c) PROVE d.i = open'[f].n
  <2>1. CASE Fail(T, c)
    <3>1. Sound(T) /\ f \in Forms(T)
      BY DEF ScreenSound, T
    <3>2. open'[f].n = open[f].n /\ (open'[f].on => open[f].on)
      BY <2>1, <3>1, AnswersSpare
    <3>3. rushed' = rushed /\ d \in calls
      BY <2>1 DEF Fail
    <3> QED BY <1>2, <3>2, <3>3
  <2>2. CASE Succeed(T, c)
    <3>1. \/ d \in calls
          \/ \E y : d = [c EXCEPT !.at = "reloading", !.awaits = y]
          \/ d = [c EXCEPT !.o = T.ops[c.o].next, !.at = "out", !.v = 0]
      BY <2>2 DEF Succeed
    <3>2. \E a \in calls : d.i = a.i
      BY <1>1, <3>1 DEF CallFields
    <3>3. rushed' = rushed
      BY <2>2 DEF Succeed
    <3>4. Sound(T) /\ f \in Forms(T)
      BY DEF ScreenSound, T
    <3>5. open'[f].n = open[f].n /\ (open'[f].on => open[f].on)
      BY <2>2, <3>4, AnswersSpare
    <3> QED BY <1>2, <3>2, <3>3, <3>5
  <2> QED BY <1>9, <2>1, <2>2
<1> QED BY <1>4, <1>5, <1>6, <1>7, <1>8, <1>9 DEF ScreensNext, T

LEMMA HoldingGoesOn ==
  ScreenHolds /\ [ScreensNext]_screensVars => ScreenHolds'
<1> SUFFICES ASSUME ScreenHolds, [ScreensNext]_screensVars PROVE ScreenHolds'
  OBVIOUS
<1>1. CASE UNCHANGED screensVars
  BY <1>1, SoundGoesOn DEF screensVars, ScreenHolds, Holding, AtEase, Here, Tables
<1>2. CASE ScreensNext
  <2> DEFINE T == Here
  <2>1. panel' = panel
    BY <1>2 DEF ScreensNext, Choose, OpenForm, Dismiss, Click, Deal, LandGet, Fail, Succeed
  <2>2. AtEase'
    <3>1. Here' = Here /\ (rushed => rushed')
      <4>1. rushed => rushed'
        BY <1>2 DEF ScreensNext, Choose, OpenForm, Dismiss, Click, Deal, LandGet, Fail, Succeed,
                    Person
      <4> QED BY <2>1, <4>1 DEF Here, Tables
    <3> QED BY <1>2, <3>1, EaseGoesOn DEF ScreenHolds, AtEase
  <2>3. ASSUME panel \notin Unheld PROVE HoldingNext(T)
    <3>1. TableSound(T) /\ TableHolds(T) /\ Sound(T) /\ Holding(T)
      BY <2>3, TablesSound, ScreensAssumption
         DEF ScreenHolds, ScreenSound, Here, Tables, TableHolds
    <3> HIDE DEF T
    <3>2. ASSUME NEW s \in Subjects, Choose(T, s) PROVE HoldingNext(T)
      BY <3>1, <3>2, ActsHold
    <3>3. ASSUME NEW f \in Forms(T), OpenForm(T, f) \/ Dismiss(T, f) PROVE HoldingNext(T)
      BY <3>1, <3>3, ActsHold
    <3>4. ASSUME NEW o \in DOMAIN T.ops, NEW r, Click(T, o, r) PROVE HoldingNext(T)
      BY <3>1, <3>4, ClickHolds
    <3>5. ASSUME NEW g \in gets, LandGet(T, g) PROVE HoldingNext(T)
      BY <3>1, <3>5, RepliesHold
    <3>6. ASSUME NEW c \in calls, Deal(T, c) \/ Fail(T, c) \/ Succeed(T, c)
          PROVE  HoldingNext(T)
      BY <3>1, <3>6, RepliesHold, FailHolds, SucceedHolds
    <3> QED BY <1>2, <3>2, <3>3, <3>4, <3>5, <3>6 DEF ScreensNext, T
  <2> HIDE DEF T
  <2> QED BY <2>1, <2>2, <2>3, SoundGoesOn DEF ScreenHolds, Holding, HoldingNext, T, Here, Tables
<1> QED BY <1>1, <1>2

\* One step: what closes a form and is over with it was sent from it.
OwnForms ==
  \A c \in calls, f \in Forms(Here) :
    (/\ open[f].on /\ ~open'[f].on /\ c \notin calls' /\ c.at = "done"
     /\ panel \in Unheld => ~rushed)
      => c.i = open[f].n

LEMMA HoldingCloses == ScreenHolds /\ [ScreensNext]_screensVars => OwnForms
<1> SUFFICES ASSUME ScreenHolds, [ScreensNext]_screensVars,
                    NEW c \in calls, NEW f \in Forms(Here),
                    open[f].on, ~open'[f].on, c \notin calls', c.at = "done",
                    panel \notin Unheld
             PROVE  c.i = open[f].n
  BY DEF OwnForms, ScreenHolds, AtEase
<1> DEFINE T == Here
<1>1. ScreenSound /\ Holding(T) /\ FormsSound(T, open, acts)
  BY DEF ScreenHolds, ScreenSound, Sound, FlagsKept
<1>2. ScreensNext
  BY DEF screensVars
<1> HIDE DEF T
<1>3. Fail(T, c) \/ Succeed(T, c)
  <2>1. ASSUME NEW s, Choose(T, s) PROVE FALSE
    BY <2>1 DEF Choose
  <2>2. ASSUME NEW k, OpenForm(T, k) \/ Dismiss(T, k) PROVE FALSE
    BY <2>2 DEF OpenForm, Dismiss
  <2>3. ASSUME NEW o, NEW r, Click(T, o, r) PROVE FALSE
    BY <2>3 DEF Click
  <2>4. ASSUME NEW g, LandGet(T, g) PROVE FALSE
    BY <2>4 DEF LandGet, T
  <2>5. ASSUME NEW d \in calls, Deal(T, d) PROVE FALSE
    BY <2>5 DEF Deal, T
  <2>6. ASSUME NEW d \in calls, d # c, Fail(T, d) \/ Succeed(T, d) PROVE FALSE
    BY <2>6 DEF Fail, Succeed
  <2> QED BY <1>2, <2>1, <2>2, <2>3, <2>4, <2>5, <2>6 DEF ScreensNext, T
<1>4. Closer(T.ops[c.o])
  BY <1>1, <1>3, AnswersSpare DEF ScreenSound, T
<1>5. T.ops[c.o].form \in Forms(T) /\ open[T.ops[c.o].form].on /\ open[T.ops[c.o].form].n = c.i
  BY <1>1, <1>4 DEF Holding, HoldsIn, MayClose
<1>6. f = T.ops[c.o].form
  BY <1>1, <1>5 DEF FormsSound, T
<1> QED BY <1>5, <1>6

\* An answer closes the form it was sent from and never the one opened since
\* (onClose() after an await), where forms stay open while they send.
THEOREM FormsCloseThemselves == ScreensSpec => ClosesItsOwnForm
<1>1. ScreensInit => ScreenHolds
  BY SoundAtFirst DEF ScreensInit, ScreenHolds, Holding, HoldsIn, AtEase
<1>2. ScreensSpec => []ScreenHolds
  BY <1>1, HoldingGoesOn, PTL DEF ScreensSpec
<1>3. ScreensSpec => [][OwnForms]_screensVars
  BY <1>2, HoldingCloses, PTL DEF ScreensSpec
<1> QED BY <1>3, PTL DEF ClosesItsOwnForm, OwnForms

-----------------------------------------------------------------------------
(* What is shown, and what is chosen.                                        *)

Fits(T, g, s) == g.s = Key(T, g.r, s)

\* What comes in is about what is chosen, where late replies are told apart.
Right(T, G, s) == \A g \in G : HeedFor(T, g, s) \/ ~T.reads[g.r].keyed => Fits(T, g, s)

\* What is shown is about what is chosen, or its replacement is on its way.
Comes(T, G, s, r) == \E g \in G : g.r = r /\ HeedFor(T, g, s)
Coming(T, S, G, s) ==
  \A r \in DOMAIN T.reads : S[r].ok => S[r].s = Key(T, r, s) \/ Comes(T, G, s, r)

SubjectIn(T, S, G, C, s, hurry, lastWins) ==
  /\ DOMAIN S = DOMAIN T.reads
  /\ ~hurry => (\A g \in G : Fits(T, g, s)) /\ (\A c \in C : c.s = s)
  /\ ~lastWins => Right(T, G, s)
  /\ ~lastWins \/ ~hurry => Coming(T, S, G, s)

LastWins == panel \in LastReplyWins
OnSubject(T) == SubjectIn(T, shown, gets, calls, subject, rushed, LastWins)
OnSubjectNext(T) == SubjectIn(T, shown', gets', calls', subject', rushed', LastWins)

TableTells(T) == LastWins \/ \A r \in DOMAIN T.reads : TellsApart(T, r)

\* The reads R are asked for, for s1, while s is chosen.
MayAsk(T, R, s1, s) ==
  s1 = s \/ \A r \in R : ~T.reads[r].keyed \/ (T.reads[r].matches /\ ~T.reads[r].latest)

LEMMA AskedComes ==
  ASSUME NEW T, NEW G, NEW R, NEW s1, NEW s, Reading(T, G), MayAsk(T, R, s1, s)
  PROVE  /\ \A r : Comes(T, G, s, r) => Comes(T, AskedFor(T, G, R, s1), s, r)
         /\ s1 = s => \A r \in R : Comes(T, AskedFor(T, G, R, s1), s, r)
<1>1. ASSUME NEW r \in R, s1 = s \/ ~T.reads[r].keyed
      PROVE  Comes(T, AskedFor(T, G, R, s1), s, r)
  <2>1. PICK h \in AskedFor(T, G, R, s1) : h.r = r /\ h.live /\ h.s = Key(T, r, s1)
    BY AskedAnew
  <2> QED BY <1>1, <2>1 DEF Comes, HeedFor, Key
<1>2. ASSUME NEW g \in G, HeedFor(T, g, s), g.r \notin R \/ ~T.reads[g.r].latest
      PROVE  Comes(T, AskedFor(T, G, R, s1), s, g.r)
  <2>1. PICK h \in AskedFor(T, G, R, s1) : SameGet(h, g) /\ (g.r \notin R => h.live = g.live)
    <3>1. Reading(T, G) /\ g \in G
      OBVIOUS
    <3> QED BY ONLY <3>1, AskedBefore
  <2> QED BY <1>2, <2>1 DEF Comes, HeedFor, SameGet
<1>3. ASSUME NEW g \in G, HeedFor(T, g, s)
      PROVE  Comes(T, AskedFor(T, G, R, s1), s, g.r)
  BY <1>1, <1>2, <1>3 DEF MayAsk
<1> QED BY <1>1, <1>3 DEF Comes

LEMMA AskedFits ==
  ASSUME NEW T, NEW G, NEW R, NEW s, Reading(T, G), \A g \in G : Fits(T, g, s)
  PROVE  \A h \in AskedFor(T, G, R, s) : Fits(T, h, s)
BY AskedOnly DEF Fits, SameGet

LEMMA AskedRight ==
  ASSUME NEW T, NEW G, NEW R, NEW s1, NEW s, Reading(T, G), R \subseteq DOMAIN T.reads,
         MayAsk(T, R, s1, s), \A r \in DOMAIN T.reads : TellsApart(T, r), Right(T, G, s)
  PROVE  Right(T, AskedFor(T, G, R, s1), s)
<1> SUFFICES ASSUME NEW h \in AskedFor(T, G, R, s1), HeedFor(T, h, s) \/ ~T.reads[h.r].keyed
             PROVE  Fits(T, h, s)
  BY DEF Right
<1>1. CASE \E g \in G : /\ SameGet(h, g)
                        /\ h.live = IF g.r \in R THEN Joined(T, g, R, s1) ELSE g.live
  <2>1. PICK g \in G : /\ SameGet(h, g)
                       /\ h.live = IF g.r \in R THEN Joined(T, g, R, s1) ELSE g.live
    BY <1>1
  <2>2. TellsApart(T, g.r) /\ (HeedFor(T, g, s) \/ ~T.reads[g.r].keyed => Fits(T, g, s))
    BY DEF Reading, Right
  <2>3. CASE ~T.reads[g.r].keyed
    BY <2>1, <2>2, <2>3 DEF Fits, SameGet
  <2>4. CASE T.reads[g.r].keyed /\ T.reads[g.r].matches
    BY <2>1, <2>4 DEF Fits, SameGet, HeedFor
  <2>5. CASE T.reads[g.r].keyed /\ ~T.reads[g.r].matches
    <3>1. T.reads[g.r].latest /\ h.live
      BY <2>1, <2>2, <2>5 DEF TellsApart, HeedFor, SameGet
    <3>2. CASE g.r \in R
      <4>1. s1 = s /\ Joined(T, g, R, s1)
        BY <2>1, <2>5, <3>1, <3>2 DEF MayAsk
      <4> QED BY <2>1, <4>1 DEF Joined, Fits, SameGet
    <3>3. CASE g.r \notin R
      BY <2>1, <2>2, <2>5, <3>1, <3>3 DEF HeedFor, Fits, SameGet
    <3> QED BY <3>2, <3>3
  <2> QED BY <2>3, <2>4, <2>5
<1>2. CASE h.r \in R /\ h.s = Key(T, h.r, s1)
  <2>1. s1 = s \/ ~T.reads[h.r].keyed \/ T.reads[h.r].matches
    BY <1>2 DEF MayAsk
  <2> QED BY <1>2, <2>1 DEF Fits, Key, HeedFor
<1> QED BY <1>1, <1>2, AskedOnly

LEMMA ChooseSubject ==
  ASSUME NEW T, TableTells(T), Sound(T), OnSubject(T), NEW s, Choose(T, s)
  PROVE  OnSubjectNext(T)
<1> DEFINE R == {r \in DOMAIN T.reads : T.reads[r].keyed}
<1>1. /\ gets' = AskedFor(T, gets, R, s) /\ subject' = s /\ shown' = shown /\ calls' = calls
      /\ rushed' = (rushed \/ ~AtRest)
  BY DEF Choose, Person
<1>2. Reading(T, gets) /\ R \subseteq DOMAIN T.reads
  BY DEF Sound
<1>3. \A g \in gets : ~T.reads[g.r].keyed <=> g.r \notin R
  BY <1>2 DEF Reading
<1>4. \A r \in DOMAIN T.reads \ R : Key(T, r, s) = Key(T, r, subject)
  BY DEF Key
<1>5. R = {r \in DOMAIN T.reads : T.reads[r].keyed}
  OBVIOUS
<1> HIDE DEF R
<1>6. ~rushed' => gets = {} /\ calls = {} /\ ~rushed
  BY <1>1 DEF AtRest
<1>7. ~rushed' => (\A g \in gets' : Fits(T, g, s)) /\ (\A c \in calls' : c.s = s)
  BY <1>1, <1>2, <1>6, AskedFits
<1>8. ASSUME ~LastWins PROVE Right(T, gets', s)
  <2> SUFFICES ASSUME NEW h \in gets', HeedFor(T, h, s) \/ ~T.reads[h.r].keyed
               PROVE  Fits(T, h, s)
    BY DEF Right
  <2>1. CASE \E g \in gets : /\ SameGet(h, g)
                             /\ h.live = IF g.r \in R THEN Joined(T, g, R, s) ELSE g.live
    <3>1. PICK g \in gets : /\ SameGet(h, g)
                            /\ h.live = IF g.r \in R THEN Joined(T, g, R, s) ELSE g.live
      BY <2>1
    <3>2. g.r \in DOMAIN T.reads /\ Right(T, gets, subject) /\ TellsApart(T, g.r)
      BY <1>2, <1>8 DEF OnSubject, SubjectIn, Reading, TableTells
    <3>3. CASE g.r \notin R
      BY <1>3, <1>4, <3>1, <3>2, <3>3 DEF Right, Fits, SameGet
    <3>4. CASE g.r \in R
      <4>1. HeedFor(T, h, s) /\ (T.reads[g.r].matches \/ T.reads[g.r].latest)
        BY <1>3, <3>1, <3>2, <3>4 DEF TellsApart, SameGet
      <4> QED BY <3>1, <3>4, <4>1 DEF HeedFor, Joined, Fits, SameGet
    <3> QED BY <3>3, <3>4
  <2>2. CASE h.s = Key(T, h.r, s)
    BY <2>2 DEF Fits
  <2> QED BY <1>1, <1>2, <2>1, <2>2, AskedOnly
<1>9. ASSUME ~LastWins \/ ~rushed' PROVE Coming(T, shown, gets', s)
  <2> SUFFICES ASSUME NEW r \in DOMAIN T.reads, shown[r].ok
               PROVE  shown[r].s = Key(T, r, s) \/ Comes(T, gets', s, r)
    BY DEF Coming
  <2>1. CASE r \in R
    BY <1>1, <1>2, <2>1, AskedComes DEF MayAsk
  <2>2. CASE r \notin R
    <3>1. shown[r].s = Key(T, r, subject) \/ Comes(T, gets, subject, r)
      BY <1>6, <1>9 DEF OnSubject, SubjectIn, Coming
    <3>2. Comes(T, gets, subject, r) => Comes(T, gets, s, r)
      BY <1>4, <2>2 DEF Comes, HeedFor
    <3> QED BY <1>1, <1>2, <1>4, <2>2, <3>1, <3>2, AskedComes DEF MayAsk
  <2> QED BY <2>1, <2>2
<1> QED BY <1>1, <1>7, <1>8, <1>9 DEF OnSubject, OnSubjectNext, SubjectIn

LEMMA ClickSubject ==
  ASSUME NEW T, OnSubject(T), NEW o \in DOMAIN T.ops, NEW r, Click(T, o, r)
  PROVE  OnSubjectNext(T)
<1>1. /\ gets' = gets /\ subject' = subject /\ shown' = shown
      /\ rushed' = (rushed \/ ~AtRest)
      /\ \E i : calls' = calls \cup
                  {[o |-> o, by |-> o, s |-> subject, i |-> i, row |-> r, at |-> "out",
                    v |-> 0, awaits |-> {}, n |-> acts + 1]}
  BY DEF Click, Person
<1>2. \A c \in calls' : c \in calls \/ c.s = subject
  BY <1>1
<1> QED BY <1>1, <1>2 DEF OnSubject, OnSubjectNext, SubjectIn

LEMMA FormSubject ==
  ASSUME NEW T, OnSubject(T), NEW f, OpenForm(T, f) \/ Dismiss(T, f)
  PROVE  OnSubjectNext(T)
<1>1. /\ gets' = gets /\ subject' = subject /\ shown' = shown /\ calls' = calls
      /\ rushed' = (rushed \/ ~AtRest)
  BY DEF OpenForm, Dismiss, Person
<1> QED BY <1>1 DEF OnSubject, OnSubjectNext, SubjectIn

LEMMA DealSubject ==
  ASSUME NEW T, Sound(T), OnSubject(T), NEW c \in calls, Deal(T, c)
  PROVE  OnSubjectNext(T)
<1>1. /\ gets' = gets /\ subject' = subject /\ shown' = shown /\ rushed' = rushed
      /\ \A d \in calls' : d \in calls \/ \E x, y : d = [c EXCEPT !.at = x, !.v = y]
  BY DEF Deal
<1>2. \A d \in calls' : \E a \in calls : d.s = a.s
  BY <1>1 DEF Sound, FlagsKept, IsCall, CallFields
<1> QED BY <1>1, <1>2 DEF OnSubject, OnSubjectNext, SubjectIn

LEMMA LandGetSubject ==
  ASSUME NEW T, Sound(T), OnSubject(T), NEW g \in gets, LandGet(T, g)
  PROVE  OnSubjectNext(T)
<1>1. /\ gets' = gets \ {g} /\ subject' = subject /\ rushed' = rushed
      /\ \A d \in calls' : \E c \in calls : d = [c EXCEPT !.awaits = @ \ {<<g.r, g.n>>}]
      /\ ~Heeded(T, g) => shown' = shown
      /\ Heeded(T, g) => \/ \E v : shown' = [shown EXCEPT ![g.r] = Just(g.s, v)]
                         \/ shown' = [shown EXCEPT ![g.r] = Nothing]
  BY DEF LandGet
<1>2. \A d \in calls' : \E c \in calls : d.s = c.s
  BY <1>1 DEF Sound, FlagsKept, IsCall, CallFields
<1>3. g.r \in DOMAIN T.reads /\ DOMAIN shown = DOMAIN T.reads
  BY DEF Sound, Reading, OnSubject, SubjectIn
<1>4. DOMAIN shown' = DOMAIN T.reads
  BY <1>1, <1>3
<1>5. ASSUME ~LastWins \/ ~rushed PROVE Coming(T, shown', gets', subject)
  <2> SUFFICES ASSUME NEW r \in DOMAIN T.reads, shown'[r].ok
               PROVE  shown'[r].s = Key(T, r, subject) \/ Comes(T, gets', subject, r)
    BY DEF Coming
  <2>1. CASE Heeded(T, g) /\ r = g.r
    <3>1. Fits(T, g, subject)
      BY <1>5, <2>1 DEF OnSubject, SubjectIn, Right, HeedFor, Heeded
    <3>2. \E v : shown'[r] = Just(g.s, v)
      BY <1>1, <1>3, <2>1 DEF Nothing
    <3>3. shown'[r].s = g.s
      BY <3>2 DEF Just
    <3> QED BY <2>1, <3>1, <3>3 DEF Fits
  <2>2. CASE ~(Heeded(T, g) /\ r = g.r)
    <3>1. shown'[r] = shown[r]
      BY <1>1, <1>3, <2>2
    <3>2. shown[r].s = Key(T, r, subject) \/ Comes(T, gets, subject, r)
      BY <1>5, <3>1 DEF OnSubject, SubjectIn, Coming
    <3>3. Comes(T, gets, subject, r) => Comes(T, gets', subject, r)
      BY <1>1, <2>2 DEF Comes, HeedFor, Heeded
    <3> QED BY <3>1, <3>2, <3>3
  <2> QED BY <2>1, <2>2
<1> QED BY <1>1, <1>2, <1>4, <1>5 DEF OnSubject, OnSubjectNext, SubjectIn, Right

LEMMA FailSubject ==
  ASSUME NEW T, TableSound(T), TableTells(T), Sound(T), OnSubject(T), NEW c \in calls, Fail(T, c)
  PROVE  OnSubjectNext(T)
<1> DEFINE R == T.ops[c.o].retries
<1>1. /\ gets' = AskedFor(T, gets, R, subject) /\ subject' = subject /\ rushed' = rushed
      /\ calls' = calls \ {c} /\ shown' = shown
  BY DEF Fail
<1>2. Reading(T, gets) /\ R \subseteq DOMAIN T.reads
  BY DEF Sound, FlagsKept, IsCall, TableSound, WellFormed
<1> HIDE DEF R
<1>3. MayAsk(T, R, subject, subject)
  BY DEF MayAsk
<1>4. ~rushed => \A g \in gets' : Fits(T, g, subject)
  BY <1>1, <1>2, AskedFits DEF OnSubject, SubjectIn
<1>5. ~LastWins => Right(T, gets', subject)
  BY <1>1, <1>2, <1>3, AskedRight DEF OnSubject, SubjectIn, TableTells
<1>6. \A r : Comes(T, gets, subject, r) => Comes(T, gets', subject, r)
  BY <1>1, <1>2, <1>3, AskedComes
<1> QED BY <1>1, <1>4, <1>5, <1>6 DEF OnSubject, OnSubjectNext, SubjectIn, Coming

LEMMA SucceedSubject ==
  ASSUME NEW T, TableSound(T), TableTells(T), Sound(T), OnSubject(T),
         NEW c \in calls, Succeed(T, c)
  PROVE  OnSubjectNext(T)
<1> DEFINE op == T.ops[c.o]
           more == AskedFor(T, gets, op.reloads, c.s)
           taken == {r \in op.adopts : op.mine => shown[r].ok /\ Key(T, r, c.s) = shown[r].s}
<1>1. /\ gets' = AskedFor(T, more, op.refreshes, subject)
      /\ subject' = subject /\ rushed' = rushed
      /\ shown' = [r \in DOMAIN shown |->
                     IF r \in taken THEN Just(Key(T, r, c.s), c.v) ELSE shown[r]]
  BY DEF Succeed
<1>2. /\ Reading(T, gets) /\ op.reloads \subseteq DOMAIN T.reads
      /\ op.refreshes \subseteq DOMAIN T.reads /\ c.o \in DOMAIN T.ops
  BY DEF Sound, FlagsKept, IsCall, TableSound, WellFormed
<1>3. \A d \in calls' : \E a \in calls : d.s = a.s
  <2>1. \A d \in calls' : \/ d \in calls
                         \/ \E y : d = [c EXCEPT !.at = "reloading", !.awaits = y]
                         \/ d = [c EXCEPT !.o = op.next, !.at = "out", !.v = 0]
    BY DEF Succeed
  <2>2. DOMAIN c = CallFields
    BY DEF Sound, FlagsKept, IsCall
  <2> HIDE DEF op
  <2> QED BY <2>1, <2>2 DEF CallFields
<1>4. ~rushed => c.s = subject /\ \A a \in calls : a.s = subject
  BY DEF OnSubject, SubjectIn
<1>5. \A r \in taken : r \in op.adopts /\ (op.mine => shown[r].ok /\ Key(T, r, c.s) = shown[r].s)
  OBVIOUS
<1>6. DOMAIN shown' = DOMAIN T.reads /\ DOMAIN shown = DOMAIN T.reads
  BY <1>1 DEF OnSubject, SubjectIn
<1> HIDE DEF taken
<1>7. ~LastWins \/ ~rushed => MayAsk(T, op.reloads, c.s, subject)
  BY <1>2, <1>4 DEF MayAsk, TableTells, TellsApart
<1> HIDE DEF op
<1>8. Reading(T, more) /\ MayAsk(T, op.refreshes, subject, subject)
  BY <1>2, StillReading DEF MayAsk
<1>9. ~rushed => \A g \in gets' : Fits(T, g, subject)
  <2>1. ~rushed => \A g \in more : Fits(T, g, subject)
    BY <1>2, <1>4, AskedFits DEF OnSubject, SubjectIn
  <2> HIDE DEF more
  <2> QED BY <1>1, <1>8, <2>1, AskedFits
<1>10. ~LastWins => Right(T, gets', subject)
  <2>1. ~LastWins => Right(T, more, subject)
    BY <1>2, <1>7, AskedRight DEF OnSubject, SubjectIn, TableTells
  <2> HIDE DEF more
  <2> QED BY <1>1, <1>2, <1>8, <2>1, AskedRight DEF TableTells
<1>11. ASSUME ~LastWins \/ ~rushed PROVE Coming(T, shown', gets', subject)
  <2> SUFFICES ASSUME NEW r \in DOMAIN T.reads, shown'[r].ok
               PROVE  shown'[r].s = Key(T, r, subject) \/ Comes(T, gets', subject, r)
    BY DEF Coming
  <2>1. Comes(T, gets, subject, r) => Comes(T, more, subject, r)
    BY <1>2, <1>7, <1>11, AskedComes
  <2>2. Comes(T, more, subject, r) => Comes(T, gets', subject, r)
    <3> HIDE DEF more
    <3> QED BY <1>1, <1>8, AskedComes
  <2>3. shown[r].ok => shown[r].s = Key(T, r, subject) \/ Comes(T, gets', subject, r)
    BY <1>11, <2>1, <2>2 DEF OnSubject, SubjectIn, Coming
  <2>4. CASE r \in taken
    <3>1. shown'[r] = Just(Key(T, r, c.s), c.v)
      BY <1>1, <1>6, <2>4
    <3>2. shown'[r].s = Key(T, r, c.s)
      BY <3>1 DEF Just
    <3>3. CASE rushed /\ T.reads[r].keyed
      <4>1. op.mine
        BY <1>2, <1>5, <1>11, <2>4, <3>3 DEF TableTells, TellsApart, op
      <4> QED BY <1>5, <2>3, <2>4, <3>2, <4>1
    <3>4. CASE ~rushed \/ ~T.reads[r].keyed
      BY <1>4, <3>2, <3>4 DEF Key
    <3> QED BY <3>3, <3>4
  <2>5. CASE r \notin taken
    <3>1. shown'[r] = shown[r]
      BY <1>1, <1>6, <2>5
    <3> QED BY <2>3, <3>1
  <2> QED BY <2>4, <2>5
<1>12. ~rushed => \A d \in calls' : d.s = subject
  BY <1>3, <1>4
<1> HIDE DEF more
<1> QED BY <1>1, <1>6, <1>9, <1>10, <1>11, <1>12 DEF OnSubject, OnSubjectNext, SubjectIn

ScreenSubject == ScreenSound /\ OnSubject(Here)

LEMMA SubjectAtFirst == ScreensInit => ScreenSubject
<1> SUFFICES ASSUME ScreensInit PROVE ScreenSubject
  OBVIOUS
<1>1. /\ gets = AskedFor(Here, {}, DOMAIN Here.reads, subject) /\ calls = {}
      /\ shown = [r \in DOMAIN Here.reads |-> Nothing]
  BY DEF ScreensInit
<1>2. Reading(Here, {})
  BY DEF Reading
<1>3. \A g \in gets : Fits(Here, g, subject)
  BY <1>1, <1>2, AskedFits
<1>4. Coming(Here, shown, gets, subject)
  BY <1>1 DEF Coming, Nothing
<1> QED BY <1>1, <1>3, <1>4, SoundAtFirst DEF ScreenSubject, OnSubject, SubjectIn, Right

LEMMA SubjectGoesOn == ScreenSubject /\ [ScreensNext]_screensVars => ScreenSubject'
<1> SUFFICES ASSUME ScreenSubject, [ScreensNext]_screensVars PROVE ScreenSubject'
  OBVIOUS
<1>1. CASE UNCHANGED screensVars
  BY <1>1, SoundGoesOn DEF screensVars, ScreenSubject, OnSubject, LastWins, Here, Tables
<1>2. CASE ScreensNext
  <2> DEFINE T == Here
  <2>1. TableSound(T) /\ TableTells(T) /\ Sound(T) /\ OnSubject(T)
    BY TablesSound, ScreensAssumption
       DEF ScreenSubject, ScreenSound, Here, Tables, TableTells, LastWins
  <2>2. panel' = panel
    BY <1>2 DEF ScreensNext, Choose, OpenForm, Dismiss, Click, Deal, LandGet, Fail, Succeed
  <2> HIDE DEF T
  <2>3. OnSubjectNext(T)
    <3>1. ASSUME NEW s, Choose(T, s) PROVE OnSubjectNext(T)
      BY <2>1, <3>1, ChooseSubject
    <3>2. ASSUME NEW f \in Forms(T), OpenForm(T, f) \/ Dismiss(T, f) PROVE OnSubjectNext(T)
      BY <2>1, <3>2, FormSubject
    <3>3. ASSUME NEW o \in DOMAIN T.ops, NEW r, Click(T, o, r) PROVE OnSubjectNext(T)
      BY <2>1, <3>3, ClickSubject
    <3>4. ASSUME NEW g \in gets, LandGet(T, g) PROVE OnSubjectNext(T)
      BY <2>1, <3>4, LandGetSubject
    <3>5. ASSUME NEW c \in calls, Deal(T, c) \/ Fail(T, c) \/ Succeed(T, c)
          PROVE  OnSubjectNext(T)
      BY <2>1, <3>5, DealSubject, FailSubject, SucceedSubject
    <3> QED BY <1>2, <3>1, <3>2, <3>3, <3>4, <3>5 DEF ScreensNext, T
  <2> QED BY <1>2, <2>2, <2>3, SoundGoesOn
          DEF ScreenSubject, OnSubject, OnSubjectNext, LastWins, T, Here, Tables
<1> QED BY <1>1, <1>2

LEMMA SubjectIsShown == ScreenSubject => ShowsItsSubject
BY DEF ScreenSubject, OnSubject, SubjectIn, Coming, Comes, ShowsItsSubject, AtRest, LastWins

\* A reply for the week, the person or the filter chosen before is not what the
\* screen ends with, where the code tells late replies from others.
THEOREM LateRepliesStayOff == ScreensSpec => []ShowsItsSubject
<1>1. ScreensSpec => []ScreenSubject
  BY SubjectAtFirst, SubjectGoesOn, PTL DEF ScreensSpec
<1> QED BY <1>1, SubjectIsShown, PTL

-----------------------------------------------------------------------------
(* What is shown, and what was saved.                                        *)

Choices == Subjects \cup {Blank}

\* The clock bounds every number taken from it.
TimedIn(T, S, G, C, s, k, done) ==
  /\ k \in Nat /\ s \in Subjects
  /\ done \in [DOMAIN T.reads -> [Choices -> 0..k]]
  /\ \A c \in C : c.s \in Subjects /\ c.v \in 0..k
  /\ \A g \in G : g.from \in 0..k /\ g.s \in Choices
  /\ DOMAIN S = DOMAIN T.reads
  /\ \A r \in DOMAIN T.reads : S[r].ok => S[r].v \in Nat /\ S[r].s \in Choices
Timed(T) == TimedIn(T, shown, gets, calls, subject, clock, confirmed)
TimedNext(T) == TimedIn(T, shown', gets', calls', subject', clock', confirmed')

LEMMA KeyIsChoice == \A T, r : \A s \in Subjects : Key(T, r, s) \in Choices
BY DEF Key, Choices

LEMMA AskedTimed ==
  ASSUME NEW T, NEW G, NEW R, NEW s \in Subjects, Reading(T, G), clock \in Nat,
         \A g \in G : g.from \in 0..clock /\ g.s \in Choices
  PROVE  \A h \in AskedFor(T, G, R, s) : h.from \in 0..clock /\ h.s \in Choices
<1> SUFFICES ASSUME NEW h \in AskedFor(T, G, R, s)
             PROVE  h.from \in 0..clock /\ h.s \in Choices
  OBVIOUS
<1>1. \/ \E g \in G : SameGet(h, g)
      \/ h.s = Key(T, h.r, s) /\ h.from = clock
  BY AskedOnly
<1> QED BY <1>1, KeyIsChoice DEF SameGet

\* A person's acts, and the closing of forms.
LEMMA ActsTimed ==
  ASSUME NEW T, Sound(T), Timed(T),
         \/ \E s \in Subjects : Choose(T, s)
         \/ \E f \in Forms(T) : OpenForm(T, f) \/ Dismiss(T, f)
         \/ \E o \in DOMAIN T.ops, r \in Rows \cup {Blank} : Click(T, o, r)
  PROVE  TimedNext(T)
<1>1. shown' = shown /\ clock' = clock /\ confirmed' = confirmed
  BY DEF Choose, OpenForm, Dismiss, Click
<1>2. ASSUME NEW s \in Subjects, Choose(T, s) PROVE TimedNext(T)
  <2>1. /\ calls' = calls /\ subject' = s
        /\ gets' = AskedFor(T, gets, {r \in DOMAIN T.reads : T.reads[r].keyed}, s)
    BY <1>2 DEF Choose
  <2>2. \A h \in gets' : h.from \in 0..clock /\ h.s \in Choices
    BY <2>1, AskedTimed DEF Sound, Timed, TimedIn
  <2> QED BY <1>1, <2>1, <2>2 DEF Timed, TimedNext, TimedIn
<1>3. ASSUME NEW f, OpenForm(T, f) \/ Dismiss(T, f) PROVE TimedNext(T)
  BY <1>1, <1>3 DEF OpenForm, Dismiss, Timed, TimedNext, TimedIn
<1>4. ASSUME NEW o, NEW r, Click(T, o, r) PROVE TimedNext(T)
  <2>1. /\ gets' = gets /\ subject' = subject
        /\ \E i : calls' = calls \cup
                    {[o |-> o, by |-> o, s |-> subject, i |-> i, row |-> r, at |-> "out",
                      v |-> 0, awaits |-> {}, n |-> acts + 1]}
    BY <1>4 DEF Click
  <2>2. \A c \in calls' : c \in calls \/ (c.s = subject /\ c.v = 0)
    BY <2>1
  <2> QED BY <1>1, <2>1, <2>2 DEF Timed, TimedNext, TimedIn
<1> QED BY <1>2, <1>3, <1>4

LEMMA DealTimed ==
  ASSUME NEW T, Sound(T), Timed(T), NEW c \in calls, Deal(T, c)
  PROVE  TimedNext(T) /\ clock' >= clock
<1>1. /\ shown' = shown /\ gets' = gets /\ subject' = subject /\ confirmed' = confirmed
      /\ clock' = clock \/ clock' = clock + 1
      /\ \A d \in calls' : d \in calls \/ \E x : d = [c EXCEPT !.at = x, !.v = clock']
  BY DEF Deal
<1>2. \A d \in calls' : d \in calls \/ (d.s = c.s /\ d.v = clock')
  <2>1. DOMAIN c = CallFields
    BY DEF Sound, FlagsKept, IsCall
  <2>2. \A x : LET d == [c EXCEPT !.at = x, !.v = clock'] IN d.s = c.s /\ d.v = clock'
    BY <2>1 DEF CallFields
  <2> QED BY <1>1, <2>2
<1>3. clock \in Nat /\ clock' \in Nat /\ clock' >= clock
  <2>1. clock \in Nat
    BY DEF Timed, TimedIn
  <2>2. clock' = clock \/ clock' = clock + 1
    BY <1>1
  <2> QED BY ONLY <2>1, <2>2
<1>4. 0..clock \subseteq 0..clock'
  BY <1>3
<1>5. confirmed \in [DOMAIN T.reads -> [Choices -> 0..clock']]
  BY <1>4 DEF Timed, TimedIn
<1>6. (\A d \in calls' : d.s \in Subjects /\ d.v \in 0..clock')
      /\ \A g \in gets : g.from \in 0..clock' /\ g.s \in Choices
  BY <1>2, <1>3, <1>4 DEF Timed, TimedIn
<1> QED BY <1>1, <1>3, <1>5, <1>6 DEF Timed, TimedNext, TimedIn

LEMMA LandGetTimed ==
  ASSUME NEW T, Sound(T), Timed(T), NEW g \in gets, LandGet(T, g)
  PROVE  TimedNext(T)
<1>1. /\ gets' = gets \ {g} /\ subject' = subject /\ clock' = clock /\ confirmed' = confirmed
      /\ \A d \in calls' : \E c \in calls : d = [c EXCEPT !.awaits = @ \ {<<g.r, g.n>>}]
      /\ \/ shown' = shown
         \/ \E v \in g.from..clock : shown' = [shown EXCEPT ![g.r] = Just(g.s, v)]
         \/ shown' = [shown EXCEPT ![g.r] = Nothing]
  BY DEF LandGet
<1>2. \A d \in calls' : \E c \in calls : d.s = c.s /\ d.v = c.v
  BY <1>1 DEF Sound, FlagsKept, IsCall, CallFields
<1>3. DOMAIN shown' = DOMAIN T.reads
  BY <1>1 DEF Timed, TimedIn
<1>4. g.from \in Nat /\ clock \in Nat /\ g.s \in Choices
  BY DEF Timed, TimedIn
<1>5. ASSUME NEW r \in DOMAIN T.reads, shown'[r].ok
      PROVE  shown'[r].v \in Nat /\ shown'[r].s \in Choices
  <2>1. CASE shown'[r] = shown[r]
    BY <1>5, <2>1 DEF Timed, TimedIn
  <2>2. CASE \E v \in Nat : shown'[r] = Just(g.s, v)
    BY <1>4, <2>2 DEF Just
  <2>3. shown'[r] = shown[r] \/ (\E v \in Nat : shown'[r] = Just(g.s, v)) \/ shown'[r] = Nothing
    BY <1>1, <1>4 DEF Timed, TimedIn
  <2> QED BY <1>5, <2>1, <2>2, <2>3 DEF Nothing
<1> QED BY <1>1, <1>2, <1>3, <1>5 DEF Timed, TimedNext, TimedIn

LEMMA FailTimed ==
  ASSUME NEW T, Sound(T), Timed(T), NEW c \in calls, Fail(T, c)
  PROVE  TimedNext(T)
<1>1. /\ shown' = shown /\ clock' = clock /\ confirmed' = confirmed /\ subject' = subject
      /\ calls' = calls \ {c}
      /\ gets' = AskedFor(T, gets, T.ops[c.o].retries, subject)
  BY DEF Fail
<1>2. \A h \in gets' : h.from \in 0..clock /\ h.s \in Choices
  BY <1>1, AskedTimed DEF Sound, Timed, TimedIn
<1> QED BY <1>1, <1>2 DEF Timed, TimedNext, TimedIn

\* What a success confirms: the save, of what was chosen then.
LEMMA Confirms ==
  ASSUME NEW T, Timed(T), NEW c \in calls, Succeed(T, c), NEW r \in DOMAIN T.reads, NEW s \in Choices
  PROVE  /\ confirmed' \in [DOMAIN T.reads -> [Choices -> 0..clock]]
         /\ \/ confirmed'[r][s] = confirmed[r][s]
            \/ /\ confirmed'[r][s] = c.v /\ c.v > confirmed[r][s] /\ s = Key(T, r, c.s)
               /\ r \in T.ops[c.o].changes /\ T.ops[c.o].next = ""
         /\ r \in T.ops[c.o].changes /\ T.ops[c.o].next = "" => confirmed'[r][Key(T, r, c.s)] >= c.v
<1> DEFINE op == T.ops[c.o]
           F(q) == [confirmed[q] EXCEPT ![Key(T, q, c.s)] =
                      IF q \in op.changes /\ op.next = "" /\ c.v > @ THEN c.v ELSE @]
<1>1. confirmed' = [q \in DOMAIN confirmed |-> F(q)]
  BY DEF Succeed
<1>2. /\ confirmed \in [DOMAIN T.reads -> [Choices -> 0..clock]] /\ clock \in Nat
      /\ c.v \in 0..clock /\ \A q : Key(T, q, c.s) \in Choices
  BY KeyIsChoice DEF Timed, TimedIn
<1> HIDE DEF op
<1>3. \A q \in DOMAIN T.reads : confirmed[q] \in [Choices -> 0..clock]
  BY <1>2
<1>4. ASSUME NEW q \in DOMAIN T.reads PROVE F(q) \in [Choices -> 0..clock]
  BY <1>2, <1>3
<1>5. confirmed' \in [DOMAIN T.reads -> [Choices -> 0..clock]]
  <2> HIDE DEF F
  <2> QED BY <1>1, <1>2, <1>4
<1>6. confirmed'[r] = F(r)
  BY <1>1, <1>2
<1>7. \/ F(r)[s] = confirmed[r][s]
      \/ /\ F(r)[s] = c.v /\ c.v > confirmed[r][s] /\ s = Key(T, r, c.s)
         /\ r \in op.changes /\ op.next = ""
  BY <1>3
<1>8. r \in op.changes /\ op.next = "" => F(r)[Key(T, r, c.s)] >= c.v
  <2>1. confirmed[r] \in [Choices -> 0..clock] /\ Key(T, r, c.s) \in Choices
    BY <1>2, <1>3
  <2> DEFINE x == confirmed[r][Key(T, r, c.s)]
  <2>2. /\ r \in op.changes /\ op.next = "" /\ c.v > x => F(r)[Key(T, r, c.s)] = c.v
        /\ ~(c.v > x) => F(r)[Key(T, r, c.s)] = x
    BY <2>1
  <2>3. x \in Nat /\ c.v \in Nat
    BY <1>2, <2>1
  <2>4. c.v > x \/ x >= c.v
    BY ONLY <2>3
  <2>5. c.v >= c.v
    BY ONLY <2>3
  <2> HIDE DEF x, F
  <2> QED BY <2>2, <2>4, <2>5, Zenon
<1> HIDE DEF F
<1> QED BY <1>5, <1>6, <1>7, <1>8 DEF op

LEMMA SucceedTimed ==
  ASSUME NEW T, TableSound(T), Sound(T), Timed(T), NEW c \in calls, Succeed(T, c)
  PROVE  TimedNext(T)
<1> DEFINE op == T.ops[c.o]
           more == AskedFor(T, gets, op.reloads, c.s)
<1>1. /\ clock' = clock /\ subject' = subject
      /\ gets' = AskedFor(T, more, op.refreshes, subject)
      /\ DOMAIN shown' = DOMAIN shown
      /\ \A r \in DOMAIN shown : shown'[r] = shown[r] \/ shown'[r] = Just(Key(T, r, c.s), c.v)
      /\ \A d \in calls' : \/ d \in calls
                            \/ \E y : d = [c EXCEPT !.at = "reloading", !.awaits = y]
                            \/ d = [c EXCEPT !.o = op.next, !.at = "out", !.v = 0]
      /\ confirmed' = [q \in DOMAIN confirmed |->
                         [confirmed[q] EXCEPT ![Key(T, q, c.s)] =
                            IF q \in op.changes /\ op.next = "" /\ c.v > @ THEN c.v ELSE @]]
  BY DEF Succeed
<1>2. /\ Reading(T, gets) /\ op.reloads \subseteq DOMAIN T.reads /\ DOMAIN c = CallFields
  BY DEF Sound, FlagsKept, IsCall, TableSound, WellFormed
<1>3. c.s \in Subjects /\ c.v \in 0..clock /\ clock \in Nat /\ subject \in Subjects
  BY DEF Timed, TimedIn
<1> HIDE DEF op
<1>4. \A h \in more : h.from \in 0..clock /\ h.s \in Choices
  BY <1>2, <1>3, AskedTimed DEF Timed, TimedIn
<1>5. Reading(T, more)
  BY <1>2, StillReading
<1> HIDE DEF more
<1>6. \A h \in gets' : h.from \in 0..clock /\ h.s \in Choices
  BY <1>1, <1>3, <1>4, <1>5, AskedTimed
<1>7. \A d \in calls' : d.s \in Subjects /\ d.v \in 0..clock
  <2>1. \A d \in calls' : d \in calls \/ (d.s = c.s /\ (d.v = c.v \/ d.v = 0))
    BY <1>1, <1>2 DEF CallFields
  <2> QED BY <1>3, <2>1 DEF Timed, TimedIn
<1>8. confirmed' \in [DOMAIN T.reads -> [Choices -> 0..clock]]
  <2>1. CASE DOMAIN T.reads = {}
    BY <1>1, <2>1 DEF Timed, TimedIn
  <2>2. CASE DOMAIN T.reads # {}
    BY <2>2, Confirms DEF Choices
  <2> QED BY <2>1, <2>2
<1>9. \A r \in DOMAIN T.reads : shown'[r].ok => shown'[r].v \in Nat /\ shown'[r].s \in Choices
  <2> SUFFICES ASSUME NEW r \in DOMAIN T.reads, shown'[r].ok
               PROVE  shown'[r].v \in Nat /\ shown'[r].s \in Choices
    OBVIOUS
  <2>1. shown'[r] = shown[r] \/ shown'[r] = Just(Key(T, r, c.s), c.v)
    BY <1>1 DEF Timed, TimedIn
  <2>2. Key(T, r, c.s) \in Choices /\ c.v \in Nat
    BY <1>3, KeyIsChoice
  <2>3. CASE shown'[r] = Just(Key(T, r, c.s), c.v)
    BY <2>2, <2>3 DEF Just
  <2> QED BY <2>1, <2>3 DEF Timed, TimedIn
<1> QED BY <1>1, <1>3, <1>6, <1>7, <1>8, <1>9 DEF Timed, TimedNext, TimedIn

\* Read r shows all that was confirmed, or what does is on its way.
AheadIn(T, S, G, s, done, r) ==
  S[r].ok => S[r].v >= done[r][S[r].s] \/ Comes(T, G, s, r)

\* Its person waits: one answer is out at a time, and nothing is read by then.
WaitsIn(T, S, G, C, s, k, done) ==
  /\ \A c \in C : c.at # "reloading" => G = {} /\ C = {c}
  /\ \A c \in C : c.at = "done" => c.v = k
  /\ \A g \in G : \A x \in Choices : g.from >= done[g.r][x]
  /\ \A r \in DOMAIN T.reads : AheadIn(T, S, G, s, done, r)
Waits(T) == WaitsIn(T, shown, gets, calls, subject, clock, confirmed)
WaitsNext(T) == WaitsIn(T, shown', gets', calls', subject', clock', confirmed')

\* Reads asked for now know of everything confirmed.
LEMMA AskedKnow ==
  ASSUME NEW T, NEW G, NEW R, NEW s, Reading(T, G), R \subseteq DOMAIN T.reads, clock \in Nat,
         NEW done, \A r \in DOMAIN T.reads : \A x \in Choices : done[r][x] \in 0..clock,
         \A g \in G : \A x \in Choices : g.from >= done[g.r][x]
  PROVE  \A h \in AskedFor(T, G, R, s) : \A x \in Choices : h.from >= done[h.r][x]
<1> SUFFICES ASSUME NEW h \in AskedFor(T, G, R, s), NEW x \in Choices
             PROVE  h.from >= done[h.r][x]
  OBVIOUS
<1>1. CASE \E g \in G : SameGet(h, g)
  BY <1>1 DEF SameGet
<1>2. CASE h.r \in R /\ h.from = clock
  <2>1. done[h.r][x] \in 0..clock
    BY <1>2
  <2> QED BY <1>2, <2>1
<1> QED BY <1>1, <1>2, AskedOnly

LEMMA ActsWait ==
  ASSUME NEW T, Sound(T), Timed(T), OnSubject(T), ~rushed => Waits(T), ~rushed',
         \/ \E s \in Subjects : Choose(T, s)
         \/ \E f \in Forms(T) : OpenForm(T, f) \/ Dismiss(T, f)
         \/ \E o \in DOMAIN T.ops, r \in Rows \cup {Blank} : Click(T, o, r)
  PROVE  WaitsNext(T)
<1>1. /\ ~rushed /\ gets = {} /\ calls = {}
      /\ shown' = shown /\ clock' = clock /\ confirmed' = confirmed
  BY DEF Choose, OpenForm, Dismiss, Click, Person, AtRest
<1>2. Reading(T, gets) /\ Waits(T)
  BY <1>1 DEF Sound
<1>3. \A r \in DOMAIN T.reads : shown[r].ok => shown[r].v >= confirmed[r][shown[r].s]
  BY <1>1, <1>2 DEF Waits, WaitsIn, AheadIn, Comes
<1>4. /\ clock \in Nat
      /\ \A r \in DOMAIN T.reads : \A x \in Choices : confirmed[r][x] \in 0..clock
  BY DEF Timed, TimedIn
<1>5. ASSUME NEW s \in Subjects, Choose(T, s) PROVE WaitsNext(T)
  <2> DEFINE R == {r \in DOMAIN T.reads : T.reads[r].keyed}
  <2>1. calls' = {} /\ gets' = AskedFor(T, {}, R, s)
    BY <1>1, <1>5 DEF Choose
  <2>2. \A h \in gets' : \A x \in Choices : h.from >= confirmed[h.r][x]
    BY <1>1, <1>2, <1>4, <2>1, AskedKnow
  <2> QED BY <1>1, <1>3, <2>1, <2>2 DEF WaitsNext, WaitsIn, AheadIn
<1>6. ASSUME NEW f, OpenForm(T, f) \/ Dismiss(T, f) PROVE WaitsNext(T)
  <2>1. gets' = gets /\ calls' = calls /\ subject' = subject
    BY <1>6 DEF OpenForm, Dismiss
  <2> QED BY <1>1, <1>2, <2>1 DEF Waits, WaitsNext
<1>7. ASSUME NEW o, NEW r, Click(T, o, r) PROVE WaitsNext(T)
  <2>1. gets' = {} /\ \E c : calls' = {c} /\ c.at = "out"
    <3> DEFINE i == IF T.ops[o].form = "" THEN 0 ELSE open[T.ops[o].form].n
               c == [o |-> o, by |-> o, s |-> subject, i |-> i, row |-> r, at |-> "out",
                     v |-> 0, awaits |-> {}, n |-> acts + 1]
    <3>1. calls' = calls \cup {c} /\ gets' = gets
      BY <1>7 DEF Click
    <3>2. c.at = "out"
      OBVIOUS
    <3> HIDE DEF c
    <3> QED BY <1>1, <3>1, <3>2
  <2> QED BY <1>1, <1>3, <2>1 DEF WaitsNext, WaitsIn, AheadIn
<1> QED BY <1>5, <1>6, <1>7

LEMMA DealWaits ==
  ASSUME NEW T, Sound(T), Timed(T), Waits(T), NEW c \in calls, Deal(T, c)
  PROVE  WaitsNext(T)
<1>1. PICK done \in BOOLEAN :
        calls' = (calls \ {c}) \cup
                   {[c EXCEPT !.at = IF done THEN "done" ELSE "refused", !.v = clock']}
  BY DEF Deal
<1> DEFINE d == [c EXCEPT !.at = IF done THEN "done" ELSE "refused", !.v = clock']
<1>2. /\ shown' = shown /\ gets' = gets /\ subject' = subject /\ confirmed' = confirmed
      /\ c.at = "out"
  BY DEF Deal
<1>3. gets = {} /\ calls = {c}
  BY <1>2 DEF Waits, WaitsIn
<1>4. d.v = clock'
  BY DEF Sound, FlagsKept, IsCall, CallFields
<1>5. calls' = {d}
  BY <1>1, <1>3
<1> HIDE DEF d
<1> QED BY <1>2, <1>3, <1>4, <1>5 DEF Waits, WaitsNext, WaitsIn

LEMMA LandGetWaits ==
  ASSUME NEW T, Sound(T), Timed(T), Waits(T), NEW g \in gets, LandGet(T, g)
  PROVE  WaitsNext(T)
<1>1. /\ gets' = gets \ {g} /\ subject' = subject /\ clock' = clock /\ confirmed' = confirmed
      /\ \A d \in calls' : \E c \in calls : d = [c EXCEPT !.awaits = @ \ {<<g.r, g.n>>}]
      /\ ~Heeded(T, g) => shown' = shown
      /\ Heeded(T, g) => \/ \E v \in g.from..clock : shown' = [shown EXCEPT ![g.r] = Just(g.s, v)]
                         \/ shown' = [shown EXCEPT ![g.r] = Nothing]
  BY DEF LandGet
<1>2. \A c \in calls : c.at = "reloading"
  BY DEF Waits, WaitsIn
<1>3. \A d \in calls' : d.at = "reloading"
  BY <1>1, <1>2 DEF Sound, FlagsKept, IsCall, CallFields
<1>4. g.r \in DOMAIN T.reads /\ DOMAIN shown = DOMAIN T.reads
  BY DEF Sound, Reading, Timed, TimedIn
<1>5. /\ g.from \in Nat /\ clock \in Nat /\ g.s \in Choices
      /\ confirmed[g.r][g.s] \in Nat /\ g.from >= confirmed[g.r][g.s]
  BY <1>4 DEF Timed, TimedIn, Waits, WaitsIn
<1>6. ASSUME NEW r \in DOMAIN T.reads
      PROVE  AheadIn(T, shown', gets', subject, confirmed, r)
  <2> SUFFICES ASSUME shown'[r].ok
               PROVE  shown'[r].v >= confirmed[r][shown'[r].s] \/ Comes(T, gets', subject, r)
    BY DEF AheadIn
  <2>1. CASE Heeded(T, g) /\ r = g.r
    <3>1. PICK v \in g.from..clock : shown'[r] = Just(g.s, v)
      BY <1>1, <1>4, <2>1 DEF Nothing
    <3>2. shown'[r].s = g.s /\ shown'[r].v = v
      BY <3>1 DEF Just
    <3>3. v >= confirmed[g.r][g.s]
      BY <1>5
    <3> QED BY <2>1, <3>2, <3>3
  <2>2. CASE ~(Heeded(T, g) /\ r = g.r)
    <3>1. shown'[r] = shown[r]
      BY <1>1, <1>4, <2>2
    <3>2. Comes(T, gets, subject, r) => Comes(T, gets', subject, r)
      BY <1>1, <2>2 DEF Comes, HeedFor, Heeded
    <3> QED BY <3>1, <3>2 DEF Waits, WaitsIn, AheadIn
  <2> QED BY <2>1, <2>2
<1>7. \A h \in gets' : \A x \in Choices : h.from >= confirmed[h.r][x]
  BY <1>1 DEF Waits, WaitsIn
<1> QED BY <1>1, <1>3, <1>6, <1>7 DEF WaitsNext, WaitsIn

LEMMA FailWaits ==
  ASSUME NEW T, TableSound(T), Sound(T), Timed(T), Waits(T), NEW c \in calls, Fail(T, c)
  PROVE  WaitsNext(T)
<1> DEFINE R == T.ops[c.o].retries
<1>1. /\ shown' = shown /\ clock' = clock /\ confirmed' = confirmed /\ subject' = subject
      /\ calls' = calls \ {c} /\ c.at # "reloading"
      /\ gets' = AskedFor(T, gets, R, subject)
  BY DEF Fail
<1>2. calls' = {} /\ gets = {}
  BY <1>1 DEF Waits, WaitsIn
<1>3. Reading(T, gets) /\ R \subseteq DOMAIN T.reads
  BY DEF Sound, FlagsKept, IsCall, TableSound, WellFormed
<1> HIDE DEF R
<1>4. \A r \in DOMAIN T.reads : shown[r].ok => shown[r].v >= confirmed[r][shown[r].s]
  BY <1>2 DEF Waits, WaitsIn, AheadIn, Comes
<1>5. /\ clock \in Nat
      /\ \A r \in DOMAIN T.reads : \A x \in Choices : confirmed[r][x] \in 0..clock
  BY DEF Timed, TimedIn
<1>6. \A h \in gets' : \A x \in Choices : h.from >= confirmed[h.r][x]
  BY <1>1, <1>2, <1>3, <1>5, AskedKnow
<1> QED BY <1>1, <1>2, <1>4, <1>6 DEF WaitsNext, WaitsIn, AheadIn

LEMMA SucceedWaits ==
  ASSUME NEW T, TableSound(T), \A o \in DOMAIN T.ops : Tells(T, T.ops[o]),
         Sound(T), Timed(T), OnSubject(T), ~rushed, Waits(T), NEW c \in calls, Succeed(T, c)
  PROVE  WaitsNext(T)
<1> DEFINE op == T.ops[c.o]
           more == AskedFor(T, gets, op.reloads, c.s)
           waiting == op.waits /\ op.reloads # {}
           awaited == {<<g.r, g.n>> : g \in {h \in AskedFor(T, more, op.refreshes, subject) :
                         h.r \in op.reloads /\ h.s = Key(T, h.r, c.s)}}
           waits == [c EXCEPT !.at = "reloading", !.awaits = awaited]
           next == [c EXCEPT !.o = op.next, !.at = "out", !.v = 0]
           taken == {r \in op.adopts : op.mine => shown[r].ok /\ Key(T, r, c.s) = shown[r].s}
<1>1. /\ clock' = clock /\ subject' = subject /\ c.at = "done"
      /\ gets' = AskedFor(T, more, op.refreshes, subject)
      /\ shown' = [r \in DOMAIN shown |->
                     IF r \in taken THEN Just(Key(T, r, c.s), c.v) ELSE shown[r]]
      /\ calls' = (calls \ {c}) \cup (IF waiting THEN {waits} ELSE {})
                    \cup (IF op.next # "" THEN {next} ELSE {})
  BY DEF Succeed
<1>2. gets = {} /\ calls = {c} /\ c.v = clock /\ c.s = subject
  BY <1>1 DEF Waits, WaitsIn, OnSubject, SubjectIn
<1>3. /\ c.o \in DOMAIN T.ops /\ Tells(T, op) /\ DOMAIN c = CallFields
      /\ Reading(T, gets) /\ op.reloads \subseteq DOMAIN T.reads
      /\ op.refreshes \subseteq DOMAIN T.reads
  BY DEF Sound, FlagsKept, IsCall, TableSound, WellFormed
<1>4. waits.at = "reloading" /\ next.at = "out"
  BY <1>3 DEF CallFields
<1>5. op.next # "" => op.reloads = {} /\ op.refreshes = {}
  BY <1>3 DEF Tells
<1>6. op.next # "" => gets' = {} /\ ~waiting
  <2> HIDE DEF op
  <2> QED BY <1>1, <1>2, <1>5 DEF AskedFor
<1>7. \A r : r \in taken <=> r \in op.adopts /\ (op.mine => shown[r].ok /\ Key(T, r, c.s) = shown[r].s)
  OBVIOUS
<1> HIDE DEF waits, next, waiting, op, taken
<1>8. \A d \in calls' : d.at = "reloading" \/ (op.next # "" /\ calls' = {next} /\ d = next)
  BY <1>1, <1>2, <1>4, <1>6
<1>9. \A r \in DOMAIN T.reads : \A x \in Choices : confirmed'[r][x] \in 0..clock
  BY Confirms
<1>10. /\ clock \in Nat /\ DOMAIN shown = DOMAIN T.reads
       /\ \A r \in DOMAIN T.reads : \A x \in Choices : confirmed[r][x] \in 0..clock
       /\ \A r \in DOMAIN T.reads : shown[r].ok => shown[r].s \in Choices /\ shown[r].v \in Nat
       /\ \A r : Key(T, r, subject) \in Choices
  BY KeyIsChoice DEF Timed, TimedIn
<1>11. Reading(T, more) /\ MayAsk(T, op.reloads, c.s, subject) /\ MayAsk(T, op.refreshes, subject, subject)
  BY <1>2, <1>3, StillReading DEF MayAsk
<1>12. \A h \in gets' : \A x \in Choices : h.from >= confirmed'[h.r][x]
  <2>1. \A h \in more : \A x \in Choices : h.from >= confirmed'[h.r][x]
    BY <1>2, <1>3, <1>9, <1>10, AskedKnow
  <2> HIDE DEF more
  <2> QED BY <1>1, <1>3, <1>9, <1>10, <1>11, <2>1, AskedKnow
<1>13. \A r \in op.reloads \cup op.refreshes : Comes(T, gets', subject, r)
  <2>1. \A r \in op.reloads : Comes(T, more, subject, r)
    BY <1>2, <1>3, <1>11, AskedComes
  <2> HIDE DEF more
  <2> QED BY <1>1, <1>11, <2>1, AskedComes
<1>14. ASSUME NEW r \in DOMAIN T.reads
       PROVE  AheadIn(T, shown', gets', subject, confirmed', r)
  <2> SUFFICES ASSUME shown'[r].ok, ~Comes(T, gets', subject, r)
               PROVE  shown'[r].v >= confirmed'[r][shown'[r].s]
    BY DEF AheadIn
  <2>1. CASE r \in taken
    <3>1. shown'[r] = Just(Key(T, r, c.s), c.v)
      BY <1>1, <1>10, <2>1
    <3>2. shown'[r].s = Key(T, r, subject) /\ shown'[r].v = clock
      BY <1>2, <3>1 DEF Just
    <3>3. confirmed'[r][Key(T, r, subject)] \in 0..clock
      BY <1>9, <1>10
    <3> QED BY <1>10, <3>2, <3>3
  <2>2. CASE r \notin taken
    <3>1. shown'[r] = shown[r] /\ shown[r].ok /\ shown[r].s \in Choices
      BY <1>1, <1>10, <2>2
    <3>2. /\ shown[r].s = Key(T, r, subject)
          /\ shown[r].v >= confirmed[r][shown[r].s]
      BY <1>2, <3>1 DEF OnSubject, SubjectIn, Coming, Comes, Waits, WaitsIn, AheadIn
    <3>3. r \notin op.adopts
      BY <1>2, <1>7, <2>2, <3>1, <3>2
    <3>4. ~(r \in op.changes /\ op.next = "")
      BY <1>3, <1>13, <3>3 DEF Tells
    <3>5. confirmed'[r][shown[r].s] = confirmed[r][shown[r].s]
      <4>1. \A x \in Choices :
              confirmed'[r][x] = confirmed[r][x] \/ (r \in op.changes /\ op.next = "")
        BY Confirms DEF op
      <4> QED BY ONLY <3>1, <3>4, <4>1
    <3> QED BY <3>1, <3>2, <3>5
  <2> QED BY <2>1, <2>2
<1>15. \A d \in calls' : /\ d.at # "reloading" => gets' = {} /\ calls' = {d}
                        /\ d.at # "done"
  BY <1>4, <1>6, <1>8
<1> HIDE DEF more
<1> QED BY <1>1, <1>12, <1>14, <1>15 DEF WaitsNext, WaitsIn

-----------------------------------------------------------------------------
(* A read that keeps up although its person hurries.                         *)

\* Nothing is ever confirmed of it.
Untouched(r) == \A x \in Choices : confirmed[r][x] = 0
UntouchedNext(r) == \A x \in Choices : confirmed'[r][x] = 0

LEMMA UntouchedKeepsUp ==
  ASSUME NEW T, Timed(T), NEW r \in DOMAIN T.reads, Unchanged(T, r), Sound(T), Untouched(r),
         \/ confirmed' = confirmed
         \/ \E c \in calls : Succeed(T, c)
  PROVE  UntouchedNext(r)
<1>1. CASE confirmed' = confirmed
  BY <1>1 DEF Untouched, UntouchedNext
<1>2. ASSUME NEW c \in calls, Succeed(T, c) PROVE UntouchedNext(r)
  <2>1. ~(r \in T.ops[c.o].changes /\ T.ops[c.o].next = "")
    BY DEF Unchanged, Sound, FlagsKept, IsCall
  <2>2. \A x \in Choices : confirmed'[r][x] = confirmed[r][x]
    BY <1>2, <2>1, Confirms
  <2> QED BY <2>2 DEF Untouched, UntouchedNext
<1> QED BY <1>1, <1>2

\* The only answer that counts knows of everything confirmed.
NewestIn(T, S, G, s, done, r) ==
  /\ \A g \in G : g.r = r /\ g.live => \A x \in Choices : g.from >= done[r][x]
  /\ AheadIn(T, S, G, s, done, r)
Newest(T, r) == NewestIn(T, shown, gets, subject, confirmed, r)
NewestNext(T, r) == NewestIn(T, shown', gets', subject', confirmed', r)

\* Asked for, it is asked anew.
LEMMA AskedNewest ==
  ASSUME NEW T, NEW G, NEW R, NEW s, NEW r, Reading(T, G), R \subseteq DOMAIN T.reads, AlwaysNew(T, r),
         NEW h \in AskedFor(T, G, R, s), h.r = r, h.live
  PROVE  \/ h.from = clock
         \/ r \notin R /\ \E g \in G : g.r = r /\ g.live /\ g.from = h.from
<1>1. \A g \in G : g.r = r => ~Joined(T, g, R, s)
  BY DEF Joined, AlwaysNew
<1> QED BY <1>1, AskedOnly DEF SameGet

\* Whether it is on its way does not depend on what is chosen.
LEMMA NewestComes ==
  ASSUME NEW T, NEW G, NEW s, NEW r, AlwaysNew(T, r)
  PROVE  Comes(T, G, s, r) <=> \E g \in G : g.r = r /\ g.live
BY DEF AlwaysNew, Comes, HeedFor

LEMMA AskedStillComes ==
  ASSUME NEW T, NEW G, NEW R, NEW s, NEW r, Reading(T, G), AlwaysNew(T, r),
         (\E g \in G : g.r = r /\ g.live) \/ r \in R
  PROVE  \E h \in AskedFor(T, G, R, s) : h.r = r /\ h.live
<1>1. CASE r \in R
  BY <1>1, AskedAnew
<1>2. CASE r \notin R
  <2>1. PICK g \in G : g.r = r /\ g.live
    BY <1>2
  <2>2. PICK h \in AskedFor(T, G, R, s) : SameGet(h, g) /\ (g.r \notin R => h.live = g.live)
    <3>1. Reading(T, G) /\ g \in G
      BY <2>1
    <3> QED BY ONLY <3>1, AskedBefore
  <2> QED BY <1>2, <2>1, <2>2 DEF SameGet
<1> QED BY <1>1, <1>2

LEMMA ActsNewest ==
  ASSUME NEW T, Sound(T), Timed(T), NEW r \in DOMAIN T.reads, AlwaysNew(T, r), Newest(T, r),
         \/ \E s \in Subjects : Choose(T, s)
         \/ \E f \in Forms(T) : OpenForm(T, f) \/ Dismiss(T, f)
         \/ \E o \in DOMAIN T.ops, q \in Rows \cup {Blank} : Click(T, o, q)
         \/ \E c \in calls : Deal(T, c)
  PROVE  NewestNext(T, r)
<1>1. shown' = shown /\ confirmed' = confirmed
  BY DEF Choose, OpenForm, Dismiss, Click, Deal
<1>2. CASE gets' = gets /\ subject' = subject
  BY <1>1, <1>2 DEF Newest, NewestNext, NewestIn
<1>3. ASSUME NEW s \in Subjects, Choose(T, s) PROVE NewestNext(T, r)
  <2> DEFINE R == {q \in DOMAIN T.reads : T.reads[q].keyed}
  <2>1. gets' = AskedFor(T, gets, R, s) /\ Reading(T, gets) /\ R \subseteq DOMAIN T.reads
    BY <1>3 DEF Choose, Sound
  <2>2. clock \in Nat /\ \A x \in Choices : confirmed[r][x] \in 0..clock
    BY DEF Timed, TimedIn
  <2> HIDE DEF R
  <2>3. ASSUME NEW h \in gets', h.r = r, h.live, NEW x \in Choices PROVE h.from >= confirmed[r][x]
    <3>1. h.from = clock \/ \E g \in gets : g.r = r /\ g.live /\ g.from = h.from
      BY <2>1, <2>3, AskedNewest
    <3>2. clock >= confirmed[r][x]
      BY <2>2
    <3> QED BY <3>1, <3>2 DEF Newest, NewestIn
  <2>4. Comes(T, gets, subject, r) => Comes(T, gets', subject', r)
    BY <2>1, NewestComes, AskedStillComes
  <2> QED BY <1>1, <2>3, <2>4 DEF Newest, NewestNext, NewestIn, AheadIn
<1> QED BY <1>2, <1>3 DEF OpenForm, Dismiss, Click, Deal

LEMMA LandGetNewest ==
  ASSUME NEW T, Sound(T), Timed(T), NEW r \in DOMAIN T.reads, AlwaysNew(T, r), Newest(T, r),
         NEW g \in gets, LandGet(T, g)
  PROVE  NewestNext(T, r)
<1>1. /\ gets' = gets \ {g} /\ subject' = subject /\ confirmed' = confirmed
      /\ ~Heeded(T, g) => shown' = shown
      /\ Heeded(T, g) => \/ \E v \in g.from..clock : shown' = [shown EXCEPT ![g.r] = Just(g.s, v)]
                         \/ shown' = [shown EXCEPT ![g.r] = Nothing]
  BY DEF LandGet
<1>2. DOMAIN shown = DOMAIN T.reads /\ g.from \in Nat /\ clock \in Nat /\ g.s \in Choices
  BY DEF Timed, TimedIn
<1>3. ASSUME shown'[r].ok, Heeded(T, g), g.r = r
      PROVE  shown'[r].v >= confirmed[r][shown'[r].s]
  <2>1. PICK v \in g.from..clock : shown'[r] = Just(g.s, v)
    BY <1>1, <1>2, <1>3 DEF Nothing
  <2>2. shown'[r].s = g.s /\ shown'[r].v = v
    BY <2>1 DEF Just
  <2>3. g.from >= confirmed[r][g.s]
    BY <1>2, <1>3 DEF Newest, NewestIn, Heeded, AlwaysNew
  <2>4. confirmed[r][g.s] \in Nat
    BY <1>2 DEF Timed, TimedIn
  <2>5. v >= confirmed[r][g.s]
    BY <1>2, <2>3, <2>4
  <2> QED BY <2>2, <2>5
<1>4. ASSUME ~(Heeded(T, g) /\ g.r = r)
      PROVE  shown'[r] = shown[r] /\ (Comes(T, gets, subject, r) => Comes(T, gets', subject, r))
  BY <1>1, <1>2, <1>4 DEF Comes, HeedFor, Heeded
<1>5. AheadIn(T, shown', gets', subject, confirmed, r)
  BY <1>3, <1>4 DEF AheadIn, Newest, NewestIn
<1> QED BY <1>1, <1>5 DEF Newest, NewestNext, NewestIn

LEMMA FailNewest ==
  ASSUME NEW T, TableSound(T), Sound(T), Timed(T), NEW r \in DOMAIN T.reads, AlwaysNew(T, r),
         Newest(T, r), NEW c \in calls, Fail(T, c)
  PROVE  NewestNext(T, r)
<1> DEFINE R == T.ops[c.o].retries
<1>1. shown' = shown /\ confirmed' = confirmed /\ gets' = AskedFor(T, gets, R, subject)
  BY DEF Fail
<1>2. Reading(T, gets) /\ R \subseteq DOMAIN T.reads
  BY DEF Sound, FlagsKept, IsCall, TableSound, WellFormed
<1> HIDE DEF R
<1>3. clock \in Nat /\ \A x \in Choices : confirmed[r][x] \in 0..clock
  BY DEF Timed, TimedIn
<1>4. ASSUME NEW h \in gets', h.r = r, h.live, NEW x \in Choices PROVE h.from >= confirmed[r][x]
  <2>1. h.from = clock \/ \E g \in gets : g.r = r /\ g.live /\ g.from = h.from
    BY <1>1, <1>2, <1>4, AskedNewest
  <2>2. clock >= confirmed[r][x]
    BY <1>3
  <2> QED BY <2>1, <2>2 DEF Newest, NewestIn
<1>5. Comes(T, gets, subject, r) => Comes(T, gets', subject', r)
  BY <1>1, <1>2, NewestComes, AskedStillComes
<1> QED BY <1>1, <1>4, <1>5 DEF Newest, NewestNext, NewestIn, AheadIn

LEMMA SucceedNewest ==
  ASSUME NEW T, TableSound(T), Sound(T), Timed(T), NEW r \in DOMAIN T.reads, AlwaysNew(T, r),
         Newest(T, r), NEW c \in calls, Succeed(T, c)
  PROVE  NewestNext(T, r)
<1> DEFINE op == T.ops[c.o]
           more == AskedFor(T, gets, op.reloads, c.s)
           taken == {q \in op.adopts : op.mine => shown[q].ok /\ Key(T, q, c.s) = shown[q].s}
<1>1. /\ gets' = AskedFor(T, more, op.refreshes, subject)
      /\ shown' = [q \in DOMAIN shown |->
                     IF q \in taken THEN Just(Key(T, q, c.s), c.v) ELSE shown[q]]
  BY DEF Succeed
<1>2. /\ Reading(T, gets) /\ op.reloads \subseteq DOMAIN T.reads
      /\ op.refreshes \subseteq DOMAIN T.reads /\ c.o \in DOMAIN T.ops
  BY DEF Sound, FlagsKept, IsCall, TableSound, WellFormed
<1>3. r \notin taken /\ (r \in op.changes /\ op.next = "" => r \in op.refreshes)
  BY <1>2 DEF AlwaysNew
<1>4. /\ clock \in Nat /\ DOMAIN shown = DOMAIN T.reads
      /\ \A x \in Choices : confirmed[r][x] \in 0..clock
      /\ shown[r].ok => shown[r].s \in Choices
  BY DEF Timed, TimedIn
<1>5. shown'[r] = shown[r]
  BY <1>1, <1>3, <1>4
<1>6. \A x \in Choices : /\ confirmed'[r][x] \in 0..clock
                         /\ r \notin op.refreshes => confirmed'[r][x] = confirmed[r][x]
  <2> SUFFICES ASSUME NEW x \in Choices
               PROVE  /\ confirmed'[r][x] \in 0..clock
                      /\ r \notin op.refreshes => confirmed'[r][x] = confirmed[r][x]
    OBVIOUS
  <2>1. /\ confirmed' \in [DOMAIN T.reads -> [Choices -> 0..clock]]
        /\ \/ confirmed'[r][x] = confirmed[r][x]
           \/ r \in op.changes /\ op.next = ""
    BY Confirms
  <2> HIDE DEF op
  <2> QED BY <1>3, <2>1
<1>7. Reading(T, more)
  BY <1>2, StillReading
<1> HIDE DEF op, taken
<1>8. ASSUME NEW h \in gets', h.r = r, h.live, NEW x \in Choices PROVE h.from >= confirmed'[r][x]
  <2>1. h.from = clock \/ (r \notin op.refreshes /\ \E g \in gets : g.r = r /\ g.live /\ g.from = h.from)
    <3>1. \/ h.from = clock
          \/ r \notin op.refreshes /\ \E g \in more : g.r = r /\ g.live /\ g.from = h.from
      <4> HIDE DEF more
      <4> QED BY <1>1, <1>2, <1>7, <1>8, AskedNewest
    <3>2. \A g \in more : g.r = r /\ g.live =>
            g.from = clock \/ \E k \in gets : k.r = r /\ k.live /\ k.from = g.from
      BY <1>2, AskedNewest
    <3> HIDE DEF more
    <3> QED BY <3>1, <3>2
  <2>2. clock >= confirmed'[r][x]
    BY <1>4, <1>6
  <2>3. CASE h.from = clock
    BY <2>2, <2>3
  <2>4. CASE r \notin op.refreshes /\ \E g \in gets : g.r = r /\ g.live /\ g.from = h.from
    BY <1>6, <2>4 DEF Newest, NewestIn
  <2> QED BY <2>1, <2>3, <2>4
<1>9. /\ Comes(T, gets, subject, r) => Comes(T, gets', subject', r)
      /\ r \in op.refreshes => Comes(T, gets', subject', r)
  <2>1. Comes(T, gets, subject, r) => Comes(T, more, subject, r)
    BY <1>2, NewestComes, AskedStillComes
  <2> HIDE DEF more
  <2> QED BY <1>1, <1>7, <2>1, NewestComes, AskedStillComes
<1> HIDE DEF more
<1>10. AheadIn(T, shown', gets', subject', confirmed', r)
  <2> SUFFICES ASSUME shown'[r].ok, ~Comes(T, gets', subject', r)
               PROVE  shown'[r].v >= confirmed'[r][shown'[r].s]
    BY DEF AheadIn
  <2>1. r \notin op.refreshes /\ ~Comes(T, gets, subject, r)
    BY <1>9
  <2>2. confirmed'[r][shown[r].s] = confirmed[r][shown[r].s]
    BY <1>4, <1>5, <1>6, <2>1
  <2> QED BY <1>5, <2>1, <2>2 DEF Newest, NewestIn, AheadIn
<1> QED BY <1>8, <1>10 DEF NewestNext, NewestIn

\* A read made once: while it is under way nothing that touches its subject is,
\* nor can begin; after that one thing at a time does.
Gated(k) == [f |-> k, i |-> 0, r |-> Blank]
Idle(T, O, C, r, k) ==
  /\ \A c \in C : ~Leads(T, c.o, r)
  /\ \A o \in DOMAIN T.ops :
       Leads(T, o, r) /\ k \notin T.ops[o].checks => ~O[T.ops[o].form].on
OnceIn(T, S, O, F, G, C, done, r, k) ==
  /\ \A g, h \in G : g.r = r /\ h.r = r => g = h
  /\ \A g \in G : g.r = r =>
       g.s = Blank /\ done[r][Blank] = 0 /\ Gated(k) \in F /\ Idle(T, O, C, r, k)
  /\ \A c \in C : Touches(T, c.o, r) /\ c.at = "done" => c.v >= done[r][Blank]
  /\ S[r].ok => S[r].s = Blank /\ S[r].v >= done[r][Blank]
Once(T, r, k) == OnceIn(T, shown, open, flags, gets, calls, confirmed, r, k)
OnceNext(T, r, k) == OnceIn(T, shown', open', flags', gets', calls', confirmed', r, k)

\* What has a form open for what leads to it, a flag k in it keeps shut.
LEMMA LeadsFromForm ==
  ASSUME NEW T, NEW r, NEW k, Gate(T, r, k), NEW o \in DOMAIN T.ops, Leads(T, o, r),
         k \notin T.ops[o].checks
  PROVE  T.ops[o].form \in Forms(T) /\ k \in T.ops[o].opener
BY DEF Gate, Forms

LEMMA AskedOthers ==
  ASSUME NEW T, NEW G, NEW R, NEW s, NEW r, Reading(T, G), r \notin R,
         \A g, h \in G : g.r = r /\ h.r = r => g = h
  PROVE  /\ \A g, h \in AskedFor(T, G, R, s) : g.r = r /\ h.r = r => g = h
         /\ \A h \in AskedFor(T, G, R, s) : h.r = r => \E g \in G : g.r = r /\ g.s = h.s
<1> DEFINE again(g) == [g EXCEPT !.live = IF g.r \in R THEN Joined(T, g, R, s) ELSE @]
<1>1. ASSUME NEW h \in AskedFor(T, G, R, s), h.r = r
      PROVE  \E g \in G : h = again(g) /\ g.r = r /\ g.s = h.s
  <2>1. CASE \E g \in G : h = again(g)
    BY <1>1, <2>1 DEF Reading, GetFields
  <2>2. CASE \E q \in R : h = [r |-> q, s |-> Key(T, q, s), n |-> Slot(G, q), from |-> clock,
                               live |-> TRUE]
    BY <1>1, <2>2
  <2> QED BY <2>1, <2>2 DEF AskedFor
<1> HIDE DEF again
<1>2. ASSUME NEW g \in AskedFor(T, G, R, s), NEW h \in AskedFor(T, G, R, s), g.r = r, h.r = r
      PROVE  g = h
  <2>1. PICK a \in G : g = again(a) /\ a.r = r
    BY <1>1, <1>2
  <2>2. PICK b \in G : h = again(b) /\ b.r = r
    BY <1>1, <1>2
  <2> QED BY <2>1, <2>2
<1> QED BY <1>1, <1>2

\* No operation lowers the flag a read is made under: its own are in its form.
LEMMA GateStaysUp ==
  ASSUME NEW T, NEW r, NEW k, Gate(T, r, k), NEW O, NEW A, NEW F, NEW o \in DOMAIN T.ops, NEW i, NEW row,
         Numbered(T, O, A, T.ops[o], i), Gated(k) \in F
  PROVE  /\ Gated(k) \in Raised(F, T.ops[o], i, row)
         /\ Gated(k) \in Lowered(F, T.ops[o].sets, T.ops[o], i, row)
         /\ Gated(k) \in Kept(T, F)
<1>1. k \in T.ops[o].sets => Home(T.ops[o], i) # 0
  BY DEF Gate, Numbered, Home
<1>2. Gated(k).f = k /\ Gated(k).i = 0
  BY DEF Gated
<1> QED BY <1>1, <1>2 DEF Raised, Lowered, Kept

LEMMA ActsOnce ==
  ASSUME NEW T, TableSound(T), Sound(T), Timed(T), NEW r \in DOMAIN T.reads, ReadOnce(T, r),
         NEW k, Gate(T, r, k), Once(T, r, k),
         \/ \E s \in Subjects : Choose(T, s)
         \/ \E f \in Forms(T) : OpenForm(T, f) \/ Dismiss(T, f)
  PROVE  OnceNext(T, r, k)
<1>1. shown' = shown /\ confirmed' = confirmed /\ calls' = calls
  BY DEF Choose, OpenForm, Dismiss
<1>2. FormsSound(T, open, acts)
  BY DEF Sound, FlagsKept
<1>3. ASSUME NEW s \in Subjects, Choose(T, s) PROVE OnceNext(T, r, k)
  <2> DEFINE R == {q \in DOMAIN T.reads : T.reads[q].keyed}
  <2>1. gets' = AskedFor(T, gets, R, s) /\ open' = open /\ flags \subseteq flags'
    BY <1>3 DEF Choose
  <2>2. r \notin R /\ Reading(T, gets)
    BY DEF ReadOnce, Sound
  <2> HIDE DEF R
  <2>3. /\ \A g, h \in gets' : g.r = r /\ h.r = r => g = h
        /\ \A h \in gets' : h.r = r => \E g \in gets : g.r = r /\ g.s = h.s
    BY <2>1, <2>2, AskedOthers DEF Once, OnceIn
  <2> QED BY <1>1, <2>1, <2>3 DEF Once, OnceNext, OnceIn
<1>4. ASSUME NEW f \in Forms(T), OpenForm(T, f) PROVE OnceNext(T, r, k)
  <2>1. /\ gets' = gets /\ flags' = flags
        /\ \A g \in Forms(T) \ {f} : open'[g].on = open[g].on
        /\ \A o \in DOMAIN T.ops, t \in flags :
             T.ops[o].form = f => ~(t.f \in T.ops[o].opener /\ t.i = 0)
    BY <1>2, <1>4 DEF OpenForm, FormsSound
  <2>2. ASSUME NEW g \in gets, g.r = r PROVE Idle(T, open', calls', r, k)
    <3>1. Gated(k) \in flags /\ Idle(T, open, calls, r, k)
      BY <2>2 DEF Once, OnceIn
    <3>2. ASSUME NEW o \in DOMAIN T.ops, Leads(T, o, r), k \notin T.ops[o].checks
          PROVE  ~open'[T.ops[o].form].on
      <4>1. T.ops[o].form \in Forms(T) /\ k \in T.ops[o].opener
        BY <3>2, LeadsFromForm
      <4>2. T.ops[o].form # f
        BY <2>1, <3>1, <4>1 DEF Gated
      <4> QED BY <2>1, <3>1, <3>2, <4>1, <4>2 DEF Idle
    <3> QED BY <1>1, <3>1, <3>2 DEF Idle
  <2> QED BY <1>1, <2>1, <2>2 DEF Once, OnceNext, OnceIn
<1>5. ASSUME NEW f \in Forms(T), Dismiss(T, f) PROVE OnceNext(T, r, k)
  <2>1. /\ gets' = gets /\ flags' = {t \in flags : t.i = 0}
        /\ \A g \in Forms(T) : open'[g].on => open[g].on
    BY <1>2, <1>5 DEF Dismiss, FormsSound
  <2>2. Gated(k) \in flags => Gated(k) \in flags'
    BY <2>1 DEF Gated
  <2>3. Idle(T, open, calls, r, k) => Idle(T, open', calls', r, k)
    BY <1>1, <2>1, LeadsFromForm DEF Idle
  <2> QED BY <1>1, <2>1, <2>2, <2>3 DEF Once, OnceNext, OnceIn
<1> QED BY <1>3, <1>4, <1>5

LEMMA ClickOnce ==
  ASSUME NEW T, TableSound(T), Sound(T), Timed(T), NEW r \in DOMAIN T.reads, ReadOnce(T, r),
         NEW k, Gate(T, r, k), Once(T, r, k), NEW o \in DOMAIN T.ops, NEW row, Click(T, o, row)
  PROVE  OnceNext(T, r, k)
<1> DEFINE op == T.ops[o]
           i  == IF op.form = "" THEN 0 ELSE open[op.form].n
           c  == [o |-> o, by |-> o, s |-> subject, i |-> i, row |-> row, at |-> "out",
                  v |-> 0, awaits |-> {}, n |-> acts + 1]
<1>1. /\ shown' = shown /\ confirmed' = confirmed /\ gets' = gets /\ open' = open
      /\ calls' = calls \cup {c} /\ flags' = Raised(flags, op, i, row)
      /\ op.form # "" => open[op.form].on
      /\ ~Off(op, i, row)
  BY DEF Click
<1>2. FormsSound(T, open, acts) /\ (op.own => op.form # "")
  BY DEF Sound, FlagsKept, TableSound, WellFormed
<1>3. op.form # "" => op.form \in Forms(T)
  BY DEF Forms
<1>4. c.o = o /\ c.at = "out"
  OBVIOUS
<1>5. op.own => i # 0
  BY <1>1, <1>2, <1>3 DEF FormsSound
<1> HIDE DEF c
<1>6. ASSUME Gated(k) \in flags, NEW g \in gets, g.r = r PROVE ~Leads(T, o, r)
  <2>1. CASE k \in op.checks
    <3>1. Off(op, i, row)
      BY <1>6, <2>1 DEF Off, Gated
    <3> QED BY <1>1, <3>1
  <2>2. CASE k \notin op.checks
    <3>1. Leads(T, o, r) => op.form # "" /\ ~open[op.form].on
      BY <1>6, <2>2, LeadsFromForm DEF Once, OnceIn, Idle, Forms
    <3> QED BY <1>1, <3>1
  <2> QED BY <2>1, <2>2
<1>7. Gated(k) \in flags => Gated(k) \in flags'
  <2>1. k \in op.sets => Home(op, i) # 0
    BY <1>5 DEF Gate, Home
  <2>2. Gated(k).f = k /\ Gated(k).i = 0
    BY DEF Gated
  <2> HIDE DEF op, i
  <2> QED BY <1>1, <2>1, <2>2 DEF Raised
<1> HIDE DEF op, i
<1>8. ASSUME NEW g \in gets, g.r = r
      PROVE  Gated(k) \in flags' /\ Idle(T, open', calls', r, k)
  <2>1. Gated(k) \in flags /\ Idle(T, open, calls, r, k)
    BY <1>8 DEF Once, OnceIn
  <2> QED BY <1>1, <1>4, <1>6, <1>7, <1>8, <2>1 DEF Idle
<1> QED BY <1>1, <1>4, <1>8 DEF Once, OnceNext, OnceIn

LEMMA DealOnce ==
  ASSUME NEW T, TableSound(T), Sound(T), Timed(T), NEW r \in DOMAIN T.reads, ReadOnce(T, r),
         NEW k, Gate(T, r, k), Once(T, r, k), NEW c \in calls, Deal(T, c)
  PROVE  OnceNext(T, r, k)
<1>1. /\ shown' = shown /\ confirmed' = confirmed /\ gets' = gets /\ open' = open /\ flags' = flags
      /\ \A d \in calls' : d \in calls \/ \E x : d = [c EXCEPT !.at = x, !.v = clock']
  BY DEF Deal
<1>2. \A d \in calls' : d \in calls \/ (d.o = c.o /\ d.v = clock')
  <2>1. DOMAIN c = CallFields
    BY DEF Sound, FlagsKept, IsCall
  <2>2. \A x : LET d == [c EXCEPT !.at = x, !.v = clock'] IN d.o = c.o /\ d.v = clock'
    BY <2>1 DEF CallFields
  <2> QED BY <1>1, <2>2
<1>3. clock' >= confirmed[r][Blank]
  <2>1. confirmed[r][Blank] \in 0..clock /\ clock \in Nat
    BY DEF Timed, TimedIn, Choices
  <2>2. clock' = clock \/ clock' = clock + 1
    BY DEF Deal
  <2> QED BY ONLY <2>1, <2>2
<1>4. Idle(T, open, calls, r, k) => Idle(T, open', calls', r, k)
  BY <1>1, <1>2 DEF Idle
<1> QED BY <1>1, <1>2, <1>3, <1>4 DEF Once, OnceNext, OnceIn

LEMMA LandGetOnce ==
  ASSUME NEW T, TableSound(T), Sound(T), Timed(T), NEW r \in DOMAIN T.reads, ReadOnce(T, r),
         NEW k, Gate(T, r, k), Once(T, r, k), NEW g \in gets, LandGet(T, g)
  PROVE  OnceNext(T, r, k)
<1> DEFINE over == {c \in calls : c.awaits = {<<g.r, g.n>>}}
<1>1. /\ gets' = gets \ {g} /\ confirmed' = confirmed /\ open' = open
      /\ calls' = {[c EXCEPT !.awaits = @ \ {<<g.r, g.n>>}] : c \in calls \ over}
      /\ ~Heeded(T, g) => shown' = shown
      /\ Heeded(T, g) => \/ \E v \in g.from..clock : shown' = [shown EXCEPT ![g.r] = Just(g.s, v)]
                         \/ shown' = [shown EXCEPT ![g.r] = Nothing]
      /\ flags' = {t \in flags :
                     /\ Heeded(T, g) => t \notin ReadFlags(T, {g.r})
                     /\ \A c \in over : LET op == T.ops[c.o] IN
                          t \in Lowered(flags, op.sets, op, c.i, c.row)}
  BY DEF LandGet
<1>2. \A d \in calls' : \E c \in calls : d.o = c.o /\ d.at = c.at /\ d.v = c.v
  <2> HIDE DEF over
  <2>1. \A d \in calls' : \E c \in calls : d = [c EXCEPT !.awaits = @ \ {<<g.r, g.n>>}]
    BY <1>1
  <2> QED BY <2>1 DEF Sound, FlagsKept, IsCall, CallFields
<1>3. /\ DOMAIN shown = DOMAIN T.reads /\ g.r \in DOMAIN T.reads
      /\ g.from \in Nat /\ clock \in Nat
  BY DEF Timed, TimedIn, Sound, Reading
<1>4. ASSUME Heeded(T, g), g.r = r, shown'[r].ok
      PROVE  shown'[r].s = Blank /\ shown'[r].v >= confirmed[r][Blank]
  <2>1. PICK v \in g.from..clock : shown'[r] = Just(g.s, v)
    BY <1>1, <1>3, <1>4 DEF Nothing
  <2>2. g.s = Blank /\ confirmed[r][Blank] = 0
    BY <1>4 DEF Once, OnceIn
  <2>3. v \in Nat /\ v >= 0
    BY <1>3
  <2> QED BY <2>1, <2>2, <2>3 DEF Just
<1>5. ~(Heeded(T, g) /\ g.r = r) => shown'[r] = shown[r]
  BY <1>1, <1>3
<1>6. ASSUME g.r # r, Gated(k) \in flags PROVE Gated(k) \in flags'
  <2>1. Gated(k) \notin ReadFlags(T, {g.r})
    <3>1. k \notin T.reads[g.r].sets
      BY <1>3, <1>6 DEF Gate
    <3>2. \A t \in ReadFlags(T, {g.r}) : t \in FlagsOf(T, g.r)
      BY ReadFlagsOf
    <3>3. \A t \in FlagsOf(T, g.r) : t.f \in T.reads[g.r].sets
      BY TagOf DEF FlagsOf
    <3>4. Gated(k).f = k
      BY DEF Gated
    <3> QED BY ONLY <3>1, <3>2, <3>3, <3>4
  <2>2. ASSUME NEW c \in over
        PROVE  Gated(k) \in Lowered(flags, T.ops[c.o].sets, T.ops[c.o], c.i, c.row)
    <3>1. IsCall(T, open, acts, c)
      BY DEF Sound, FlagsKept
    <3> QED BY <1>6, <3>1, GateStaysUp DEF IsCall
  <2> HIDE DEF over
  <2> QED BY <1>1, <1>6, <2>1, <2>2
<1>7. Idle(T, open, calls, r, k) => Idle(T, open', calls', r, k)
  BY <1>1, <1>2 DEF Idle
<1>8. \A h \in gets' : h.r = r => g.r # r
  BY <1>1 DEF Once, OnceIn
<1> HIDE DEF over
<1>9. shown'[r].ok => shown'[r].s = Blank /\ shown'[r].v >= confirmed'[r][Blank]
  BY <1>1, <1>4, <1>5 DEF Once, OnceIn
<1>10. gets' \subseteq gets /\ confirmed' = confirmed
  BY <1>1
<1> QED BY <1>2, <1>6, <1>7, <1>8, <1>9, <1>10 DEF Once, OnceNext, OnceIn

LEMMA FailOnce ==
  ASSUME NEW T, TableSound(T), Sound(T), Timed(T), NEW r \in DOMAIN T.reads, ReadOnce(T, r),
         NEW k, Gate(T, r, k), Once(T, r, k), NEW c \in calls, Fail(T, c)
  PROVE  OnceNext(T, r, k)
<1> DEFINE op == T.ops[c.o]
<1>1. /\ shown' = shown /\ confirmed' = confirmed /\ calls' = calls \ {c}
      /\ gets' = AskedFor(T, gets, op.retries, subject)
      /\ open' = [f \in DOMAIN open |->
                    [open[f] EXCEPT !.on = @ /\ ~(op.drops /\ f = op.form)]]
      /\ flags' = Kept(T, Lowered(flags, op.sets, op, c.i, c.row)) \cup ReadFlags(T, op.retries)
  BY DEF Fail
<1>2. IsCall(T, open, acts, c) /\ FormsSound(T, open, acts) /\ Reading(T, gets)
  BY DEF Sound, FlagsKept
<1>3. r \notin op.retries
  BY <1>2 DEF ReadOnce, IsCall
<1>4. Gated(k) \in flags => Gated(k) \in flags'
  <2> SUFFICES ASSUME Gated(k) \in flags PROVE Gated(k) \in flags'
    OBVIOUS
  <2> DEFINE F == Lowered(flags, op.sets, op, c.i, c.row)
  <2>1. Gated(k) \in F
    BY <1>2, GateStaysUp DEF IsCall
  <2> HIDE DEF F
  <2>2. Gated(k) \in Kept(T, F)
    BY <1>2, <2>1, GateStaysUp DEF IsCall
  <2> QED BY <1>1, <2>2 DEF F
<1> HIDE DEF op
<1>5. \A f \in Forms(T) : open'[f].on => open[f].on
  BY <1>1, <1>2 DEF FormsSound
<1>6. Idle(T, open, calls, r, k) => Idle(T, open', calls', r, k)
  BY <1>1, <1>5, LeadsFromForm DEF Idle
<1>7. /\ \A g, h \in gets' : g.r = r /\ h.r = r => g = h
      /\ \A h \in gets' : h.r = r => \E g \in gets : g.r = r /\ g.s = h.s
  BY <1>1, <1>2, <1>3, AskedOthers DEF Once, OnceIn
<1>8. \A d \in calls' : d \in calls
  BY <1>1
<1>9. shown' = shown /\ confirmed' = confirmed
  BY <1>1
<1> QED BY <1>4, <1>6, <1>7, <1>8, <1>9 DEF Once, OnceNext, OnceIn

\* No two that touch a read made once are under way together.
LEMMA TouchOneByOne ==
  ASSUME NEW T, Sound(T), NEW r, ReadOnce(T, r), NEW c \in calls, NEW d \in calls,
         Touches(T, c.o, r), Touches(T, d.o, r)
  PROVE  c = d
<1>1. c.o \in DOMAIN T.ops /\ d.o \in DOMAIN T.ops
  BY DEF Sound, FlagsKept, IsCall
<1>2. PICK j \in T.ops[c.o].sets :
        /\ Keeps(T, c.o, j) /\ Shut(T, c.o, j) /\ ~T.ops[c.o].own
        /\ \A p \in DOMAIN T.ops : Touches(T, p, r) => p \in Sharers(T, c.o, j)
  BY <1>1 DEF ReadOnce
<1>3. d.o \in Sharers(T, c.o, j)
  BY <1>1, <1>2
<1>4. ~T.ops[d.o].own
  BY <1>2, <1>3 DEF Sharers, Together
<1>5. HomeOf(T, c) = HomeOf(T, d)
  BY <1>2, <1>4 DEF HomeOf, Home
<1>6. Clash(T, c, d)
  BY <1>2, <1>3, <1>5 DEF Clash
<1> QED BY <1>6 DEF Sound, FlagsKept, Apart

LEMMA SucceedOnce ==
  ASSUME NEW T, TableSound(T), Sound(T), Timed(T), NEW r \in DOMAIN T.reads, ReadOnce(T, r),
         NEW k, Gate(T, r, k), Once(T, r, k), NEW c \in calls, Succeed(T, c)
  PROVE  OnceNext(T, r, k)
<1> DEFINE op == T.ops[c.o]
           more == AskedFor(T, gets, op.reloads, c.s)
           taken == {q \in op.adopts : op.mine => shown[q].ok /\ Key(T, q, c.s) = shown[q].s}
           left == IF op.waits /\ op.reloads # {} THEN flags
                   ELSE Lowered(flags, op.sets, op, c.i, c.row)
           then == T.ops[op.next]
           raised == IF op.next = "" THEN left ELSE Raised(left, then, c.i, c.row)
<1>1. /\ gets' = AskedFor(T, more, op.refreshes, subject)
      /\ shown' = [q \in DOMAIN shown |->
                     IF q \in taken THEN Just(Key(T, q, c.s), c.v) ELSE shown[q]]
      /\ open' = [f \in DOMAIN open |->
                    [open[f] EXCEPT !.on = @ /\ f \notin op.shuts
                                           /\ ~(op.closes /\ f = op.form)]]
      /\ flags' = Kept(T, raised) \cup ReadFlags(T, op.reloads \cup op.refreshes)
      /\ c.at = "done"
  BY DEF Succeed
<1>2. \A d \in calls' : \/ d \in calls \ {c}
                        \/ \E y : d = [c EXCEPT !.at = "reloading", !.awaits = y]
                        \/ op.next # "" /\ d = [c EXCEPT !.o = op.next, !.at = "out", !.v = 0]
  BY DEF Succeed
<1>3. /\ IsCall(T, open, acts, c) /\ FormsSound(T, open, acts) /\ Reading(T, gets)
      /\ c.o \in DOMAIN T.ops /\ op.reloads \subseteq DOMAIN T.reads
  BY DEF Sound, FlagsKept, IsCall, TableSound, WellFormed
<1>4. \A d \in calls' : \/ d \in calls \ {c}
                        \/ d.o = c.o /\ d.at = "reloading"
                        \/ op.next # "" /\ d.o = op.next /\ d.at = "out"
  <2> HIDE DEF op
  <2>1. DOMAIN c = CallFields
    BY <1>3 DEF IsCall
  <2> QED BY <1>2, <2>1 DEF CallFields
<1>5. op.next # "" => /\ op.next \in DOMAIN T.ops /\ then.next = ""
                      /\ Numbered(T, open, acts, then, c.i)
  <2>1. op.next # "" => /\ op.next \in DOMAIN T.ops /\ then.next = ""
                        /\ then.own => op.own /\ op.form = then.form
    BY <1>3 DEF TableSound, WellFormed
  <2>2. Numbered(T, open, acts, op, c.i)
    BY <1>3 DEF IsCall
  <2> HIDE DEF op, then
  <2> QED BY <2>1, <2>2 DEF Numbered
<1>6. op.next # "" /\ Leads(T, op.next, r) => Leads(T, c.o, r)
  BY <1>5 DEF Leads
<1>7. r \notin op.reloads /\ r \notin op.refreshes /\ ~T.reads[r].keyed
      /\ (Touches(T, c.o, r) => r \in op.adopts)
  BY <1>3 DEF ReadOnce
<1>8. \A q \in op.adopts : q \in taken <=> (op.mine => shown[q].ok /\ Key(T, q, c.s) = shown[q].s)
  OBVIOUS
<1>9. taken \subseteq op.adopts
  OBVIOUS
<1>10. Gated(k) \in flags => Gated(k) \in flags'
  <2> SUFFICES ASSUME Gated(k) \in flags PROVE Gated(k) \in flags'
    OBVIOUS
  <2>1. Gated(k) \in left
    BY <1>3, GateStaysUp DEF IsCall
  <2>2. Numbered(T, open, acts, op, c.i)
    BY <1>3 DEF IsCall
  <2> HIDE DEF left
  <2>3. Gated(k) \in raised
    <3>1. CASE op.next = ""
      BY <2>1, <3>1
    <3>2. CASE op.next # ""
      <4>1. Gated(k) \in Raised(left, then, c.i, c.row)
        BY <1>5, <2>1, <3>2, GateStaysUp
      <4> QED BY <3>2, <4>1
    <3> QED BY <3>1, <3>2
  <2> HIDE DEF raised
  <2>4. Gated(k) \in Kept(T, raised)
    BY <1>3, <2>2, <2>3, GateStaysUp
  <2> QED BY <1>1, <2>4
<1> HIDE DEF taken, left, then, raised
<1>11. \A f \in Forms(T) : open'[f].on => open[f].on
  <2> HIDE DEF op
  <2> QED BY <1>1, <1>3 DEF FormsSound
<1>12. Idle(T, open, calls, r, k) => Idle(T, open', calls', r, k)
  BY <1>4, <1>6, <1>11, LeadsFromForm DEF Idle
<1>13. /\ \A g, h \in gets' : g.r = r /\ h.r = r => g = h
       /\ \A h \in gets' : h.r = r => \E g \in gets : g.r = r /\ g.s = h.s
  <2>1. /\ \A g, h \in more : g.r = r /\ h.r = r => g = h
        /\ \A h \in more : h.r = r => \E g \in gets : g.r = r /\ g.s = h.s
    BY <1>3, <1>7, AskedOthers DEF Once, OnceIn
  <2>2. Reading(T, more)
    BY <1>3, StillReading
  <2> HIDE DEF more, op
  <2>3. /\ \A g, h \in gets' : g.r = r /\ h.r = r => g = h
        /\ \A h \in gets' : h.r = r => \E g \in more : g.r = r /\ g.s = h.s
    BY <1>1, <1>7, <2>1, <2>2, AskedOthers
  <2> QED BY <2>1, <2>3
<1> HIDE DEF more
<1>14. /\ confirmed[r][Blank] \in 0..clock /\ clock \in Nat /\ c.v \in 0..clock
       /\ DOMAIN shown = DOMAIN T.reads /\ Blank \in Choices
  BY DEF Timed, TimedIn, Choices
<1>15. /\ ~Touches(T, c.o, r) => confirmed'[r][Blank] = confirmed[r][Blank]
       /\ Touches(T, c.o, r) => c.v >= confirmed[r][Blank]
       /\ Touches(T, c.o, r) => c.v >= confirmed'[r][Blank]
  <2>1. \/ confirmed'[r][Blank] = confirmed[r][Blank]
        \/ confirmed'[r][Blank] = c.v /\ r \in op.changes
    BY <1>14, Confirms
  <2>2. Touches(T, c.o, r) => c.v >= confirmed[r][Blank]
    BY <1>1 DEF Once, OnceIn
  <2>3. c.v >= c.v
    BY <1>14
  <2> QED BY <2>1, <2>2, <2>3 DEF Touches
<1>16. \A d \in calls' : Touches(T, d.o, r) /\ d.at = "done" =>
         d.v >= confirmed'[r][Blank]
  <2> SUFFICES ASSUME NEW d \in calls \ {c}, Touches(T, d.o, r), d.at = "done"
               PROVE  d.v >= confirmed'[r][Blank]
    BY <1>4
  <2>1. ~Touches(T, c.o, r)
    BY TouchOneByOne
  <2> QED BY <1>15, <2>1 DEF Once, OnceIn
<1>17. ASSUME shown'[r].ok PROVE shown'[r].s = Blank /\ shown'[r].v >= confirmed'[r][Blank]
  <2>1. Key(T, r, c.s) = Blank
    BY <1>7 DEF Key
  <2>2. CASE r \in taken
    <3>1. shown'[r] = Just(Blank, c.v)
      BY <1>1, <1>14, <2>1, <2>2
    <3>2. Touches(T, c.o, r)
      BY <1>9, <2>2 DEF Touches
    <3> QED BY <1>15, <3>1, <3>2 DEF Just
  <2>3. CASE r \notin taken
    <3>1. shown'[r] = shown[r] /\ shown[r].ok
      BY <1>1, <1>14, <1>17, <2>3
    <3>2. shown[r].s = Blank /\ shown[r].v >= confirmed[r][Blank]
      BY <3>1 DEF Once, OnceIn
    <3>3. ~Touches(T, c.o, r)
      BY <1>7, <1>8, <2>1, <2>3, <3>1, <3>2
    <3> QED BY <1>15, <3>1, <3>2, <3>3
  <2> QED BY <2>2, <2>3
<1>18. \A g \in gets : g.r = r => ~Touches(T, c.o, r)
  BY DEF Once, OnceIn, Idle, Leads
<1> QED BY <1>10, <1>12, <1>13, <1>15, <1>16, <1>17, <1>18 DEF Once, OnceNext, OnceIn

-----------------------------------------------------------------------------
(* All of it.                                                                *)

KeepsUp(T, r) ==
  \/ Unchanged(T, r) /\ Untouched(r)
  \/ AlwaysNew(T, r) /\ Newest(T, r)
  \/ ReadOnce(T, r) /\ \E k \in T.reads[r].sets : Gate(T, r, k) /\ Once(T, r, k)
KeepsUpNext(T, r) ==
  \/ Unchanged(T, r) /\ UntouchedNext(r)
  \/ AlwaysNew(T, r) /\ NewestNext(T, r)
  \/ ReadOnce(T, r) /\ \E k \in T.reads[r].sets : Gate(T, r, k) /\ OnceNext(T, r, k)

Ahead(T) ==
  /\ Timed(T)
  /\ ~rushed => Waits(T)
  /\ panel \notin Overtaken => \A r \in DOMAIN T.reads : KeepsUp(T, r)
AheadNext(T) ==
  /\ TimedNext(T)
  /\ ~rushed' => WaitsNext(T)
  /\ panel \notin Overtaken => \A r \in DOMAIN T.reads : KeepsUpNext(T, r)

TableAhead(T) ==
  /\ \A o \in DOMAIN T.ops : Tells(T, T.ops[o])
  /\ panel \notin Overtaken => \A r \in DOMAIN T.reads :
       Unchanged(T, r) \/ AlwaysNew(T, r) \/ ReadOnce(T, r)

LEMMA ActsAhead ==
  ASSUME NEW T, TableSound(T), Sound(T), OnSubject(T), Ahead(T),
         \/ \E s \in Subjects : Choose(T, s)
         \/ \E f \in Forms(T) : OpenForm(T, f) \/ Dismiss(T, f)
         \/ \E o \in DOMAIN T.ops, r \in Rows \cup {Blank} : Click(T, o, r)
  PROVE  AheadNext(T)
<1>1. Timed(T) /\ (~rushed => Waits(T))
  BY DEF Ahead
<1>2. TimedNext(T)
  BY <1>1, ActsTimed
<1>3. ~rushed' => WaitsNext(T)
  BY <1>1, ActsWait
<1>4. confirmed' = confirmed
  BY DEF Choose, OpenForm, Dismiss, Click
<1>5. ASSUME NEW r \in DOMAIN T.reads, KeepsUp(T, r) PROVE KeepsUpNext(T, r)
  <2>1. CASE Unchanged(T, r) /\ Untouched(r)
    BY <1>1, <1>4, <2>1, UntouchedKeepsUp DEF KeepsUpNext
  <2>2. CASE AlwaysNew(T, r) /\ Newest(T, r)
    BY <1>1, <2>2, ActsNewest DEF KeepsUpNext
  <2>3. ASSUME ReadOnce(T, r), NEW k \in T.reads[r].sets, Gate(T, r, k), Once(T, r, k)
        PROVE  OnceNext(T, r, k)
    BY <1>1, <2>3, ActsOnce, ClickOnce
  <2> QED BY <1>5, <2>1, <2>2, <2>3 DEF KeepsUp, KeepsUpNext
<1> QED BY <1>2, <1>3, <1>5 DEF Ahead, AheadNext

LEMMA RepliesAhead ==
  ASSUME NEW T, TableSound(T), TableAhead(T), Sound(T), OnSubject(T), Ahead(T),
         \/ \E g \in gets : LandGet(T, g)
         \/ \E c \in calls : Deal(T, c) \/ Fail(T, c) \/ Succeed(T, c)
  PROVE  AheadNext(T)
<1>1. Timed(T) /\ (~rushed => Waits(T)) /\ rushed' = rushed
  BY DEF Ahead, LandGet, Deal, Fail, Succeed
<1>2. TimedNext(T)
  BY <1>1, LandGetTimed, DealTimed, FailTimed, SucceedTimed
<1>3. ~rushed' => WaitsNext(T)
  BY <1>1, LandGetWaits, DealWaits, FailWaits, SucceedWaits DEF TableAhead
<1>4. confirmed' = confirmed \/ \E c \in calls : Succeed(T, c)
  BY DEF LandGet, Deal, Fail
<1>5. ASSUME NEW r \in DOMAIN T.reads, KeepsUp(T, r) PROVE KeepsUpNext(T, r)
  <2>1. CASE Unchanged(T, r) /\ Untouched(r)
    BY <1>1, <1>4, <2>1, UntouchedKeepsUp DEF KeepsUpNext
  <2>2. CASE AlwaysNew(T, r) /\ Newest(T, r)
    BY <1>1, <2>2, ActsNewest, LandGetNewest, FailNewest, SucceedNewest DEF KeepsUpNext
  <2>3. ASSUME ReadOnce(T, r), NEW k \in T.reads[r].sets, Gate(T, r, k), Once(T, r, k)
        PROVE  OnceNext(T, r, k)
    BY <1>1, <2>3, LandGetOnce, DealOnce, FailOnce, SucceedOnce
  <2> QED BY <1>5, <2>1, <2>2, <2>3 DEF KeepsUp, KeepsUpNext
<1> QED BY <1>1, <1>2, <1>3, <1>5 DEF Ahead, AheadNext

ScreenAhead == ScreenSubject /\ Ahead(Here)

LEMMA AheadAtFirst == ScreensInit => ScreenAhead
<1> SUFFICES ASSUME ScreensInit PROVE ScreenAhead
  OBVIOUS
<1> DEFINE T == Here
           R == DOMAIN T.reads
<1>1. /\ gets = AskedFor(T, {}, R, subject) /\ calls = {} /\ clock = 0
      /\ shown = [r \in R |-> Nothing] /\ flags = ReadFlags(T, R) /\ subject \in Subjects
      /\ open = [f \in Forms(T) |-> [n |-> 0, on |-> FALSE]]
      /\ confirmed = [r \in R |-> [s \in Choices |-> 0]]
      /\ panel \in DOMAIN Panels
  BY DEF ScreensInit, Choices
<1>2. ScreenSubject
  BY SubjectAtFirst
<1>3. TableAhead(T)
  BY <1>1, ScreensAssumption DEF TableAhead, Here, Tables
<1>4. \A g \in gets : g.r \in R /\ g.s = Key(T, g.r, subject) /\ g.from = 0
  BY <1>1 DEF AskedFor
<1> HIDE DEF T
<1>5. \A g, h \in gets : g.r = h.r => g = h
  <2> SUFFICES ASSUME NEW g \in gets, NEW h \in gets, g.r = h.r PROVE g = h
    OBVIOUS
  <2> DEFINE new(r) == [r |-> r, s |-> Key(T, r, subject), n |-> Slot({}, r), from |-> 0,
                        live |-> TRUE]
  <2>1. \A x \in gets : \E r \in R : x = new(r) /\ x.r = r
    BY <1>1 DEF AskedFor
  <2> HIDE DEF new
  <2> QED BY <2>1
<1>6. \A r \in R : shown[r] = Nothing /\ \A x \in Choices : confirmed[r][x] = 0
  BY <1>1
<1> HIDE DEF R
<1>7. \A r \in R : ~shown[r].ok
  BY <1>6 DEF Nothing
<1>8. Timed(T)
  <2>1. confirmed \in [R -> [Choices -> 0..clock]]
    BY <1>1
  <2>2. \A g \in gets : g.from \in 0..clock /\ g.s \in Choices
    BY <1>1, <1>4, KeyIsChoice
  <2> QED BY <1>1, <1>7, <2>1, <2>2 DEF Timed, TimedIn, R
<1>9. Waits(T)
  BY <1>1, <1>4, <1>6, <1>7 DEF Waits, WaitsIn, AheadIn, R
<1>10. ASSUME NEW r \in R, Unchanged(T, r) \/ AlwaysNew(T, r) \/ ReadOnce(T, r)
       PROVE  KeepsUp(T, r)
  <2>1. Untouched(r)
    BY <1>6 DEF Untouched
  <2>2. Newest(T, r)
    BY <1>4, <1>6, <1>7 DEF Newest, NewestIn, AheadIn
  <2>3. ASSUME ReadOnce(T, r), NEW k \in T.reads[r].sets, Gate(T, r, k)
        PROVE  Once(T, r, k)
    <3>1. Gated(k) \in flags
      BY <1>1, <2>3 DEF ReadFlags, Tags, Gated
    <3>2. \A f \in Forms(T) : ~open[f].on
      BY <1>1
    <3>3. Idle(T, open, calls, r, k)
      BY <1>1, <2>3, <3>2, LeadsFromForm DEF Idle
    <3>4. \A g \in gets : g.r = r => g.s = Blank
      BY <1>4, <2>3 DEF ReadOnce, Key
    <3>5. confirmed[r][Blank] = 0
      BY <1>6 DEF Choices
    <3> QED BY <1>1, <1>5, <1>7, <3>1, <3>3, <3>4, <3>5 DEF Once, OnceIn
  <2> QED BY <1>10, <2>1, <2>2, <2>3 DEF KeepsUp, ReadOnce
<1> QED BY <1>2, <1>3, <1>8, <1>9, <1>10 DEF ScreenAhead, Ahead, TableAhead, T, R

LEMMA AheadGoesOn == ScreenAhead /\ [ScreensNext]_screensVars => ScreenAhead'
<1> SUFFICES ASSUME ScreenAhead, [ScreensNext]_screensVars PROVE ScreenAhead'
  OBVIOUS
<1>1. ScreenSubject'
  BY SubjectGoesOn DEF ScreenAhead
<1>2. CASE UNCHANGED screensVars
  <2>1. Ahead(Here)'
    BY <1>2 DEF screensVars, ScreenAhead, Ahead, Timed, TimedIn, Waits, WaitsIn, AheadIn, KeepsUp,
                Untouched, Newest, NewestIn, Once, OnceIn, Idle, Here, Tables
  <2> QED BY <1>1, <2>1 DEF ScreenAhead
<1>3. CASE ScreensNext
  <2> DEFINE T == Here
  <2>1. TableSound(T) /\ TableAhead(T) /\ Sound(T) /\ OnSubject(T) /\ Ahead(T)
    BY TablesSound, ScreensAssumption
       DEF ScreenAhead, ScreenSubject, ScreenSound, Here, Tables, TableAhead
  <2>2. panel' = panel
    BY <1>3 DEF ScreensNext, Choose, OpenForm, Dismiss, Click, Deal, LandGet, Fail, Succeed
  <2>3. \A o \in DOMAIN T.ops : RowsFor(T.ops[o]) \subseteq Rows \cup {Blank}
    BY DEF RowsFor
  <2> HIDE DEF T
  <2>4. AheadNext(T)
    <3>1. CASE \/ \E s \in Subjects : Choose(T, s)
               \/ \E f \in Forms(T) : OpenForm(T, f) \/ Dismiss(T, f)
               \/ \E o \in DOMAIN T.ops, r \in Rows \cup {Blank} : Click(T, o, r)
      BY <2>1, <3>1, ActsAhead
    <3>2. CASE \/ \E g \in gets : LandGet(T, g)
               \/ \E c \in calls : Deal(T, c) \/ Fail(T, c) \/ Succeed(T, c)
      BY <2>1, <3>2, RepliesAhead
    <3> QED BY <1>3, <2>3, <3>1, <3>2 DEF ScreensNext, T
  <2>5. Ahead(Here)'
    BY <2>2, <2>4 DEF Ahead, AheadNext, Timed, TimedNext, Waits, WaitsNext, KeepsUp, KeepsUpNext,
                Untouched, UntouchedNext, Newest, NewestNext, Once, OnceNext, T, Here, Tables
  <2> QED BY <1>1, <2>5 DEF ScreenAhead
<1> QED BY <1>2, <1>3

LEMMA AheadIsShown == ScreenAhead => ShowsOwnWrites
<1> SUFFICES ASSUME ScreenAhead, AtRest, panel \in Overtaken => ~rushed,
                    NEW r \in DOMAIN shown, shown[r].ok
             PROVE  shown[r].v >= confirmed[r][shown[r].s]
  BY DEF ShowsOwnWrites
<1> DEFINE T == Here
<1>1. Ahead(T) /\ Timed(T) /\ r \in DOMAIN T.reads
  BY DEF ScreenAhead, Ahead, Timed, TimedIn
<1> HIDE DEF T
<1>2. shown[r].v \in Nat /\ shown[r].s \in Choices /\ gets = {}
  BY <1>1 DEF Timed, TimedIn, AtRest
<1>3. CASE AheadIn(T, shown, gets, subject, confirmed, r)
  BY <1>2, <1>3 DEF AheadIn, Comes
<1>4. CASE ~rushed
  BY <1>1, <1>3, <1>4 DEF Ahead, Waits, WaitsIn
<1>5. CASE Untouched(r)
  BY <1>2, <1>5 DEF Untouched
<1>6. CASE Newest(T, r)
  BY <1>3, <1>6 DEF Newest, NewestIn
<1>7. ASSUME NEW k, Once(T, r, k) PROVE shown[r].v >= confirmed[r][shown[r].s]
  BY <1>7 DEF Once, OnceIn
<1> QED BY <1>1, <1>4, <1>5, <1>6, <1>7 DEF Ahead, KeepsUp

\* A screen ends with everything its person was told is saved: what a save
\* changes is read again after it or put in place from its answer, and where
\* neither holds for who hurries, for who waits.
THEOREM SavesAreShown == ScreensSpec => []ShowsOwnWrites
<1>1. ScreensSpec => []ScreenAhead
  BY AheadAtFirst, AheadGoesOn, PTL DEF ScreensSpec
<1> QED BY <1>1, AheadIsShown, PTL

=============================================================================
