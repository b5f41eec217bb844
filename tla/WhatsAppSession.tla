--------------------------- MODULE WhatsAppSession ---------------------------
(***************************************************************************)
(* One boutique's WhatsApp session in the Node service                     *)
(* (whatsapp_service/src/whatsapp.ts and the routes that reach it).         *)
(*                                                                         *)
(* Node runs one callback at a time: an action is what runs between two    *)
(* awaits.  Every callback shares the session's one record (`sock`,        *)
(* `status`, `initializing`), whichever socket it was registered on,        *)
(* so a socket that is no longer the session's own still writes it.        *)
(* Sessions share nothing, so the module follows one.  What WhatsApp and   *)
(* the Baileys library do to a socket is external.                         *)
(***************************************************************************)
EXTENDS Naturals, FiniteSets

CONSTANTS
  Sockets,     \* sockets that may be alive at once (a dead one's name is used again)
  NoSocket,    \* session.sock === null
  MaxTimers,   \* bound: reconnect timers pending at once
  MaxInits,    \* bound: calls of initWhatsApp suspended at once
  MaxResets    \* bound: how often the session is reset

ASSUME SessionAssumption ==
  /\ NoSocket \notin Sockets
  /\ MaxTimers \in Nat /\ MaxInits \in Nat /\ MaxResets \in Nat

VARIABLES
  sock,          \* session.sock
  status,        \* session.status
  initializing,  \* session.isInitializing
  inits,         \* calls of initWhatsApp waiting for useMultiFileAuthState
  timers,        \* setTimeouts that will call initWhatsApp
  phase,         \* socket -> none, new, opening, open, ending or gone
  hears,         \* sockets whose listeners are attached
  creds,         \* socket -> it was made with a pairing
  paired,        \* the auth folder holds a pairing
  linked,        \* WhatsApp still honours that pairing
  resets

record  == <<sock, status, initializing>>
waiting == <<inits, timers>>
wire    == <<phase, hears, creds>>
disk    == <<paired, linked>>
vars    == <<record, waiting, wire, disk, resets>>

Live == {"new", "opening", "open", "ending"}

\* A session that was never asked about has no record but the default one; the
\* auth folder is what an earlier process left.
Init ==
  /\ sock = NoSocket /\ status = "disconnected" /\ initializing = FALSE
  /\ inits = 0 /\ timers = 0
  /\ phase = [s \in Sockets |-> "none"] /\ hears = {}
  /\ creds = [s \in Sockets |-> FALSE]
  /\ paired \in BOOLEAN /\ linked = paired
  /\ resets = 0

-----------------------------------------------------------------------------
(* initWhatsApp *)

\* Mutant of Begin: the old socket is ended with its listeners still on.
BeginDeaf ==
  /\ ~initializing /\ inits < MaxInits
  /\ phase' = IF sock = NoSocket THEN phase ELSE [phase EXCEPT ![sock] = "ending"]
  /\ sock' = NoSocket /\ initializing' = TRUE /\ status' = "connecting"
  /\ inits' = inits + 1
  /\ UNCHANGED hears

\* Up to its await: the socket it finds is silenced and ended.
Begin ==
  /\ ~initializing /\ inits < MaxInits
  /\ phase' = IF sock = NoSocket THEN phase ELSE [phase EXCEPT ![sock] = "gone"]
  /\ hears' = hears \ {sock}
  /\ sock' = NoSocket /\ initializing' = TRUE /\ status' = "connecting"
  /\ inits' = inits + 1

\* A call of initWhatsApp: it returns at once while another is under way.
CallInit == Begin \/ (initializing /\ UNCHANGED <<record, inits, phase, hears>>)

\* Mutant of MakeSocket: a socket that could not be made leaves isInitializing set.
MakeSocketSwallow ==
  /\ inits > 0 /\ inits' = inits - 1
  /\ \/ \E s \in Sockets :
          /\ phase[s] \in {"none", "gone"}
          /\ phase' = [phase EXCEPT ![s] = "new"] /\ hears' = hears \cup {s}
          /\ creds' = [creds EXCEPT ![s] = paired]
          /\ sock' = s /\ UNCHANGED <<status, initializing>>
     \/ /\ sock' = NoSocket /\ status' = "disconnected"
        /\ UNCHANGED <<wire, initializing>>
  /\ UNCHANGED <<timers, disk, resets>>

\* From the await on: the socket is made with what the folder holds, becomes
\* the session's own and is listened to, or something throws.
MakeSocket ==
  /\ inits > 0 /\ inits' = inits - 1
  /\ \/ \E s \in Sockets :
          /\ phase[s] \in {"none", "gone"}
          /\ phase' = [phase EXCEPT ![s] = "new"] /\ hears' = hears \cup {s}
          /\ creds' = [creds EXCEPT ![s] = paired]
          /\ sock' = s /\ UNCHANGED <<status, initializing>>
     \/ /\ sock' = NoSocket /\ status' = "disconnected" /\ initializing' = FALSE
        /\ UNCHANGED wire
  /\ UNCHANGED <<timers, disk, resets>>

-----------------------------------------------------------------------------
(* The connection.update listener *)

\* `connecting`, which every socket reports first.
Connecting(s) ==
  /\ s \in hears /\ phase[s] = "new"
  /\ phase' = [phase EXCEPT ![s] = "opening"] /\ status' = "connecting"
  /\ UNCHANGED <<sock, initializing, waiting, hears, creds, disk, resets>>

\* A socket without a pairing offers a QR code.  (The code itself, drawn across
\* an await into session.qrCode, is for the eye only.)
OfferQr(s) ==
  /\ s \in hears /\ phase[s] = "opening" /\ ~creds[s]
  /\ status' = "connecting"
  /\ UNCHANGED <<sock, initializing, waiting, wire, disk, resets>>

\* The owner scans the code: creds.update saves the pairing.
Pair(s) ==
  /\ s \in hears /\ phase[s] = "opening" /\ ~creds[s]
  /\ creds' = [creds EXCEPT ![s] = TRUE] /\ paired' = TRUE /\ linked' = TRUE
  /\ UNCHANGED <<record, waiting, phase, hears, resets>>

\* `open`.
Open(s) ==
  /\ s \in hears /\ phase[s] = "opening" /\ creds[s] /\ linked
  /\ phase' = [phase EXCEPT ![s] = "open"]
  /\ status' = "connected" /\ initializing' = FALSE
  /\ UNCHANGED <<sock, waiting, hears, creds, disk, resets>>

\* What every close does to the session's record.
Forget ==
  sock' = NoSocket /\ status' = "disconnected" /\ initializing' = FALSE

\* Mutant of ClosedOtherwise: isInitializing is left set.
ClosedHalfway(s) ==
  /\ s \in hears /\ phase[s] \in Live /\ timers < MaxTimers
  /\ phase' = [phase EXCEPT ![s] = "gone"] /\ timers' = timers + 1
  /\ sock' = NoSocket /\ status' = "disconnected"
  /\ UNCHANGED <<initializing, inits, hears, creds, disk, resets>>

\* `close` for a reason that is worth another try: three seconds later.
ClosedOtherwise(s) ==
  /\ s \in hears /\ phase[s] \in Live /\ timers < MaxTimers
  /\ phase' = [phase EXCEPT ![s] = "gone"] /\ timers' = timers + 1
  /\ Forget
  /\ UNCHANGED <<inits, hears, creds, disk, resets>>

\* `close` because WhatsApp gave the pairing to a newer connection: no retry.
Replaced(s) ==
  /\ s \in hears /\ phase[s] = "open"
  /\ \E t \in Sockets \ {s} : phase[t] = "open"
  /\ phase' = [phase EXCEPT ![s] = "gone"] /\ Forget
  /\ UNCHANGED <<waiting, hears, creds, disk, resets>>

\* Mutant of LoggedOut: a connection lost for any reason clears the folder.
LoggedOutAnyhow(s) ==
  /\ s \in hears /\ phase[s] \in {"opening", "open"} /\ creds[s]
  /\ phase' = [phase EXCEPT ![s] = "gone"] /\ Forget
  /\ paired' = FALSE /\ UNCHANGED linked
  /\ UNCHANGED <<waiting, hears, creds, resets>>

\* `close` because the phone unlinked the pairing: the folder is cleared.
LoggedOut(s) ==
  /\ s \in hears /\ phase[s] \in {"opening", "open"} /\ creds[s] /\ ~linked
  /\ phase' = [phase EXCEPT ![s] = "gone"] /\ Forget
  /\ paired' = FALSE /\ UNCHANGED linked
  /\ UNCHANGED <<waiting, hears, creds, resets>>

-----------------------------------------------------------------------------
(* Who else reaches the session *)

\* The reconnect timer.
TimerFires ==
  /\ timers > 0 /\ timers' = timers - 1 /\ CallInit
  /\ UNCHANGED <<creds, disk, resets>>

\* getWhatsAppStatus: "is there a socket".
Usable == status = "connected" /\ sock # NoSocket

\* A status request, or the status a send asks for: it wakes a session that
\* has neither a socket nor one on the way.
AskStatus ==
  /\ ~Usable /\ ~initializing /\ sock = NoSocket
  /\ Begin
  /\ UNCHANGED <<timers, creds, disk, resets>>

\* POST /start-session, and the default session when the server starts.
StartSession ==
  /\ CallInit
  /\ UNCHANGED <<timers, creds, disk, resets>>

\* POST /reset-session: the socket is ended with its listeners on, the folder
\* is removed and initWhatsApp begins afresh.
Reset ==
  /\ resets < MaxResets /\ inits < MaxInits /\ resets' = resets + 1
  /\ phase' = IF sock = NoSocket THEN phase ELSE [phase EXCEPT ![sock] = "ending"]
  /\ sock' = NoSocket /\ paired' = FALSE
  /\ status' = "connecting" /\ initializing' = TRUE /\ inits' = inits + 1
  /\ UNCHANGED <<timers, hears, creds, linked>>

\* The owner unlinks the boutique on the phone.
Unlink == linked /\ linked' = FALSE /\ UNCHANGED <<record, waiting, wire, paired, resets>>

\* The service stops (closeAllWhatsAppSessions, or not so gracefully) and is
\* started again: only the folder is left.
Restart ==
  /\ sock' = NoSocket /\ status' = "disconnected" /\ initializing' = FALSE
  /\ inits' = 0 /\ timers' = 0
  /\ phase' = [s \in Sockets |-> "none"] /\ hears' = {}
  /\ creds' = [s \in Sockets |-> FALSE]
  /\ UNCHANGED <<disk, resets>>

Listener(s) ==
  \/ Connecting(s) \/ OfferQr(s) \/ Pair(s) \/ Open(s)
  \/ ClosedOtherwise(s) \/ Replaced(s) \/ LoggedOut(s)

Running ==
  \/ MakeSocket \/ TimerFires \/ AskStatus \/ StartSession \/ Reset \/ Unlink
  \/ \E s \in Sockets : Listener(s)

Next == Running \/ Restart

Spec == Init /\ [][Next]_vars

\* Boutiques' screens and the message cron keep asking for the status, timers
\* fire, suspended calls resume, and a socket that could be made or could open
\* again and again one day is and does.
Fairness ==
  /\ WF_vars(AskStatus) /\ WF_vars(TimerFires)
  /\ SF_vars(MakeSocket /\ sock' # NoSocket)
  /\ \A s \in Sockets : SF_vars(Connecting(s)) /\ SF_vars(Open(s))
                     /\ WF_vars(phase[s] = "ending" /\ ClosedOtherwise(s))

FairSpec == Spec /\ Fairness

-----------------------------------------------------------------------------
(* What the session promises *)

TypeOK ==
  /\ sock \in Sockets \cup {NoSocket}
  /\ status \in {"disconnected", "connecting", "connected"}
  /\ initializing \in BOOLEAN
  /\ inits \in Nat /\ timers \in Nat
  /\ phase \in [Sockets -> Live \cup {"none", "gone"}]
  /\ hears \subseteq Sockets /\ creds \in [Sockets -> BOOLEAN]
  /\ paired \in BOOLEAN /\ linked \in BOOLEAN /\ resets \in Nat

\* isInitializing, which makes every later call of initWhatsApp return at once,
\* is never left set with nobody to clear it: a call is suspended, or the
\* session's own socket is on its way and is heard.
NeverStuckInitialising ==
  initializing => \/ inits > 0
                  \/ /\ sock \in hears /\ phase[sock] \in {"new", "opening"}

\* What /status answers is true: a session that was not reset and that says
\* connected has a socket WhatsApp holds open, so a send has one to go out on.
ConnectedMeansOpen == Usable /\ resets = 0 => phase[sock] = "open"

\* No lost connection, race or restart costs the boutique a pairing its phone
\* still honours: only reset-session removes it.
PairingKept == [][paired /\ linked /\ resets' = resets => paired']_vars

\* A paired session that is down is connected again without anybody's help,
\* whatever closed it (a reset may leave a second socket behind, which goes on
\* writing the session's status).
PairedSessionsReturn ==
  paired /\ linked ~> Usable \/ ~(paired /\ linked) \/ resets > 0
=============================================================================
