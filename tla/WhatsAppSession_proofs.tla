----------------------- MODULE WhatsAppSession_proofs -----------------------
(***************************************************************************)
(* For any number of sockets, timers, suspended calls and resets: a        *)
(* session's isInitializing is never left set for good, and a session that *)
(* was not reset and says connected has an open socket; and for any        *)
(* customers' messages and number of tries, what goes through it is handed *)
(* on no more often than that, and by one connection.                      *)
(***************************************************************************)
EXTENDS WhatsAppTraffic, TLAPS

\* The session's own socket is listened to and has not been closed.
OwnSocketLives ==
  sock # NoSocket => sock \in hears /\ phase[sock] \in {"new", "opening", "open"}

\* Without a reset at most one call of initWhatsApp is suspended, and while it
\* is there is no other socket.
OneAtATime == inits > 0 => inits = 1 /\ sock = NoSocket /\ initializing /\ status = "connecting"

\* Without a reset no other socket than the session's own is left listening.
NoOrphan == \A s \in hears : phase[s] \in Live => s = sock

Ordered == resets = 0 => OneAtATime /\ NoOrphan /\ (Usable => phase[sock] = "open")

IInv == TypeOK /\ OwnSocketLives /\ NeverStuckInitialising /\ Ordered

LEMMA InitEstablishes == Init => IInv
  <1> SUFFICES ASSUME Init PROVE IInv
    OBVIOUS
  <1>1. TypeOK BY DEF Init, TypeOK, Live
  <1>2. OwnSocketLives /\ NeverStuckInitialising
    BY DEF Init, OwnSocketLives, NeverStuckInitialising
  <1>3. Ordered BY DEF Init, Ordered, OneAtATime, NoOrphan, Usable
  <1> QED BY <1>1, <1>2, <1>3 DEF IInv

\* Beginning anew silences the socket there was.
LEMMA BeginKeeps ==
  ASSUME IInv, Begin, UNCHANGED <<creds, disk, resets>>, timers' \in Nat
  PROVE  IInv'
  <1>1. TypeOK' /\ OwnSocketLives' /\ NeverStuckInitialising'
    BY SessionAssumption DEF IInv, TypeOK, OwnSocketLives, NeverStuckInitialising, Begin, disk, Live
  <1>2. ASSUME resets = 0 PROVE OneAtATime' /\ NoOrphan' /\ (Usable => phase[sock] = "open")'
    BY <1>2, SessionAssumption DEF IInv, TypeOK, Ordered, OneAtATime, NoOrphan, Usable, Begin, Live
  <1>3. resets' = resets
    OBVIOUS
  <1> QED BY <1>1, <1>2, <1>3 DEF IInv, Ordered

\* A step that a running service takes, or its restart, keeps all of it.
LEMMA StepKeeps == ASSUME IInv, [Next]_vars PROVE IInv'
  <1> USE SessionAssumption
  <1>a. CASE MakeSocket
    <2>1. CASE \E s \in Sockets :
                 /\ phase[s] \in {"none", "gone"}
                 /\ phase' = [phase EXCEPT ![s] = "new"] /\ hears' = hears \cup {s}
                 /\ creds' = [creds EXCEPT ![s] = paired]
                 /\ sock' = s /\ UNCHANGED <<status, initializing>>
      <3>1. PICK s \in Sockets :
                 /\ phase' = [phase EXCEPT ![s] = "new"] /\ hears' = hears \cup {s}
                 /\ creds' = [creds EXCEPT ![s] = paired]
                 /\ sock' = s /\ UNCHANGED <<status, initializing>>
        BY <2>1
      <3>2. inits' \in Nat /\ UNCHANGED <<timers, paired, linked, resets>>
        BY <1>a DEF MakeSocket, disk, IInv, TypeOK
      <3>3. TypeOK'
        BY <3>1, <3>2 DEF IInv, TypeOK, Live
      <3>4. OwnSocketLives' /\ NeverStuckInitialising'
        BY <3>1 DEF IInv, TypeOK, OwnSocketLives, NeverStuckInitialising
      <3>5. ASSUME resets = 0 PROVE OneAtATime' /\ NoOrphan' /\ (Usable => phase[sock] = "open")'
        <4>1. inits' = 0 /\ sock = NoSocket /\ status = "connecting"
          BY <1>a, <3>5 DEF MakeSocket, IInv, Ordered, OneAtATime, TypeOK
        <4>2. NoOrphan'
          BY <3>1, <3>5, <4>1 DEF IInv, TypeOK, Ordered, NoOrphan, Live
        <4> QED BY <3>1, <4>1, <4>2 DEF OneAtATime, Usable
      <3> QED BY <3>2, <3>3, <3>4, <3>5 DEF IInv, Ordered
    <2>2. CASE sock' = NoSocket /\ status' = "disconnected" /\ initializing' = FALSE /\ UNCHANGED wire
      <3>1. inits' \in Nat /\ UNCHANGED <<timers, paired, linked, resets>>
        BY <1>a DEF MakeSocket, disk, IInv, TypeOK
      <3>2. ASSUME resets = 0 PROVE inits' = 0 /\ sock = NoSocket
        BY <1>a, <3>2 DEF MakeSocket, IInv, Ordered, OneAtATime, TypeOK
      <3>3. TypeOK'
        BY <2>2, <3>1 DEF wire, IInv, TypeOK
      <3>4. OwnSocketLives' /\ NeverStuckInitialising'
        BY <2>2 DEF OwnSocketLives, NeverStuckInitialising
      <3>5. Ordered'
        BY <2>2, <3>1, <3>2 DEF wire, IInv, Ordered, OneAtATime, NoOrphan, Usable
      <3> QED BY <3>3, <3>4, <3>5 DEF IInv
    <2> QED BY <1>a, <2>1, <2>2 DEF MakeSocket
  <1>b. CASE TimerFires
    <2>1. CASE Begin
      BY <1>b, <2>1, BeginKeeps DEF TimerFires, IInv, TypeOK
    <2>2. CASE UNCHANGED <<record, inits, phase, hears>>
      BY <1>b, <2>2 DEF TimerFires, IInv, TypeOK, OwnSocketLives, NeverStuckInitialising, Ordered,
                        OneAtATime, NoOrphan, Usable, record, disk, Live
    <2> QED BY <1>b, <2>1, <2>2 DEF TimerFires, CallInit
  <1>c. CASE AskStatus
    BY <1>c, BeginKeeps DEF AskStatus, IInv, TypeOK
  <1>d. CASE StartSession
    <2>1. CASE Begin
      BY <1>d, <2>1, BeginKeeps DEF StartSession, IInv, TypeOK
    <2>2. CASE UNCHANGED <<record, inits, phase, hears>>
      BY <1>d, <2>2 DEF StartSession, IInv, TypeOK, OwnSocketLives, NeverStuckInitialising, Ordered,
                        OneAtATime, NoOrphan, Usable, record, disk, Live
    <2> QED BY <1>d, <2>1, <2>2 DEF StartSession, CallInit
  <1>e. CASE Reset
    <2>1. TypeOK'
      <3>1. phase' \in [Sockets -> Live \cup {"none", "gone"}]
        BY <1>e DEF Reset, IInv, TypeOK, Live
      <3>2. resets' \in Nat /\ inits' \in Nat
        BY <1>e DEF Reset, IInv, TypeOK
      <3> QED BY <1>e, <3>1, <3>2 DEF Reset, IInv, TypeOK
    <2>2. OwnSocketLives' /\ NeverStuckInitialising' /\ resets' # 0
      BY <1>e DEF Reset, IInv, TypeOK, OwnSocketLives, NeverStuckInitialising
    <2> QED BY <2>1, <2>2 DEF IInv, Ordered
  <1>f. CASE Unlink
    BY <1>f DEF Unlink, IInv, TypeOK, OwnSocketLives, NeverStuckInitialising, Ordered,
                OneAtATime, NoOrphan, Usable, record, waiting, wire, Live
  <1>g. ASSUME NEW s \in Sockets, Listener(s) PROVE IInv'
    <2>a. CASE Connecting(s)
      BY <2>a DEF Connecting, IInv, TypeOK, OwnSocketLives, NeverStuckInitialising, Ordered,
                  OneAtATime, NoOrphan, Usable, waiting, disk, Live
    <2>b. CASE OfferQr(s)
      BY <2>b DEF OfferQr, IInv, TypeOK, OwnSocketLives, NeverStuckInitialising, Ordered,
                  OneAtATime, NoOrphan, Usable, waiting, wire, disk, Live
    <2>c. CASE Pair(s)
      BY <2>c DEF Pair, IInv, TypeOK, OwnSocketLives, NeverStuckInitialising, Ordered,
                  OneAtATime, NoOrphan, Usable, record, waiting, Live
    <2>d. CASE Open(s)
      BY <2>d DEF Open, IInv, TypeOK, OwnSocketLives, NeverStuckInitialising, Ordered,
                  OneAtATime, NoOrphan, Usable, waiting, disk, Live
    <2>e. CASE ClosedOtherwise(s)
      <3>1. TypeOK'
        <4>1. phase' \in [Sockets -> Live \cup {"none", "gone"}] /\ timers' \in Nat
          BY <2>e DEF ClosedOtherwise, IInv, TypeOK
        <4> QED BY <2>e, <4>1 DEF ClosedOtherwise, Forget, IInv, TypeOK, disk
      <3>2. OwnSocketLives' /\ NeverStuckInitialising'
        BY <2>e DEF ClosedOtherwise, Forget, OwnSocketLives, NeverStuckInitialising
      <3>3. ASSUME resets = 0 PROVE OneAtATime' /\ NoOrphan' /\ (Usable => phase[sock] = "open")'
        <4>1. inits = 0
          BY <2>e, <3>3 DEF ClosedOtherwise, IInv, TypeOK, Ordered, OneAtATime, NoOrphan
        <4>2. \A t \in hears' : phase'[t] \in Live => phase[t] \in Live /\ t # s
          BY <2>e DEF ClosedOtherwise, IInv, TypeOK, Live
        <4>3. s = sock /\ hears' = hears
          BY <2>e, <3>3 DEF ClosedOtherwise, IInv, Ordered, NoOrphan
        <4>4. NoOrphan'
          BY <3>3, <4>2, <4>3 DEF IInv, Ordered, NoOrphan
        <4> QED BY <2>e, <4>1, <4>4 DEF ClosedOtherwise, Forget, OneAtATime, Usable
      <3>4. resets' = resets
        BY <2>e DEF ClosedOtherwise
      <3> QED BY <3>1, <3>2, <3>3, <3>4 DEF IInv, Ordered
    <2>f. CASE Replaced(s)
      BY <2>f DEF Replaced, Forget, IInv, TypeOK, OwnSocketLives, NeverStuckInitialising,
                  Ordered, OneAtATime, NoOrphan, Usable, waiting, disk, Live
    <2>g. CASE LoggedOut(s)
      BY <2>g DEF LoggedOut, Forget, IInv, TypeOK, OwnSocketLives, NeverStuckInitialising,
                  Ordered, OneAtATime, NoOrphan, Usable, waiting, Live
    <2> QED BY <1>g, <2>a, <2>b, <2>c, <2>d, <2>e, <2>f, <2>g DEF Listener
  <1>h. CASE Restart
    <2>1. TypeOK'
      BY <1>h DEF Restart, IInv, TypeOK, disk, Live
    <2>2. OwnSocketLives' /\ NeverStuckInitialising' /\ Ordered'
      BY <1>h DEF Restart, OwnSocketLives, NeverStuckInitialising, Ordered, OneAtATime, NoOrphan, Usable
    <2> QED BY <2>1, <2>2 DEF IInv
  <1>i. CASE UNCHANGED vars
    BY <1>i DEF vars, record, waiting, wire, disk, IInv, TypeOK, OwnSocketLives,
                NeverStuckInitialising, Ordered, OneAtATime, NoOrphan, Usable, Live
  <1> QED BY <1>a, <1>b, <1>c, <1>d, <1>e, <1>f, <1>g, <1>h, <1>i DEF Next, Running

LEMMA Inductive == Spec => []IInv
  <1>1. Init => IInv BY InitEstablishes
  <1>2. IInv /\ [Next]_vars => IInv' BY StepKeeps
  <1> QED BY <1>1, <1>2, PTL DEF Spec

\* isInitializing is never left set with nobody to clear it.
THEOREM SessionNeverStuck == Spec => []NeverStuckInitialising
  <1>1. IInv => NeverStuckInitialising BY DEF IInv
  <1> QED BY <1>1, Inductive, PTL

\* Connected means that there is an open socket to send on.
THEOREM SessionTellsTheTruth == Spec => []ConnectedMeansOpen
  <1>1. IInv => ConnectedMeansOpen BY DEF IInv, Ordered, ConnectedMeansOpen
  <1> QED BY <1>1, Inductive, PTL

\* Whoever hears a close, the boutique's valid pairing survives it.
THEOREM SessionKeepsPairing == Spec => PairingKept
  <1>1. IInv /\ [Next]_vars => [paired /\ linked /\ resets' = resets => paired']_vars
    <2> SUFFICES ASSUME IInv, Next, paired, linked, resets' = resets PROVE paired'
      OBVIOUS
    <2>1. ~Reset
      <3>1. resets + 1 # resets BY DEF IInv, TypeOK
      <3> QED BY <3>1 DEF Reset
    <2>2. ASSUME NEW s \in Sockets, Listener(s) PROVE paired'
      BY <2>2 DEF Listener, Connecting, OfferQr, Pair, Open, ClosedOtherwise, Replaced, LoggedOut, disk
    <2> QED BY <2>1, <2>2 DEF Next, Running, MakeSocket, TimerFires, AskStatus, StartSession,
               Unlink, Restart, disk
  <1> QED BY <1>1, Inductive, PTL DEF Spec, PairingKept
-----------------------------------------------------------------------------
(* What goes through the session *)

\* A message the cache does not know has no try ahead of it.
Remembered ==
  /\ tries \in [Customers -> Nat] /\ asked \in [Customers -> Nat]
  /\ \A m \in Customers : m \notin seen => tries[m] = 0
  /\ AskedAtMostThrice

TrafficInv == IInv /\ Remembered /\ media \in Sockets \cup {NoSocket} /\ MediaHasOneWayOut

LEMMA UpsertKeeps ==
  ASSUME Remembered, NEW m \in Customers, Upsert(m) PROVE Remembered'
  <1> USE TrafficAssumption
  <1>1. PICK readable \in BOOLEAN : Hook(m, readable)
    BY DEF Upsert
  <1>2. tries[m] = 0 /\ asked' = [asked EXCEPT ![m] = 0] /\ seen' = seen \cup {m}
    BY DEF Upsert, Remembered
  <1>3. tries' = tries \/ tries' = [tries EXCEPT ![m] = @ + MaxTries]
    BY <1>1 DEF Hook
  <1>4. tries' \in [Customers -> Nat] /\ asked' \in [Customers -> Nat]
    BY <1>2, <1>3 DEF Remembered
  <1>5. tries'[m] \in {0, MaxTries} /\ asked'[m] = 0
    BY <1>2, <1>3 DEF Remembered
  <1>6. \A n \in Customers \ {m} : tries'[n] = tries[n] /\ asked'[n] = asked[n]
    BY <1>2, <1>3 DEF Remembered
  <1>7. AskedAtMostThrice'
    BY <1>5, <1>6 DEF AskedAtMostThrice, Remembered
  <1> QED BY <1>2, <1>4, <1>6, <1>7 DEF Remembered

LEMMA WebhookKeeps ==
  ASSUME Remembered, NEW m \in Customers, Webhook(m) PROVE Remembered'
  <1>1. /\ tries[m] > 0 /\ UNCHANGED seen /\ asked' = [asked EXCEPT ![m] = @ + 1]
        /\ tries' = [tries EXCEPT ![m] = 0] \/ tries' = [tries EXCEPT ![m] = @ - 1]
    BY DEF Webhook
  <1>2. tries[m] \in Nat /\ asked[m] \in Nat
    BY DEF Remembered
  <1>3. tries'[m] \in Nat /\ tries'[m] < tries[m] /\ asked'[m] = asked[m] + 1
    BY <1>1, <1>2 DEF Remembered
  <1>4. \A n \in Customers \ {m} : tries'[n] = tries[n] /\ asked'[n] = asked[n]
    BY <1>1 DEF Remembered
  <1>5. tries' \in [Customers -> Nat] /\ asked' \in [Customers -> Nat]
    BY <1>1, <1>2, <1>3, <1>4 DEF Remembered
  <1>6. AskedAtMostThrice'
    BY <1>2, <1>3, <1>4, TrafficAssumption DEF AskedAtMostThrice, Remembered
  <1> QED BY <1>1, <1>2, <1>4, <1>5, <1>6 DEF Remembered

\* A socket leaves the session's record only by being silenced or closed, so a
\* picture's socket is the session's own until it is gone.
LEMMA SessionKeepsWayOut ==
  ASSUME TrafficInv, SessionStep PROVE media' = media /\ MediaHasOneWayOut'
  <1>1. UNCHANGED <<seen, tries, asked, media>> /\ Running
    BY DEF SessionStep, traffic
  <1> SUFFICES ASSUME media # NoSocket, resets' = 0
               PROVE  media = sock' \/ phase'[media] \in {"none", "gone"}
    BY <1>1 DEF MediaHasOneWayOut
  <1>2. /\ media \in Sockets
        /\ phase[media] \in {"none", "gone"} => phase'[media] = phase[media]
    BY DEF SessionStep, TrafficInv
  <1>3. resets = 0
    <2>1. resets \in Nat BY DEF TrafficInv, IInv, TypeOK
    <2>2. resets' = resets \/ resets' = resets + 1
      BY <1>1 DEF Running, MakeSocket, TimerFires, AskStatus, StartSession, Reset, Unlink,
                  Listener, Connecting, OfferQr, Pair, Open, ClosedOtherwise, Replaced, LoggedOut
    <2> QED BY <2>1, <2>2
  <1>4. media = sock \/ phase[media] \in {"none", "gone"}
    BY <1>3 DEF TrafficInv, MediaHasOneWayOut
  <1>5. CASE phase[media] \in {"none", "gone"}
    BY <1>2, <1>5
  <1>6. CASE media = sock
    <2>1. sock # NoSocket /\ inits = 0 /\ phase \in [Sockets -> Live \cup {"none", "gone"}]
      BY <1>3, <1>6 DEF TrafficInv, IInv, TypeOK, Ordered, OneAtATime
    <2>2. Begin => phase'[media] = "gone"
      BY <1>2, <1>6, <2>1 DEF Begin
    <2>3. resets' # resets + 1
      BY <1>3
    <2>4. ASSUME NEW s \in Sockets, Listener(s)
          PROVE  media = sock' \/ phase'[media] \in {"none", "gone"}
      <3>1. s = sock \/ phase[s] \notin Live
        BY <1>3, <2>4 DEF TrafficInv, IInv, Ordered, NoOrphan, Listener, Connecting, OfferQr, Pair,
                          Open, ClosedOtherwise, Replaced, LoggedOut
      <3>2. phase'[sock] = "gone" \/ sock' = sock
        BY <1>2, <1>6, <2>1, <2>4, <3>1 DEF Listener, Connecting, OfferQr, Pair, Open, ClosedOtherwise,
                          Replaced, LoggedOut, record, Live
      <3> QED BY <1>6, <3>2
    <2> QED
      BY <1>1, <1>6, <2>1, <2>2, <2>3, <2>4
      DEF Running, MakeSocket, TimerFires, AskStatus, StartSession, Reset, Unlink, CallInit, record
  <1> QED BY <1>4, <1>5, <1>6

LEMMA TrafficKeeps == ASSUME TrafficInv, [TrafficNext]_allVars PROVE TrafficInv'
  <1> USE DEF TrafficInv
  <1>1. CASE SessionStep
    <2>1. IInv'
      BY <1>1, StepKeeps DEF SessionStep, Next
    <2>2. Remembered'
      BY <1>1 DEF SessionStep, traffic, Remembered, AskedAtMostThrice
    <2> QED BY <1>1, <2>1, <2>2, SessionKeepsWayOut
  <1>2. CASE RestartTraffic
    <2>1. IInv'
      BY <1>2, StepKeeps DEF RestartTraffic, Next
    <2>2. Remembered'
      BY <1>2, TrafficAssumption DEF RestartTraffic, Remembered, AskedAtMostThrice
    <2> QED BY <1>2, <2>1, <2>2 DEF RestartTraffic, MediaHasOneWayOut
  <1>3. ASSUME UNCHANGED <<vars, tries, asked, seen>> PROVE IInv' /\ Remembered'
    <2>1. IInv' BY <1>3, StepKeeps
    <2> QED BY <1>3, <2>1 DEF Remembered, AskedAtMostThrice
  <1>4. CASE SendMedia
    BY <1>3, <1>4, SessionAssumption
    DEF SendMedia, Usable, MediaHasOneWayOut, vars, record, IInv, TypeOK
  <1>5. CASE MediaLoaded
    BY <1>3, <1>5 DEF MediaLoaded, MediaHasOneWayOut
  <1>6. ASSUME NEW m \in Customers, Upsert(m) \/ Prune(m) \/ Webhook(m) PROVE TrafficInv'
    <2>1. UNCHANGED <<vars, media>>
      BY <1>6 DEF Upsert, Prune, Webhook
    <2>2. IInv' /\ MediaHasOneWayOut'
      BY <2>1, StepKeeps DEF MediaHasOneWayOut, vars, record, wire
    <2>3. Prune(m) => Remembered'
      BY DEF Prune, Remembered, AskedAtMostThrice
    <2> QED BY <1>6, <2>1, <2>2, <2>3, UpsertKeeps, WebhookKeeps
  <1>7. CASE UNCHANGED allVars
    BY <1>3, <1>7 DEF allVars, traffic, MediaHasOneWayOut, vars, record, wire
  <1> QED BY <1>1, <1>2, <1>4, <1>5, <1>6, <1>7 DEF TrafficNext

LEMMA TrafficInductive == TrafficSpec => []TrafficInv
  <1>1. TrafficInit => TrafficInv
    <2> SUFFICES ASSUME TrafficInit PROVE TrafficInv
      OBVIOUS
    <2>1. IInv BY InitEstablishes DEF TrafficInit
    <2> QED BY <2>1, TrafficAssumption DEF TrafficInit, TrafficInv, Remembered, AskedAtMostThrice, MediaHasOneWayOut
  <1> QED BY <1>1, TrafficKeeps, PTL DEF TrafficSpec

\* However many sockets hear a message, Django is asked to take it maxRetries
\* times at most while its id is remembered.
THEOREM MessagesAreHandedOnOnce == TrafficSpec => []AskedAtMostThrice
  <1>1. TrafficInv => AskedAtMostThrice BY DEF TrafficInv, Remembered
  <1> QED BY <1>1, TrafficInductive, PTL

\* A picture that was downloaded meanwhile goes out on the session's own
\* connection, or on none.
THEOREM PicturesHaveOneWayOut == TrafficSpec => []MediaHasOneWayOut
  <1>1. TrafficInv => MediaHasOneWayOut BY DEF TrafficInv
  <1> QED BY <1>1, TrafficInductive, PTL
=============================================================================
