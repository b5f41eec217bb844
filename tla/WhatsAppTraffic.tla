--------------------------- MODULE WhatsAppTraffic ---------------------------
(***************************************************************************)
(* What goes through a boutique's WhatsApp session: customers' messages on *)
(* their way to Django (incoming.service.ts, django.service.ts) and the    *)
(* texts and pictures Django sends (message.service.ts, media.service.ts). *)
(*                                                                         *)
(* Every listening socket WhatsApp holds open hears every message, and     *)
(* WhatsApp gives a message again to a socket that reconnects: a cache of  *)
(* message ids, kept in memory, is what keeps the second copy out.         *)
(***************************************************************************)
EXTENDS WhatsAppSession

CONSTANTS
  Customers,   \* messages of customers, as far as their ids go
  MaxTries     \* maxRetries: how often the webhook is tried

ASSUME TrafficAssumption == MaxTries \in Nat \ {0}

VARIABLES
  seen,     \* processedMessageIds
  tries,    \* message -> webhook tries still ahead of it
  asked,    \* message -> webhook tries made since it was last new to the cache
  media     \* the socket a picture waits to go out on while it is downloaded

traffic == <<seen, tries, asked, media>>
allVars == <<vars, traffic>>

TrafficInit ==
  /\ Init
  /\ seen = {} /\ tries = [m \in Customers |-> 0] /\ asked = [m \in Customers |-> 0]
  /\ media = NoSocket

\* processRawMessage makes something of the message, and it is not the
\* boutique's own; a reaction, a group's message or one that fails to be read
\* only leaves its id in the cache.
Hook(m, readable) == tries' = IF readable THEN [tries EXCEPT ![m] = @ + MaxTries] ELSE tries

\* Mutant of Upsert: the cache is not asked.
UpsertUnasked(m) ==
  /\ \E s \in hears : phase[s] = "open"
  /\ seen' = seen \cup {m} /\ asked' = IF m \in seen THEN asked ELSE [asked EXCEPT ![m] = 0]
  /\ \E readable \in BOOLEAN : Hook(m, readable)
  /\ asked[m] + tries[m] <= MaxTries
  /\ UNCHANGED <<vars, media>>

\* messages.upsert on any socket that is heard: handleIncomingMessages starts
\* the webhook for a message whose id is new.
Upsert(m) ==
  /\ \E s \in hears : phase[s] = "open"
  /\ m \notin seen
  /\ seen' = seen \cup {m} /\ asked' = [asked EXCEPT ![m] = 0]
  /\ \E readable \in BOOLEAN : Hook(m, readable)
  /\ UNCHANGED <<vars, media>>

\* The cache is over its limit and the id is older than its ten minutes, which
\* the three tries do not fill.
Prune(m) ==
  /\ m \in seen /\ tries[m] = 0
  /\ seen' = seen \ {m}
  /\ UNCHANGED <<vars, tries, asked, media>>

\* One webhook try.  Django may have taken the message although the answer was
\* lost, so an unanswered try is a try made; a second later there is another.
Webhook(m) ==
  /\ tries[m] > 0
  /\ asked' = [asked EXCEPT ![m] = @ + 1]
  /\ \/ tries' = [tries EXCEPT ![m] = 0]
     \/ tries' = [tries EXCEPT ![m] = @ - 1]
  /\ UNCHANGED <<vars, seen, media>>

\* sendMedia up to its download: refused, with a wake-up of the session, unless
\* it is usable; the socket is kept across the download.
SendMedia ==
  /\ Usable /\ media = NoSocket
  /\ media' = sock
  /\ UNCHANGED <<vars, seen, tries, asked>>

\* The download is over: too large, refused, not sent by a socket that has been
\* closed meanwhile, or sent.  (sendMessage has no such wait: it is refused or
\* handed to the socket at once, and neither changes the session.)
MediaLoaded ==
  /\ media # NoSocket
  /\ media' = NoSocket
  /\ UNCHANGED <<vars, seen, tries, asked>>

\* What the session does meanwhile; a socket that is held is not made again.
SessionStep ==
  /\ Running
  /\ (media # NoSocket /\ phase[media] \in {"none", "gone"}) => phase'[media] = phase[media]
  /\ UNCHANGED traffic

\* A restart loses the cache and everything under way.
RestartTraffic ==
  /\ Restart
  /\ seen' = {} /\ media' = NoSocket
  /\ tries' = [m \in Customers |-> 0] /\ asked' = [m \in Customers |-> 0]

TrafficNext ==
  \/ SessionStep \/ RestartTraffic \/ SendMedia \/ MediaLoaded
  \/ \E m \in Customers : Upsert(m) \/ Prune(m) \/ Webhook(m)

TrafficSpec == TrafficInit /\ [][TrafficNext]_allVars /\ Fairness
-----------------------------------------------------------------------------
\* However many sockets hear a message and however often WhatsApp repeats it,
\* Django is asked to take it at most maxRetries times for as long as its id is
\* remembered.
AskedAtMostThrice == \A m \in Customers : asked[m] + tries[m] <= MaxTries

\* A picture waits on the session's own socket or on one that was closed since,
\* in which case it is refused: never on a second connection left open.
MediaHasOneWayOut ==
  media # NoSocket /\ resets = 0 => media = sock \/ phase[media] \in {"none", "gone"}
=============================================================================
