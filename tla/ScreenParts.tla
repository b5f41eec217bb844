----------------------------- MODULE ScreenParts -----------------------------
(***************************************************************************)
(* What the tables of the screens are made of; Screens says what a screen  *)
(* so described does.                                                      *)
(*                                                                         *)
(* A read of a screen:                                                     *)
(*   call     the request of api.js it makes                               *)
(*   keyed    its address depends on what is chosen (week, person, filter) *)
(*   latest   a reply is dropped once a newer read was asked for           *)
(*   matches  a reply is dropped if it is not about what is chosen by then *)
(*   sets     the flags raised until it lands                              *)
(* An operation of a screen:                                               *)
(*   call     the request of api.js it makes                               *)
(*   checks   the flags that turn its control off, if raised by anything   *)
(*   rowchecks  the flags that do so if raised for the same row            *)
(*   sets     the flags raised until it is over                            *)
(*   rows     "no", or the flag holds the row worked on: "one" row at a    *)
(*            time (another replaces it), "new" for a row to be made, or a  *)
(*            flag for "each" row                                          *)
(*   changes  the reads it makes out of date                               *)
(*   adopts   the reads its reply is put in the place of                   *)
(*   mine     it is, only where it belongs to what is shown                *)
(*   reloads  the reads asked for again, for what was chosen at the click  *)
(*   refreshes  the reads asked for again, for what is chosen by then      *)
(*   waits    its flags stay up until what it reloads is in                *)
(*   next     the operation its success goes on to, "" when none           *)
(*   form     the form it is in, "" when there is none                     *)
(*   opener   the flags that turn off, or hide, what opens that form        *)
(*   closes   success closes that form, whichever is open by then          *)
(*   retries  the reads asked for again after a failure                    *)
(*   drops    failure closes that form too                                 *)
(*   shuts    the forms its success closes besides                          *)
(*   own      its flags are the form's own and vanish with it              *)
(*   locked   the flags that keep that form from being dismissed           *)
(* A load of several requests is one read here, over when the last is in.  *)
(***************************************************************************)
EXTENDS ApiCalls

\* What a table entry is unless it says otherwise.
Read(call) ==
  [call |-> call, keyed |-> FALSE, latest |-> FALSE, matches |-> FALSE,
   sets |-> {}]

Op(call) ==
  [call |-> call, checks |-> {}, rowchecks |-> {}, sets |-> {}, rows |-> "no",
   changes |-> {}, adopts |-> {}, mine |-> FALSE,
   reloads |-> {}, refreshes |-> {}, waits |-> FALSE, next |-> "",
   form |-> "", opener |-> {}, closes |-> FALSE, drops |-> FALSE, retries |-> {}, shuts |-> {},
   own |-> FALSE, locked |-> {}]

\* One table out of the handlers' part of it and the controls' part.
Merge(handlers, controls) ==
  [o \in DOMAIN handlers \cap DOMAIN controls |-> controls[o] @@ handlers[o]]
    @@ handlers

NoReads == <<>>
NoOps == <<>>

Panel(turnlocks, reads, ops) ==
  [turnlocks |-> turnlocks, reads |-> reads, ops |-> ops]
=============================================================================
