---------------------------- MODULE RequestQueue ----------------------------
(***************************************************************************)
(* What linux/usb/gadget.h promises of an IN endpoint: the requests are    *)
(* sent to the host as they were queued, in that order; each is given      *)
(* back, once, after it has been sent, or when the endpoint is disabled.   *)
(***************************************************************************)
EXTENDS Naturals, Sequences

VARIABLES
  pending,      \* the messages of the requests that have not been sent
  sent,         \* what the host has received
  given         \* the messages of the requests that have been given back

vars == <<pending, sent, given>>

Init == pending = <<>> /\ sent = <<>> /\ given = <<>>

(* One call of usb_ep_queue, or several.                                   *)
Queue ==
  /\ Len(pending) < Len(pending') /\ SubSeq(pending', 1, Len(pending)) = pending
  /\ UNCHANGED <<sent, given>>

Send ==
  /\ pending # <<>>
  /\ sent' = Append(sent, Head(pending))
  /\ pending' = Tail(pending)
  /\ UNCHANGED given

GiveBack ==
  /\ Len(given) < Len(sent)
  /\ given' = Append(given, sent[Len(given) + 1])
  /\ UNCHANGED <<pending, sent>>

(* usb_ep_disable: what is pending is given back before the call returns.  *)
Disable ==
  /\ given' = sent \o pending
  /\ pending' = <<>>
  /\ UNCHANGED sent

(* usb_ep_enable, with nothing outstanding: the histories begin again.     *)
Enable ==
  /\ pending = <<>> /\ given = sent
  /\ sent' = <<>> /\ given' = <<>>
  /\ UNCHANGED pending

Next == Queue \/ Send \/ GiveBack \/ Disable \/ Enable

Spec == Init /\ [][Next]_vars
=============================================================================
