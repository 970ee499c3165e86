------------------------------- MODULE CiUdc -------------------------------
(***************************************************************************)
(* The USB device controller driver (ci_udc.c), its two bulk endpoints and *)
(* the requests that the fastboot function keeps on them: in_req, out_req  *)
(* and the list of requests for answers of several messages.               *)
(*                                                                         *)
(* The controller and the host run beside the driver.  The driver polls:   *)
(* it reads the completion bits (ReadBits), then handles the endpoints in  *)
(* the order of their numbers, ep1in before ep2out.  What a handler does   *)
(* to the list of requests is one step; the controller works from the      *)
(* descriptor that ci_ep_submit_next_request wrote and from the request's  *)
(* buffer as it is when the host reads: answers shorter than 64 bytes, of  *)
(* whatever length, use the one bounce buffer of their request.            *)
(*                                                                         *)
(* The control endpoint is in CiControl.                                   *)
(***************************************************************************)
EXTENDS Naturals, Sequences, FiniteSets, Functions

CONSTANTS
  Req,          \* the request objects that the heap has room for
  None,         \* NULL
  Kinds,        \* the kinds of commands that the host sends
  Length,       \* the lengths that an answer may have
  MaxCmd,       \* bound: how many commands are sent
  MaxStop,      \* bound: how often the host stops before it has the answer
  MaxReset      \* bound: how often a configured device is reset or configured

ASSUME KindsAssumption == Kinds \subseteq {"one", "many", "upload"}
ASSUME BoundAssumption ==
  /\ Length \subseteq Nat /\ Length # {}
  /\ MaxCmd \in Nat /\ MaxStop \in Nat /\ MaxReset \in Nat
ASSUME NoneAssumption == None \notin Req

VARIABLES
  patient,      \* the host reads every answer before it sends a command
  up,           \* "yes"; "no" once the driver has used memory that is not its
  registered,   \* between usb_gadget_register_driver and ..._unregister_driver
  configured,   \* cdev->config is set
  ep,           \* the queue of each endpoint, req_primed and the descriptor
  epcomp,       \* the completion bits of the controller
  irq,          \* the bits that udc_irq has read and not yet handled
  live,         \* the requests that are allocated
  text,         \* the message in the buffer of each request
  in_req,
  out_req,
  front,        \* the list from front on
  rear,
  lost,         \* "fail free request" has been printed
  cmd,          \* how many commands the host has sent
  kind,         \* the kind of the last one
  reading,      \* the host waits for an answer
  stops,
  resets,
  got,          \* history: what the host has read, if it is patient
  given,        \* history: the messages of the IN requests that were given back
  dropped       \* history: the list was reset with requests in it

funcVars == <<live, text, in_req, out_req, front, rear, lost>>
hostVars == <<cmd, kind, reading, stops, resets, got>>
histVars == <<given, dropped>>
vars == <<patient, up, registered, configured, ep, epcomp, irq, funcVars, hostVars, histVars>>

Idle == [req |-> None, len |-> 0]          \* no descriptor is active
Unused == [queue |-> <<>>, req_primed |-> FALSE, dtd |-> Idle]
NoMessage == [cmd |-> 0, part |-> 0, len |-> 0, last |-> TRUE]

Init ==
  /\ patient \in BOOLEAN /\ up = "yes" /\ registered = FALSE /\ configured = FALSE
  /\ ep = [in |-> Unused, out |-> Unused]
  /\ epcomp = {} /\ irq = {}
  /\ live = {} /\ text = [r \in Req |-> NoMessage]
  /\ in_req = None /\ out_req = None /\ front = <<>> /\ rear = None
  /\ lost = FALSE
  /\ cmd = 0 /\ kind = "one" /\ reading = FALSE /\ stops = 0 /\ resets = 0
  /\ got = <<>> /\ given = <<>> /\ dropped = FALSE

-----------------------------------------------------------------------------
(* The endpoint's list of requests.  e is an endpoint, t the texts.         *)

ci_ep_submit_next_request(e, t) ==
  [e EXCEPT !.req_primed = TRUE,
            !.dtd = [req |-> Head(e.queue), len |-> t[Head(e.queue)].len]]

ci_ep_queue(e, r, t) ==
  LET added == [e EXCEPT !.queue = Append(@, r)] IN
  IF e.req_primed THEN added ELSE ci_ep_submit_next_request(added, t)

(* list_del_init.                                                           *)
Unlinked(q, r) ==
  IF r \in Range(q)
    THEN LET k == CHOOSE k \in DOMAIN q : q[k] = r IN
         SubSeq(q, 1, k - 1) \o SubSeq(q, k + 1, Len(q))
    ELSE q

(* Mutant: the descriptor is flushed.                                       *)
DequeueFlushes(e, r) ==
  [e EXCEPT !.queue = Unlinked(@, r), !.dtd = Idle]

(* req_primed and the descriptor stay as they are.                          *)
ci_ep_dequeue(e, r) ==
  [e EXCEPT !.queue = Unlinked(@, r)]

(* handle_ep_complete, up to the call of the request's own handler.         *)
Completed(e, t) ==
  LET rest == [e EXCEPT !.queue = Tail(@), !.req_primed = FALSE] IN
  IF rest.queue = <<>> THEN rest ELSE ci_ep_submit_next_request(rest, t)

(* It takes the first request of the list, whether there is one or not, and *)
(* looks at the next.                                                       *)
Sound(e) == e.queue # <<>> /\ \A i \in DOMAIN e.queue : i <= 2 => e.queue[i] \in live

-----------------------------------------------------------------------------
(* The function's answers, as functions of the state s of the IN endpoint,  *)
(* the texts, the list and the heap.                                        *)

Now == [e |-> ep["in"], text |-> text, front |-> front, rear |-> rear,
        live |-> live, ok |-> TRUE]

fastboot_tx_write(s, m) ==
  LET t == [s.text EXCEPT ![in_req] = m] IN
  [s EXCEPT !.text = t,
            !.e = ci_ep_queue(ci_ep_dequeue(@, in_req), in_req, t)]

(* Mutant: the request is not linked into the list.                         *)
WriteMoreUnlinked(s, r, m) ==
  LET t == [s.text EXCEPT ![r] = m] IN
  [s EXCEPT !.text = t, !.live = @ \cup {r}, !.e = ci_ep_queue(@, r, t)]

(* A rear that is not in the list any more has been freed.                  *)
fastboot_tx_write_more(s, r, m) ==
  LET t == [s.text EXCEPT ![r] = m] IN
  [s EXCEPT !.text = t, !.live = @ \cup {r},
            !.front = Append(@, r), !.rear = r,
            !.ok = @ /\ (s.rear # None => s.front # <<>>),
            !.e = ci_ep_queue(@, r, t)]

Message(i, n, last) == [cmd |-> cmd, part |-> i, len |-> n, last |-> last]

cb_answer(s, n) == fastboot_tx_write(s, Message(1, n, TRUE))

(* One INFO message stands for the many.                                    *)
cb_getvar_all(s, r1, r2) ==
  fastboot_tx_write_more(
    fastboot_tx_write_more(s, r1, Message(1, 1, FALSE)), r2, Message(2, 1, TRUE))

cb_upload(s, r1, r2) ==
  LET header == fastboot_tx_write_more(s, r1, Message(1, 1, FALSE))
      image == fastboot_tx_write(header, Message(2, 1, FALSE)) IN
  fastboot_tx_write_more(image, r2, Message(3, 1, TRUE))

Answers(s) ==
  IF kind = "one" THEN {cb_answer(s, n) : n \in Length}
  ELSE LET pairs == {p \in (Req \ live) \X (Req \ live) : p[1] # p[2]} IN
       {IF kind = "many" THEN cb_getvar_all(s, p[1], p[2])
                         ELSE cb_upload(s, p[1], p[2]) : p \in pairs}

(* rx_handler_command resets the list of requests.                          *)
ResetFifo(s) == [s EXCEPT !.front = <<>>, !.rear = None]

-----------------------------------------------------------------------------
(* udc_irq.                                                                *)

ReadBits ==
  /\ up = "yes" /\ irq = {} /\ epcomp # {}
  /\ irq' = epcomp
  /\ epcomp' = {}
  /\ UNCHANGED <<patient, up, registered, configured, ep, funcVars, hostVars, histVars>>

Record(history, m) == IF patient THEN Append(history, m) ELSE history

Crash == up' = "no" /\ UNCHANGED <<patient, registered, configured, ep, epcomp, funcVars, hostVars, histVars>>

(* An IN request is given back: fastboot_complete, or for a request of the  *)
(* list fastboot_fifo_complete, which frees the first of the list.          *)
CompleteIn ==
  /\ up = "yes" /\ "in" \in irq
  /\ irq' = irq \ {"in"}
  /\ IF ~Sound(ep["in"]) THEN Crash
     ELSE LET r == Head(ep["in"].queue) IN
          /\ ep' = [ep EXCEPT !["in"] = Completed(@, text)]
          /\ given' = Record(given, text[r])
          /\ IF r = in_req THEN UNCHANGED <<live, front, lost>>
             ELSE IF front # <<>>
                    THEN /\ live' = live \ {Head(front)} /\ front' = Tail(front)
                         /\ UNCHANGED lost
                    ELSE lost' = TRUE /\ UNCHANGED <<live, front>>
          /\ UNCHANGED <<patient, up, registered, configured, epcomp, text, in_req, out_req, rear, hostVars,
                         dropped>>

Handled(s) ==
  /\ ep' = [ep EXCEPT !["in"] = s.e,
                      !["out"] = ci_ep_queue(Completed(@, text), out_req, text)]
  /\ text' = s.text /\ live' = s.live /\ front' = s.front /\ rear' = s.rear
  /\ dropped' = (dropped \/ front # <<>>)
  /\ UNCHANGED <<patient, up, registered, configured, epcomp, in_req, out_req, lost, hostVars, given>>

(* Mutant: the OUT endpoint is handled first.                               *)
CompleteOutFirst ==
  /\ up = "yes" /\ "out" \in irq
  /\ irq' = irq \ {"out"}
  /\ IF ~Sound(ep["out"]) THEN Crash
     ELSE \E s \in Answers(ResetFifo(Now)) :
          IF s.ok THEN Handled(s) ELSE Crash

(* A command has arrived: rx_handler_command runs it, answers and queues    *)
(* out_req again.                                                           *)
CompleteOut ==
  /\ up = "yes" /\ irq = {"out"}
  /\ irq' = {}
  /\ IF ~Sound(ep["out"]) THEN Crash
     ELSE \E s \in Answers(ResetFifo(Now)) :
          IF s.ok THEN Handled(s) ELSE Crash

(* SET_CONFIGURATION.  set_config calls fastboot_disable when a             *)
(* configuration was set, which frees the requests, and fastboot_set_alt.   *)
Disabled == live \ ({in_req, out_req} \cup Range(front))

SetConfiguration ==
  /\ up = "yes" /\ registered /\ irq = {}
  /\ configured => resets < MaxReset
  /\ resets' = IF configured THEN resets + 1 ELSE resets
  /\ configured' = TRUE
  /\ \E o, i \in Req \ Disabled :
       /\ o # i
       /\ out_req' = o /\ in_req' = i /\ live' = Disabled \cup {o, i}
       /\ ep' = [ep EXCEPT !["out"] = ci_ep_queue(@, o, text)]
  /\ front' = <<>> /\ rear' = None /\ reading' = FALSE
  /\ UNCHANGED <<patient, up, registered, epcomp, irq, text, lost, cmd, kind, stops, got, histVars>>

(* A bus reset, and stop_activity when the driver sees it.                  *)
BusReset ==
  /\ up = "yes" /\ registered /\ irq = {}
  /\ configured => resets < MaxReset
  /\ resets' = IF configured THEN resets + 1 ELSE resets
  /\ epcomp' = {}
  /\ ep' = [e \in DOMAIN ep |-> [ep[e] EXCEPT !.dtd = Idle]]
  /\ reading' = FALSE
  /\ UNCHANGED <<patient, up, registered, configured, irq, funcVars, cmd, kind, stops, got, histVars>>

(* Mutant: the lists of the endpoints stay as they were.                    *)
RegisterKeeps ==
  /\ up = "yes" /\ ~registered
  /\ registered' = TRUE
  /\ got' = <<>> /\ given' = <<>>
  /\ UNCHANGED <<patient, up, configured, ep, epcomp, irq, funcVars, cmd, kind, reading, stops,
                 resets, dropped>>

(* do_fastboot starts: ci_udc_probe makes the lists anew.                   *)
Register ==
  /\ up = "yes" /\ ~registered
  /\ registered' = TRUE
  /\ ep' = [in |-> Unused, out |-> Unused]
  /\ got' = <<>> /\ given' = <<>>
  /\ UNCHANGED <<patient, up, configured, epcomp, irq, funcVars, cmd, kind, reading, stops,
                 resets, dropped>>

(* Mutant: fastboot_disable leaves the pointer to in_req.                   *)
UnregisterKeeps ==
  /\ up = "yes" /\ registered /\ irq = {}
  /\ registered' = FALSE /\ configured' = FALSE
  /\ epcomp' = {} /\ ep' = [e \in DOMAIN ep |-> [ep[e] EXCEPT !.dtd = Idle]]
  /\ live' = Disabled /\ out_req' = None
  /\ front' = <<>> /\ rear' = None /\ reading' = FALSE
  /\ UNCHANGED <<patient, up, irq, text, in_req, lost, cmd, kind, stops, resets, got, histVars>>

(* do_fastboot ends: stop_activity, and fastboot_disable if a configuration *)
(* is set.  It frees the requests; ci_ep_disable neither gives them back    *)
(* nor takes them out of the lists.                                         *)
Unregister ==
  /\ up = "yes" /\ registered /\ irq = {}
  /\ registered' = FALSE /\ configured' = FALSE
  /\ epcomp' = {} /\ ep' = [e \in DOMAIN ep |-> [ep[e] EXCEPT !.dtd = Idle]]
  /\ live' = Disabled /\ in_req' = None /\ out_req' = None
  /\ front' = <<>> /\ rear' = None /\ reading' = FALSE
  /\ UNCHANGED <<patient, up, irq, text, lost, cmd, kind, stops, resets, got, histVars>>

-----------------------------------------------------------------------------
(* The host, and the controller's part in what it does.                     *)

SendCommand(k) ==
  /\ up = "yes" /\ configured /\ ~reading /\ cmd < MaxCmd
  /\ k # "one" => Cardinality(Req \ live) >= 2      \* bound: the heap
  /\ ep["out"].dtd # Idle
  /\ ep' = [ep EXCEPT !["out"].dtd = Idle]
  /\ epcomp' = epcomp \cup {"out"}
  /\ cmd' = cmd + 1 /\ kind' = k /\ reading' = TRUE
  /\ UNCHANGED <<patient, up, registered, configured, irq, funcVars, stops, resets, got, histVars>>

Read ==
  /\ up = "yes" /\ reading /\ ep["in"].dtd # Idle
  /\ LET m == [text[ep["in"].dtd.req] EXCEPT !.len = ep["in"].dtd.len] IN
       got' = Record(got, m) /\ reading' = ~m.last
  /\ ep' = [ep EXCEPT !["in"].dtd = Idle]
  /\ epcomp' = epcomp \cup {"in"}
  /\ UNCHANGED <<patient, up, registered, configured, irq, funcVars, cmd, kind, stops, resets, histVars>>

(* The host program is stopped, and started again later.                    *)
Stop ==
  /\ up = "yes" /\ ~patient /\ reading /\ stops < MaxStop
  /\ stops' = stops + 1
  /\ reading' = FALSE
  /\ UNCHANGED <<patient, up, registered, configured, ep, epcomp, irq, funcVars, cmd, kind, resets, got, histVars>>

Driver == ReadBits \/ CompleteIn \/ CompleteOut

Next ==
  \/ Driver
  \/ Register \/ SetConfiguration \/ BusReset \/ Unregister
  \/ \E k \in Kinds : SendCommand(k)
  \/ Read \/ Stop

Spec == Init /\ [][Next]_vars

(* The driver polls, and a host that waits for an answer reads it.          *)
FairSpec == Spec /\ WF_vars(Driver) /\ WF_vars(Read)

-----------------------------------------------------------------------------
Texts == [cmd : 0 .. MaxCmd, part : 0 .. 3, len : Length \cup {0, 1}, last : BOOLEAN]
Descriptor == {Idle} \cup [req : Req, len : Length \cup {0, 1}]
Endpoint == [queue : Seq(Req), req_primed : BOOLEAN, dtd : Descriptor]

(* The variables keep their types, and the function has its two requests    *)
(* exactly while it is configured.                                          *)
TypeOK ==
  /\ patient \in BOOLEAN /\ up \in {"yes", "no"}
  /\ registered \in BOOLEAN /\ configured \in BOOLEAN
  /\ ep \in [{"in", "out"} -> Endpoint]
  /\ epcomp \subseteq {"in", "out"} /\ irq \subseteq {"in", "out"}
  /\ live \subseteq Req /\ text \in [Req -> Texts]
  /\ in_req \in Req \cup {None} /\ out_req \in Req \cup {None}
  /\ in_req # None <=> configured
  /\ out_req # None <=> configured
  /\ front \in Seq(Req) /\ rear \in Req \cup {None} /\ lost \in BOOLEAN
  /\ cmd \in 0 .. MaxCmd /\ kind \in {"one", "many", "upload"} /\ reading \in BOOLEAN
  /\ stops \in 0 .. MaxStop /\ resets \in 0 .. MaxReset
  /\ got \in Seq(Texts) /\ given \in Seq(Texts) /\ dropped \in BOOLEAN

(* The device has been configured once since fastboot was started, and      *)
(* rx_handler_command has not reset the list with requests in it.           *)
Undisturbed == resets = 0 /\ ~dropped

(* While the gadget driver is registered, a request is freed only when it   *)
(* is not queued ("Caller guarantees the request is not queued",            *)
(* linux/usb/gadget.h), is never linked twice into a list, and the driver   *)
(* finds a request when the controller has completed one, also when it is   *)
(* registered again.  Not so at the end of do_fastboot: fastboot_disable    *)
(* frees out_req, and what is left of an answer, while they are linked, and *)
(* the lists hold them until ci_udc_probe.  Nor once the list has been      *)
(* reset with requests in it: the completion of one of these frees a        *)
(* request of the next answer.                                              *)
FreedNotQueued ==
  Undisturbed =>
    /\ up = "yes"
    /\ registered => \A e \in DOMAIN ep :
         /\ Range(ep[e].queue) \subseteq live
         /\ IsInjective(ep[e].queue)

(* fastboot_fifo_complete finds the request that it frees in the list; it   *)
(* says "fail free request" when it does not.                               *)
FifoIsFreed == Undisturbed => ~lost

(* The list is empty when rx_handler_command resets it, if the host reads   *)
(* every answer: what the host has read is given back before the next       *)
(* command is handled.                                                      *)
ListIsEmpty == patient /\ resets = 0 => ~dropped

(* The messages on the IN endpoint that the host has not read.              *)
Pending ==
  LET q == ep["in"].queue
      n == IF ep["in"].req_primed /\ ep["in"].dtd = Idle THEN 1 ELSE 0 IN
  [i \in 1 .. Len(q) - n |-> text[q[i + n]]]

Promise == INSTANCE RequestQueue WITH pending <- Pending, sent <- got, given <- given

(* The host is patient, the device has not been reset, and the driver was   *)
(* not unregistered in the middle of an answer.                             *)
Kept == patient /\ resets = 0 /\ (registered \/ ep["in"].queue = <<>>)

(* The IN endpoint implements the queue that linux/usb/gadget.h promises,   *)
(* step by step, with three exceptions.  For a host that stops,             *)
(* ci_ep_dequeue leaves the old descriptor active, and the next answer is   *)
(* read with the old length.  A reset of a configured device ends the       *)
(* promise.  And when the driver is unregistered in the middle of an        *)
(* answer, ci_ep_disable does not give back what is pending, as             *)
(* usb_ep_disable promises (Disable).                                       *)
ImplementsQueue == Promise!Init /\ [][Kept /\ Kept' => Promise!Next]_(Promise!vars)

(* A host that waits for an answer gets one, also when it has stopped and   *)
(* come back: the driver never stops with a message queued and nothing      *)
(* primed.                                                                  *)
WaitingIsAnswered == (reading /\ Undisturbed) ~> ~(reading /\ Undisturbed)
=============================================================================
