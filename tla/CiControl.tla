----------------------------- MODULE CiControl -----------------------------
(***************************************************************************)
(* The control endpoint of the USB device controller driver (ci_udc.c),    *)
(* ep0: SETUP packets, the one request that ep0 has, and the direction     *)
(* flips between the data and the status stage.                            *)
(*                                                                         *)
(* udc_irq handles a bus reset, then a SETUP packet, and only then reads   *)
(* the completion bits (pc).  The host moves between any two steps of it;  *)
(* while a fastboot command runs, the driver does not poll at all.         *)
(*                                                                         *)
(* A SETUP packet is what handle_setup and composite_setup tell apart: its *)
(* direction (to), whether it has a data stage (wLength), and what becomes *)
(* of it.                                                                  *)
(***************************************************************************)
EXTENDS Naturals, FiniteSets

CONSTANTS
  MaxTransfer,  \* bound: how many transfers the host starts
  MaxAbort,     \* bound: how often it gives a transfer up
  MaxReset      \* bound: how often it resets the bus

ASSUME ControlAssumption ==
  MaxTransfer \in Nat /\ MaxAbort \in Nat /\ MaxReset \in Nat

VARIABLES
  host,         \* "in step", or "ahead": it does not wait for the driver's polls
  pc,           \* where udc_irq is: "poll" or "comp"
  dir,          \* ep0_desc.bEndpointAddress
  ep0_data_phase,
  queue,        \* "one" when ep0_req is linked into the queue of ep0, or "empty"
  req_primed,
  result,       \* "ok", or "empty": a request is taken that is not there
  setupstat,    \* a SETUP packet waits
  epcomp,       \* the completion bits of ep0
  active,       \* the directions that have an active descriptor
  stalled,
  uri,          \* a bus reset has been seen by the controller
  stage,        \* the host's stage: "idle", "data", "status"
  xfer,         \* its SETUP packet, which ep0's queue head holds (setup_data)
  transfers, aborts, resets

driverVars == <<pc, dir, ep0_data_phase, queue, req_primed, result>>
chipVars == <<setupstat, epcomp, active, stalled, uri>>
hostVars == <<stage, xfer, transfers, aborts, resets>>
vars == <<host, driverVars, chipVars, hostVars>>

(* The packets.  No function of this gadget takes data from the host over   *)
(* ep0, so one with an OUT data stage is refused, or ignored: a             *)
(* CLEAR_FEATURE with data, or of an endpoint that is not there, is neither *)
(* answered nor refused.                                                    *)
Packets ==
  {p \in [to : {"in", "out"}, data : BOOLEAN, as : {"answered", "refused", "ignored"}] :
     /\ p.as = "answered" => p.to = "in" \/ ~p.data
     /\ p.as = "ignored" => p.to = "out"}

SetAddress == [to |-> "out", data |-> FALSE, as |-> "answered"]

Init ==
  /\ host \in {"in step", "ahead"}
  /\ pc = "poll" /\ dir = "in" /\ ep0_data_phase = FALSE
  /\ queue = "empty" /\ req_primed = FALSE /\ result = "ok"
  /\ setupstat = FALSE /\ epcomp = {} /\ active = {} /\ stalled = FALSE /\ uri = FALSE
  /\ stage = "idle" /\ xfer = SetAddress /\ transfers = 0 /\ aborts = 0 /\ resets = 0

-----------------------------------------------------------------------------
Flip(d) == IF d = "in" THEN "out" ELSE "in"

(* usb_ep_queue on ep0, with the direction d that it has now.  Both callers *)
(* have just unlinked ep0_req and reset req_primed, so that the request is  *)
(* primed at once.                                                          *)
ci_ep_queue(d) ==
  queue' = "one" /\ req_primed' = TRUE /\ active' = active \cup {d} /\ UNCHANGED result

(* The SETUP packet is taken.  A transfer with data begins in the direction *)
(* of the packet; one without has only its status stage, in the other.      *)
(* ep0_req is unlinked before the request is answered, refused or ignored.  *)
Taken(left) ==
  /\ pc = "poll" /\ result = "ok" /\ ~uri /\ setupstat
  /\ setupstat' = FALSE
  /\ ep0_data_phase' = xfer.data
  /\ dir' = IF xfer.data THEN xfer.to ELSE Flip(xfer.to)
  /\ IF xfer.as = "answered"
       THEN ci_ep_queue(dir') /\ UNCHANGED stalled
       ELSE /\ queue' = left /\ req_primed' = FALSE
            /\ stalled' = (xfer.as = "refused")
            /\ UNCHANGED <<result, active>>
  /\ pc' = "comp"
  /\ UNCHANGED <<host, epcomp, uri, hostVars>>

(* Mutant: ep0_req stays linked.                                            *)
SetupLeavesLinked == Taken(queue)

(* handle_setup, with composite_setup.                                      *)
handle_setup == Taken("empty")

(* stop_activity.                                                           *)
stop_activity ==
  /\ pc = "poll" /\ result = "ok" /\ uri
  /\ uri' = FALSE /\ setupstat' = FALSE /\ epcomp' = {} /\ active' = {}
  /\ UNCHANGED <<host, driverVars, stalled, hostVars>>

NoSetup ==
  /\ pc = "poll" /\ result = "ok" /\ ~uri /\ ~setupstat /\ epcomp # {}
  /\ pc' = "comp"
  /\ UNCHANGED <<host, dir, ep0_data_phase, queue, req_primed, result, chipVars, hostVars>>

(* The completion bits are read and cleared.  When the one of ep0's present *)
(* direction is set (done), its request is taken from the queue, and after  *)
(* a data stage queued again for the status stage, in the direction primed. *)
Completion(done, status, primed, left) ==
  /\ pc = "comp" /\ result = "ok"
  /\ epcomp' = left
  /\ pc' = "poll"
  /\ \/ /\ ~done
        /\ UNCHANGED <<dir, ep0_data_phase, queue, req_primed, result, active>>
     \/ /\ done /\ queue = "empty"
        /\ result' = "empty"
        /\ UNCHANGED <<dir, ep0_data_phase, queue, req_primed, active>>
     \/ /\ done /\ queue = "one" /\ ep0_data_phase
        /\ ep0_data_phase' = FALSE
        /\ dir' = status
        /\ ci_ep_queue(primed)
     \/ /\ done /\ queue = "one" /\ ~ep0_data_phase
        /\ queue' = "empty" /\ req_primed' = FALSE
        /\ UNCHANGED <<dir, ep0_data_phase, result, active>>
  /\ UNCHANGED <<host, setupstat, stalled, uri, hostVars>>

(* Mutants: the status stage has the direction of the data stage; its       *)
(* request is queued before the flip; the bits are not cleared; the bit is  *)
(* not looked at.                                                           *)
CompleteNoFlip == Completion(dir \in epcomp, dir, dir, {})
CompleteFlipsLate == Completion(dir \in epcomp, Flip(dir), dir, {})
CompleteKeepsBits == Completion(dir \in epcomp, Flip(dir), Flip(dir), epcomp)
CompleteAnyway == Completion(queue = "one", Flip(dir), Flip(dir), {})

handle_ep_complete == Completion(dir \in epcomp, Flip(dir), Flip(dir), {})

-----------------------------------------------------------------------------
(* The host, and the controller's part in what it does.                     *)

InTime == pc = "poll" /\ epcomp = {} /\ ~uri

(* A SETUP packet is always taken: it ends what was primed, and a stall.    *)
Setup(p) ==
  /\ stage = "idle" /\ transfers < MaxTransfer
  /\ host = "ahead" \/ InTime
  /\ transfers' = transfers + 1
  /\ xfer' = p /\ stage' = IF p.data THEN "data" ELSE "status"
  /\ setupstat' = TRUE /\ active' = {} /\ stalled' = FALSE
  /\ UNCHANGED <<host, driverVars, epcomp, uri, aborts, resets>>

Moves(d) ==
  /\ d \in active /\ ~setupstat
  /\ active' = active \ {d} /\ epcomp' = epcomp \cup {d}
  /\ UNCHANGED <<host, driverVars, setupstat, stalled, uri, xfer, transfers, aborts, resets>>

DataStage == stage = "data" /\ Moves(xfer.to) /\ stage' = "status"

(* Opposite to the data; IN when there is none, whatever the packet says.   *)
StatusStage ==
  stage = "status" /\ Moves(IF xfer.data THEN Flip(xfer.to) ELSE "in") /\ stage' = "idle"

Stalled ==
  /\ stage # "idle" /\ stalled /\ ~setupstat
  /\ stage' = "idle"
  /\ UNCHANGED <<host, driverVars, chipVars, xfer, transfers, aborts, resets>>

Abort ==
  /\ stage # "idle" /\ aborts < MaxAbort
  /\ aborts' = aborts + 1
  /\ stage' = "idle"
  /\ UNCHANGED <<host, driverVars, chipVars, xfer, transfers, resets>>

BusReset ==
  /\ resets < MaxReset
  /\ resets' = resets + 1
  /\ uri' = TRUE
  /\ stage' = "idle"
  /\ UNCHANGED <<host, driverVars, setupstat, epcomp, active, stalled, xfer, transfers, aborts>>

udc_irq == stop_activity \/ handle_setup \/ NoSetup \/ handle_ep_complete

Next ==
  \/ udc_irq
  \/ \E p \in Packets : Setup(p)
  \/ DataStage \/ StatusStage \/ Stalled \/ Abort \/ BusReset

Spec == Init /\ [][Next]_vars

(* The driver polls, and the host moves when the device is ready.           *)
FairSpec ==
  /\ Spec
  /\ WF_vars(udc_irq)
  /\ WF_vars(DataStage) /\ WF_vars(StatusStage) /\ WF_vars(Stalled)

-----------------------------------------------------------------------------
(* The variables keep their types; ep0_req is queued exactly while a        *)
(* descriptor has been made for it.                                         *)
TypeOK ==
  /\ host \in {"in step", "ahead"}
  /\ pc \in {"poll", "comp"} /\ dir \in {"in", "out"} /\ ep0_data_phase \in BOOLEAN
  /\ queue \in {"empty", "one"} /\ req_primed \in BOOLEAN
  /\ result \in {"ok", "empty"}
  /\ epcomp \subseteq {"in", "out"} /\ active \subseteq {"in", "out"}
  /\ setupstat \in BOOLEAN /\ stalled \in BOOLEAN /\ uri \in BOOLEAN
  /\ stage \in {"idle", "data", "status"} /\ xfer \in Packets
  /\ transfers \in 0 .. MaxTransfer /\ aborts \in 0 .. MaxAbort /\ resets \in 0 .. MaxReset
  /\ req_primed <=> queue = "one"

(* "The flipping of ep0 between IN and OUT relies on ci_ep_queue consuming  *)
(* the current IN/OUT setting immediately", or "state will get out of sync" *)
(* (ci_ep_queue): what the controller has to transfer, or has transferred,  *)
(* on ep0 is in the direction that the driver believes ep0 to have, when it *)
(* has polled before each SETUP packet.                                     *)
DirectionInSync == host = "in step" => active \cup epcomp \subseteq {dir}

(* handle_ep_complete finds the request that the controller has completed,  *)
(* when the driver has polled before each SETUP packet.                     *)
RequestIsThere == host = "in step" => result # "empty"

(* "Data Stage is complete, so flip ep0 dir for Status Stage"               *)
(* (handle_ep_complete): when ep0 turns to the status stage, the host has   *)
(* read the data.  A host that is ahead sees it turn before, when the       *)
(* completion of the transfer before is found together with the packet.     *)
FlipAfterData ==
  [][host = "in step" /\ handle_ep_complete /\ dir' # dir => dir \notin active]_vars

(* Every transfer that is refused, or answered in the direction that its    *)
(* host expects, comes to its end, whatever was given up or reset before    *)
(* it.  Left out are the packets that nothing answers, and those that ask   *)
(* for no data from the device (IN, wLength 0): handle_setup flips ep0 to   *)
(* OUT for them, while their status stage is IN.                            *)
ControlEnds ==
  (/\ host = "in step" /\ stage # "idle"
   /\ xfer.as # "ignored"
   /\ xfer.as = "answered" => xfer.data \/ xfer.to = "out")
  ~> stage = "idle"
=============================================================================
