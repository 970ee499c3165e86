-------------------------- MODULE CiControlProofs --------------------------
(***************************************************************************)
(* What holds of the control endpoint for every set of transfers and all   *)
(* bounds.  OneStage is inductive together with the types, and implies the *)
(* properties of a host that is in step.                                   *)
(***************************************************************************)
EXTENDS CiControl, TLAPS

(* When the host waits for the driver's polls, one stage of one transfer   *)
(* is in progress: a descriptor or a completion bit belongs to the request *)
(* that is queued and to ep0's present direction, and none is left when    *)
(* the next SETUP packet arrives.                                          *)
OneStage ==
  host = "in step" =>
    /\ result = "ok"
    /\ active \subseteq {dir} /\ epcomp \subseteq {dir}
    /\ active = {} \/ epcomp = {}
    /\ queue = "empty" => active = {} /\ epcomp = {}
    /\ setupstat => active = {} /\ epcomp = {}

(* The counters of the host stay within their bounds.                      *)
Counters ==
  transfers \in 0 .. MaxTransfer /\ aborts \in 0 .. MaxAbort /\ resets \in 0 .. MaxReset

(* A counter that is below its bound can be counted on.                    *)
LEMMA CountOn == \A m \in Nat : 0 \in 0 .. m /\ \A n \in 0 .. m : n < m => n + 1 \in 0 .. m
OBVIOUS

(* The types of what is not a number and not a Boolean.                    *)
Places ==
  /\ host \in {"in step", "ahead"} /\ pc \in {"poll", "comp"} /\ dir \in {"in", "out"}
  /\ queue \in {"empty", "one"} /\ result \in {"ok", "empty"}
  /\ epcomp \subseteq {"in", "out"} /\ active \subseteq {"in", "out"}
  /\ stage \in {"idle", "data", "status"} /\ xfer \in Packets

(* A packet has a direction and says whether there are data; flipping a    *)
(* direction gives the other one.                                          *)
LEMMA PacketType == \A p \in Packets : p.to \in {"in", "out"} /\ p.data \in BOOLEAN
BY DEF Packets

LEMMA FlipType == \A d \in {"in", "out"} : Flip(d) \in {"in", "out"} /\ Flip(d) # d
BY Zenon DEF Flip

LEMMA SetAddressType == SetAddress \in Packets
BY DEF SetAddress, Packets

(* The Booleans.                                                           *)
Booleans ==
  /\ ep0_data_phase \in BOOLEAN /\ req_primed \in BOOLEAN
  /\ setupstat \in BOOLEAN /\ stalled \in BOOLEAN /\ uri \in BOOLEAN

(* ep0_req is queued exactly while a descriptor has been made for it.      *)
Linked == req_primed <=> queue = "one"

(* Every step keeps the host's counters within their bounds.               *)
LEMMA CountersStep ==
  ASSUME Counters, [Next]_vars
  PROVE  Counters'
<1> USE CountOn, ControlAssumption DEF Counters
<1>1. CASE udc_irq
  BY <1>1, Zenon DEF udc_irq, stop_activity, handle_setup, Taken, NoSetup, handle_ep_complete,
              Completion, hostVars
<1>2. ASSUME NEW p \in Packets, Setup(p) PROVE Counters'
  BY <1>2, Zenon DEF Setup
<1>3. CASE DataStage \/ StatusStage
  BY <1>3, Zenon DEF DataStage, StatusStage, Moves
<1>4. CASE Stalled \/ Abort \/ BusReset \/ UNCHANGED vars
  BY <1>4, Zenon DEF Stalled, Abort, BusReset, hostVars, vars
<1> QED
  BY <1>1, <1>2, <1>3, <1>4, Zenon DEF Next

(* A SETUP packet gives ep0 a direction.                                   *)
LEMMA SetupDirection ==
  ASSUME Places, handle_setup
  PROVE  dir' \in {"in", "out"}
<1>1. xfer.to \in {"in", "out"} /\ Flip(xfer.to) \in {"in", "out"}
  BY PacketType, FlipType, Zenon DEF Places
<1> QED
  BY <1>1, Zenon DEF handle_setup, Taken

(* The host moves data in a direction.                                     *)
LEMMA StageDirection ==
  ASSUME Places, DataStage \/ StatusStage
  PROVE  \E d \in {"in", "out"} : Moves(d) /\ stage' \in {"status", "idle"}
<1>1. xfer.to \in {"in", "out"} /\ Flip(xfer.to) \in {"in", "out"}
  BY PacketType, FlipType, Zenon DEF Places
<1> QED
  BY <1>1, Zenon DEF DataStage, StatusStage

(* Every step keeps the other types.                                       *)
LEMMA PlacesStep ==
  ASSUME Places, [Next]_vars
  PROVE  Places'
<1> USE DEF Places
<1>1. CASE handle_setup
  BY <1>1, SetupDirection, Zenon DEF handle_setup, Taken, ci_ep_queue, hostVars
<1>2. CASE handle_ep_complete
  BY <1>2, Zenon DEF handle_ep_complete, Completion, ci_ep_queue, Flip, hostVars
<1>3. CASE stop_activity \/ NoSetup
  BY <1>3, Zenon DEF stop_activity, NoSetup, driverVars, chipVars, hostVars
<1>4. ASSUME NEW p \in Packets, Setup(p) PROVE Places'
  BY <1>4, Zenon DEF Setup, driverVars
<1>6. ASSUME NEW d \in {"in", "out"}, Moves(d), stage' \in {"status", "idle"} PROVE Places'
  BY <1>6, Zenon DEF Moves, driverVars
<1>7. CASE DataStage \/ StatusStage
  BY <1>6, <1>7, StageDirection, Zenon
<1>8. CASE Stalled \/ Abort \/ BusReset \/ UNCHANGED vars
  BY <1>8, Zenon DEF Stalled, Abort, BusReset, driverVars, chipVars, hostVars, vars
<1> QED
  BY <1>1, <1>2, <1>3, <1>4, <1>7, <1>8, Zenon DEF Next, udc_irq

(* And the Booleans.                                                       *)
LEMMA BooleansStep ==
  ASSUME Places, Booleans, [Next]_vars
  PROVE  Booleans'
<1> USE DEF Booleans
<1>1. CASE handle_setup
  <2>1. ep0_data_phase' \in BOOLEAN /\ uri' \in BOOLEAN /\ setupstat' \in BOOLEAN
    BY <1>1, PacketType, Zenon DEF handle_setup, Taken, Places
  <2>2. req_primed' \in BOOLEAN
    BY <1>1, Zenon DEF handle_setup, Taken, ci_ep_queue
  <2>3. stalled' \in BOOLEAN
    <3>1. \A x : (x = "refused") \in BOOLEAN
      OBVIOUS
    <3> QED
      BY <1>1, <3>1, Zenon DEF handle_setup, Taken
  <2> QED
    BY <2>1, <2>2, <2>3, Zenon
<1>2. CASE handle_ep_complete
  BY <1>2, Zenon DEF handle_ep_complete, Completion, ci_ep_queue, Flip, hostVars
<1>3. CASE stop_activity \/ NoSetup
  BY <1>3, Zenon DEF stop_activity, NoSetup, driverVars, chipVars, hostVars
<1>4. ASSUME NEW p \in Packets, Setup(p) PROVE Booleans'
  BY <1>4, Zenon DEF Setup, driverVars
<1>5. CASE DataStage \/ StatusStage
  BY <1>5, Zenon DEF DataStage, StatusStage, Moves, driverVars
<1>6. CASE Stalled \/ Abort \/ BusReset \/ UNCHANGED vars
  BY <1>6, Zenon DEF Stalled, Abort, BusReset, driverVars, chipVars, hostVars, vars
<1> QED
  BY <1>1, <1>2, <1>3, <1>4, <1>5, <1>6, Zenon DEF Next, udc_irq

(* A handler that links ep0_req makes a descriptor, and the other way round.*)
LEMMA LinkedStep ==
  ASSUME Linked, [Next]_vars
  PROVE  Linked'
<1> USE DEF Linked
<1>1. CASE handle_setup
  BY <1>1, Zenon DEF handle_setup, Taken, ci_ep_queue, Flip, hostVars
<1>2. CASE handle_ep_complete
  BY <1>2, Zenon DEF handle_ep_complete, Completion, ci_ep_queue, Flip, hostVars
<1>3. CASE stop_activity \/ NoSetup
  BY <1>3, Zenon DEF stop_activity, NoSetup, driverVars, chipVars, hostVars
<1>4. ASSUME NEW p \in Packets, Setup(p) PROVE Linked'
  BY <1>4, Zenon DEF Setup, driverVars
<1>5. CASE DataStage \/ StatusStage
  BY <1>5, Zenon DEF DataStage, StatusStage, Moves, driverVars
<1>6. CASE Stalled \/ Abort \/ BusReset \/ UNCHANGED vars
  BY <1>6, Zenon DEF Stalled, Abort, BusReset, driverVars, chipVars, hostVars, vars
<1> QED
  BY <1>1, <1>2, <1>3, <1>4, <1>5, <1>6, Zenon DEF Next, udc_irq

(* ep0_req is queued exactly while a descriptor has been made for it, and  *)
(* the variables keep their types, at whatever moment the host moves.      *)
THEOREM TypesKept == Spec => []TypeOK
<1>1. Init => Places /\ Booleans /\ Linked
  BY SetAddressType, Zenon DEF Init, Places, Booleans, Linked
<1>2. Init => Counters
  BY CountOn, ControlAssumption, Zenon DEF Init, Counters
<1>3. (Places /\ Booleans /\ Linked /\ Counters) /\ [Next]_vars
        => (Places /\ Booleans /\ Linked /\ Counters)'
  BY PlacesStep, BooleansStep, LinkedStep, CountersStep, Zenon
<1>4. Places /\ Booleans /\ Linked /\ Counters => TypeOK
  BY Zenon DEF Places, Booleans, Linked, Counters, TypeOK
<1> QED
  BY <1>1, <1>2, <1>3, <1>4, PTL DEF Spec

(* One step keeps OneStage when the host waits for the driver's polls.     *)
LEMMA StageStep ==
  ASSUME Places, OneStage, [Next]_vars
  PROVE  OneStage'
<1>1. CASE handle_setup
  BY <1>1, Zenon DEF handle_setup, Taken, ci_ep_queue, OneStage
<1>2. CASE handle_ep_complete
  BY <1>2, Zenon DEF handle_ep_complete, Completion, ci_ep_queue, Flip, Places, OneStage
<1>3. CASE stop_activity
  BY <1>3, Zenon DEF stop_activity, driverVars, OneStage
<1>4. CASE NoSetup
  BY <1>4, Zenon DEF NoSetup, chipVars, OneStage
<1>5. ASSUME NEW p \in Packets, Setup(p) PROVE OneStage'
  BY <1>5, Zenon DEF Setup, InTime, driverVars, OneStage
<1>6. ASSUME NEW d \in {"in", "out"}, Moves(d) PROVE OneStage'
  <2>2. ASSUME host = "in step"
        PROVE  active = {d} /\ dir = d /\ active' = {} /\ epcomp' = {d}
    BY <1>6, <2>2, Zenon DEF Moves, Places, OneStage
  <2> QED
    BY <1>6, <2>2, Zenon DEF Moves, driverVars, OneStage
<1>7. CASE DataStage \/ StatusStage
  BY <1>6, <1>7, StageDirection, Zenon
<1>8. CASE Stalled \/ Abort \/ BusReset \/ UNCHANGED vars
  BY <1>8, Zenon DEF Stalled, Abort, BusReset, driverVars, chipVars, vars, OneStage
<1> QED
  BY <1>1, <1>2, <1>3, <1>4, <1>5, <1>7, <1>8, Zenon DEF Next, udc_irq

(* So OneStage always holds, together with the types.                      *)
LEMMA StageInvariant == Spec => [](Places /\ OneStage)
<1>1. Init => Places /\ OneStage
  BY SetAddressType, Zenon DEF Init, Places, OneStage
<1>2. (Places /\ OneStage) /\ [Next]_vars => (Places /\ OneStage)'
  BY StageStep, PlacesStep, Zenon
<1> QED
  BY <1>1, <1>2, PTL DEF Spec

(* A driver that polls in time has one stage of one transfer in progress.  *)
THEOREM InStep == Spec => []OneStage
BY StageInvariant, PTL

(* The controller's descriptors and completion bits of ep0 are then in the *)
(* direction that the driver believes ep0 to have.                         *)
THEOREM DirectionKept == Spec => []DirectionInSync
<1>1. OneStage => DirectionInSync
  BY Zenon DEF OneStage, DirectionInSync
<1> QED
  BY <1>1, InStep, PTL

(* handle_ep_complete then always finds the request ("list is expected to  *)
(* be not empty").                                                         *)
THEOREM FindsRequest == Spec => []RequestIsThere
<1>1. OneStage => RequestIsThere
  BY Zenon DEF OneStage, RequestIsThere
<1> QED
  BY <1>1, InStep, PTL

(* And ep0 turns to the status stage only after the host has read the data *)
(* ("Data Stage is complete, so flip ep0 dir").                            *)
THEOREM FlipsAfterData == Spec => FlipAfterData
<1>1. OneStage /\ [Next]_vars
        => [host = "in step" /\ handle_ep_complete /\ dir' # dir => dir \notin active]_vars
  BY Zenon DEF OneStage, handle_ep_complete, Completion
<1> QED
  BY <1>1, InStep, PTL DEF Spec, FlipAfterData
=============================================================================
