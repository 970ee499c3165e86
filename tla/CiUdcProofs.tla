---------------------------- MODULE CiUdcProofs ----------------------------
(***************************************************************************)
(* What the driver and the fastboot function keep true of the queues and   *)
(* of the list of requests.                                                *)
(***************************************************************************)
EXTENDS CiUdcTypes

(* A configured function has its two requests, and waits with out_req.      *)
Owned ==
  configured => /\ in_req \in live /\ out_req \in live /\ in_req # out_req
                /\ ep["out"].queue = <<out_req>>

Other == live \ {in_req, out_req}

(* The list holds the requests of the IN queue other than in_req, in the    *)
(* same order.                                                              *)
Shape ==
  \/ front = <<>> /\ InQueue = <<>>
  \/ front = <<>> /\ InQueue = <<in_req>> /\ configured
  \/ \E a \in Other :
       front = <<a>> /\ (InQueue = <<a>> \/ InQueue = <<in_req, a>>) /\ configured
  \/ \E a, b \in Other :
       /\ a # b /\ configured /\ front = <<a, b>>
       /\ \/ InQueue = <<a, b>>
          \/ InQueue = <<in_req, a, b>>
          \/ InQueue = <<a, in_req, b>>

Bookkept == up = "yes" /\ InFit /\ OutFit /\ Owned /\ Shape /\ lost = FALSE

(* The inductive invariant for the queues: the lists are in order while the *)
(* driver is registered, and not used while it is not.                      *)
Queues == Undisturbed => up = "yes" /\ lost = FALSE /\ (registered => Bookkept)

(* A driver that is not registered does nothing until it is.                *)
LEMMA OnlyRegister ==
  ASSUME Typed, ~registered, [Next]_vars
  PROVE  ~configured /\ (Register \/ UNCHANGED vars)
<1>1. /\ ~configured /\ irq = {} /\ epcomp = {} /\ ep["in"].dtd = Idle
      /\ reading = FALSE
  BY Zenon DEF Typed, Quiet
<1>2. ~ReadBits /\ ~CompleteIn /\ ~CompleteOut
  BY <1>1 DEF ReadBits, CompleteIn, CompleteOut
<1>3. ~SetConfiguration /\ ~BusReset /\ ~Unregister
  BY Zenon DEF SetConfiguration, BusReset, Unregister
<1>4. ~Read /\ ~Stop /\ \A k \in Kinds : ~SendCommand(k)
  BY <1>1, Zenon DEF Read, Stop, SendCommand
<1> QED
  BY <1>1, <1>2, <1>3, <1>4, Zenon DEF Next, Driver

(* What has been disturbed stays disturbed.                                 *)
LEMMA DisturbedStays ==
  ASSUME Typed, [Next]_vars, Undisturbed' PROVE Undisturbed
<1>1. resets \in Nat /\ dropped \in BOOLEAN
  BY BoundAssumption DEF Typed, Types, HostTypes, BoolTypes
<1>2. resets' = resets \/ resets' = resets + 1
  <2>1. ASSUME CompleteOut PROVE resets' = resets
    BY <2>1, CompleteOutCases, Zenon DEF Typed, Handled, Crash, hostVars
  <2> QED
    BY <2>1, Zenon DEF Next, Driver, ReadBits, CompleteIn, Crash, SetConfiguration, BusReset,
      Register, Unregister, SendCommand, Read, Stop, vars, hostVars
<1>3. dropped => dropped'
  <2>1. ASSUME CompleteOut PROVE dropped => dropped'
    BY <2>1, CompleteOutCases, Zenon DEF Typed, Handled, Crash, histVars
  <2> QED
    BY <2>1, Zenon DEF Next, Driver, ReadBits, CompleteIn, Crash, SetConfiguration, BusReset,
      Register, Unregister, SendCommand, Read, Stop, vars, histVars
<1> QED
  BY <1>1, <1>2, <1>3 DEF Undisturbed

-----------------------------------------------------------------------------
(* The invariant for the queues, action by action.                          *)

(* The driver finds the request that has been completed.                    *)
LEMMA InIsSound ==
  ASSUME Typed, Bookkept, "in" \in irq \/ "in" \in epcomp
  PROVE  Sound(ep["in"]) /\ InQueue # <<>> /\ configured
<1>1. configured
  BY BusyIsConfigured, Zenon DEF Typed
<1>2. in_req \in live
  BY <1>1, Zenon DEF Bookkept, Owned
<1>3. InQueue # <<>>
  BY Zenon DEF Bookkept, InFit, Fit, InQueue
<1>4. \A i \in DOMAIN InQueue : InQueue[i] \in live
  BY <1>2 DEF Bookkept, Shape, Other
<1> QED
  BY <1>1, <1>3, <1>4, Zenon DEF Sound, InQueue

(* Giving a request back.                                                   *)
LEMMA CompleteInQueues ==
  ASSUME Typed, Bookkept, CompleteIn
  PROVE  Bookkept'
<1>1. "in" \in irq /\ irq' = irq \ {"in"} /\ up = "yes"
  BY Zenon DEF CompleteIn
<1>2. Sound(ep["in"]) /\ InQueue # <<>> /\ configured
  BY <1>1, InIsSound, Zenon
<1>3. /\ ep'["out"] = ep["out"]
      /\ InQueue' = Tail(InQueue)
      /\ ep'["in"].req_primed <=> Tail(InQueue) # <<>>
      /\ Tail(InQueue) = <<>> => ep'["in"].dtd = ep["in"].dtd
  BY <1>2, CompleteInEndpoints, Zenon
<1>4. UNCHANGED <<up, configured, epcomp, in_req, out_req>>
  BY <1>2, Zenon DEF CompleteIn
<1>5. ep["in"].dtd = Idle /\ "in" \notin epcomp
  BY <1>1, Zenon DEF Bookkept, InFit, Fit
<1>6. InFit'
  <2>1. ep'["in"].queue = InQueue' /\ "in" \notin irq' /\ "in" \notin epcomp'
    BY <1>1, <1>4, <1>5, Zenon DEF InQueue
  <2> QED
    BY <1>3, <1>5, <2>1, Zenon DEF InFit, Fit
<1>7. OutFit'
  BY <1>1, <1>3, <1>4, Zenon DEF Bookkept, OutFit, Fit
<1>8. CASE Head(InQueue) = in_req
  <2>1. UNCHANGED <<live, front, lost>>
    BY <1>2, <1>8, Zenon DEF CompleteIn, InQueue
  <2>2. Shape'
    <3>1. Other' = Other
      BY <1>4, <2>1, Zenon DEF Other
    <3>2. CASE front = <<>> /\ InQueue = <<in_req>>
      BY <1>3, <2>1, <3>2 DEF Shape
    <3>3. ASSUME NEW a \in Other, front = <<a>>, InQueue = <<in_req, a>> PROVE Shape'
      <4>1. InQueue' = <<a>>
        BY <1>3, <3>3, TailTwo, Zenon
      <4> QED
        BY <1>2, <1>4, <2>1, <3>1, <3>3, <4>1, Zenon DEF Shape
    <3>4. ASSUME NEW a \in Other, NEW b \in Other, a # b, front = <<a, b>>,
                 InQueue = <<in_req, a, b>>
          PROVE  Shape'
      <4>1. InQueue' = <<a, b>>
        BY <1>3, <3>4, TailThree, Zenon
      <4> QED
        BY <1>2, <1>4, <2>1, <3>1, <3>4, <4>1, Zenon DEF Shape
    <3> QED
      BY <1>2, <1>8, <3>2, <3>3, <3>4 DEF Bookkept, Shape, Other
  <2>3. Owned'
    BY <1>3, <1>4, <2>1, Zenon DEF Bookkept, Owned
  <2> QED
    BY <1>1, <1>4, <1>6, <1>7, <2>1, <2>2, <2>3, Zenon DEF Bookkept
<1>9. CASE Head(InQueue) # in_req
  <2>1. front # <<>> /\ Head(front) \in Other
    BY <1>2, <1>9 DEF Bookkept, Shape
  <2>2. live' = live \ {Head(front)} /\ front' = Tail(front) /\ lost' = lost
    BY <1>2, <1>9, <2>1, Zenon DEF CompleteIn, InQueue
  <2>3. Shape'
    <3>1. CASE \E a \in Other : front = <<a>> /\ InQueue = <<a>>
      BY <1>3, <2>2, <3>1 DEF Shape
    <3>2. ASSUME NEW a \in Other, NEW b \in Other, a # b, front = <<a, b>>,
                 InQueue = <<a, b>> \/ InQueue = <<a, in_req, b>>
          PROVE  Shape'
      <4>1. front' = <<b>> /\ (InQueue' = <<b>> \/ InQueue' = <<in_req, b>>)
        <5>1. front' = <<b>>
          BY <2>2, <3>2, TailTwo, Zenon
        <5>2. InQueue = <<a, b>> => InQueue' = <<b>>
          BY <1>3, TailTwo, Zenon
        <5>3. InQueue = <<a, in_req, b>> => InQueue' = <<in_req, b>>
          BY <1>3, TailThree, Zenon
        <5> QED
          BY <3>2, <5>1, <5>2, <5>3, Zenon
      <4>2. b \in Other'
        BY <1>4, <2>2, <3>2 DEF Other
      <4> QED
        BY <1>2, <1>4, <4>1, <4>2, Zenon DEF Shape
    <3> QED
      BY <1>2, <1>9, <3>1, <3>2 DEF Bookkept, Shape
  <2>4. Owned'
    BY <1>3, <1>4, <2>1, <2>2, Zenon DEF Bookkept, Owned, Other
  <2> QED
    BY <1>1, <1>4, <1>6, <1>7, <2>2, <2>3, <2>4, Zenon DEF Bookkept
<1> QED
  BY <1>8, <1>9, Zenon

(* A list that has just been reset is never followed from a freed rear.     *)
LEMMA AnswersOk ==
  ASSUME Typed, in_req \in Req, NEW s \in Answers(ResetFifo(Now))
  PROVE  s.ok = TRUE
<1> DEFINE Good(y) == y \in AnswerState /\ y.ok = TRUE /\ (y.rear = None \/ y.front # <<>>)
           o == ResetFifo(Now)
<1>1. Good(o)
  BY StartFields, ZenonT(60)
<1>2. ASSUME NEW y, Good(y), NEW r \in Req, NEW m \in Texts
      PROVE  Good(fastboot_tx_write_more(y, r, m))
  <2> DEFINE x == fastboot_tx_write_more(y, r, m)
  <2>1. MoreWritten(x, y, r, m)
    BY <1>2, WriteMoreFields, Zenon
  <2> HIDE DEF x
  <2>2. x.front # <<>>
    BY <1>2, <2>1 DEF MoreWritten, AnswerState
  <2>3. Good(x)
    BY <1>2, <2>1, <2>2, Zenon DEF MoreWritten
  <2> QED
    BY <2>3, Zenon DEF x
<1>3. ASSUME NEW y, Good(y), NEW m \in Texts PROVE Good(fastboot_tx_write(y, m))
  BY <1>3, TxWriteFields, Zenon
<1>4. kind \in {"one", "many", "upload"} /\ cmd \in 0 .. MaxCmd
  BY Zenon DEF Typed, Types, HostTypes
<1>5. ASSUME NEW n \in Length PROVE Message(1, n, TRUE) \in Texts
  BY <1>4 DEF Message, Texts
<1>6. /\ Message(1, 1, FALSE) \in Texts /\ Message(2, 1, TRUE) \in Texts
      /\ Message(2, 1, FALSE) \in Texts /\ Message(3, 1, TRUE) \in Texts
  BY <1>4 DEF Message, Texts
<1> HIDE DEF Good, o
<1>7. ASSUME NEW n \in Length PROVE Good(cb_answer(o, n))
  BY <1>1, <1>3, <1>5, Zenon DEF cb_answer
<1>8. ASSUME NEW a \in Req, NEW b \in Req PROVE Good(cb_getvar_all(o, a, b))
  <2>1. Good(fastboot_tx_write_more(o, a, Message(1, 1, FALSE)))
    BY <1>1, <1>2, <1>6, Zenon
  <2> QED
    BY <1>2, <1>6, <2>1, Zenon DEF cb_getvar_all
<1>9. ASSUME NEW a \in Req, NEW b \in Req PROVE Good(cb_upload(o, a, b))
  <2>1. Good(fastboot_tx_write_more(o, a, Message(1, 1, FALSE)))
    BY <1>1, <1>2, <1>6, Zenon
  <2>2. Good(fastboot_tx_write(fastboot_tx_write_more(o, a, Message(1, 1, FALSE)),
                               Message(2, 1, FALSE)))
    BY <1>3, <1>6, <2>1, Zenon
  <2> QED
    BY <1>2, <1>6, <2>2, Zenon DEF cb_upload
<1>10. Good(s)
  BY <1>4, <1>7, <1>8, <1>9, AnswerCases DEF o
<1> QED
  BY <1>10, Zenon DEF Good

(* rx_handler_command finds out_req, and an answer that it can queue.       *)
LEMMA OutIsAnswered ==
  ASSUME Typed, Bookkept, CompleteOut, Undisturbed'
  PROVE  /\ configured /\ front = <<>> /\ irq = {"out"} /\ irq' = {}
         /\ InQueue = <<>> \/ InQueue = <<in_req>>
         /\ \E s \in AnswerState : Answered(s) /\ Handled(s)
<1>1. irq = {"out"} /\ irq' = {}
  BY Zenon DEF CompleteOut
<1>2. configured /\ in_req \in Req /\ out_req \in Req
  BY <1>1, BusyIsConfigured, Zenon DEF Typed
<1>3. /\ ep["out"].queue = <<out_req>> /\ out_req \in live /\ in_req \in live
      /\ InFit /\ Shape
  BY <1>2, Zenon DEF Bookkept, Owned
<1>4. Sound(ep["out"])
  BY <1>3 DEF Sound
<1>5. PICK s \in Answers(ResetFifo(Now)) : IF s.ok THEN Handled(s) ELSE Crash
  BY <1>4, Zenon DEF CompleteOut
<1>6. s \in AnswerState
  BY <1>2, StartFields, AnswersType, Zenon DEF Typed, Types, HostTypes
<1>7. ASSUME InQueue = <<>> \/ InQueue = <<in_req>> PROVE Answered(s)
  BY <1>2, <1>3, <1>7, AllAnswered, Zenon
<1>8. front = <<>>
  <2>1. CASE Handled(s)
    BY <2>1, Zenon DEF Handled, Undisturbed, Typed, Types, BoolTypes
  <2>2. CASE ~s.ok
    BY <2>2, <1>2, <1>5, AnswersOk, Zenon DEF Typed
  <2> QED
    BY <1>5, <2>1, <2>2, Zenon
<1>9. InQueue = <<>> \/ InQueue = <<in_req>>
  BY <1>3, <1>8, Zenon DEF Shape
<1>10. Answered(s)
  BY <1>7, <1>9, Zenon
<1>11. Handled(s)
  BY <1>5, <1>10, Zenon DEF Answered
<1> QED
  BY <1>1, <1>2, <1>6, <1>8, <1>9, <1>10, <1>11, Zenon

(* Answering a command.                                                     *)
LEMMA CompleteOutQueues ==
  ASSUME Typed, Bookkept, CompleteOut, Undisturbed'
  PROVE  Bookkept'
<1>1. /\ configured /\ front = <<>> /\ irq = {"out"} /\ irq' = {}
      /\ InQueue = <<>> \/ InQueue = <<in_req>>
      /\ \E s \in AnswerState : Answered(s) /\ Handled(s)
  BY OutIsAnswered, Zenon
<1>2. PICK s \in AnswerState : Answered(s) /\ Handled(s)
  BY <1>1, Zenon
<1>3. /\ in_req \in live /\ out_req \in live /\ in_req # out_req
      /\ ep["out"].queue = <<out_req>> /\ ep["out"].dtd = Idle /\ "out" \notin epcomp
  BY <1>1, Zenon DEF Bookkept, Owned, OutFit, Fit
<1>4. live \subseteq Req
  BY Zenon DEF Typed, Types, FuncTypes
<1>5. /\ ep'["in"] = s.e /\ ep'["out"].queue = <<out_req>>
      /\ ep'["out"].req_primed = TRUE /\ ep'["out"].dtd # Idle
  BY <1>2, <1>3, <1>4, HandledEndpoints, ZenonT(60)
<1>6. /\ front' = s.front /\ live' = s.live
      /\ UNCHANGED <<up, configured, epcomp, in_req, out_req, lost>>
  BY <1>2, Zenon DEF Handled
<1>7. OutFit'
  BY <1>1, <1>3, <1>5, <1>6 DEF OutFit, Fit
<1>8. InFit'
  <2>1. s.e.req_primed = TRUE /\ s.e.queue # <<>>
    <3>1. AnsweredOne(s) => s.e.queue # <<>>
      BY DEF AnsweredOne
    <3>2. ASSUME NEW a, NEW b, AnsweredMany(s, a, b) \/ AnsweredUpload(s, a, b)
          PROVE  s.e.queue # <<>>
      <4>1. <<a, b>> # <<>> /\ <<in_req, a, b>> # <<>> /\ <<a, in_req, b>> # <<>>
        BY Zenon
      <4> QED
        BY <3>2, <4>1, Zenon DEF AnsweredMany, AnsweredUpload
    <3> QED
      BY <1>2, <3>1, <3>2, Zenon DEF Answered
  <2>2. "in" \in epcomp => s.e.dtd = Idle
    BY <1>2, Zenon DEF Answered, NextDtd, Bookkept, InFit, Fit
  <2> QED
    BY <1>1, <1>5, <1>6, <2>1, <2>2, Zenon DEF InFit, Fit
<1>9. live \subseteq live'
  BY <1>2, <1>6, ZenonT(60) DEF Answered, AnsweredOne, AnsweredMany, AnsweredUpload
<1>10. Owned'
  BY <1>3, <1>5, <1>6, <1>9, Zenon DEF Owned
<1>11. InQueue' = s.e.queue
  BY <1>5, Zenon DEF InQueue
<1>12. Shape'
  <2>1. CASE AnsweredOne(s)
    BY <1>1, <1>6, <1>11, <2>1, Zenon DEF AnsweredOne, Shape
  <2>2. ASSUME NEW a \in Req \ live, NEW b \in Req \ live, a # b,
               AnsweredMany(s, a, b) \/ AnsweredUpload(s, a, b)
        PROVE  Shape'
    <3>1. a \in Other' /\ b \in Other'
      BY <1>3, <1>6, <2>2, Zenon DEF Other, AnsweredMany, AnsweredUpload
    <3>2. /\ front' = <<a, b>>
          /\ \/ InQueue' = <<a, b>>
             \/ InQueue' = <<in_req, a, b>>
             \/ InQueue' = <<a, in_req, b>>
      BY <1>1, <1>6, <1>11, <2>2, Zenon DEF AnsweredMany, AnsweredUpload
    <3> QED
      BY <1>1, <1>6, <2>2, <3>1, <3>2, Zenon DEF Shape
  <2> QED
    BY <1>2, <2>1, <2>2, Zenon DEF Answered
<1> QED
  BY <1>6, <1>7, <1>8, <1>10, <1>12, Zenon DEF Bookkept

(* The first configuration.                                                 *)
LEMMA ConfigureQueues ==
  ASSUME Typed, Bookkept, SetConfiguration, ~configured
  PROVE  Bookkept'
<1>1. /\ ep'["in"] = Unused /\ ep'["out"].queue = <<out_req'>>
      /\ ep'["out"].req_primed = TRUE /\ ep'["out"].dtd # Idle
      /\ out_req' \in live' /\ in_req' \in live' /\ in_req' # out_req'
  BY ConfigureEndpoints, Zenon
<1>2. /\ epcomp' = {} /\ irq' = {} /\ front' = <<>> /\ up' = "yes" /\ lost' = lost
  BY Zenon DEF SetConfiguration, Typed, Quiet
<1>3. Unused.queue = <<>> /\ Unused.req_primed = FALSE /\ Unused.dtd = Idle
  BY Zenon DEF Unused
<1>4. InFit' /\ OutFit'
  BY <1>1, <1>2, <1>3 DEF InFit, OutFit, Fit
<1>5. Owned' /\ Shape'
  BY <1>1, <1>2, <1>3, Zenon DEF Owned, Shape, InQueue
<1> QED
  BY <1>2, <1>4, <1>5, Zenon DEF Bookkept

(* The start of do_fastboot.                                                *)
LEMMA RegisterQueues ==
  ASSUME Typed, up = "yes", lost = FALSE, ~configured, Register
  PROVE  Bookkept'
<1>1. Unused.queue = <<>> /\ Unused.req_primed = FALSE /\ Unused.dtd = Idle
  BY Zenon DEF Unused
<1>2. epcomp = {} /\ irq = {} /\ front = <<>>
  BY Zenon DEF Typed, Quiet
<1>3. /\ ep'["in"] = Unused /\ ep'["out"] = Unused /\ epcomp' = {} /\ irq' = {}
      /\ front' = <<>> /\ ~configured' /\ up' = "yes" /\ lost' = FALSE
  BY <1>2, Zenon DEF Register, funcVars
<1>4. InFit' /\ OutFit'
  BY <1>1, <1>3, Zenon DEF InFit, OutFit, Fit
<1>5. Owned' /\ Shape'
  BY <1>1, <1>3, Zenon DEF Owned, Shape, InQueue
<1> QED
  BY <1>3, <1>4, <1>5, Zenon DEF Bookkept

(* A command arrives.                                                       *)
LEMMA SendQueues ==
  ASSUME Typed, Bookkept, NEW k, SendCommand(k)
  PROVE  Bookkept'
<1>1. /\ ep' = [ep EXCEPT !["out"].dtd = Idle] /\ ep["out"].dtd # Idle
      /\ epcomp' = epcomp \cup {"out"} /\ irq' = irq
      /\ UNCHANGED <<up, configured, live, in_req, out_req, front, lost>>
  BY Zenon DEF SendCommand, funcVars
<1>2. /\ ep'["in"] = ep["in"] /\ ep'["out"].queue = ep["out"].queue
      /\ ep'["out"].req_primed = ep["out"].req_primed /\ ep'["out"].dtd = Idle
  BY <1>1, HostEndpoints, Zenon
<1>3. "out" \notin epcomp /\ "out" \notin irq /\ ep["out"].req_primed
  BY <1>1, Zenon DEF Bookkept, OutFit, Fit
<1>4. InFit' /\ OutFit'
  BY <1>1, <1>2, <1>3, Zenon DEF Bookkept, InFit, OutFit, Fit
<1>5. Owned' /\ Shape'
  BY <1>1, <1>2, ZenonT(60) DEF Bookkept, Owned, Shape, InQueue, Other
<1> QED
  BY <1>1, <1>4, <1>5, Zenon DEF Bookkept

(* The host reads a message.                                                *)
LEMMA ReadQueues ==
  ASSUME Typed, Bookkept, Read
  PROVE  Bookkept'
<1>1. /\ ep' = [ep EXCEPT !["in"].dtd = Idle] /\ ep["in"].dtd # Idle
      /\ epcomp' = epcomp \cup {"in"} /\ irq' = irq
      /\ UNCHANGED <<up, configured, live, in_req, out_req, front, lost>>
  BY Zenon DEF Read, funcVars
<1>2. /\ ep'["out"] = ep["out"] /\ ep'["in"].queue = ep["in"].queue
      /\ ep'["in"].req_primed = ep["in"].req_primed /\ ep'["in"].dtd = Idle
  BY <1>1, HostEndpoints, Zenon
<1>3. "in" \notin epcomp /\ "in" \notin irq /\ ep["in"].req_primed
  BY <1>1, Zenon DEF Bookkept, InFit, Fit
<1>4. InFit' /\ OutFit'
  BY <1>1, <1>2, <1>3, Zenon DEF Bookkept, InFit, OutFit, Fit
<1>5. Owned' /\ Shape'
  BY <1>1, <1>2, ZenonT(60) DEF Bookkept, Owned, Shape, InQueue, Other
<1> QED
  BY <1>1, <1>4, <1>5, Zenon DEF Bookkept

(* A step that leaves the endpoints and the function alone, and at most     *)
(* moves the completion bits to the driver.                                 *)
LEMMA SameQueues ==
  ASSUME Bookkept, UNCHANGED <<up, configured, ep, live, in_req, out_req, front, lost>>,
         \/ UNCHANGED <<epcomp, irq>>
         \/ irq = {} /\ irq' = epcomp /\ epcomp' = {}
  PROVE  Bookkept'
<1>1. InFit' /\ OutFit'
  BY Zenon DEF Bookkept, InFit, OutFit, Fit
<1>2. Owned' /\ Shape'
  BY Zenon DEF Bookkept, Owned, Shape, InQueue, Other
<1> QED
  BY <1>1, <1>2, Zenon DEF Bookkept

(* Only the first configuration keeps a device undisturbed.                 *)
LEMMA CountedResets ==
  ASSUME Typed, Undisturbed', SetConfiguration \/ BusReset
  PROVE  ~configured
<1>1. resets \in Nat /\ resets' = 0
  BY BoundAssumption DEF Typed, Types, HostTypes, Undisturbed
<1> QED
  BY <1>1 DEF SetConfiguration, BusReset

(* A step of a registered driver, other than its end.                       *)
LEMMA BookkeptStep ==
  ASSUME Typed, Bookkept, registered, Undisturbed', [Next]_vars
  PROVE  Unregister \/ Bookkept'
<1>1. CASE ReadBits
  BY <1>1, SameQueues, Zenon DEF ReadBits, funcVars
<1>2. CASE CompleteIn
  BY <1>2, CompleteInQueues, Zenon
<1>3. CASE CompleteOut
  BY <1>3, CompleteOutQueues, Zenon
<1>4. CASE SetConfiguration
  BY <1>4, CountedResets, ConfigureQueues, Zenon
<1>5. CASE BusReset
  <2>1. ep' = ep /\ epcomp' = epcomp
    BY <1>5, CountedResets, ResetNothing, Zenon
  <2> QED
    BY <1>5, <2>1, SameQueues, Zenon DEF BusReset, funcVars
<1>6. ~Register
  BY Zenon DEF Register
<1>7. ASSUME NEW k \in Kinds, SendCommand(k) PROVE Bookkept'
  BY <1>7, SendQueues, Zenon
<1>8. CASE Read
  BY <1>8, ReadQueues, Zenon
<1>9. CASE Stop
  BY <1>9, SameQueues, Zenon DEF Stop, funcVars
<1>10. CASE UNCHANGED vars
  BY <1>10, SameQueues, Zenon DEF vars, funcVars
<1> QED
  BY <1>1, <1>2, <1>3, <1>4, <1>5, <1>6, <1>7, <1>8, <1>9, <1>10, Zenon DEF Next, Driver

(* Every step keeps the queues and the list as described.                   *)
LEMMA QueuesStep ==
  ASSUME Typed, Queues, [Next]_vars
  PROVE  Queues'
<1> SUFFICES ASSUME Undisturbed'
             PROVE  up' = "yes" /\ lost' = FALSE /\ (registered' => Bookkept')
  BY Zenon DEF Queues
<1>1. up = "yes" /\ lost = FALSE /\ (registered => Bookkept)
  BY DisturbedStays, Zenon DEF Queues
<1>2. CASE registered /\ Unregister
  BY <1>1, <1>2, Zenon DEF Unregister
<1>3. CASE registered /\ ~Unregister
  <2>1. Bookkept'
    BY <1>1, <1>3, BookkeptStep, Zenon
  <2> QED
    BY <2>1, Zenon DEF Bookkept
<1>4. CASE ~registered /\ Register
  <2>1. Bookkept'
    BY <1>1, <1>4, OnlyRegister, RegisterQueues, Zenon
  <2> QED
    BY <2>1, Zenon DEF Bookkept
<1>5. CASE ~registered /\ UNCHANGED vars
  BY <1>1, <1>5, Zenon DEF vars, funcVars
<1> QED
  BY <1>2, <1>3, <1>4, <1>5, OnlyRegister, Zenon

(* The driver is not registered at first.                                   *)
LEMMA QueuesInit == Init => Queues
BY Zenon DEF Init, Queues

(* The invariant holds of every behaviour.                                  *)
LEMMA QueuesInvariant == Spec => [](Typed /\ Queues)
<1>1. (Typed /\ Queues) /\ [Next]_vars => Queues'
  BY QueuesStep, Zenon
<1>2. Typed <=> Types /\ Quiet
  BY Zenon DEF Typed
<1> QED
  BY <1>1, <1>2, QueuesInit, TypesInvariant, PTL DEF Spec

(* Queued requests are allocated and linked once.                           *)
LEMMA QueuesAreSafe == Typed /\ Queues => FreedNotQueued
<1>0. Queues /\ Undisturbed => up = "yes"
  BY Zenon DEF Queues
<1> SUFFICES ASSUME Typed, Queues, Undisturbed, registered PROVE FreedNotQueued
  BY <1>0, Zenon DEF FreedNotQueued
<1>1. Bookkept
  BY Zenon DEF Queues
<1>2. DOMAIN ep = {"in", "out"}
  BY Zenon DEF Typed, Types, ChipTypes
<1>3. Range(ep["out"].queue) \subseteq live /\ IsInjective(ep["out"].queue)
  <2>1. CASE configured
    BY <1>1, <2>1, RangeOne, ZenonT(60) DEF Bookkept, Owned
  <2>2. CASE ~configured
    <3>1. ep["out"].queue = <<>>
      BY <2>2 DEF Typed, Quiet, Unused
    <3> QED
      BY <3>1, RangeNone, Zenon
  <2> QED
    BY <2>1, <2>2, Zenon
<1>4. Range(InQueue) \subseteq live /\ IsInjective(InQueue)
  <2>1. CASE InQueue = <<>>
    BY <2>1, RangeNone, Zenon
  <2>2. configured => in_req \in live
    BY <1>1, Zenon DEF Bookkept, Owned
  <2>3. CASE InQueue = <<in_req>> /\ configured
    BY <2>2, <2>3, RangeOne
  <2>4. ASSUME NEW a \in Other, InQueue = <<a>> \/ InQueue = <<in_req, a>>, configured
        PROVE  Range(InQueue) \subseteq live /\ IsInjective(InQueue)
    <3>1. a # in_req /\ a \in live
      BY Zenon DEF Other
    <3> QED
      BY <2>2, <2>4, <3>1, RangeOne, RangeTwo
  <2>5. ASSUME NEW a \in Other, NEW b \in Other, a # b, configured,
               \/ InQueue = <<a, b>>
               \/ InQueue = <<in_req, a, b>>
               \/ InQueue = <<a, in_req, b>>
        PROVE  Range(InQueue) \subseteq live /\ IsInjective(InQueue)
    <3>1. a # in_req /\ a \in live /\ b # in_req /\ b \in live
      BY Zenon DEF Other
    <3> QED
      BY <2>2, <2>5, <3>1, RangeTwo, RangeThree
  <2> QED
    BY <1>1, <2>1, <2>3, <2>4, <2>5, Zenon DEF Bookkept, Shape
<1> QED
  BY <1>1, <1>2, <1>3, <1>4, Zenon DEF FreedNotQueued, Bookkept, InQueue

(* While the gadget driver is registered, a request is freed only when it   *)
(* is not queued, is never linked twice into a list, and the driver finds a *)
(* request when the controller has completed one, for any heap, any         *)
(* commands, any host and however often do_fastboot is run.                 *)
THEOREM FreedNotQueuedAlways == Spec => []FreedNotQueued
BY QueuesInvariant, QueuesAreSafe, PTL

(* fastboot_fifo_complete finds the request that it frees.                  *)
THEOREM FifoIsFreedAlways == Spec => []FifoIsFreed
<1>1. Typed /\ Queues => FifoIsFreed
  BY Zenon DEF Queues, Bookkept, FifoIsFreed
<1> QED
  BY <1>1, QueuesInvariant, PTL

-----------------------------------------------------------------------------
(* A patient host and the driver take turns.                                *)
Patient == patient /\ resets = 0

Bits == epcomp \cup irq

(* There is a message on the IN endpoint that the host has not read.        *)
Unread == ep["in"].dtd # Idle \/ Len(InQueue) >= 2

(* The host has read the first message, and the request is not given back.  *)
Sent == ep["in"].req_primed /\ ep["in"].dtd = Idle

(* A message that has been read is being given back; a command is handled   *)
(* when nothing is left to be read or to be given back; the host waits      *)
(* while its command or an answer is under way, and not longer.             *)
Turns ==
  /\ dropped = FALSE
  /\ Sent => "in" \in Bits
  /\ "out" \in Bits => reading /\ ~Unread
  /\ "out" \in irq => "in" \notin epcomp
  /\ reading /\ "out" \notin Bits => Unread
  /\ ~reading => ~Unread

(* Only the last message of an answer says that it is the last.             *)
Lasts ==
  Unread => \A j \in 1 .. Len(InQueue) : text[InQueue[j]].last <=> j = Len(InQueue)

(* The controller sends the first message of the queue as it was queued,    *)
(* and what the host has read is what has been given back, or one message   *)
(* more.                                                                    *)
Logs ==
  /\ ep["in"].dtd # Idle => ep["in"].dtd = Filled(Head(InQueue), text)
  /\ Sent => got = Append(given, text[Head(InQueue)])
  /\ ~Sent => got = given

Ordered == Turns /\ Lasts /\ Logs

(* While the driver is registered.  When it is not, a list that was left    *)
(* empty has been given back.                                               *)
Protocol ==
  Patient => /\ dropped = FALSE
             /\ registered => Ordered
             /\ ~registered /\ InQueue = <<>> => got = given

(* A host that is patient was patient, and the queues are in order.         *)
LEMMA PatientStays ==
  ASSUME Typed, [Next]_vars, Patient' PROVE Patient
<1>1. resets \in Nat
  BY BoundAssumption, SMTT(60) DEF Typed, Types, HostTypes
<1>2. (resets' = resets \/ resets' = resets + 1) /\ patient' = patient
  <2>1. ASSUME CompleteOut PROVE resets' = resets /\ patient' = patient
    BY <2>1, CompleteOutCases, Zenon DEF Typed, Handled, Crash, hostVars
  <2> QED
    BY <2>1, Zenon DEF Next, Driver, ReadBits, CompleteIn, Crash, SetConfiguration, BusReset,
      Register, Unregister, SendCommand, Read, Stop, vars, hostVars
<1> QED
  BY <1>1, <1>2 DEF Patient

(* The queues are in order.                                                 *)
LEMMA PatientIsBookkept ==
  ASSUME Queues, Protocol, Patient, registered PROVE Bookkept /\ Ordered
BY Zenon DEF Queues, Protocol, Patient, Undisturbed

(* The length of the queue without its first request.                       *)
LEMMA TailLength ==
  ASSUME Typed, InQueue # <<>>
  PROVE  /\ InQueue \in Seq(Req) /\ Tail(InQueue) \in Seq(Req)
         /\ Len(InQueue) \in Nat \ {0} /\ Len(Tail(InQueue)) = Len(InQueue) - 1
         /\ \A j \in 1 .. Len(Tail(InQueue)) : Tail(InQueue)[j] = InQueue[j + 1]
         /\ Tail(InQueue) = <<>> <=> Len(InQueue) = 1
         /\ Head(InQueue) = InQueue[1] /\ Head(InQueue) \in Req
<1>1. InQueue \in Seq(Req)
  BY Zenon DEF Typed, Types, ChipTypes, Endpoint, InQueue
<1>2. /\ Head(InQueue) = InQueue[1] /\ Head(InQueue) \in Req /\ Tail(InQueue) \in Seq(Req)
      /\ Len(Tail(InQueue)) = Len(InQueue) - 1
      /\ \A j \in 1 .. Len(Tail(InQueue)) : Tail(InQueue)[j] = InQueue[j + 1]
  BY <1>1, TailFacts, Zenon
<1>3. Len(InQueue) \in Nat \ {0}
  BY <1>1, EmptyLength, Zenon
<1>4. Tail(InQueue) = <<>> <=> Len(Tail(InQueue)) = 0
  BY <1>2, EmptyLength, Zenon
<1>5. Tail(InQueue) = <<>> <=> Len(InQueue) = 1
  BY <1>2, <1>3, <1>4
<1> QED
  BY <1>1, <1>2, <1>3, <1>5, Zenon

(* Giving a message back.                                                   *)
LEMMA CompleteInProtocol ==
  ASSUME Typed, Bookkept, Turns, Lasts, Logs, patient, CompleteIn
  PROVE  Turns' /\ Lasts' /\ Logs'
<1> DEFINE q == InQueue
<1>1. "in" \in irq /\ irq' = irq \ {"in"}
  BY Zenon DEF CompleteIn
<1>2. Sound(ep["in"]) /\ q # <<>>
  BY <1>1, InIsSound, Zenon
<1>3. /\ InQueue' = Tail(q)
      /\ ep'["in"].req_primed <=> Tail(q) # <<>>
      /\ Tail(q) = <<>> => ep'["in"].dtd = ep["in"].dtd
      /\ Tail(q) # <<>> => ep'["in"].dtd = Filled(Head(Tail(q)), text)
  BY <1>2, CompleteInEndpoints, Zenon
<1>4. UNCHANGED <<epcomp, text, reading, got, dropped>> /\ given' = Append(given, text[Head(q)])
  BY <1>2, Zenon DEF CompleteIn, hostVars, Record, InQueue
<1>5. ep["in"].dtd = Idle /\ ep["in"].req_primed
  BY <1>1, Zenon DEF Bookkept, InFit, Fit
<1>6. /\ q \in Seq(Req) /\ Tail(q) \in Seq(Req)
      /\ Len(q) \in Nat \ {0} /\ Len(Tail(q)) = Len(q) - 1
      /\ \A j \in 1 .. Len(Tail(q)) : Tail(q)[j] = q[j + 1]
      /\ Tail(q) = <<>> <=> Len(q) = 1
  BY <1>2, TailLength, Zenon
<1> HIDE DEF q
<1>7. Tail(q) # <<>> => ep'["in"].dtd # Idle
  <2>1. text \in Text /\ (Tail(q) # <<>> => Head(Tail(q)) \in Req)
    BY <1>6 DEF Typed, Types, FuncTypes
  <2> QED
    BY <1>3, <2>1, FilledType, Zenon
<1>8. Unread <=> Tail(q) # <<>>
  BY <1>5, <1>6 DEF Unread, q
<1>9. Unread' <=> Tail(q) # <<>>
  <2>1. Tail(q) = <<>> => Len(Tail(q)) = 0
    BY <1>6
  <2> QED
    BY <1>3, <1>5, <1>7, <2>1 DEF Unread
<1>10. ~Sent'
  BY <1>3, <1>7, Zenon DEF Sent
<1>11. Turns'
  BY <1>1, <1>4, <1>8, <1>9, <1>10, Zenon DEF Turns, Bits
<1>12. Lasts'
  <2> SUFFICES ASSUME Unread', NEW j \in 1 .. Len(Tail(q))
               PROVE  text[Tail(q)[j]].last <=> j = Len(Tail(q))
    BY <1>3, <1>4, Zenon DEF Lasts
  <2>1. Tail(q)[j] = q[j + 1] /\ j + 1 \in 1 .. Len(q) /\ (j = Len(Tail(q)) <=> j + 1 = Len(q))
    BY <1>6
  <2>2. text[q[j + 1]].last <=> j + 1 = Len(q)
    BY <1>8, <1>9, <2>1, Zenon DEF Lasts, q
  <2> QED
    BY <2>1, <2>2, Zenon
<1>13. Logs'
  <2>1. got' = given'
    BY <1>4, <1>5, Zenon DEF Logs, Sent, q
  <2>2. ep'["in"].dtd # Idle => ep'["in"].dtd = Filled(Head(InQueue'), text')
    BY <1>3, <1>4, <1>5, Zenon
  <2> QED
    BY <1>10, <2>1, <2>2, Zenon DEF Logs
<1> QED
  BY <1>11, <1>12, <1>13, Zenon

(* Answering a command: nothing is left of the last answer.                 *)
LEMMA AnswerIsAlone ==
  ASSUME Typed, Bookkept, Turns, CompleteOut
  PROVE  InQueue = <<>> /\ front = <<>> /\ ~ep["in"].req_primed /\ reading
<1>1. irq = {"out"}
  BY Zenon DEF CompleteOut
<1>2. reading /\ ~Unread /\ "in" \notin Bits
  BY <1>1, Zenon DEF Turns, Bits
<1>3. ~ep["in"].req_primed
  BY <1>2, Zenon DEF Turns, Sent, Unread
<1>4. InQueue = <<>>
  BY <1>3, Zenon DEF Bookkept, InFit, Fit, InQueue
<1> QED
  BY <1>2, <1>3, <1>4, Zenon DEF Bookkept, Shape

(* Only the last of the messages of an answer says that it is.              *)
LEMMA AnsweredLasts ==
  ASSUME NEW s \in AnswerState, Answered(s), InQueue = <<>>
  PROVE  /\ s.e.queue # <<>>
         /\ \A j \in 1 .. Len(s.e.queue) :
              s.text[s.e.queue[j]].last <=> j = Len(s.e.queue)
<1>1. CASE AnsweredOne(s)
  BY <1>1 DEF AnsweredOne
<1>2. ASSUME NEW a, NEW b, AnsweredMany(s, a, b)
      PROVE  /\ s.e.queue # <<>>
             /\ \A j \in 1 .. Len(s.e.queue) :
                  s.text[s.e.queue[j]].last <=> j = Len(s.e.queue)
  <2>1. s.e.queue = <<a, b>> /\ s.text[a].last = FALSE /\ s.text[b].last = TRUE
    BY <1>2, Zenon DEF AnsweredMany
  <2> QED
    BY <2>1
<1>3. ASSUME NEW a, NEW b, AnsweredUpload(s, a, b)
      PROVE  /\ s.e.queue # <<>>
             /\ \A j \in 1 .. Len(s.e.queue) :
                  s.text[s.e.queue[j]].last <=> j = Len(s.e.queue)
  <2>1. /\ s.e.queue = <<a, in_req, b>> /\ s.text[a].last = FALSE
        /\ s.text[in_req].last = FALSE /\ s.text[b].last = TRUE
    BY <1>3, Zenon DEF AnsweredUpload
  <2> QED
    BY <2>1, SMTT(60)
<1> QED
  BY <1>1, <1>2, <1>3, Zenon DEF Answered

(* What the handling of a command does, for a patient host.                 *)
LEMMA AnswerIsQueued ==
  ASSUME Typed, Bookkept, Turns, Patient, CompleteOut
  PROVE  /\ dropped' = FALSE /\ irq' = {} /\ epcomp' = epcomp /\ "out" \notin epcomp
         /\ reading' = reading /\ got' = got /\ given' = given /\ patient' = patient
         /\ InQueue' # <<>>
         /\ ep'["in"].dtd # Idle /\ ep'["in"].dtd = Filled(Head(InQueue'), text')
         /\ \A j \in 1 .. Len(InQueue') :
              text'[InQueue'[j]].last <=> j = Len(InQueue')
<1>1. InQueue = <<>> /\ front = <<>> /\ ~ep["in"].req_primed /\ dropped = FALSE
  BY AnswerIsAlone, Zenon DEF Turns
<1>2. Undisturbed'
  BY <1>1, CompleteOutCases, ZenonT(60)
     DEF Typed, Handled, Crash, hostVars, histVars, Patient, Undisturbed
<1>3. /\ configured /\ irq = {"out"} /\ irq' = {}
      /\ \E s \in AnswerState : Answered(s) /\ Handled(s)
  BY <1>2, OutIsAnswered, Zenon
<1>4. PICK s \in AnswerState : Answered(s) /\ Handled(s)
  BY <1>3, Zenon
<1>5. /\ out_req \in live /\ ep["out"].queue = <<out_req>> /\ ep["out"].dtd = Idle
      /\ "out" \notin epcomp
  BY <1>3, Zenon DEF Bookkept, Owned, OutFit, Fit
<1>6. live \subseteq Req
  BY Zenon DEF Typed, Types, FuncTypes
<1>7. ep'["in"] = s.e
  BY <1>4, <1>5, <1>6, HandledEndpoints, Zenon
<1>8. /\ text' = s.text /\ dropped' = FALSE /\ epcomp' = epcomp /\ reading' = reading
      /\ got' = got /\ given' = given /\ patient' = patient
  BY <1>1, <1>4, ZenonT(60) DEF Handled, hostVars
<1>9. InQueue' = s.e.queue
  BY <1>7, Zenon DEF InQueue
<1>10. /\ s.e.queue # <<>>
       /\ \A j \in 1 .. Len(s.e.queue) :
            s.text[s.e.queue[j]].last <=> j = Len(s.e.queue)
  BY <1>1, <1>4, AnsweredLasts, Zenon
<1>11. s.e.dtd = Filled(Head(s.e.queue), s.text)
  BY <1>1, <1>4, Zenon DEF Answered, NextDtd
<1>12. Head(s.e.queue) \in Req /\ s.text \in Text
  BY <1>10 DEF AnswerState, Endpoint
<1>13. s.e.dtd # Idle
  BY <1>11, <1>12, FilledType, Zenon
<1> QED
  BY <1>3, <1>5, <1>7, <1>8, <1>9, <1>10, <1>11, <1>13, Zenon

(* Answering a command.                                                     *)
LEMMA CompleteOutProtocol ==
  ASSUME Typed, Bookkept, Turns, Lasts, Logs, Patient, CompleteOut
  PROVE  Turns' /\ Lasts' /\ Logs'
<1>1. /\ dropped' = FALSE /\ irq' = {} /\ epcomp' = epcomp /\ "out" \notin epcomp
      /\ reading' = reading /\ got' = got /\ given' = given
      /\ ep'["in"].dtd # Idle /\ ep'["in"].dtd = Filled(Head(InQueue'), text')
      /\ \A j \in 1 .. Len(InQueue') :
           text'[InQueue'[j]].last <=> j = Len(InQueue')
  BY AnswerIsQueued, Zenon
<1>2. reading /\ ~ep["in"].req_primed
  BY AnswerIsAlone, Zenon
<1>3. Unread' /\ ~Sent' /\ ~Sent
  BY <1>1, <1>2, Zenon DEF Unread, Sent
<1>4. Turns'
  BY <1>1, <1>2, <1>3, Zenon DEF Turns, Bits
<1>5. Lasts'
  BY <1>1, Zenon DEF Lasts
<1>6. Logs'
  BY <1>1, <1>3, Zenon DEF Logs
<1> QED
  BY <1>4, <1>5, <1>6, Zenon

(* What the host reads is the first message.                                *)
LEMMA ReadIsFirst ==
  ASSUME Typed, Bookkept, Logs, patient, Read
  PROVE  /\ InQueue # <<>>
         /\ got' = Append(got, text[Head(InQueue)])
         /\ reading' <=> ~text[Head(InQueue)].last
<1>1. ep["in"].dtd # Idle /\ ep["in"].dtd = Filled(Head(InQueue), text)
  BY Zenon DEF Read, Logs
<1>2. InQueue # <<>>
  BY <1>1, Zenon DEF Bookkept, InFit, Fit, InQueue
<1>3. Head(InQueue) \in Req /\ text \in Text
  BY <1>2, TailLength, Zenon DEF Typed, Types, FuncTypes
<1> DEFINE x == text[Head(InQueue)]
<1>4. x \in Texts
  BY <1>3, Zenon DEF Text
<1>5. ep["in"].dtd.req = Head(InQueue) /\ ep["in"].dtd.len = x.len
  BY <1>1 DEF Filled
<1>6. got' = Append(got, [x EXCEPT !.len = x.len]) /\ reading' = ~[x EXCEPT !.len = x.len].last
  BY <1>5, Zenon DEF Read, Record
<1> HIDE DEF x
<1>7. [x EXCEPT !.len = x.len] = x
  BY <1>4, Zenon DEF Texts
<1>8. got' = Append(got, x)
  BY <1>6, <1>7, Zenon
<1>9. reading' <=> ~x.last
  BY <1>6, <1>7, Zenon
<1> QED
  BY <1>2, <1>8, <1>9, Zenon DEF x

(* The host reads a message.                                                *)
LEMMA ReadProtocol ==
  ASSUME Typed, Bookkept, Turns, Lasts, Logs, patient, Read
  PROVE  Turns' /\ Lasts' /\ Logs'
<1> DEFINE q == InQueue
<1>1. /\ q # <<>> /\ got' = Append(got, text[Head(q)])
      /\ reading' <=> ~text[Head(q)].last
  BY ReadIsFirst, Zenon
<1>2. /\ ep' = [ep EXCEPT !["in"].dtd = Idle] /\ ep["in"].dtd # Idle
      /\ epcomp' = epcomp \cup {"in"} /\ irq' = irq
      /\ UNCHANGED <<text, given, dropped>>
  BY Zenon DEF Read, funcVars, histVars
<1>3. /\ ep'["in"].queue = ep["in"].queue
      /\ ep'["in"].req_primed = ep["in"].req_primed /\ ep'["in"].dtd = Idle
  BY <1>2, HostEndpoints, Zenon
<1>4. InQueue' = q
  BY <1>3, Zenon DEF InQueue
<1>5. Len(q) \in Nat \ {0} /\ Head(q) = q[1]
  BY <1>1, TailLength, Zenon
<1> HIDE DEF q
<1>6. Unread /\ ~Sent
  BY <1>2, Zenon DEF Unread, Sent
<1>7. text[Head(q)].last <=> Len(q) = 1
  <2>1. 1 \in 1 .. Len(q)
    BY <1>5
  <2>2. text[q[1]].last <=> 1 = Len(q)
    BY <1>6, <2>1, Zenon DEF Lasts, q
  <2> QED
    BY <1>5, <2>2, Zenon
<1>8. Unread' <=> Len(q) >= 2
  BY <1>3, <1>4, Zenon DEF Unread
<1>9. Unread' <=> reading'
  <2>1. Len(q) >= 2 <=> ~(Len(q) = 1)
    BY <1>5
  <2> QED
    BY <1>1, <1>7, <1>8, <2>1, Zenon
<1>10. "out" \notin Bits
  BY <1>6, Zenon DEF Turns
<1>11. Turns'
  BY <1>2, <1>9, <1>10, Zenon DEF Turns, Bits
<1>12. Lasts'
  BY <1>2, <1>4, <1>6, Zenon DEF Lasts, q
<1>13. Sent'
  BY <1>2, <1>3, Zenon DEF Sent, Bookkept, InFit, Fit
<1>14. Logs'
  BY <1>1, <1>2, <1>3, <1>4, <1>6, <1>13, Zenon DEF Logs
<1> QED
  BY <1>11, <1>12, <1>14, Zenon

(* Nothing is on the endpoints, and nothing is read.                        *)
Nothing ==
  /\ ep["in"] = Unused /\ epcomp = {} /\ irq = {}
  /\ dropped = FALSE /\ reading = FALSE /\ got = given

(* Then the turns are as they should be.                                    *)
LEMMA EmptyProtocol == Nothing => Turns /\ Lasts /\ Logs
<1> SUFFICES ASSUME Nothing PROVE Turns /\ Lasts /\ Logs
  BY Zenon
<1>1. Unused.queue = <<>> /\ Unused.req_primed = FALSE /\ Unused.dtd = Idle
  BY Zenon DEF Unused
<1>2. ~Unread /\ ~Sent
  BY <1>1 DEF Nothing, Unread, Sent, InQueue
<1> QED
  BY <1>1, <1>2, Zenon DEF Nothing, Turns, Lasts, Logs, Bits

(* A command arrives.                                                       *)
LEMMA SendProtocol ==
  ASSUME Typed, Turns, Lasts, Logs, NEW k, SendCommand(k)
  PROVE  Turns' /\ Lasts' /\ Logs' /\ ep'["in"] = ep["in"]
<1>1. /\ ep' = [ep EXCEPT !["out"].dtd = Idle] /\ epcomp' = epcomp \cup {"out"} /\ irq' = irq
      /\ reading = FALSE /\ reading' = TRUE
      /\ UNCHANGED <<text, got, given, dropped>>
  BY Zenon DEF SendCommand, funcVars, histVars, Typed, Types, BoolTypes
<1>2. ep'["in"] = ep["in"]
  BY <1>1, HostEndpoints, Zenon
<1>3. /\ Unread' <=> Unread
      /\ Sent' <=> Sent
      /\ InQueue' = InQueue
  BY <1>2, Zenon DEF Unread, Sent, InQueue
<1>4. Turns'
  BY <1>1, <1>3, Zenon DEF Turns, Bits
<1> QED
  BY <1>1, <1>2, <1>3, <1>4, Zenon DEF Lasts, Logs

(* A step that leaves the IN endpoint, the host and the messages alone, and *)
(* at most moves the completion bits to the driver.                         *)
LEMMA SameProtocol ==
  ASSUME Turns, Lasts, Logs, UNCHANGED <<ep, text, reading, got, given, dropped>>,
         \/ UNCHANGED <<epcomp, irq>>
         \/ irq = {} /\ irq' = epcomp /\ epcomp' = {}
  PROVE  Turns' /\ Lasts' /\ Logs'
<1>1. /\ Unread' <=> Unread
      /\ Sent' <=> Sent
      /\ InQueue' = InQueue /\ Bits' = Bits
  BY Zenon DEF Unread, Sent, InQueue, Bits
<1>2. Turns'
  BY <1>1, Zenon DEF Turns
<1> QED
  BY <1>1, <1>2, Zenon DEF Lasts, Logs

(* Every step of a patient host's system keeps the turns, but for the end   *)
(* of do_fastboot.                                                          *)
LEMMA OrderedStep ==
  ASSUME Typed, Bookkept, Ordered, Patient, Patient', registered, [Next]_vars
  PROVE  Unregister \/ Ordered'
<1> SUFFICES ASSUME ~Unregister PROVE Turns' /\ Lasts' /\ Logs'
  BY Zenon DEF Ordered
<1>0. Patient /\ Bookkept /\ Turns /\ Lasts /\ Logs /\ patient
  BY Zenon DEF Ordered, Patient
<1>1. CASE ReadBits
  BY <1>0, <1>1, SameProtocol, Zenon DEF ReadBits, funcVars, hostVars, histVars
<1>2. CASE CompleteIn
  BY <1>0, <1>2, CompleteInProtocol, Zenon
<1>3. CASE CompleteOut
  BY <1>0, <1>3, CompleteOutProtocol, Zenon
<1>4. CASE SetConfiguration \/ BusReset
  <2>1. ~configured
    <3>1. Undisturbed'
      BY <1>0, <1>4, Zenon DEF Patient, Undisturbed, Turns, SetConfiguration, BusReset, histVars
    <3> QED
      BY <1>4, <3>1, CountedResets, Zenon
  <2>2. ep["in"] = Unused /\ epcomp = {} /\ irq = {}
    <3>1. ep = [in |-> Unused, out |-> Unused] /\ epcomp = {} /\ irq = {}
      BY <2>1, Zenon DEF Typed, Quiet
    <3> QED
      BY <3>1
  <2>3. got = given
    BY <1>0, <2>2, SMTT(60) DEF Logs, Sent, Unused
  <2>4. ep'["in"] = Unused /\ epcomp' = {}
    BY <1>4, <2>1, <2>2, ConfigureEndpoints, ResetNothing, Zenon DEF SetConfiguration
  <2>5. irq' = {} /\ dropped' = FALSE /\ reading' = FALSE /\ got' = given'
    BY <1>0, <1>4, <2>2, <2>3, ZenonT(60) DEF SetConfiguration, BusReset, histVars, Turns
  <2>6. Nothing'
    BY <2>4, <2>5, Zenon DEF Nothing
  <2> QED
    BY <2>6, EmptyProtocol, PTL
<1>5. ~Register
  BY Zenon DEF Register
<1>6. ASSUME NEW k \in Kinds, SendCommand(k) PROVE Turns' /\ Lasts' /\ Logs'
  BY <1>0, <1>6, SendProtocol, Zenon
<1>7. CASE Read
  BY <1>0, <1>7, ReadProtocol, Zenon
<1>8. CASE Stop
  BY <1>0, <1>8, Zenon DEF Stop
<1>9. CASE UNCHANGED vars
  BY <1>0, <1>9, SameProtocol, Zenon DEF vars, funcVars, hostVars, histVars
<1> QED
  BY <1>1, <1>2, <1>3, <1>4, <1>5, <1>6, <1>7, <1>8, <1>9, Zenon DEF Next, Driver

(* The end of do_fastboot changes no list.                                  *)
LEMMA UnregisterKeepsList ==
  ASSUME Typed, Unregister
  PROVE  InQueue' = InQueue /\ UNCHANGED <<text, got, given, dropped>> /\ ~registered'
<1>1. ep' = [e \in {"in", "out"} |-> [ep[e] EXCEPT !.dtd = Idle]]
  BY Zenon DEF Unregister, Typed, Types, ChipTypes
<1>2. ep["in"] \in Endpoint
  BY Zenon DEF Typed, Types, ChipTypes
<1>3. InQueue' = InQueue
  BY <1>1, <1>2, Zenon DEF Endpoint, InQueue
<1> QED
  BY <1>3, Zenon DEF Unregister, histVars

(* What has been read from a list that is empty has been given back.        *)
LEMMA EmptyIsGiven ==
  ASSUME Bookkept, Ordered, InQueue = <<>> PROVE got = given
<1>1. ~Sent
  BY Zenon DEF Bookkept, InFit, Fit, InQueue, Sent
<1> QED
  BY <1>1, Zenon DEF Ordered, Logs

(* Every step keeps the protocol.                                           *)
LEMMA ProtocolStep ==
  ASSUME Typed, Queues, Protocol, [Next]_vars
  PROVE  Protocol'
<1> SUFFICES ASSUME Patient'
             PROVE  /\ dropped' = FALSE
                    /\ registered' => Ordered'
                    /\ ~registered' /\ InQueue' = <<>> => got' = given'
  BY Zenon DEF Protocol
<1>0. Patient /\ dropped = FALSE
  BY PatientStays, Zenon DEF Protocol
<1>1. CASE registered
  <2>1. Bookkept /\ Ordered
    BY <1>0, <1>1, PatientIsBookkept, Zenon
  <2>2. CASE Unregister
    BY <1>0, <2>1, <2>2, UnregisterKeepsList, EmptyIsGiven, Zenon
  <2>3. CASE ~Unregister
    <3>1. Ordered'
      BY <1>0, <1>1, <2>1, <2>3, OrderedStep, Zenon
    <3>2. registered'
      <4>1. ASSUME CompleteOut PROVE registered' = registered
        BY <4>1, CompleteOutCases, Zenon DEF Typed, Handled, Crash
      <4> QED
        BY <1>1, <2>3, <4>1, Zenon DEF Next, Driver, ReadBits, CompleteIn, Crash,
          SetConfiguration, BusReset, Register, SendCommand, Read, Stop, vars
    <3> QED
      BY <3>1, <3>2, Zenon DEF Ordered, Turns
  <2> QED
    BY <2>2, <2>3, Zenon
<1>2. CASE ~registered /\ Register
  <2>1. epcomp = {} /\ irq = {} /\ reading = FALSE
    BY <1>2, OnlyRegister, Zenon DEF Typed, Quiet
  <2>2. Nothing' /\ registered'
    BY <1>0, <1>2, <2>1, Zenon DEF Register, Nothing
  <2>3. (Nothing => Ordered)'
    BY EmptyProtocol, PTL DEF Ordered
  <2> QED
    BY <1>0, <1>2, <2>2, <2>3, Zenon DEF Register
<1>3. CASE ~registered /\ UNCHANGED vars
  <2>1. UNCHANGED <<registered, dropped, got, given, ep>>
    BY <1>3, Zenon DEF vars, hostVars, histVars
  <2> QED
    BY <1>0, <1>3, <2>1, Zenon DEF Protocol, InQueue
<1> QED
  BY <1>1, <1>2, <1>3, OnlyRegister, Zenon

(* The whole inductive invariant.                                           *)
Inductive == Typed /\ Queues /\ Protocol

(* It holds of every behaviour.                                             *)
LEMMA InductiveInvariant == Spec => []Inductive
<1>1. Init => Protocol
  BY Zenon DEF Init, Protocol
<1>2. (Typed /\ Queues /\ Protocol) /\ [Next]_vars => Protocol'
  BY ProtocolStep, Zenon
<1> QED
  BY <1>1, <1>2, QueuesInvariant, PTL DEF Spec, Inductive

(* The list is empty when rx_handler_command resets it, if the host reads   *)
(* every answer.                                                            *)
THEOREM ListIsEmptyAlways == Spec => []ListIsEmpty
<1>1. Inductive => ListIsEmpty
  BY Zenon DEF Inductive, Protocol, Patient, ListIsEmpty
<1> QED
  BY <1>1, InductiveInvariant, PTL

-----------------------------------------------------------------------------
(* The IN endpoint implements RequestQueue.                                 *)
Messages(q) == [i \in 1 .. Len(q) |-> text[q[i]]]

(* The messages of a list are a sequence.                                   *)
LEMMA MessagesType ==
  ASSUME Typed, NEW q \in Seq(Req)
  PROVE  Messages(q) \in Seq(Texts) /\ Len(Messages(q)) = Len(q)
<1>1. \A i \in 1 .. Len(q) : text[q[i]] \in Texts
  BY DEF Typed, Types, FuncTypes, Text
<1> QED
  BY <1>1 DEF Messages

(* Nothing of what is queued has been sent.                                 *)
LEMMA PendingUnsent ==
  ASSUME Typed, ~Sent PROVE Pending = Messages(InQueue)
<1>1. InQueue \in Seq(Req) /\ Len(InQueue) \in Nat
  BY DEF Typed, Types, ChipTypes, Endpoint, InQueue
<1>2. Pending = [i \in 1 .. Len(InQueue) - 0 |-> text[InQueue[i + 0]]]
  BY ZenonT(60) DEF Pending, Sent, InQueue
<1>3. 1 .. Len(InQueue) - 0 = 1 .. Len(InQueue) /\ \A i \in 1 .. Len(InQueue) : i + 0 = i
  BY <1>1
<1> QED
  BY <1>2, <1>3, Zenon DEF Messages

(* The first message has been.                                              *)
LEMMA PendingSent ==
  ASSUME Typed, Sent, InQueue # <<>> PROVE Pending = Messages(Tail(InQueue))
<1>1. /\ Len(Tail(InQueue)) = Len(InQueue) - 1
      /\ \A j \in 1 .. Len(Tail(InQueue)) : Tail(InQueue)[j] = InQueue[j + 1]
  BY TailLength, Zenon
<1>2. Pending = [i \in 1 .. Len(InQueue) - 1 |-> text[InQueue[i + 1]]]
  BY Zenon DEF Pending, Sent, InQueue
<1> QED
  BY <1>1, <1>2, Zenon DEF Messages

(* What is left when the first message has been sent.                       *)
LEMMA MessagesTail ==
  ASSUME Typed, InQueue # <<>>
  PROVE  /\ Messages(InQueue) # <<>>
         /\ Head(Messages(InQueue)) = text[Head(InQueue)]
         /\ Tail(Messages(InQueue)) = Messages(Tail(InQueue))
<1> DEFINE q == InQueue
           m == Messages(q)
           n == Messages(Tail(q))
<1>1. /\ q \in Seq(Req) /\ Tail(q) \in Seq(Req)
      /\ Len(q) \in Nat \ {0} /\ Len(Tail(q)) = Len(q) - 1
      /\ \A j \in 1 .. Len(Tail(q)) : Tail(q)[j] = q[j + 1]
      /\ Head(q) = q[1]
  BY TailLength, Zenon
<1> HIDE DEF q
<1>2. m \in Seq(Texts) /\ Len(m) = Len(q) /\ n \in Seq(Texts) /\ Len(n) = Len(q) - 1
  BY <1>1, MessagesType, Zenon
<1>3. \A i \in 1 .. Len(q) : m[i] = text[q[i]]
  BY Zenon DEF Messages
<1>4. \A i \in 1 .. Len(Tail(q)) : n[i] = text[Tail(q)[i]]
  BY Zenon DEF Messages
<1> HIDE DEF m, n
<1>5. m # <<>>
  BY <1>1, <1>2, Zenon
<1>6. /\ Tail(m) \in Seq(Texts) /\ Len(Tail(m)) = Len(m) - 1
      /\ \A i \in 1 .. Len(Tail(m)) : Tail(m)[i] = m[i + 1]
  BY <1>2, <1>5, TailFacts, Zenon
<1>7. \A i \in 1 .. Len(Tail(m)) : Tail(m)[i] = n[i]
  BY <1>1, <1>2, <1>3, <1>4, <1>6, SMTT(60)
<1>8. Tail(m) = n
  BY <1>2, <1>6, <1>7, SeqEqual, Zenon
<1>9. Head(m) = text[Head(q)]
  BY <1>1, <1>2, <1>3
<1> QED
  BY <1>5, <1>8, <1>9, Zenon DEF q, m, n

(* A step maps to a step of RequestQueue, or to none.                       *)
Mapped == Promise!Next \/ UNCHANGED Promise!vars

(* Each of the ways to map.                                                 *)
LEMMA MappedBy ==
  ASSUME \/ Pending' = Pending /\ got' = got /\ given' = given
         \/ /\ Len(Pending) < Len(Pending') /\ SubSeq(Pending', 1, Len(Pending)) = Pending
            /\ got' = got /\ given' = given
         \/ /\ Pending # <<>> /\ got' = Append(got, Head(Pending)) /\ Pending' = Tail(Pending)
            /\ given' = given
         \/ /\ Len(given) < Len(got) /\ given' = Append(given, got[Len(given) + 1])
            /\ Pending' = Pending /\ got' = got
         \/ /\ Pending = <<>> /\ given = got /\ Pending' = <<>> /\ got' = <<>> /\ given' = <<>>
  PROVE  Mapped
BY Zenon DEF Mapped, Promise!Next, Promise!vars, Promise!Queue, Promise!Send,
  Promise!GiveBack, Promise!Enable

(* The messages that are pending depend on the endpoint and the texts only. *)
LEMMA SamePending == ASSUME UNCHANGED <<ep, text>> PROVE Pending' = Pending
BY Zenon DEF Pending

(* Giving a request back is GiveBack.                                       *)
LEMMA CompleteInMaps ==
  ASSUME Typed, Typed', Bookkept, Logs, patient, CompleteIn
  PROVE  /\ Len(given) < Len(got) /\ given' = Append(given, got[Len(given) + 1])
         /\ Pending' = Pending /\ got' = got
<1> DEFINE q == InQueue
           x == text[Head(q)]
<1>1. "in" \in irq
  BY Zenon DEF CompleteIn
<1>2. Sound(ep["in"]) /\ q # <<>>
  BY <1>1, InIsSound, Zenon
<1>3. /\ InQueue' = Tail(q)
      /\ ep'["in"].req_primed <=> Tail(q) # <<>>
      /\ Tail(q) # <<>> => ep'["in"].dtd = Filled(Head(Tail(q)), text)
  BY <1>2, CompleteInEndpoints, Zenon
<1>4. Sent
  BY <1>1, Zenon DEF Bookkept, InFit, Fit, Sent
<1>5. got' = got /\ text' = text /\ given' = Append(given, x)
  BY <1>2, Zenon DEF CompleteIn, hostVars, Record, InQueue
<1>6. got = Append(given, x) /\ given \in Seq(Texts)
  BY <1>4, Zenon DEF Logs, Typed, Types, LogTypes
<1>7. Len(given) < Len(got) /\ got[Len(given) + 1] = x
  BY <1>6, SMTT(60)
<1>8. Tail(q) \in Seq(Req) /\ text \in Text
  BY <1>2, TailLength, Zenon DEF Typed, Types, FuncTypes
<1>9. ~Sent'
  <2>1. Tail(q) # <<>> => Head(Tail(q)) \in Req
    BY <1>8
  <2> HIDE DEF q
  <2>2. Tail(q) # <<>> => ep'["in"].dtd # Idle
    BY <1>3, <1>8, <2>1, FilledType, Zenon
  <2> QED
    BY <1>3, <2>2, Zenon DEF Sent
<1>10. Pending = Messages(Tail(q))
  BY <1>2, <1>4, PendingSent, Zenon
<1>11. (Typed /\ ~Sent => Pending = Messages(InQueue))'
  BY PendingUnsent, PTL
<1>12. Messages(InQueue)' = Messages(Tail(q))
  BY <1>3, <1>5, Zenon DEF Messages
<1> QED
  BY <1>5, <1>7, <1>9, <1>10, <1>11, <1>12, Zenon

(* Answering a command is Queue.                                            *)
LEMMA CompleteOutMaps ==
  ASSUME Typed, Typed', Bookkept, Turns, Patient, CompleteOut
  PROVE  /\ Len(Pending) < Len(Pending') /\ SubSeq(Pending', 1, Len(Pending)) = Pending
         /\ got' = got /\ given' = given
<1>1. InQueue = <<>> /\ ~ep["in"].req_primed
  BY AnswerIsAlone, Zenon
<1>2. InQueue' # <<>> /\ ep'["in"].dtd # Idle /\ got' = got /\ given' = given
  BY AnswerIsQueued, Zenon
<1>3. ~Sent /\ ~Sent'
  BY <1>1, <1>2, Zenon DEF Sent
<1>4. Pending = Messages(InQueue) /\ Pending' = Messages(InQueue)'
  <2>1. (Typed /\ ~Sent => Pending = Messages(InQueue))'
    BY PendingUnsent, PTL
  <2> QED
    BY <1>3, <2>1, PendingUnsent, Zenon
<1>5. Pending = <<>>
  BY <1>1, <1>4 DEF Messages
<1>6. InQueue' \in Seq(Req)
  BY Zenon DEF Typed, Types, ChipTypes, Endpoint, InQueue
<1>7. Len(Pending') = Len(InQueue') /\ Pending' \in Seq(Texts)
  <2>1. \A i \in 1 .. Len(InQueue') : text'[InQueue'[i]] \in Texts
    BY <1>6 DEF Typed, Types, FuncTypes, Text
  <2>2. Pending' = [i \in 1 .. Len(InQueue') |-> text'[InQueue'[i]]]
    BY <1>4, Zenon DEF Messages
  <2> QED
    BY <1>6, <2>1, <2>2
<1>8. Len(Pending') \in Nat \ {0}
  BY <1>2, <1>6, <1>7, EmptyLength, Zenon
<1>9. Len(Pending) = 0 /\ SubSeq(Pending', 1, 0) = <<>>
  BY <1>5, <1>7
<1> QED
  BY <1>2, <1>5, <1>8, <1>9

(* Reading a message is Send.                                               *)
LEMMA ReadMaps ==
  ASSUME Typed, Typed', Bookkept, Logs, patient, Read
  PROVE  /\ Pending # <<>> /\ got' = Append(got, Head(Pending)) /\ Pending' = Tail(Pending)
         /\ given' = given
<1>1. InQueue # <<>> /\ got' = Append(got, text[Head(InQueue)])
  BY ReadIsFirst, Zenon
<1>2. /\ ep' = [ep EXCEPT !["in"].dtd = Idle] /\ ep["in"].dtd # Idle
      /\ text' = text /\ given' = given
  BY Zenon DEF Read, funcVars, histVars
<1>3. /\ ep'["in"].queue = ep["in"].queue
      /\ ep'["in"].req_primed = ep["in"].req_primed /\ ep'["in"].dtd = Idle
  BY <1>2, HostEndpoints, Zenon
<1>4. ~Sent /\ Sent' /\ InQueue' = InQueue
  BY <1>2, <1>3, Zenon DEF Sent, Bookkept, InFit, Fit, InQueue
<1>5. Pending = Messages(InQueue)
  BY <1>4, PendingUnsent, Zenon
<1>6. (Typed /\ Sent /\ InQueue # <<>> => Pending = Messages(Tail(InQueue)))'
  BY PendingSent, PTL
<1>7. Messages(Tail(InQueue))' = Messages(Tail(InQueue))
  BY <1>2, <1>4, Zenon DEF Messages
<1> QED
  BY <1>1, <1>2, <1>4, <1>5, <1>6, <1>7, MessagesTail, Zenon

(* An endpoint with nothing on it has nothing pending.                      *)
LEMMA NothingPending == InQueue = <<>> => Pending = <<>>
<1> SUFFICES ASSUME InQueue = <<>> PROVE Pending = <<>>
  BY Zenon
<1>1. \A n \in {0, 1} : 1 .. 0 - n = {}
  OBVIOUS
<1>2. \E n \in {0, 1} : Pending = [i \in 1 .. Len(InQueue) - n |-> text[InQueue[i + n]]]
  BY Zenon DEF Pending, InQueue
<1>3. Len(InQueue) = 0
  OBVIOUS
<1>4. PICK n \in {0, 1} : Pending = [i \in 1 .. 0 - n |-> text[InQueue[i + n]]]
  BY <1>2, <1>3, Zenon
<1>5. Pending = [i \in {} |-> text[InQueue[i + n]]]
  BY <1>1, <1>4, Zenon
<1> QED
  BY <1>5

(* Every step of a registered driver that keeps the promise maps to a step  *)
(* or to none.                                                              *)
LEMMA RegisteredMaps ==
  ASSUME Typed, Typed', Bookkept, Ordered, registered, Kept, Kept', [Next]_vars
  PROVE  Mapped
<1>0. Patient /\ Patient' /\ Turns /\ Lasts /\ Logs /\ patient
  BY Zenon DEF Kept, Patient, Ordered
<1>1. ASSUME UNCHANGED <<ep, text, got, given>> PROVE Mapped
  BY <1>1, SamePending, MappedBy, Zenon
<1>2. CASE ReadBits
  BY <1>1, <1>2, Zenon DEF ReadBits, funcVars, hostVars, histVars
<1>3. CASE CompleteIn
  BY <1>0, <1>3, CompleteInMaps, MappedBy, Zenon
<1>4. CASE CompleteOut
  BY <1>0, <1>4, CompleteOutMaps, MappedBy, Zenon
<1>5. CASE SetConfiguration \/ BusReset
  <2>1. ~configured
    <3>1. Undisturbed'
      BY <1>0, <1>5, Zenon
         DEF Patient, Undisturbed, Turns, SetConfiguration, BusReset, histVars
    <3> QED
      BY <1>5, <3>1, CountedResets, Zenon
  <2>2. ep["in"] = Unused
    <3>1. ep = [in |-> Unused, out |-> Unused]
      BY <2>1, Zenon DEF Typed, Quiet
    <3> QED
      BY <3>1
  <2>3. ep'["in"] = Unused
    BY <1>5, <2>1, <2>2, ConfigureEndpoints, ResetNothing, ZenonT(60)
  <2>4. InQueue = <<>> /\ InQueue' = <<>>
    <3>1. Unused.queue = <<>>
      BY DEF Unused
    <3> QED
      BY <2>2, <2>3, <3>1, Zenon DEF InQueue
  <2>5. Pending = <<>> /\ Pending' = <<>>
    <3>1. (InQueue = <<>> => Pending = <<>>)'
      BY NothingPending, PTL
    <3> QED
      BY <2>4, <3>1, NothingPending, Zenon
  <2>6. got' = got /\ given' = given
    BY <1>5, Zenon DEF SetConfiguration, BusReset, histVars
  <2> QED
    BY <2>5, <2>6, MappedBy, Zenon
<1>6. CASE Unregister
  <2>1. InQueue' = InQueue /\ UNCHANGED <<got, given>> /\ ~registered'
    BY <1>6, UnregisterKeepsList, Zenon
  <2>2. InQueue = <<>> /\ InQueue' = <<>>
    BY <2>1, Zenon DEF Kept, InQueue
  <2>3. Pending = <<>> /\ Pending' = <<>>
    <3>1. (InQueue = <<>> => Pending = <<>>)'
      BY NothingPending, PTL
    <3> QED
      BY <2>2, <3>1, NothingPending, Zenon
  <2> QED
    BY <2>1, <2>3, MappedBy, Zenon
<1>7. ASSUME NEW k \in Kinds, SendCommand(k) PROVE Mapped
  <2>1. ep'["in"] = ep["in"]
    BY <1>0, <1>7, SendProtocol, Zenon
  <2>2. text' = text /\ got' = got /\ given' = given
    BY <1>7, Zenon DEF SendCommand, funcVars, histVars
  <2>3. Pending' = Pending
    BY <2>1, <2>2, Zenon DEF Pending
  <2> QED
    BY <2>2, <2>3, MappedBy, Zenon
<1>8. CASE Read
  BY <1>0, <1>8, ReadMaps, MappedBy, Zenon
<1>9. ~Stop /\ ~Register
  BY <1>0, Zenon DEF Stop, Register
<1>10. CASE UNCHANGED vars
  BY <1>1, <1>10, Zenon DEF vars, funcVars, hostVars, histVars
<1> QED
  BY <1>2, <1>3, <1>4, <1>5, <1>6, <1>7, <1>8, <1>9, <1>10, Zenon DEF Next, Driver

(* So does the start of do_fastboot: it is Enable.                          *)
LEMMA StepMaps ==
  ASSUME Inductive, Inductive', Kept, Kept', [Next]_vars
  PROVE  Mapped
<1>0. Typed /\ Typed' /\ Queues /\ Protocol /\ Patient
  BY Zenon DEF Inductive, Kept, Patient
<1>1. CASE registered
  BY <1>0, <1>1, PatientIsBookkept, RegisteredMaps, Zenon
<1>2. CASE ~registered /\ Register
  <2>1. InQueue = <<>> /\ got = given
    BY <1>0, <1>2, Zenon DEF Kept, Protocol, InQueue
  <2>2. InQueue' = <<>> /\ got' = <<>> /\ given' = <<>>
    BY <1>2, Zenon DEF Register, InQueue, Unused
  <2>3. Pending = <<>> /\ Pending' = <<>>
    <3>1. (InQueue = <<>> => Pending = <<>>)'
      BY NothingPending, PTL
    <3> QED
      BY <2>1, <2>2, <3>1, NothingPending, Zenon
  <2> QED
    BY <2>1, <2>2, <2>3, MappedBy, Zenon
<1>3. CASE ~registered /\ UNCHANGED vars
  <2>1. UNCHANGED <<ep, text, got, given>>
    BY <1>3, Zenon DEF vars, funcVars, hostVars, histVars
  <2> QED
    BY <2>1, SamePending, MappedBy, Zenon
<1> QED
  BY <1>0, <1>1, <1>2, <1>3, OnlyRegister, Zenon

(* The IN endpoint implements the queue that linux/usb/gadget.h promises,   *)
(* for a patient host, while the device is not reset and the driver not     *)
(* unregistered in the middle of an answer: messages are sent in the order  *)
(* and with the text of usb_ep_queue, and each is given back once, after it *)
(* has been sent.                                                           *)
THEOREM QueueImplemented == Spec => ImplementsQueue
<1>1. Init => Promise!Init
  <2> SUFFICES ASSUME Init PROVE Promise!Init
    BY Zenon
  <2>1. InQueue = <<>> /\ got = <<>> /\ given = <<>>
    BY Zenon DEF Init, InQueue, Unused
  <2> QED
    BY <2>1, NothingPending, Zenon DEF Promise!Init
<1>2. Inductive /\ Inductive' /\ [Next]_vars =>
        [Kept /\ Kept' => Promise!Next]_(Promise!vars)
  BY StepMaps, Zenon DEF Mapped
<1> QED
  BY <1>1, <1>2, InductiveInvariant, PTL DEF Spec, ImplementsQueue
=============================================================================
