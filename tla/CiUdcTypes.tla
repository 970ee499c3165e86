---------------------------- MODULE CiUdcTypes -----------------------------
(***************************************************************************)
(* Facts about short sequences and about the operators on an endpoint's    *)
(* list, the types of CiUdc's variables, and what the answers to commands  *)
(* and the steps do to the endpoints.                                      *)
(***************************************************************************)
EXTENDS CiUdc, TLAPS

(* Two lists are equal when they have the same length and elements.         *)
LEMMA SeqEqual ==
  ASSUME NEW S, NEW s \in Seq(S), NEW t \in Seq(S), Len(s) = Len(t),
         \A i \in 1 .. Len(s) : s[i] = t[i]
  PROVE  s = t
OBVIOUS

(* Only the empty list has length 0.                                        *)
LEMMA EmptyLength ==
  ASSUME NEW S, NEW s \in Seq(S) PROVE Len(s) \in Nat /\ (s = <<>> <=> Len(s) = 0)
OBVIOUS

(* A list without its first.                                                *)
LEMMA TailFacts ==
  ASSUME NEW S, NEW s \in Seq(S), s # <<>>
  PROVE  /\ Head(s) \in S /\ Head(s) = s[1] /\ Tail(s) \in Seq(S)
         /\ Len(Tail(s)) = Len(s) - 1
         /\ \A i \in 1 .. Len(Tail(s)) : Tail(s)[i] = s[i + 1]
OBVIOUS

(* What appending makes of an empty list.                                   *)
LEMMA AppendOne == ASSUME NEW a PROVE Append(<<>>, a) = <<a>>
OBVIOUS

(* Of one request and another.                                              *)
LEMMA AppendTwo == ASSUME NEW a, NEW b PROVE Append(<<a>>, b) = <<a, b>>
<1>1. <<a>> \in Seq({a, b}) /\ <<a, b>> \in Seq({a, b})
  OBVIOUS
<1>2. Append(<<a>>, b) \in Seq({a, b}) /\ Len(Append(<<a>>, b)) = 2
  BY <1>1
<1>3. Append(<<a>>, b)[1] = a /\ Append(<<a>>, b)[2] = b
  BY <1>1
<1>4. \A i \in 1 .. 2 : Append(<<a>>, b)[i] = <<a, b>>[i]
  BY <1>3
<1> QED
  BY <1>1, <1>2, <1>4, SeqEqual, Zenon

(* Of two requests and another.                                             *)
LEMMA AppendThree == ASSUME NEW a, NEW b, NEW c PROVE Append(<<a, b>>, c) = <<a, b, c>>
<1>1. <<a, b>> \in Seq({a, b, c}) /\ <<a, b, c>> \in Seq({a, b, c})
  OBVIOUS
<1>2. Append(<<a, b>>, c) \in Seq({a, b, c}) /\ Len(Append(<<a, b>>, c)) = 3
  BY <1>1
<1>3. /\ Append(<<a, b>>, c)[1] = a /\ Append(<<a, b>>, c)[2] = b
      /\ Append(<<a, b>>, c)[3] = c
  BY <1>1
<1>4. \A i \in 1 .. 3 : Append(<<a, b>>, c)[i] = <<a, b, c>>[i]
  BY <1>3
<1> QED
  BY <1>1, <1>2, <1>4, SeqEqual, Zenon

(* And what is left of a list without its first.                            *)
LEMMA TailTwo == ASSUME NEW a, NEW b PROVE Tail(<<a, b>>) = <<b>>
<1>1. <<b>> \in Seq({a, b}) /\ Tail(<<a, b>>) \in Seq({a, b}) /\ Len(Tail(<<a, b>>)) = 1
  OBVIOUS
<1>2. \A i \in 1 .. 1 : Tail(<<a, b>>)[i] = <<b>>[i]
  OBVIOUS
<1> QED
  BY <1>1, <1>2, SeqEqual, Zenon

(* Of three requests, two are left.                                         *)
LEMMA TailThree == ASSUME NEW a, NEW b, NEW c PROVE Tail(<<a, b, c>>) = <<b, c>>
<1>1. /\ <<b, c>> \in Seq({a, b, c}) /\ Tail(<<a, b, c>>) \in Seq({a, b, c})
      /\ Len(Tail(<<a, b, c>>)) = 2
  OBVIOUS
<1>2. \A i \in 1 .. 2 : Tail(<<a, b, c>>)[i] = <<b, c>>[i]
  OBVIOUS
<1> QED
  BY <1>1, <1>2, SeqEqual, Zenon

(* Taking a request from a list leaves a list.                              *)
LEMMA UnlinkedType == ASSUME NEW S, NEW q \in Seq(S), NEW r PROVE Unlinked(q, r) \in Seq(S)
<1>1. CASE r \in Range(q)
  <2> DEFINE k == CHOOSE k \in DOMAIN q : q[k] = r
  <2>1. k \in 1 .. Len(q)
    BY <1>1 DEF Range
  <2>2. Unlinked(q, r) = SubSeq(q, 1, k - 1) \o SubSeq(q, k + 1, Len(q))
    BY <1>1, Zenon DEF Unlinked
  <2> HIDE DEF k
  <2>3. SubSeq(q, 1, k - 1) \in Seq(S) /\ SubSeq(q, k + 1, Len(q)) \in Seq(S)
    BY <2>1
  <2> QED
    BY <2>2, <2>3
<1> QED
  BY <1>1, Zenon DEF Unlinked

(* Nothing is taken from an empty list.                                     *)
LEMMA UnlinkedEmpty == ASSUME NEW a PROVE Unlinked(<<>>, a) = <<>>
BY DEF Unlinked, Range

(* A request that is not in a list is not taken from it.                    *)
LEMMA UnlinkedNone == ASSUME NEW a, NEW b, a # b PROVE Unlinked(<<b>>, a) = <<b>>
BY DEF Unlinked, Range

(* One that is alone is.                                                    *)
LEMMA UnlinkedOnly == ASSUME NEW a PROVE Unlinked(<<a>>, a) = <<>>
<1>1. a \in Range(<<a>>) /\ (CHOOSE k \in DOMAIN <<a>> : <<a>>[k] = a) = 1
  BY DEF Range
<1>2. SubSeq(<<a>>, 1, 0) = <<>> /\ SubSeq(<<a>>, 2, 1) = <<>>
  OBVIOUS
<1> QED
  BY <1>1, <1>2 DEF Unlinked

(* One that is first is, and the other stays.                               *)
LEMMA UnlinkedHead == ASSUME NEW a, NEW b, a # b PROVE Unlinked(<<a, b>>, a) = <<b>>
<1>1. a \in Range(<<a, b>>) /\ (CHOOSE k \in DOMAIN <<a, b>> : <<a, b>>[k] = a) = 1
  BY DEF Range
<1>2. SubSeq(<<a, b>>, 1, 0) = <<>>
  OBVIOUS
<1>3. SubSeq(<<a, b>>, 2, 2) = <<b>>
  <2>1. <<a, b>> \in Seq({a, b}) /\ <<b>> \in Seq({a, b})
    OBVIOUS
  <2>2. SubSeq(<<a, b>>, 2, 2) \in Seq({a, b}) /\ Len(SubSeq(<<a, b>>, 2, 2)) = 1
    BY <2>1
  <2>3. \A i \in 1 .. 1 : SubSeq(<<a, b>>, 2, 2)[i] = <<b>>[i]
    BY <2>1
  <2> QED
    BY <2>1, <2>2, <2>3, SeqEqual, Zenon
<1>4. Unlinked(<<a, b>>, a) = SubSeq(<<a, b>>, 1, 0) \o SubSeq(<<a, b>>, 2, 2)
  BY <1>1, SMTT(60) DEF Unlinked
<1>5. <<>> \o <<b>> = <<b>>
  OBVIOUS
<1> QED
  BY <1>2, <1>3, <1>4, <1>5, Zenon

(* What is in a short list, and when it has no request twice.               *)
LEMMA RangeOne == ASSUME NEW a PROVE Range(<<a>>) = {a} /\ IsInjective(<<a>>)
BY DEF Range, IsInjective

(* Nothing is in an empty list.                                             *)
LEMMA RangeNone == Range(<<>>) = {} /\ IsInjective(<<>>)
BY DEF Range, IsInjective

(* Of two requests.                                                         *)
LEMMA RangeTwo ==
  ASSUME NEW a, NEW b, a # b PROVE Range(<<a, b>>) = {a, b} /\ IsInjective(<<a, b>>)
BY DEF Range, IsInjective

(* Of three requests.                                                       *)
LEMMA RangeThree ==
  ASSUME NEW a, NEW b, NEW c, a # b, a # c, b # c
  PROVE  Range(<<a, b, c>>) = {a, b, c} /\ IsInjective(<<a, b, c>>)
BY DEF Range, IsInjective

-----------------------------------------------------------------------------
(* The operators on an endpoint, field by field.                            *)
Text == [Req -> Texts]
Filled(r, t) == [req |-> r, len |-> t[r].len]
NextDtd(e, q, t) == IF e.req_primed THEN e.dtd ELSE Filled(Head(q), t)

(* The length of a message, and a descriptor for it.                        *)
LEMMA FilledType ==
  ASSUME NEW r \in Req, NEW t \in Text
  PROVE  Filled(r, t) \in Descriptor /\ Filled(r, t) # Idle
<1>1. Filled(r, t) \in [req : Req, len : Length \cup {0, 1}]
  BY Zenon DEF Filled, Text, Texts
<1>2. Filled(r, t).req = r /\ Idle.req = None
  BY Zenon DEF Filled, Idle
<1> QED
  BY <1>1, <1>2, NoneAssumption, Zenon DEF Descriptor

(* ci_ep_submit_next_request primes the endpoint for the first request.     *)
LEMMA SubmitFields ==
  ASSUME NEW e \in Endpoint, e.queue # <<>>, NEW t \in Text
  PROVE  /\ ci_ep_submit_next_request(e, t) \in Endpoint
         /\ ci_ep_submit_next_request(e, t).queue = e.queue
         /\ ci_ep_submit_next_request(e, t).req_primed = TRUE
         /\ ci_ep_submit_next_request(e, t).dtd = Filled(Head(e.queue), t)
<1>1. Head(e.queue) \in Req
  BY DEF Endpoint
<1>2. Filled(Head(e.queue), t) \in Descriptor
  BY <1>1, FilledType, Zenon
<1> HIDE DEF Descriptor
<1> QED
  BY <1>2, Zenon DEF ci_ep_submit_next_request, Filled, Endpoint

(* ci_ep_queue adds a request at the end, and primes an endpoint that is    *)
(* not primed.                                                              *)
LEMMA QueueFields ==
  ASSUME NEW e \in Endpoint, NEW r \in Req, NEW t \in Text
  PROVE  /\ ci_ep_queue(e, r, t) \in Endpoint
         /\ ci_ep_queue(e, r, t).queue = Append(e.queue, r)
         /\ ci_ep_queue(e, r, t).req_primed = TRUE
         /\ ci_ep_queue(e, r, t).dtd = NextDtd(e, Append(e.queue, r), t)
<1> DEFINE added == [e EXCEPT !.queue = Append(@, r)]
<1>1. /\ added \in Endpoint /\ added.queue = Append(e.queue, r)
      /\ added.req_primed = e.req_primed /\ added.dtd = e.dtd
  BY DEF Endpoint
<1>2. added.queue # <<>>
  BY <1>1 DEF Endpoint
<1>3. ci_ep_queue(e, r, t) =
        IF e.req_primed THEN added ELSE ci_ep_submit_next_request(added, t)
  BY Zenon DEF ci_ep_queue
<1>4. e.req_primed \in BOOLEAN
  BY Zenon DEF Endpoint
<1> HIDE DEF added
<1>5. CASE e.req_primed
  BY <1>1, <1>3, <1>5, Zenon DEF NextDtd
<1>6. CASE ~e.req_primed
  <2> DEFINE x == ci_ep_submit_next_request(added, t)
  <2>1. ci_ep_queue(e, r, t) = x
    BY <1>3, <1>6, Zenon
  <2>2. /\ x \in Endpoint /\ x.queue = added.queue /\ x.req_primed = TRUE
        /\ x.dtd = Filled(Head(added.queue), t)
    BY <1>1, <1>2, SubmitFields, Zenon
  <2> HIDE DEF x
  <2> QED
    BY <1>1, <1>6, <2>1, <2>2, Zenon DEF NextDtd
<1> QED
  BY <1>4, <1>5, <1>6, Zenon

(* ci_ep_dequeue leaves req_primed and the descriptor.                      *)
LEMMA DequeueFields ==
  ASSUME NEW e \in Endpoint, NEW r
  PROVE  /\ ci_ep_dequeue(e, r) \in Endpoint
         /\ ci_ep_dequeue(e, r).queue = Unlinked(e.queue, r)
         /\ ci_ep_dequeue(e, r).req_primed = e.req_primed
         /\ ci_ep_dequeue(e, r).dtd = e.dtd
<1>1. Unlinked(e.queue, r) \in Seq(Req)
  BY UnlinkedType, Zenon DEF Endpoint
<1> QED
  BY <1>1, Zenon DEF ci_ep_dequeue, Endpoint

(* handle_ep_complete takes the first request, and primes the endpoint for  *)
(* the next, if there is one.                                               *)
LEMMA CompletedFields ==
  ASSUME NEW e \in Endpoint, e.queue # <<>>, NEW t \in Text
  PROVE  /\ Completed(e, t) \in Endpoint
         /\ Completed(e, t).queue = Tail(e.queue)
         /\ Completed(e, t).req_primed <=> Tail(e.queue) # <<>>
         /\ Tail(e.queue) = <<>> => Completed(e, t).dtd = e.dtd
         /\ Tail(e.queue) # <<>> => Completed(e, t).dtd = Filled(Head(Tail(e.queue)), t)
<1> DEFINE rest == [e EXCEPT !.queue = Tail(@), !.req_primed = FALSE]
<1>1. /\ rest \in Endpoint /\ rest.queue = Tail(e.queue)
      /\ rest.req_primed = FALSE /\ rest.dtd = e.dtd
  <2>1. e.queue \in Seq(Req) /\ Tail(e.queue) \in Seq(Req)
    BY DEF Endpoint
  <2> HIDE DEF Descriptor
  <2> QED
    BY <2>1, Zenon DEF Endpoint
<1>2. Completed(e, t) =
        IF rest.queue = <<>> THEN rest ELSE ci_ep_submit_next_request(rest, t)
  BY Zenon DEF Completed
<1> HIDE DEF rest
<1>3. CASE rest.queue = <<>>
  BY <1>1, <1>2, <1>3, Zenon
<1>4. CASE rest.queue # <<>>
  BY <1>1, <1>2, <1>4, SubmitFields, Zenon
<1> QED
  BY <1>3, <1>4, Zenon

-----------------------------------------------------------------------------
(* The answers.                                                             *)
AnswerState ==
  [e : Endpoint, text : Text, front : Seq(Req), rear : Req \cup {None},
   live : SUBSET Req, ok : BOOLEAN]

(* fastboot_tx_write puts in_req, with its new text, at the end of the list.*)
LEMMA TxWriteFields ==
  ASSUME in_req \in Req, NEW s \in AnswerState, NEW m \in Texts
  PROVE  LET x == fastboot_tx_write(s, m) IN
         /\ x \in AnswerState
         /\ x.text = [s.text EXCEPT ![in_req] = m]
         /\ x.e.queue = Append(Unlinked(s.e.queue, in_req), in_req)
         /\ x.e.req_primed = TRUE
         /\ x.e.dtd = NextDtd(s.e, x.e.queue, x.text)
         /\ x.front = s.front /\ x.rear = s.rear /\ x.live = s.live /\ x.ok = s.ok
<1> DEFINE t == [s.text EXCEPT ![in_req] = m]
           d == ci_ep_dequeue(s.e, in_req)
           n == ci_ep_queue(d, in_req, t)
           x == fastboot_tx_write(s, m)
<1>1. s.e \in Endpoint /\ s.text \in Text
  BY Zenon DEF AnswerState
<1>2. t \in Text
  BY <1>1, Zenon DEF Text
<1>3. /\ d \in Endpoint /\ d.queue = Unlinked(s.e.queue, in_req)
      /\ d.req_primed = s.e.req_primed /\ d.dtd = s.e.dtd
  BY <1>1, DequeueFields, Zenon
<1> HIDE DEF t, d
<1>4. /\ n \in Endpoint /\ n.queue = Append(d.queue, in_req) /\ n.req_primed = TRUE
      /\ n.dtd = NextDtd(d, n.queue, t)
  BY <1>2, <1>3, QueueFields, ZenonT(60)
<1>5. x = [s EXCEPT !.text = t, !.e = n]
  BY Zenon DEF fastboot_tx_write, t, d
<1> HIDE DEF n, x
<1>6. /\ x \in AnswerState /\ x.text = t /\ x.e = n
      /\ x.front = s.front /\ x.rear = s.rear /\ x.live = s.live /\ x.ok = s.ok
  BY <1>2, <1>4, <1>5, Zenon DEF AnswerState
<1> QED
  <2>1. x.e.dtd = NextDtd(s.e, x.e.queue, x.text)
    BY <1>3, <1>4, <1>6, Zenon DEF NextDtd
  <2>2. x.text = [s.text EXCEPT ![in_req] = m]
    BY <1>6, Zenon DEF t
  <2> QED
    BY <1>3, <1>4, <1>6, <2>1, <2>2, Zenon DEF x

(* fastboot_tx_write_more takes a request from the heap, and puts it at the *)
(* end of both lists.                                                       *)
MoreWritten(x, s, r, m) ==
  /\ x \in AnswerState
  /\ x.text = [s.text EXCEPT ![r] = m]
  /\ x.e.queue = Append(s.e.queue, r)
  /\ x.e.req_primed = TRUE
  /\ x.e.dtd = NextDtd(s.e, x.e.queue, x.text)
  /\ x.front = Append(s.front, r) /\ x.rear = r /\ x.live = s.live \cup {r}
  /\ s.ok = TRUE /\ (s.rear = None \/ s.front # <<>>) => x.ok = TRUE

(* It does.                                                                 *)
LEMMA WriteMoreFields ==
  ASSUME NEW s \in AnswerState, NEW r \in Req, NEW m \in Texts
  PROVE  MoreWritten(fastboot_tx_write_more(s, r, m), s, r, m)
<1> DEFINE t == [s.text EXCEPT ![r] = m]
           n == ci_ep_queue(s.e, r, t)
           x == fastboot_tx_write_more(s, r, m)
           f == Append(s.front, r)
           l == s.live \cup {r}
           k == s.ok /\ (s.rear # None => s.front # <<>>)
<1>1. s.e \in Endpoint /\ s.text \in Text /\ s.front \in Seq(Req) /\ s.live \in SUBSET Req
      /\ s.rear \in Req \cup {None}
  BY Zenon DEF AnswerState
<1>2. t \in Text
  BY <1>1, Zenon DEF Text
<1>3. f \in Seq(Req) /\ l \in SUBSET Req
  BY <1>1
<1>4. k \in BOOLEAN
  BY Zenon DEF AnswerState
<1> HIDE DEF t, f, l, k
<1>5. /\ n \in Endpoint /\ n.queue = Append(s.e.queue, r) /\ n.req_primed = TRUE
      /\ n.dtd = NextDtd(s.e, n.queue, t)
  BY <1>1, <1>2, QueueFields, ZenonT(60)
<1>6. x = [s EXCEPT !.text = t, !.live = l, !.front = f, !.rear = r, !.ok = k, !.e = n]
  BY Zenon DEF fastboot_tx_write_more, t, f, l, k
<1> HIDE DEF n, x
<1>7. /\ x \in AnswerState /\ x.text = t /\ x.e = n /\ x.live = l /\ x.front = f
      /\ x.rear = r /\ x.ok = k
  BY <1>2, <1>3, <1>4, <1>5, <1>6, Zenon DEF AnswerState
<1> QED
  <2>1. x.e.dtd = NextDtd(s.e, x.e.queue, x.text)
    BY <1>5, <1>7, Zenon
  <2>2. x.text = [s.text EXCEPT ![r] = m]
    BY <1>7, Zenon DEF t
  <2>3. s.ok = TRUE /\ (s.rear = None \/ s.front # <<>>) => x.ok = TRUE
    BY <1>7, Zenon DEF k
  <2>4. x.front = Append(s.front, r) /\ x.rear = r /\ x.live = s.live \cup {r}
    BY <1>7, Zenon DEF f, l
  <2> QED
    BY <1>5, <1>7, <2>1, <2>2, <2>3, <2>4, Zenon DEF x, MoreWritten

(* The answer to a command is one of three.                                 *)
LEMMA AnswerCases ==
  ASSUME NEW s, NEW x \in Answers(s), kind \in {"one", "many", "upload"}
  PROVE  \/ kind = "one" /\ \E n \in Length : x = cb_answer(s, n)
         \/ kind = "many" /\ \E a, b \in Req \ live : a # b /\ x = cb_getvar_all(s, a, b)
         \/ kind = "upload" /\ \E a, b \in Req \ live : a # b /\ x = cb_upload(s, a, b)
<1>1. CASE kind = "one"
  BY <1>1, Zenon DEF Answers
<1> DEFINE pairs == {p \in (Req \ live) \X (Req \ live) : p[1] # p[2]}
<1>2. CASE kind = "many"
  <2>1. PICK p \in pairs : x = cb_getvar_all(s, p[1], p[2])
    BY <1>2, Zenon DEF Answers
  <2> QED
    BY <1>2, <2>1, Zenon
<1>3. CASE kind = "upload"
  <2>1. PICK p \in pairs : x = cb_upload(s, p[1], p[2])
    BY <1>3, Zenon DEF Answers
  <2> QED
    BY <1>3, <2>1, Zenon
<1> QED
  BY <1>1, <1>2, <1>3, Zenon

(* Every answer leaves the endpoint, the texts and the lists well formed.   *)
LEMMA AnswersType ==
  ASSUME in_req \in Req, cmd \in 0 .. MaxCmd, kind \in {"one", "many", "upload"},
         NEW s \in AnswerState, NEW x \in Answers(s)
  PROVE  x \in AnswerState
<1>1. ASSUME NEW y \in AnswerState, NEW m \in Texts PROVE fastboot_tx_write(y, m) \in AnswerState
  BY <1>1, TxWriteFields, Zenon
<1>2. ASSUME NEW y \in AnswerState, NEW r \in Req, NEW m \in Texts
      PROVE  fastboot_tx_write_more(y, r, m) \in AnswerState
  BY <1>2, WriteMoreFields, Zenon DEF MoreWritten
<1> DEFINE M1 == Message(1, 1, FALSE)
           M2 == Message(2, 1, TRUE)
           M3 == Message(2, 1, FALSE)
           M4 == Message(3, 1, TRUE)
<1>3. M1 \in Texts /\ M2 \in Texts /\ M3 \in Texts /\ M4 \in Texts
  BY DEF Message, Texts
<1>4. ASSUME NEW n \in Length PROVE Message(1, n, TRUE) \in Texts
  BY DEF Message, Texts
<1> HIDE DEF M1, M2, M3, M4
<1>5. ASSUME NEW n \in Length PROVE cb_answer(s, n) \in AnswerState
  BY <1>1, <1>4, Zenon DEF cb_answer
<1>6. ASSUME NEW a \in Req, NEW b \in Req PROVE cb_getvar_all(s, a, b) \in AnswerState
  <2>1. fastboot_tx_write_more(s, a, M1) \in AnswerState
    BY <1>2, <1>3, Zenon
  <2>2. fastboot_tx_write_more(fastboot_tx_write_more(s, a, M1), b, M2) \in AnswerState
    BY <1>2, <1>3, <2>1, Zenon
  <2> QED
    BY <2>2, Zenon DEF cb_getvar_all, M1, M2
<1>7. ASSUME NEW a \in Req, NEW b \in Req PROVE cb_upload(s, a, b) \in AnswerState
  <2> DEFINE h == fastboot_tx_write_more(s, a, M1)
             i == fastboot_tx_write(h, M3)
  <2>1. h \in AnswerState
    BY <1>2, <1>3, Zenon
  <2> HIDE DEF h
  <2>2. i \in AnswerState
    BY <1>1, <1>3, <2>1, Zenon
  <2> HIDE DEF i
  <2>3. fastboot_tx_write_more(i, b, M4) \in AnswerState
    BY <1>2, <1>3, <2>2, Zenon
  <2> QED
    BY <2>3, Zenon DEF cb_upload, h, i, M1, M3, M4
<1> QED
  BY <1>5, <1>6, <1>7, AnswerCases

-----------------------------------------------------------------------------
(* The type invariant in parts, and what a device that is not configured    *)
(* looks like.                                                              *)
Quiet ==
  /\ configured => registered
  /\ ~configured => /\ irq = {} /\ epcomp = {} /\ front = <<>> /\ reading = FALSE
                    /\ ep["in"].dtd = Idle /\ ep["out"].dtd = Idle
  /\ registered /\ ~configured => ep = [in |-> Unused, out |-> Unused]

(* How far the host is.                                                     *)
HostTypes ==
  /\ cmd \in 0 .. MaxCmd /\ stops \in 0 .. MaxStop /\ resets \in 0 .. MaxReset
  /\ kind \in {"one", "many", "upload"}

(* The Booleans.                                                            *)
BoolTypes ==
  /\ patient \in BOOLEAN /\ registered \in BOOLEAN /\ configured \in BOOLEAN
  /\ lost \in BOOLEAN
  /\ reading \in BOOLEAN /\ dropped \in BOOLEAN

(* The controller and its driver.                                           *)
ChipTypes ==
  /\ up \in {"yes", "no"} /\ epcomp \subseteq {"in", "out"} /\ irq \subseteq {"in", "out"}
  /\ ep \in [{"in", "out"} -> Endpoint]

(* The function.                                                            *)
FuncTypes ==
  /\ live \subseteq Req /\ text \in Text
  /\ in_req \in Req \cup {None} /\ out_req \in Req \cup {None}
  /\ in_req # None <=> configured
  /\ out_req # None <=> configured
  /\ front \in Seq(Req) /\ rear \in Req \cup {None}

(* The histories.                                                           *)
LogTypes == got \in Seq(Texts) /\ given \in Seq(Texts)

Types == HostTypes /\ BoolTypes /\ ChipTypes /\ FuncTypes /\ LogTypes
Typed == Types /\ Quiet

(* The parts are the type invariant.                                        *)
LEMMA TypesAreTypeOK == Types => TypeOK
BY Zenon DEF Types, HostTypes, BoolTypes, ChipTypes, FuncTypes, LogTypes, Text, TypeOK

(* A function that has completion bits to handle, or a descriptor, has its  *)
(* two requests.                                                            *)
LEMMA BusyIsConfigured ==
  ASSUME Types, Quiet, irq # {} \/ epcomp # {} \/ ep["in"].dtd # Idle \/ ep["out"].dtd # Idle
  PROVE  configured /\ in_req \in Req /\ out_req \in Req
<1>1. configured
  BY Zenon DEF Quiet
<1> QED
  BY <1>1, Zenon DEF Types, FuncTypes

(* An empty endpoint is one.                                                *)
LEMMA UnusedType == Unused \in Endpoint
BY DEF Unused, Endpoint, Descriptor

(* rx_handler_command ends with a well-formed state of the function, unless *)
(* the driver uses memory that is not its own.                              *)
LEMMA CompleteOutCases ==
  ASSUME Types, Quiet, CompleteOut
  PROVE  \/ Crash /\ irq' = {}
         \/ /\ Sound(ep["out"]) /\ irq = {"out"} /\ irq' = {}
            /\ \E s \in Answers(ResetFifo(Now)) : s \in AnswerState /\ Handled(s)
<1>1. irq = {"out"} /\ irq' = {}
  BY Zenon DEF CompleteOut
<1>2. configured /\ in_req \in Req
  BY <1>1, BusyIsConfigured, Zenon
<1> DEFINE n == ResetFifo(Now)
<1>3. n \in AnswerState
  <2>1. Now \in AnswerState
    <3>1. /\ ep["in"] \in Endpoint /\ text \in Text /\ front \in Seq(Req)
          /\ rear \in Req \cup {None} /\ live \in SUBSET Req
      BY Zenon DEF Types, FuncTypes, ChipTypes
    <3> QED
      BY <3>1, Zenon DEF Now, AnswerState
  <2> QED
    <3>1. n = [Now EXCEPT !.front = <<>>, !.rear = None]
      BY Zenon DEF ResetFifo
    <3>2. <<>> \in Seq(Req) /\ None \in Req \cup {None}
      OBVIOUS
    <3> HIDE DEF n
    <3> QED
      BY <2>1, <3>1, <3>2, Zenon DEF AnswerState
<1> HIDE DEF n
<1>4. ASSUME NEW s \in Answers(n) PROVE s \in AnswerState
  BY <1>2, <1>3, <1>4, AnswersType, Zenon DEF Types, HostTypes
<1>5. CASE ~Sound(ep["out"])
  BY <1>1, <1>5, Zenon DEF CompleteOut
<1>6. CASE Sound(ep["out"])
  <2>1. PICK s \in Answers(n) : IF s.ok THEN Handled(s) ELSE Crash
    BY <1>6, Zenon DEF CompleteOut, n
  <2> QED
    BY <1>1, <1>4, <1>6, <2>1, Zenon DEF n
<1> QED
  BY <1>5, <1>6, Zenon

(* A counter that is below its bound can be counted on.                     *)
LEMMA CountOn == \A m \in Nat : 0 \in 0 .. m /\ \A n \in 0 .. m : n < m => n + 1 \in 0 .. m
OBVIOUS

(* An active descriptor belongs to a request.                               *)
LEMMA DtdRequest ==
  ASSUME Types, NEW e \in {"in", "out"}, ep[e].dtd # Idle
  PROVE  ep[e].dtd.req \in Req /\ ep[e].dtd.len \in Length \cup {0, 1}
<1>1. ep[e].dtd \in Descriptor
  BY Zenon DEF Types, ChipTypes, Endpoint
<1> QED
  BY <1>1, Zenon DEF Descriptor

(* Every step keeps the types of the host's variables.                      *)
LEMMA HostTypesStep ==
  ASSUME Types, Quiet, [Next]_vars
  PROVE  HostTypes'
<1>0. HostTypes
  BY Zenon DEF Types
<1> USE <1>0
<1>1. CASE ReadBits
  BY <1>1, Zenon DEF ReadBits, hostVars, HostTypes
<1>2. CASE CompleteIn
  BY <1>2, Zenon DEF CompleteIn, Crash, hostVars, HostTypes
<1>3. CASE CompleteOut
  BY <1>3, CompleteOutCases, Zenon DEF Handled, Crash, hostVars, HostTypes
<1>4. CASE SetConfiguration
  BY <1>4, CountOn, BoundAssumption, Zenon DEF SetConfiguration, HostTypes
<1>5. CASE BusReset
  BY <1>5, CountOn, BoundAssumption, Zenon DEF BusReset, HostTypes
<1>6. CASE Unregister
  BY <1>6, Zenon DEF Unregister, HostTypes
<1>7. ASSUME NEW k \in Kinds, SendCommand(k) PROVE HostTypes'
  BY <1>7, CountOn, BoundAssumption, KindsAssumption, Zenon DEF SendCommand, HostTypes
<1>8. CASE Read
  BY <1>8, Zenon DEF Read, HostTypes
<1>9. CASE Stop
  BY <1>9, CountOn, BoundAssumption, Zenon DEF Stop, HostTypes
<1>10. CASE UNCHANGED vars
  BY <1>10, Zenon DEF vars, hostVars, HostTypes
<1>11. CASE Register
  BY <1>11, Zenon DEF Register, HostTypes
<1> QED
  BY <1>1, <1>2, <1>3, <1>4, <1>5, <1>6, <1>7, <1>8, <1>9, <1>10, <1>11, Zenon DEF Next, Driver

(* And the Booleans.                                                        *)
LEMMA BoolTypesStep ==
  ASSUME Types, Quiet, [Next]_vars
  PROVE  BoolTypes'
<1>0. BoolTypes
  BY Zenon DEF Types
<1> USE <1>0 DEF BoolTypes
<1>1. CASE ReadBits
  BY <1>1, Zenon DEF ReadBits, funcVars, hostVars, histVars
<1>2. CASE CompleteIn
  BY <1>2, Zenon DEF CompleteIn, Crash, funcVars, hostVars, histVars
<1>3. CASE CompleteOut
  BY <1>3, CompleteOutCases, Zenon DEF Handled, Crash, funcVars, hostVars, histVars
<1>4. CASE SetConfiguration
  BY <1>4, Zenon DEF SetConfiguration, histVars
<1>5. CASE BusReset
  BY <1>5, Zenon DEF BusReset, funcVars, histVars
<1>6. CASE Unregister
  BY <1>6, Zenon DEF Unregister, histVars
<1>7. ASSUME NEW k \in Kinds, SendCommand(k) PROVE BoolTypes'
  BY <1>7, Zenon DEF SendCommand, funcVars, histVars
<1>8. CASE Read
  <2>1. reading' \in BOOLEAN
    <3>1. ep["in"].dtd.req \in Req
      BY <1>8, DtdRequest, Zenon DEF Read
    <3>2. text[ep["in"].dtd.req] \in Texts
      BY <3>1, Zenon DEF Types, FuncTypes, Text
    <3> QED
      BY <1>8, Zenon DEF Read
  <2> QED
    BY <1>8, <2>1, Zenon DEF Read, funcVars, histVars
<1>9. CASE Stop
  BY <1>9, Zenon DEF Stop, funcVars, histVars
<1>10. CASE UNCHANGED vars
  BY <1>10, Zenon DEF vars, funcVars, hostVars, histVars
<1>11. CASE Register
  BY <1>11, Zenon DEF Register, funcVars
<1> QED
  BY <1>1, <1>2, <1>3, <1>4, <1>5, <1>6, <1>7, <1>8, <1>9, <1>10, <1>11, Zenon DEF Next, Driver

(* And the histories.                                                       *)
LEMMA LogTypesStep ==
  ASSUME Types, Quiet, [Next]_vars
  PROVE  LogTypes'
<1>0. LogTypes
  BY Zenon DEF Types
<1> USE <1>0 DEF LogTypes
<1>1. CASE ReadBits
  BY <1>1, Zenon DEF ReadBits, funcVars, hostVars, histVars
<1>2. CASE CompleteIn
  <2>1. CASE Sound(ep["in"])
    <3>1. text[Head(ep["in"].queue)] \in Texts
      BY <2>1 DEF Sound, Types, FuncTypes, ChipTypes, Text, Endpoint
    <3>2. given' \in Seq(Texts)
      BY <1>2, <2>1, <3>1, SMTT(60) DEF CompleteIn, Record
    <3> QED
      BY <1>2, <2>1, <3>2, Zenon DEF CompleteIn, hostVars
  <2>2. CASE ~Sound(ep["in"])
    BY <1>2, <2>2, Zenon DEF CompleteIn, Crash, hostVars, histVars
  <2> QED
    BY <2>1, <2>2, Zenon
<1>3. CASE CompleteOut
  BY <1>3, CompleteOutCases, Zenon DEF Handled, Crash, hostVars, histVars
<1>4. CASE SetConfiguration
  BY <1>4, Zenon DEF SetConfiguration, histVars
<1>5. CASE BusReset
  BY <1>5, Zenon DEF BusReset, funcVars, histVars
<1>6. CASE Unregister
  BY <1>6, Zenon DEF Unregister, histVars
<1>7. ASSUME NEW k \in Kinds, SendCommand(k) PROVE LogTypes'
  BY <1>7, Zenon DEF SendCommand, funcVars, histVars
<1>8. CASE Read
  <2> DEFINE m == [text[ep["in"].dtd.req] EXCEPT !.len = ep["in"].dtd.len]
  <2>1. ep["in"].dtd.req \in Req /\ ep["in"].dtd.len \in Length \cup {0, 1}
    BY <1>8, DtdRequest, Zenon DEF Read
  <2>2. text[ep["in"].dtd.req] \in Texts
    BY <2>1, Zenon DEF Types, FuncTypes, Text
  <2>3. m \in Texts
    BY <2>1, <2>2, Zenon DEF Texts
  <2>4. got' = Record(got, m) /\ given' = given
    BY <1>8, Zenon DEF Read, histVars
  <2> HIDE DEF m
  <2> QED
    BY <2>3, <2>4 DEF Record
<1>9. CASE Stop
  BY <1>9, Zenon DEF Stop, funcVars, histVars
<1>10. CASE UNCHANGED vars
  BY <1>10, Zenon DEF vars, funcVars, hostVars, histVars
<1>11. CASE Register
  BY <1>11 DEF Register
<1> QED
  BY <1>1, <1>2, <1>3, <1>4, <1>5, <1>6, <1>7, <1>8, <1>9, <1>10, <1>11, Zenon DEF Next, Driver

(* And the function's.                                                      *)
LEMMA FuncTypesStep ==
  ASSUME Types, Quiet, [Next]_vars
  PROVE  FuncTypes'
<1>0. FuncTypes
  BY Zenon DEF Types
<1> USE <1>0 DEF FuncTypes
<1>1. CASE ReadBits
  BY <1>1, Zenon DEF ReadBits, funcVars
<1>2. CASE CompleteIn
  <2>1. front # <<>> => Tail(front) \in Seq(Req)
    OBVIOUS
  <2> QED
    BY <1>2, <2>1, Zenon DEF CompleteIn, Crash, funcVars
<1>3. CASE CompleteOut
  <2>1. CASE Crash
    BY <2>1, Zenon DEF Crash, funcVars
  <2>2. ASSUME NEW s \in AnswerState, Handled(s) PROVE FuncTypes'
    BY <2>2, Zenon DEF Handled, AnswerState
  <2> QED
    BY <1>3, <2>1, <2>2, CompleteOutCases, Zenon
<1>4. CASE SetConfiguration
  <2>1. None \notin Req /\ Disabled \subseteq Req
    BY NoneAssumption, Zenon DEF Disabled
  <2>2. configured' = TRUE /\ front' = <<>> /\ rear' = None /\ text' = text
    BY <1>4, Zenon DEF SetConfiguration
  <2>3. PICK o, i \in Req \ Disabled :
          out_req' = o /\ in_req' = i /\ live' = Disabled \cup {o, i}
    BY <1>4, Zenon DEF SetConfiguration
  <2> QED
    BY <2>1, <2>2, <2>3
<1>5. CASE BusReset
  BY <1>5, Zenon DEF BusReset, funcVars
<1>6. CASE Unregister
  <2>1. Disabled \subseteq Req
    BY Zenon DEF Disabled
  <2> QED
    BY <1>6, <2>1 DEF Unregister
<1>7. ASSUME NEW k \in Kinds, SendCommand(k) PROVE FuncTypes'
  BY <1>7, Zenon DEF SendCommand, funcVars
<1>8. CASE Read
  BY <1>8, Zenon DEF Read, funcVars
<1>9. CASE Stop
  BY <1>9, Zenon DEF Stop, funcVars
<1>10. CASE UNCHANGED vars
  BY <1>10, Zenon DEF vars, funcVars
<1>11. CASE Register
  BY <1>11, Zenon DEF Register, funcVars
<1> QED
  BY <1>1, <1>2, <1>3, <1>4, <1>5, <1>6, <1>7, <1>8, <1>9, <1>10, <1>11, Zenon DEF Next, Driver

(* And the controller's and the driver's.                                   *)
LEMMA ChipTypesStep ==
  ASSUME Types, Quiet, [Next]_vars
  PROVE  ChipTypes'
<1>0. ChipTypes
  BY Zenon DEF Types
<1> USE <1>0 DEF ChipTypes
<1>1. CASE ReadBits
  BY <1>1, Zenon DEF ReadBits
<1>2. CASE CompleteIn
  <2>1. CASE Sound(ep["in"])
    <3>1. Completed(ep["in"], text) \in Endpoint
      BY <2>1, CompletedFields, Zenon DEF Sound, Types, FuncTypes
    <3> QED
      BY <1>2, <2>1, <3>1, Zenon DEF CompleteIn
  <2>2. CASE ~Sound(ep["in"])
    BY <1>2, <2>2, Zenon DEF CompleteIn, Crash
  <2> QED
    BY <2>1, <2>2, Zenon
<1>3. CASE CompleteOut
  <2>1. CASE Crash
    BY <1>3, <2>1, Zenon DEF Crash, CompleteOut
  <2>2. CASE Sound(ep["out"]) /\ \E s \in AnswerState : Handled(s)
    <3>1. PICK s \in AnswerState : Handled(s)
      BY <2>2, Zenon
    <3>2. Completed(ep["out"], text) \in Endpoint
      BY <2>2, CompletedFields, Zenon DEF Sound, Types, FuncTypes
    <3>3. out_req \in Req
      BY <1>3, BusyIsConfigured, Zenon DEF CompleteOut
    <3>4. ci_ep_queue(Completed(ep["out"], text), out_req, text) \in Endpoint
      BY <3>2, <3>3, QueueFields, Zenon DEF Types, FuncTypes
    <3>5. s.e \in Endpoint
      BY Zenon DEF AnswerState
    <3> QED
      BY <1>3, <3>1, <3>4, <3>5, Zenon DEF CompleteOut, Handled
  <2> QED
    BY <1>3, <2>1, <2>2, CompleteOutCases, Zenon
<1>4. CASE SetConfiguration
  <2>1. PICK o \in Req : ep' = [ep EXCEPT !["out"] = ci_ep_queue(ep["out"], o, text)]
    BY <1>4, Zenon DEF SetConfiguration
  <2>2. ci_ep_queue(ep["out"], o, text) \in Endpoint
    BY QueueFields, Zenon DEF Types, FuncTypes
  <2> QED
    BY <1>4, <2>1, <2>2, Zenon DEF SetConfiguration
<1>5. CASE BusReset
  <2>1. ASSUME NEW e \in {"in", "out"} PROVE [ep[e] EXCEPT !.dtd = Idle] \in Endpoint
    BY Zenon DEF Endpoint, Descriptor
  <2>2. ep' = [e \in {"in", "out"} |-> [ep[e] EXCEPT !.dtd = Idle]]
    BY <1>5, Zenon DEF BusReset
  <2> QED
    BY <1>5, <2>1, <2>2 DEF BusReset
<1>6. CASE Unregister
  <2>1. ASSUME NEW e \in {"in", "out"} PROVE [ep[e] EXCEPT !.dtd = Idle] \in Endpoint
    BY Zenon DEF Endpoint, Descriptor
  <2>2. ep' = [e \in {"in", "out"} |-> [ep[e] EXCEPT !.dtd = Idle]]
    BY <1>6, Zenon DEF Unregister
  <2> QED
    BY <1>6, <2>1, <2>2 DEF Unregister
<1>7. ASSUME NEW k \in Kinds, SendCommand(k) PROVE ChipTypes'
  <2>1. [ep["out"] EXCEPT !.dtd = Idle] \in Endpoint
    BY Zenon DEF Endpoint, Descriptor
  <2>2. ep' = [ep EXCEPT !["out"] = [ep["out"] EXCEPT !.dtd = Idle]]
    BY <1>7, Zenon DEF SendCommand
  <2> QED
    BY <1>7, <2>1, <2>2, Zenon DEF SendCommand
<1>8. CASE Read
  <2>1. [ep["in"] EXCEPT !.dtd = Idle] \in Endpoint
    BY Zenon DEF Endpoint, Descriptor
  <2>2. ep' = [ep EXCEPT !["in"] = [ep["in"] EXCEPT !.dtd = Idle]]
    BY <1>8, Zenon DEF Read
  <2> QED
    BY <1>8, <2>1, <2>2, Zenon DEF Read
<1>9. CASE Stop
  BY <1>9, Zenon DEF Stop
<1>10. CASE UNCHANGED vars
  BY <1>10, Zenon DEF vars
<1>11. CASE Register
  BY <1>11, UnusedType DEF Register
<1> QED
  BY <1>1, <1>2, <1>3, <1>4, <1>5, <1>6, <1>7, <1>8, <1>9, <1>10, <1>11, Zenon DEF Next, Driver

(* A bus reset changes nothing on the endpoints of a device that is not     *)
(* configured.                                                              *)
LEMMA ResetNothing ==
  ASSUME Typed, BusReset, ~configured
  PROVE  ep' = ep /\ epcomp' = epcomp /\ resets' = resets
<1>1. Types /\ Quiet
  BY Zenon DEF Typed
<1>2. ep = [in |-> Unused, out |-> Unused] /\ DOMAIN ep = {"in", "out"} /\ epcomp = {}
  BY <1>1, Zenon DEF Types, ChipTypes, Quiet, BusReset
<1>3. ep["in"] = Unused /\ ep["out"] = Unused
  BY <1>2, Zenon
<1>4. [Unused EXCEPT !.dtd = Idle] = Unused
  <2>1. ASSUME NEW x \in Endpoint, x.dtd = Idle PROVE [x EXCEPT !.dtd = Idle] = x
    BY <2>1, Zenon DEF Endpoint
  <2>2. Unused.dtd = Idle
    BY Zenon DEF Unused
  <2> QED
    BY <2>1, <2>2, UnusedType, Zenon
<1>5. ep' = [e \in {"in", "out"} |-> [ep[e] EXCEPT !.dtd = Idle]]
  BY <1>2, Zenon DEF BusReset
<1>6. ep' = [e \in {"in", "out"} |-> ep[e]]
  BY <1>3, <1>4, <1>5, Zenon
<1>7. ep = [e \in {"in", "out"} |-> ep[e]]
  BY <1>1, Zenon DEF Types, ChipTypes
<1> QED
  BY <1>2, <1>6, <1>7, Zenon DEF BusReset

(* A device that is not configured has nothing to handle.                   *)
LEMMA QuietStep ==
  ASSUME Types, Quiet, [Next]_vars
  PROVE  Quiet'
<1> USE DEF Quiet
<1>1. CASE ReadBits
  BY <1>1, Zenon DEF ReadBits, funcVars, hostVars
<1>2. CASE CompleteIn
  BY <1>2, BusyIsConfigured, Zenon DEF CompleteIn, Crash
<1>3. CASE CompleteOut
  <2>1. UNCHANGED <<registered, configured>>
    BY <1>3, CompleteOutCases, Zenon DEF Crash, Handled
  <2> QED
    BY <1>3, <2>1, BusyIsConfigured, Zenon DEF CompleteOut
<1>4. CASE SetConfiguration
  BY <1>4, Zenon DEF SetConfiguration
<1>5. CASE BusReset
  <2>1. ~configured => ep' = ep
    BY <1>5, ResetNothing, Zenon DEF Typed
  <2> QED
    BY <1>5, <2>1, Zenon DEF BusReset, funcVars
<1>6. CASE Unregister
  <2>1. ep' = [e \in {"in", "out"} |-> [ep[e] EXCEPT !.dtd = Idle]]
    BY <1>6, Zenon DEF Unregister, Types, ChipTypes
  <2>2. ep["in"] \in Endpoint /\ ep["out"] \in Endpoint
    BY Zenon DEF Types, ChipTypes
  <2>3. ep'["in"].dtd = Idle /\ ep'["out"].dtd = Idle
    BY <2>1, <2>2, Zenon DEF Endpoint
  <2> QED
    BY <1>6, <2>3, Zenon DEF Unregister
<1>7. ASSUME NEW k \in Kinds, SendCommand(k) PROVE Quiet'
  BY <1>7, Zenon DEF SendCommand
<1>8. CASE Read
  BY <1>8, BusyIsConfigured, Zenon DEF Read
<1>9. CASE Stop
  BY <1>9, Zenon DEF Stop, funcVars
<1>10. CASE UNCHANGED vars
  BY <1>10, Zenon DEF vars, funcVars, hostVars
<1>11. CASE Register
  <2>1. ~configured
    BY <1>11, Zenon DEF Register
  <2>2. ep'["in"].dtd = Idle /\ ep'["out"].dtd = Idle
    BY <1>11, Zenon DEF Register, Unused
  <2> QED
    BY <1>11, <2>1, <2>2, Zenon DEF Register, funcVars
<1> QED
  BY <1>1, <1>2, <1>3, <1>4, <1>5, <1>6, <1>7, <1>8, <1>9, <1>10, <1>11, Zenon DEF Next, Driver

(* The variables keep their types, and the function has its two requests    *)
(* exactly while it is configured, whatever the host, the controller and    *)
(* the heap do.                                                             *)
LEMMA TypesInvariant == Spec => [](Types /\ Quiet)
<1>1. Init => HostTypes
  BY CountOn, BoundAssumption, Zenon DEF Init, HostTypes
<1>2. Init => BoolTypes /\ Quiet
  <2>1. ep = [in |-> Unused, out |-> Unused] => ep["in"].dtd = Idle /\ ep["out"].dtd = Idle
    BY DEF Unused
  <2> QED
    BY <2>1, Zenon DEF Init, BoolTypes, Quiet
<1>3. Init => ChipTypes
  BY UnusedType DEF Init, ChipTypes
<1>4. Init => FuncTypes
  <2>1. NoMessage \in Texts
    BY BoundAssumption DEF NoMessage, Texts
  <2> QED
    BY <2>1 DEF Init, FuncTypes, Text
<1>5. Init => LogTypes
  BY DEF Init, LogTypes
<1>6. (Types /\ Quiet) /\ [Next]_vars => (Types /\ Quiet)'
  BY HostTypesStep, BoolTypesStep, LogTypesStep, FuncTypesStep, ChipTypesStep, QuietStep, Zenon
     DEF Types
<1> QED
  BY <1>1, <1>2, <1>3, <1>4, <1>5, <1>6, PTL DEF Spec, Types

(* The type invariant, for every value of the constants.                    *)
THEOREM TypesKept == Spec => []TypeOK
BY TypesInvariant, TypesAreTypeOK, PTL

-----------------------------------------------------------------------------
(* An endpoint x is primed exactly while it has a request, its descriptor   *)
(* is active only then, and a completion (c: a bit of the controller, i:    *)
(* one that udc_irq has read) is that of its first request, once.           *)
Fit(x, c, i) ==
  /\ x.req_primed <=> x.queue # <<>>
  /\ x.dtd # Idle => x.req_primed
  /\ c \/ i => x.req_primed /\ x.dtd = Idle
  /\ ~(c /\ i)

InFit == Fit(ep["in"], "in" \in epcomp, "in" \in irq)
OutFit == Fit(ep["out"], "out" \in epcomp, "out" \in irq)

InQueue == ep["in"].queue

(* What rx_handler_command leaves when it finds the list empty.             *)
AnsweredOne(s) ==
  /\ s.e.queue = <<in_req>> /\ s.front = <<>> /\ s.live = live
  /\ s.text[in_req].last = TRUE

AnsweredMany(s, a, b) ==
  /\ s.e.queue = IF InQueue = <<>> THEN <<a, b>> ELSE <<in_req, a, b>>
  /\ s.front = <<a, b>> /\ s.live = live \cup {a, b}
  /\ s.text[a].last = FALSE /\ s.text[b].last = TRUE

AnsweredUpload(s, a, b) ==
  /\ s.e.queue = <<a, in_req, b>>
  /\ s.front = <<a, b>> /\ s.live = live \cup {a, b}
  /\ s.text[a].last = FALSE /\ s.text[in_req].last = FALSE /\ s.text[b].last = TRUE

Answered(s) ==
  /\ s.ok = TRUE /\ s.e.req_primed = TRUE
  /\ s.e.dtd = NextDtd(ep["in"], s.e.queue, s.text)
  /\ \/ AnsweredOne(s)
     \/ \E a, b \in Req \ live : a # b /\ (AnsweredMany(s, a, b) \/ AnsweredUpload(s, a, b))

(* The state of the function that rx_handler_command starts from.           *)
LEMMA StartFields ==
  ASSUME Typed
  PROVE  LET n == ResetFifo(Now) IN
         /\ n \in AnswerState /\ n.e = ep["in"] /\ n.text = text /\ n.front = <<>>
         /\ n.rear = None /\ n.live = live /\ n.ok = TRUE
<1>1. /\ ep["in"] \in Endpoint /\ text \in Text /\ front \in Seq(Req)
      /\ rear \in Req \cup {None} /\ live \in SUBSET Req
  BY Zenon DEF Typed, Types, FuncTypes, ChipTypes
<1>2. /\ Now \in AnswerState /\ Now.e = ep["in"] /\ Now.text = text /\ Now.live = live
      /\ Now.ok = TRUE
  BY <1>1, Zenon DEF Now, AnswerState
<1>3. ResetFifo(Now) = [Now EXCEPT !.front = <<>>, !.rear = None]
  BY Zenon DEF ResetFifo
<1>4. <<>> \in Seq(Req) /\ None \in Req \cup {None}
  OBVIOUS
<1> QED
  BY <1>2, <1>3, <1>4, Zenon DEF AnswerState

(* The three answers.                                                       *)
LEMMA OneAnswered ==
  ASSUME Typed, in_req \in Req, InQueue = <<>> \/ InQueue = <<in_req>>, NEW n \in Length
  PROVE  LET s == cb_answer(ResetFifo(Now), n) IN
         /\ s.ok = TRUE /\ s.e.req_primed = TRUE
         /\ s.e.dtd = NextDtd(ep["in"], s.e.queue, s.text)
         /\ AnsweredOne(s)
<1> DEFINE o == ResetFifo(Now)
           m == Message(1, n, TRUE)
           s == fastboot_tx_write(o, m)
<1>1. /\ o \in AnswerState /\ o.e = ep["in"] /\ o.text = text /\ o.front = <<>>
      /\ o.rear = None /\ o.live = live /\ o.ok = TRUE
  BY StartFields, Zenon
<1>2. m \in Texts /\ m.last = TRUE
  BY DEF Message, Texts, Typed, Types, HostTypes
<1>3. cb_answer(ResetFifo(Now), n) = s
  BY Zenon DEF cb_answer
<1>4. text \in Text
  BY Zenon DEF Typed, Types, FuncTypes
<1> HIDE DEF o, m
<1>5. /\ s.text = [text EXCEPT ![in_req] = m]
      /\ s.e.queue = Append(Unlinked(InQueue, in_req), in_req)
      /\ s.e.req_primed = TRUE
      /\ s.e.dtd = NextDtd(ep["in"], s.e.queue, s.text)
      /\ s.front = <<>> /\ s.live = live /\ s.ok = TRUE
  BY <1>1, <1>2, TxWriteFields, ZenonT(60) DEF InQueue
<1> HIDE DEF s
<1>6. Unlinked(InQueue, in_req) = <<>>
  BY UnlinkedOnly, UnlinkedEmpty, Zenon
<1>7. s.e.queue = <<in_req>>
  BY <1>5, <1>6, AppendOne, Zenon
<1>8. s.text[in_req].last = TRUE
  BY <1>2, <1>4, <1>5, Zenon DEF Text
<1> QED
  BY <1>3, <1>5, <1>7, <1>8, Zenon DEF AnsweredOne

(* Many INFO messages and the last.                                         *)
LEMMA ManyAnswered ==
  ASSUME Typed, in_req \in live, InQueue = <<>> \/ InQueue = <<in_req>>,
         NEW a \in Req \ live, NEW b \in Req \ live, a # b
  PROVE  LET s == cb_getvar_all(ResetFifo(Now), a, b) IN
         /\ s.ok = TRUE /\ s.e.req_primed = TRUE
         /\ s.e.dtd = NextDtd(ep["in"], s.e.queue, s.text)
         /\ AnsweredMany(s, a, b)
<1> DEFINE o == ResetFifo(Now)
           m == Message(1, 1, FALSE)
           k == Message(2, 1, TRUE)
           x == fastboot_tx_write_more(o, a, m)
           s == fastboot_tx_write_more(x, b, k)
<1>1. /\ o \in AnswerState /\ o.e = ep["in"] /\ o.text = text /\ o.front = <<>>
      /\ o.rear = None /\ o.live = live /\ o.ok = TRUE
  BY StartFields, Zenon
<1>2. m \in Texts /\ m.last = FALSE /\ k \in Texts /\ k.last = TRUE
  BY DEF Message, Texts, Typed, Types, HostTypes
<1>3. cb_getvar_all(ResetFifo(Now), a, b) = s
  BY Zenon DEF cb_getvar_all
<1>4. text \in Text /\ in_req # a /\ in_req # b /\ in_req \in Req
  BY Zenon DEF Typed, Types, FuncTypes
<1> HIDE DEF o, m, k
<1>0. a \in Req /\ b \in Req
  BY Zenon
<1>5. /\ x \in AnswerState /\ x.text = [text EXCEPT ![a] = m]
      /\ x.e.queue = Append(InQueue, a) /\ x.e.req_primed = TRUE
      /\ x.e.dtd = NextDtd(ep["in"], x.e.queue, x.text)
      /\ x.front = Append(<<>>, a) /\ x.rear = a /\ x.live = live \cup {a}
      /\ x.ok = TRUE
  <2>1. MoreWritten(x, o, a, m)
    BY <1>0, <1>1, <1>2, WriteMoreFields, Zenon
  <2> HIDE DEF x
  <2> QED
    BY <1>0, <1>1, <1>2, <2>1, Zenon DEF InQueue, MoreWritten
<1> HIDE DEF x
<1>6. /\ s.text = [x.text EXCEPT ![b] = k]
      /\ s.e.queue = Append(x.e.queue, b) /\ s.e.req_primed = TRUE
      /\ s.e.dtd = NextDtd(x.e, s.e.queue, s.text)
      /\ s.front = Append(x.front, b) /\ s.live = x.live \cup {b}
      /\ x.ok = TRUE /\ (x.rear = None \/ x.front # <<>>) => s.ok = TRUE
  <2>1. MoreWritten(s, x, b, k)
    BY <1>0, <1>2, <1>5, WriteMoreFields, Zenon
  <2> HIDE DEF s
  <2> QED
    BY <1>0, <1>2, <1>5, <2>1, Zenon DEF MoreWritten
<1> HIDE DEF s
<1>7. x.front = <<a>> /\ s.front = <<a, b>>
  BY <1>5, <1>6, AppendOne, AppendTwo
<1>8. s.ok = TRUE
  BY <1>5, <1>6, <1>7
<1>9. /\ x.e.queue = IF InQueue = <<>> THEN <<a>> ELSE <<in_req, a>>
      /\ s.e.queue = IF InQueue = <<>> THEN <<a, b>> ELSE <<in_req, a, b>>
  <2>1. CASE InQueue = <<>>
    <3>1. x.e.queue = <<a>>
      BY <1>5, <2>1, AppendOne, Zenon
    <3>2. s.e.queue = <<a, b>>
      BY <1>6, <3>1, AppendTwo, ZenonT(60)
    <3> QED
      BY <2>1, <3>1, <3>2, Zenon
  <2>2. CASE InQueue = <<in_req>>
    <3>1. x.e.queue = <<in_req, a>>
      BY <1>5, <2>2, AppendTwo, Zenon
    <3>2. s.e.queue = <<in_req, a, b>>
      BY <1>6, <3>1, AppendThree
    <3> QED
      BY <2>2, <3>1, <3>2, Zenon
  <2> QED
    BY <2>1, <2>2, Zenon
<1>10. /\ x.text \in Text /\ x.text[a] = m /\ s.text[a] = m /\ s.text[b] = k
       /\ s.text[in_req] = x.text[in_req]
  BY <1>2, <1>4, <1>5, <1>6 DEF Text
<1>11. Head(x.e.queue) = Head(s.e.queue) /\ Head(s.e.queue) \in {a, in_req}
  BY <1>9
<1>12. s.e.dtd = NextDtd(ep["in"], s.e.queue, s.text)
  <2>1. s.text[Head(s.e.queue)] = x.text[Head(s.e.queue)]
    BY <1>10, <1>11, Zenon
  <2> QED
    BY <1>5, <1>6, <1>11, <2>1 DEF NextDtd, Filled
<1>13. s.live = live \cup {a, b}
  BY <1>5, <1>6, Zenon
<1> QED
  BY <1>2, <1>3, <1>6, <1>7, <1>8, <1>9, <1>10, <1>12, <1>13, Zenon DEF AnsweredMany

(* The header, the image and the end of an upload.                          *)
LEMMA UploadAnswered ==
  ASSUME Typed, InFit, in_req \in live, InQueue = <<>> \/ InQueue = <<in_req>>,
         NEW a \in Req \ live, NEW b \in Req \ live, a # b
  PROVE  LET s == cb_upload(ResetFifo(Now), a, b) IN
         /\ s.ok = TRUE /\ s.e.req_primed = TRUE
         /\ s.e.dtd = NextDtd(ep["in"], s.e.queue, s.text)
         /\ AnsweredUpload(s, a, b)
<1> DEFINE o == ResetFifo(Now)
           m == Message(1, 1, FALSE)
           l == Message(2, 1, FALSE)
           k == Message(3, 1, TRUE)
           x == fastboot_tx_write_more(o, a, m)
           y == fastboot_tx_write(x, l)
           s == fastboot_tx_write_more(y, b, k)
<1>1. /\ o \in AnswerState /\ o.e = ep["in"] /\ o.text = text /\ o.front = <<>>
      /\ o.rear = None /\ o.live = live /\ o.ok = TRUE
  BY StartFields, Zenon
<1>2. /\ m \in Texts /\ m.last = FALSE /\ k \in Texts /\ k.last = TRUE
      /\ l \in Texts /\ l.last = FALSE
  BY DEF Message, Texts, Typed, Types, HostTypes
<1>3. cb_upload(ResetFifo(Now), a, b) = s
  BY Zenon DEF cb_upload
<1>4. text \in Text /\ in_req # a /\ in_req # b /\ in_req \in Req
  BY Zenon DEF Typed, Types, FuncTypes
<1> HIDE DEF o, m, k, l
<1>0. a \in Req /\ b \in Req
  BY Zenon
<1>5. /\ x \in AnswerState /\ x.text = [text EXCEPT ![a] = m]
      /\ x.e.queue = Append(InQueue, a) /\ x.e.req_primed = TRUE
      /\ x.e.dtd = NextDtd(ep["in"], x.e.queue, x.text)
      /\ x.front = Append(<<>>, a) /\ x.rear = a /\ x.live = live \cup {a}
      /\ x.ok = TRUE
  <2>1. MoreWritten(x, o, a, m)
    BY <1>0, <1>1, <1>2, WriteMoreFields, Zenon
  <2> HIDE DEF x
  <2> QED
    BY <1>0, <1>1, <1>2, <2>1, Zenon DEF InQueue, MoreWritten
<1> HIDE DEF x
<1>6. /\ y \in AnswerState /\ y.text = [x.text EXCEPT ![in_req] = l]
      /\ y.e.queue = Append(Unlinked(x.e.queue, in_req), in_req) /\ y.e.req_primed = TRUE
      /\ y.e.dtd = NextDtd(x.e, y.e.queue, y.text)
      /\ y.front = x.front /\ y.rear = x.rear /\ y.live = x.live /\ y.ok = x.ok
  BY <1>2, <1>4, <1>5, TxWriteFields, ZenonT(60)
<1> HIDE DEF y
<1>7. /\ s.text = [y.text EXCEPT ![b] = k]
      /\ s.e.queue = Append(y.e.queue, b) /\ s.e.req_primed = TRUE
      /\ s.e.dtd = NextDtd(y.e, s.e.queue, s.text)
      /\ s.front = Append(y.front, b) /\ s.live = y.live \cup {b}
      /\ y.ok = TRUE /\ (y.rear = None \/ y.front # <<>>) => s.ok = TRUE
  <2>1. MoreWritten(s, y, b, k)
    BY <1>0, <1>2, <1>6, WriteMoreFields, Zenon
  <2> HIDE DEF s
  <2> QED
    BY <1>0, <1>2, <1>6, <2>1, Zenon DEF MoreWritten
<1> HIDE DEF s
<1>8. x.front = <<a>> /\ s.front = <<a, b>>
  BY <1>5, <1>6, <1>7, AppendOne, AppendTwo
<1>9. s.ok = TRUE
  BY <1>5, <1>6, <1>7, <1>8
<1>10. x.e.queue = <<a>> \/ x.e.queue = <<in_req, a>>
  <2>1. CASE InQueue = <<>>
    BY <1>5, <2>1, AppendOne, Zenon
  <2>2. CASE InQueue = <<in_req>>
    BY <1>5, <2>2, AppendTwo, ZenonT(60)
  <2> QED
    BY <2>1, <2>2, Zenon
<1>11. Unlinked(x.e.queue, in_req) = <<a>>
  BY <1>4, <1>10, UnlinkedNone, UnlinkedHead, ZenonT(60)
<1>12. y.e.queue = <<a, in_req>> /\ s.e.queue = <<a, in_req, b>>
  <2>1. y.e.queue = <<a, in_req>>
    BY <1>6, <1>11, AppendTwo
  <2>2. s.e.queue = <<a, in_req, b>>
    BY <1>7, <2>1, AppendThree
  <2> QED
    BY <2>1, <2>2, Zenon
<1>13. /\ x.text \in Text /\ x.text[a] = m /\ y.text \in Text /\ y.text[a] = m
       /\ y.text[in_req] = l
  BY <1>2, <1>4, <1>5, <1>6, SMTT(60) DEF Text
<1>14. s.text[a] = m /\ s.text[in_req] = l /\ s.text[b] = k
  BY <1>2, <1>4, <1>7, <1>13, Zenon DEF Text
<1>15. s.e.dtd = y.e.dtd /\ y.e.dtd = x.e.dtd
  BY <1>5, <1>6, <1>7, Zenon DEF NextDtd
<1>16. s.e.dtd = NextDtd(ep["in"], s.e.queue, s.text)
  <2>1. CASE InQueue = <<>>
    <3>1. x.e.queue = <<a>>
      BY <1>5, <2>1, AppendOne, Zenon
    <3> QED
      BY <1>5, <1>12, <1>13, <1>14, <1>15, <3>1 DEF NextDtd, Filled
  <2>2. CASE ep["in"].req_primed
    BY <1>5, <1>15, <2>2, Zenon DEF NextDtd
  <2>3. InQueue # <<>> => ep["in"].req_primed
    BY Zenon DEF InFit, Fit, InQueue
  <2> QED
    BY <2>1, <2>2, <2>3, Zenon
<1>17. s.live = live \cup {a, b}
  BY <1>5, <1>6, <1>7, Zenon
<1> QED
  BY <1>2, <1>3, <1>7, <1>8, <1>9, <1>12, <1>14, <1>16, <1>17, Zenon DEF AnsweredUpload

(* Every answer is one of these.                                            *)
LEMMA AllAnswered ==
  ASSUME Typed, configured, in_req \in live, InQueue = <<>> \/ InQueue = <<in_req>>, InFit,
         NEW s \in Answers(ResetFifo(Now))
  PROVE  Answered(s)
<1>1. in_req \in Req /\ kind \in {"one", "many", "upload"}
  BY Zenon DEF Typed, Types, FuncTypes, HostTypes
<1>2. ASSUME NEW n \in Length, s = cb_answer(ResetFifo(Now), n) PROVE Answered(s)
  BY <1>1, <1>2, OneAnswered, Zenon DEF Answered
<1>3. ASSUME NEW a \in Req \ live, NEW b \in Req \ live, a # b,
             s = cb_getvar_all(ResetFifo(Now), a, b)
      PROVE  Answered(s)
  BY <1>3, ManyAnswered, Zenon DEF Answered
<1>4. ASSUME NEW a \in Req \ live, NEW b \in Req \ live, a # b,
             s = cb_upload(ResetFifo(Now), a, b)
      PROVE  Answered(s)
  BY <1>4, UploadAnswered, Zenon DEF Answered
<1> QED
  BY <1>1, <1>2, <1>3, <1>4, AnswerCases, ZenonT(60)

-----------------------------------------------------------------------------
(* What the steps do to the endpoints.                                      *)

(* The IN endpoint goes on with the next request.                           *)
LEMMA CompleteInEndpoints ==
  ASSUME Typed, CompleteIn, Sound(ep["in"])
  PROVE  /\ ep'["out"] = ep["out"]
         /\ InQueue' = Tail(InQueue)
         /\ ep'["in"].req_primed <=> Tail(InQueue) # <<>>
         /\ Tail(InQueue) = <<>> => ep'["in"].dtd = ep["in"].dtd
         /\ Tail(InQueue) # <<>> => ep'["in"].dtd = Filled(Head(Tail(InQueue)), text)
<1>1. ep["in"] \in Endpoint /\ text \in Text /\ ep \in [{"in", "out"} -> Endpoint]
  BY Zenon DEF Typed, Types, ChipTypes, FuncTypes
<1>2. ep["in"].queue # <<>>
  BY Zenon DEF Sound
<1>3. ep' = [ep EXCEPT !["in"] = Completed(ep["in"], text)]
  BY Zenon DEF CompleteIn
<1>4. ep'["in"] = Completed(ep["in"], text) /\ ep'["out"] = ep["out"]
  BY <1>1, <1>3, Zenon
<1> DEFINE e == ep["in"]
           c == Completed(e, text)
<1>5. /\ c.queue = Tail(e.queue)
      /\ c.req_primed <=> Tail(e.queue) # <<>>
      /\ Tail(e.queue) = <<>> => c.dtd = e.dtd
      /\ Tail(e.queue) # <<>> => c.dtd = Filled(Head(Tail(e.queue)), text)
  BY <1>1, <1>2, CompletedFields, Zenon
<1>6. ep'["in"] = c
  BY <1>4, Zenon
<1> HIDE DEF c
<1> QED
  BY <1>4, <1>5, <1>6, Zenon DEF InQueue

(* The OUT endpoint waits for the next command.                             *)
LEMMA HandledEndpoints ==
  ASSUME Typed, NEW s \in AnswerState, Handled(s), out_req \in Req,
         ep["out"].queue = <<out_req>>, ep["out"].dtd = Idle
  PROVE  /\ ep'["in"] = s.e
         /\ ep'["out"].queue = <<out_req>>
         /\ ep'["out"].req_primed = TRUE
         /\ ep'["out"].dtd # Idle
<1> DEFINE c == Completed(ep["out"], text)
           n == ci_ep_queue(c, out_req, text)
<1>1. ep["out"] \in Endpoint /\ text \in Text /\ ep \in [{"in", "out"} -> Endpoint]
  BY Zenon DEF Typed, Types, ChipTypes, FuncTypes
<1>2. ep["out"].queue # <<>> /\ Tail(ep["out"].queue) = <<>>
  OBVIOUS
<1>3. c \in Endpoint /\ c.queue = <<>> /\ c.req_primed = FALSE
  <2>1. /\ c \in Endpoint /\ c.queue = Tail(ep["out"].queue)
        /\ c.req_primed <=> Tail(ep["out"].queue) # <<>>
    BY <1>1, <1>2, CompletedFields, Zenon
  <2> HIDE DEF c
  <2>2. c.req_primed \in BOOLEAN
    BY <2>1, Zenon DEF Endpoint
  <2> QED
    BY <1>2, <2>1, <2>2, Zenon
<1> HIDE DEF c
<1>4. /\ n.queue = Append(<<>>, out_req) /\ n.req_primed = TRUE
      /\ n.dtd = NextDtd(c, Append(<<>>, out_req), text)
  <2>1. /\ n.queue = Append(c.queue, out_req) /\ n.req_primed = TRUE
        /\ n.dtd = NextDtd(c, Append(c.queue, out_req), text)
    BY <1>1, <1>3, QueueFields, Zenon
  <2> HIDE DEF n
  <2> QED
    BY <1>3, <2>1, Zenon
<1>5. n.queue = <<out_req>> /\ n.dtd = Filled(out_req, text)
  BY <1>3, <1>4, AppendOne DEF NextDtd
<1>6. ep' = [ep EXCEPT !["in"] = s.e, !["out"] = n]
  BY Zenon DEF Handled, n, c
<1> HIDE DEF n
<1>7. ep'["in"] = s.e /\ ep'["out"] = n
  BY <1>1, <1>6, Zenon
<1> QED
  BY <1>1, <1>4, <1>5, <1>7, FilledType, Zenon

(* The first configuration queues out_req.                                  *)
LEMMA ConfigureEndpoints ==
  ASSUME Typed, SetConfiguration, ~configured
  PROVE  /\ ep'["in"] = Unused
         /\ ep'["out"].queue = <<out_req'>>
         /\ ep'["out"].req_primed = TRUE
         /\ ep'["out"].dtd # Idle
         /\ out_req' \in live' /\ in_req' \in live' /\ in_req' # out_req'
<1>1. PICK o, i \in Req \ Disabled :
        /\ o # i /\ out_req' = o /\ in_req' = i /\ live' = Disabled \cup {o, i}
        /\ ep' = [ep EXCEPT !["out"] = ci_ep_queue(ep["out"], o, text)]
  BY Zenon DEF SetConfiguration
<1>2. ep["in"] = Unused /\ ep["out"] = Unused
  <2>1. ep = [in |-> Unused, out |-> Unused]
    BY Zenon DEF Typed, Quiet, SetConfiguration
  <2> QED
    BY <2>1
<1>3. text \in Text /\ ep \in [{"in", "out"} -> Endpoint]
  BY Zenon DEF Typed, Types, ChipTypes, FuncTypes
<1> DEFINE n == ci_ep_queue(ep["out"], o, text)
<1>4. o \in Req
  BY Zenon
<1>5. Unused.queue = <<>> /\ Unused.req_primed = FALSE
  BY Zenon DEF Unused
<1>6. /\ n.queue = Append(<<>>, o) /\ n.req_primed = TRUE
      /\ n.dtd = NextDtd(Unused, Append(<<>>, o), text)
  <2>1. ep["out"] \in Endpoint
    BY <1>3, Zenon
  <2>2. /\ n.queue = Append(ep["out"].queue, o) /\ n.req_primed = TRUE
        /\ n.dtd = NextDtd(ep["out"], Append(ep["out"].queue, o), text)
    BY <1>3, <1>4, <2>1, QueueFields, Zenon
  <2> HIDE DEF n
  <2> QED
    BY <1>2, <1>5, <2>2, Zenon
<1>7. n.queue = <<o>> /\ n.dtd = Filled(o, text)
  BY <1>5, <1>6, AppendOne DEF NextDtd
<1> HIDE DEF n
<1>8. ep'["in"] = Unused /\ ep'["out"] = n
  BY <1>1, <1>2, <1>3, Zenon DEF n
<1>9. n.dtd # Idle
  BY <1>3, <1>4, <1>7, FilledType, Zenon
<1> QED
  BY <1>1, <1>6, <1>7, <1>8, <1>9, Zenon

(* The host takes what a descriptor stands for.                             *)
LEMMA HostEndpoints ==
  ASSUME Typed, NEW x \in {"in", "out"}, NEW y \in {"in", "out"}, x # y,
         ep' = [ep EXCEPT ![x].dtd = Idle]
  PROVE  /\ ep'[y] = ep[y]
         /\ ep'[x].queue = ep[x].queue /\ ep'[x].req_primed = ep[x].req_primed
         /\ ep'[x].dtd = Idle
<1>1. ep \in [{"in", "out"} -> Endpoint]
  BY Zenon DEF Typed, Types, ChipTypes
<1> QED
  BY <1>1, Zenon DEF Endpoint
=============================================================================
