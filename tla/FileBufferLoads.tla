-------------------------- MODULE FileBufferLoads ---------------------------
(***************************************************************************)
(* What the loads of FileBuffer keep, whatever the clients and the threads *)
(* do in between: whose a buffer is while it is loaded, what of it is in   *)
(* place, and how old its data is.  First the types of the variables of   *)
(* FileBuffer, and the few facts about numbers and flags they rest on.     *)
(***************************************************************************)
EXTENDS FileBuffer, TLAPS

(* The flags of a buffer.                                                   *)
Flag == {"loaded", "known", "error"}

(* What the proofs need to know of the types of a buffer's fields.          *)
BufferTypes ==
  /\ flags \in [Buffer -> SUBSET Flag]
  /\ avail \in [Buffer -> Nat] /\ size \in [Buffer -> Nat] /\ filled \in [Buffer -> Nat]
  /\ ver \in [Buffer -> Nat] /\ time \in [Buffer -> Nat]
  /\ thread \in [Buffer -> PlaceOfThread] /\ lock \in [Buffer -> Owner]

(* And of the clients' variables.  A client that works on a buffer has one, *)
(* and one that was told to fetch the entry finds it: entries are never     *)
(* removed from g_filebuffer_map.                                           *)
ClientTypes ==
  /\ now \in Nat /\ entry \in Buffer \cup {None}
  /\ pc \in [Client -> PlaceOfClient] /\ async \in [Client -> BOOLEAN]
  /\ made \in [Client -> BOOLEAN] /\ buf \in [Client -> Buffer \cup {None}]
  /\ req \in [Client -> [kind : {"none", "prefix", "part"}, off : Nat, n : Nat]]
  /\ got \in [Client -> Nat] /\ began \in [Client -> Nat]
  /\ \A c \in Client : pc[c] \notin {"idle", "lookup", "fetch"} => buf[c] \in Buffer
  /\ \A c \in Client : pc[c] = "fetch" => entry \in Buffer

Types == BufferTypes /\ ClientTypes

(* The request of a client that makes none is a request.                    *)
LEMMA NoRequestType == NoRequest \in [kind : {"none", "prefix", "part"}, off : Nat, n : Nat]
BY Zenon DEF NoRequest

(* The loads set flags of a buffer and no others.                           *)
LEMMA FlagType ==
  ASSUME NEW f \in SUBSET Flag
  PROVE  f \cup LOADED \in SUBSET Flag /\ f \cup {"error"} \in SUBSET Flag
         /\ LOADED \in SUBSET Flag /\ {"known"} \in SUBSET Flag /\ {} \in SUBSET Flag
BY Zenon DEF Flag, LOADED

(* What is left of a natural number after a smaller one is taken.           *)
LEMMA Minus == \A a, b \in Nat : a <= b => b - a \in Nat
OBVIOUS

(* A chunk more, or a change more, is a natural number that is not 0.       *)
LEMMA Plus == \A a \in Nat : a + 1 \in Nat /\ a + 1 # 0
OBVIOUS

(* The parts that request_data is asked for have natural offsets and sizes. *)
LEMMA PartType == \A p \in Parts : p[1] \in Nat /\ p[2] \in Nat
BY PartsAssumption, SizeAssumption

(* So has the prefix.                                                       *)
LEMMA PrefixType == Size \in Nat /\ \A n \in 0 .. Size + 1 : n \in Nat
BY SizeAssumption

(* The order of the natural numbers, as the steps below need it.            *)
LEMMA Order ==
  /\ \A a \in Nat : 0 <= a /\ a <= a /\ (a <= 0 => a = 0)
  /\ \A a, b \in Nat : a <= b => a <= b + 1
OBVIOUS

(* A chunk that is published was not the last, and is in place.             *)
LEMMA Less ==
  \A a, b, s \in Nat : a <= b /\ a <= s /\ a # s => a + 1 <= b + 1 /\ a + 1 <= s
OBVIOUS

(* An end that is within what is available stays so when a chunk is added.  *)
LEMMA SumNext == \A x, y, a \in Nat : x + y <= a => x + y <= a + 1
OBVIOUS

(* The first test of the copied size: the end is before what is available.  *)
LEMMA SumUnder == \A x, y, a \in Nat : ~(x + y >= a) => x + y <= a
OBVIOUS

(* The loop's condition: a client that blocks needs more than there is.     *)
LEMMA SumOver == \A x, y, a \in Nat : x + y > a => ~(x + y <= a)
OBVIOUS

(* Marking a buffer as loaded does not mark it as failed.                   *)
LEMMA ErrorKept == \A f : "error" \in f \cup LOADED => "error" \in f
BY Zenon DEF LOADED

(* An end that is within what is available is within the file.              *)
LEMMA SumWithin == \A x, y, a, s \in Nat : x + y <= a /\ a <= s => x + y <= s
OBVIOUS

(* A time that is at least the call's and at most the data's.               *)
LEMMA Newer == \A t, v, b \in Nat : t <= v /\ b <= t => v >= b
OBVIOUS

(* The rest of what is available ends where it ends.                        *)
LEMMA Rest == \A x, a \in Nat : x <= a => x + (a - x) <= a
OBVIOUS

-----------------------------------------------------------------------------
(* Every step keeps the types of the buffers.                               *)
LEMMA BufferTypesStep ==
  ASSUME Types, [Next]_vars
  PROVE  BufferTypes'
<1> USE DEF Set, At, fileVars, bufVars, callVars, histVars,
            Types, BufferTypes, ClientTypes, PlaceOfClient, PlaceOfThread, Owner, Ended
<1>1. ASSUME NEW c \in Client, SizeTest(c) \/ SizeRest(c) \/ Copy(c) \/ Release(c) PROVE BufferTypes'
  BY <1>1, Zenon DEF SizeTest, Need, SizeRest, End, Copy, Release, Return, Ended
<1>2. ASSUME NEW c \in Client, Spurious(c) PROVE BufferTypes' BY <1>2, Zenon DEF Spurious
<1>3. ASSUME NEW c \in Client, Lookup(c) PROVE BufferTypes'
  <2>1. CASE entry = None
    <3>1. PICK b \in Buffer :
            /\ Set(flags, b, {}) /\ Set(avail, b, 0) /\ Set(size, b, 0)
            /\ Set(filled, b, 0) /\ Set(ver, b, 0) /\ Set(time, b, 0)
            /\ Set(thread, b, "none") /\ Set(lock, b, "free")
      BY <1>3, <2>1, Zenon DEF Lookup
    <3> QED
      BY <3>1, Zenon
  <2> QED
    BY <1>3, <2>1, Zenon DEF Lookup
<1>4. ASSUME NEW c \in Client, Fetch(c) PROVE BufferTypes' BY <1>4, Zenon DEF Fetch, Timesample
<1>5. ASSUME NEW c \in Client, Reset(c) PROVE BufferTypes' BY <1>5, Zenon DEF Reset
<1>6. ASSUME NEW c \in Client, Unmap(c) PROVE BufferTypes' BY <1>6, Zenon DEF Unmap
<1>7. ASSUME NEW c \in Client, LoadHere(c) PROVE BufferTypes'
  <2>1. buf[c] \in Buffer /\ LOADED \in SUBSET Flag
    BY <1>7, Zenon DEF LoadHere, Flag, LOADED
  <2> QED
    BY <1>7, <2>1, PrefixType, Zenon DEF LoadHere
<1>8. ASSUME NEW c \in Client, LoadFails(c) PROVE BufferTypes' BY <1>8, Zenon DEF LoadFails, Return
<1>9. ASSUME NEW c \in Client, StartThread(c) PROVE BufferTypes'
  <2>1. buf[c] \in Buffer /\ {"known"} \in SUBSET Flag
    BY <1>9, Zenon DEF StartThread, Flag
  <2>2. CASE thread[buf[c]] \in {"none", "joined"} /\ fs = "http"
    <3>1. flags' \in [Buffer -> SUBSET Flag]
      BY <1>9, <2>1, <2>2, PrefixType, ZenonT(60) DEF StartThread
    <3>2. size' \in [Buffer -> Nat]
      BY <1>9, <2>1, <2>2, PrefixType, ZenonT(60) DEF StartThread
    <3>3. ver' \in [Buffer -> Nat]
      BY <1>9, <2>1, <2>2, PrefixType, ZenonT(60) DEF StartThread
    <3>4. thread' \in [Buffer -> PlaceOfThread]
      <4>1. thread' = [thread EXCEPT ![buf[c]] = (IF fs = "zip" THEN "start" ELSE "load")]
        BY <1>9, <2>1, <2>2, PrefixType, Zenon DEF StartThread
      <4>2. (IF fs = "zip" THEN "start" ELSE "load") \in PlaceOfThread
        BY Zenon
      <4> HIDE DEF PlaceOfThread
      <4> QED
        BY <4>1, <4>2, Zenon
    <3> QED
      BY <1>9, <2>2, <3>1, <3>2, <3>3, <3>4, Zenon DEF StartThread
  <2>3. CASE thread[buf[c]] \in {"none", "joined"} /\ fs # "http"
    <3>1. ver' \in [Buffer -> Nat]
      BY <1>9, <2>1, <2>3, ZenonT(60) DEF StartThread
    <3>2. thread' \in [Buffer -> PlaceOfThread]
      <4>1. thread' = [thread EXCEPT ![buf[c]] = (IF fs = "zip" THEN "start" ELSE "load")]
        BY <1>9, <2>1, <2>3, Zenon DEF StartThread
      <4>2. (IF fs = "zip" THEN "start" ELSE "load") \in PlaceOfThread
        BY Zenon
      <4> HIDE DEF PlaceOfThread
      <4> QED
        BY <4>1, <4>2, Zenon
    <3> QED
      BY <1>9, <2>3, <3>1, <3>2, Zenon DEF StartThread
  <2>4. CASE thread[buf[c]] \notin {"none", "joined"}
    BY <1>9, <2>4, Zenon DEF StartThread
  <2> QED
    BY <2>2, <2>3, <2>4, Zenon
<1>10. ASSUME NEW c \in Client, JoinLoad(c) PROVE BufferTypes' BY <1>10, Zenon DEF JoinLoad, Return
<1>11. ASSUME NEW c \in Client, Stamp(c) PROVE BufferTypes' BY <1>11, Zenon DEF Stamp, Timesample
<1>12. ASSUME NEW c \in Client, Insert(c) PROVE BufferTypes' BY <1>12, Zenon DEF Insert
<1>13. ASSUME NEW c \in Client, Check(c) PROVE BufferTypes' BY <1>13, Zenon DEF Check
<1>14. ASSUME NEW c \in Client, Lock(c) PROVE BufferTypes' BY <1>14, Zenon DEF Lock
<1>15. ASSUME NEW c \in Client, Join(c) PROVE BufferTypes' BY <1>15, Zenon DEF Join, Return
<1>16. ASSUME NEW c \in Client, Test(c) PROVE BufferTypes' BY <1>16, Zenon DEF Test, Need
<1>17. ASSUME NEW c \in Client, Wait(c) PROVE BufferTypes' BY <1>17, Zenon DEF Wait
<1>18. ASSUME NEW c \in Client, NEW a \in BOOLEAN, Call(c, a) PROVE BufferTypes'
  BY <1>18, Zenon DEF Call
<1>19. ASSUME NEW c \in Client, NEW n \in 0 .. Size + 1, AskPrefix(c, n) PROVE BufferTypes'
  BY <1>19, Zenon DEF AskPrefix
<1>20. ASSUME NEW c \in Client, NEW p \in Parts, AskPart(c, p[1], p[2]) PROVE BufferTypes'
  BY <1>20, Zenon DEF AskPart
<1>21. ASSUME NEW b \in Buffer, NEW ok \in BOOLEAN, Download(b, ok) PROVE BufferTypes'
  <2>1. flags[b] \cup LOADED \in SUBSET Flag /\ flags[b] \cup {"error"} \in SUBSET Flag
    BY FlagType, Zenon
  <2>2. CASE avail[b] = Size
    BY <1>21, <2>1, <2>2, ZenonT(60) DEF Download, Loads
  <2>3. CASE avail[b] # Size /\ ok
    <3>0. avail[b] + 1 \in Nat /\ filled[b] + 1 \in Nat
      BY Plus, Zenon
    <3>1. avail' \in [Buffer -> Nat]
      BY <1>21, <2>3, <3>0, Zenon DEF Download, Loads
    <3>2. filled' \in [Buffer -> Nat]
      BY <1>21, <2>3, <3>0, Zenon DEF Download, Loads
    <3>3. thread' \in [Buffer -> PlaceOfThread]
      <4>1. thread' = [thread EXCEPT ![b] = "notify"]
        BY <1>21, <2>3, Plus, Zenon DEF Download, Loads
      <4>2. "notify" \in PlaceOfThread
        BY Zenon
      <4> HIDE DEF PlaceOfThread
      <4> QED
        BY <4>1, <4>2, Zenon
    <3> QED
      BY <1>21, <2>3, <3>1, <3>2, <3>3, Zenon DEF Download, Loads
  <2>4. CASE avail[b] # Size /\ ~ok
    BY <1>21, <2>1, <2>4, ZenonT(60) DEF Download, Loads
  <2> QED
    BY <2>2, <2>3, <2>4, Zenon
<1>22. ASSUME NEW b \in Buffer, NEW ok \in BOOLEAN, ZipLoad(b, ok) PROVE BufferTypes'
  <2>1. flags[b] \cup LOADED \in SUBSET Flag
    BY FlagType, Zenon
  <2>2. CASE ok
    <3>1. flags' \in [Buffer -> SUBSET Flag]
      BY <1>22, <2>1, <2>2, PrefixType, ZenonT(60) DEF ZipLoad, Loads
    <3>2. avail' \in [Buffer -> Nat]
      BY <1>22, <2>1, <2>2, PrefixType, ZenonT(60) DEF ZipLoad, Loads
    <3>3. filled' \in [Buffer -> Nat]
      BY <1>22, <2>1, <2>2, PrefixType, ZenonT(60) DEF ZipLoad, Loads
    <3>4. size' \in [Buffer -> Nat]
      BY <1>22, <2>1, <2>2, PrefixType, ZenonT(60) DEF ZipLoad, Loads
    <3>5. ver' \in [Buffer -> Nat]
      BY <1>22, <2>1, <2>2, PrefixType, ZenonT(60) DEF ZipLoad, Loads
    <3>6. thread' \in [Buffer -> PlaceOfThread]
      <4>1. thread' = [thread EXCEPT ![b] = "notify end"]
        BY <1>22, <2>1, <2>2, PrefixType, Zenon DEF ZipLoad, Loads
      <4>2. "notify end" \in PlaceOfThread
        BY Zenon
      <4> HIDE DEF PlaceOfThread
      <4> QED
        BY <4>1, <4>2, Zenon
    <3> QED
      BY <1>22, <2>2, <3>1, <3>2, <3>3, <3>4, <3>5, <3>6, Zenon DEF ZipLoad, Loads
  <2>3. CASE ~ok
    BY <1>22, <2>3, Zenon DEF ZipLoad, Loads
  <2> QED
    BY <2>2, <2>3, Zenon
<1>23. ASSUME NEW b \in Buffer, NEW ok \in BOOLEAN, SingleLoad(b, ok) PROVE BufferTypes'
  <2>1. flags[b] \cup LOADED \in SUBSET Flag
    BY FlagType, Zenon
  <2> QED
    BY <1>23, <2>1, PrefixType, ZenonT(60) DEF SingleLoad, Loads
<1>24. ASSUME NEW b \in Buffer, ZipLock(b) PROVE BufferTypes' BY <1>24, Zenon DEF ZipLock, Loads
<1>25. ASSUME NEW b \in Buffer, Notify(b) PROVE BufferTypes' BY <1>25, Zenon DEF Notify, NotifyAll
<1>26. ASSUME Change PROVE BufferTypes' BY <1>26, Zenon DEF Change
<1>27. CASE UNCHANGED vars BY <1>27, Zenon DEF vars
<1> HIDE DEF Types, BufferTypes, ClientTypes, PlaceOfClient, PlaceOfThread, Owner, Ended
<1> QED
  BY Zenon, <1>1, <1>2, <1>3, <1>4, <1>5, <1>6, <1>7, <1>8, <1>9, <1>10, <1>11, <1>12,
       <1>13, <1>14, <1>15, <1>16, <1>17, <1>18, <1>19, <1>20, <1>21, <1>22,
       <1>23, <1>24, <1>25, <1>26, <1>27
     DEF Next, ClientStep, Begin, LoaderStep

(* Every step keeps the types of the clients' variables.                    *)
LEMMA ClientTypesStep ==
  ASSUME Types, [Next]_vars
  PROVE  ClientTypes'
<1> USE DEF Set, At, fileVars, bufVars, callVars, histVars,
            Types, BufferTypes, ClientTypes, PlaceOfClient, PlaceOfThread, Owner, Ended
<1>1. ASSUME NEW c \in Client, Spurious(c) PROVE ClientTypes' BY <1>1, Zenon DEF Spurious
<1>2. ASSUME NEW c \in Client, Lookup(c) PROVE ClientTypes'
  <2>1. CASE entry = None
    <3>1. PICK b \in Buffer : Set(buf, c, b) /\ Set(made, c, TRUE) /\ Set(pc, c, "reset")
      BY <1>2, <2>1, Zenon DEF Lookup
    <3> QED
      BY <1>2, <3>1, Zenon DEF Lookup
  <2> QED
    BY <1>2, <2>1, Zenon DEF Lookup
<1>3. ASSUME NEW c \in Client, Fetch(c) PROVE ClientTypes' BY <1>3, Zenon DEF Fetch, Timesample
<1>4. ASSUME NEW c \in Client, Reset(c) PROVE ClientTypes' BY <1>4, Zenon DEF Reset
<1>5. ASSUME NEW c \in Client, Unmap(c) PROVE ClientTypes' BY <1>5, Zenon DEF Unmap
<1>6. ASSUME NEW c \in Client, LoadHere(c) PROVE ClientTypes' BY <1>6, Zenon DEF LoadHere, Threaded
<1>7. ASSUME NEW c \in Client, LoadFails(c) PROVE ClientTypes'
  BY <1>7, NoRequestType, Zenon DEF LoadFails, Return
<1>8. ASSUME NEW c \in Client, StartThread(c) PROVE ClientTypes'
  BY <1>8, ZenonT(60) DEF StartThread, Threaded
<1>9. ASSUME NEW c \in Client, JoinLoad(c) PROVE ClientTypes'
  <2>1. CASE pc' = [pc EXCEPT ![c] = "stamp"] /\ UNCHANGED <<async, buf, made, req, got>>
    BY <1>9, <2>1, Zenon DEF JoinLoad
  <2>2. CASE Return(c)
    BY <1>9, <2>2, NoRequestType, ZenonT(60) DEF Return, JoinLoad
  <2>3. CASE UNCHANGED callVars
    BY <1>9, <2>3, Zenon DEF JoinLoad
  <2> QED
    BY <1>9, <2>1, <2>2, <2>3, Zenon DEF JoinLoad
<1>10. ASSUME NEW c \in Client, Stamp(c) PROVE ClientTypes' BY <1>10, Zenon DEF Stamp, Timesample
<1>11. ASSUME NEW c \in Client, Insert(c) PROVE ClientTypes' BY <1>11, Zenon DEF Insert
<1>12. ASSUME NEW c \in Client, Check(c) PROVE ClientTypes' BY <1>12, Zenon DEF Check
<1>13. ASSUME NEW c \in Client, Lock(c) PROVE ClientTypes' BY <1>13, Zenon DEF Lock
<1>14. ASSUME NEW c \in Client, Join(c) PROVE ClientTypes'
  <2>1. CASE pc' = [pc EXCEPT ![c] = "have"] /\ UNCHANGED <<async, buf, made, req, got>>
    BY <1>14, <2>1, Zenon DEF Join
  <2>2. CASE Return(c)
    BY <1>14, <2>2, NoRequestType, ZenonT(60) DEF Return, Join
  <2>3. CASE UNCHANGED callVars
    BY <1>14, <2>3, Zenon DEF Join
  <2> QED
    BY <1>14, <2>1, <2>2, <2>3, Zenon DEF Join
<1>15. ASSUME NEW c \in Client, Test(c) PROVE ClientTypes' BY <1>15, ZenonT(60) DEF Test, Need
<1>16. ASSUME NEW c \in Client, Wait(c) PROVE ClientTypes' BY <1>16, Zenon DEF Wait
<1>17. ASSUME NEW c \in Client, SizeTest(c) PROVE ClientTypes'
  <2>1. req[c].n \in Nat
    BY Zenon
  <2> QED
    BY <1>17, <2>1, ZenonT(60) DEF SizeTest
<1>18. ASSUME NEW c \in Client, SizeRest(c) PROVE ClientTypes'
  <2>1. req[c].off \in Nat /\ avail[buf[c]] \in Nat
    BY <1>18, Zenon DEF SizeRest
  <2>2. req[c].off <= avail[buf[c]] => avail[buf[c]] - req[c].off \in Nat
    BY <2>1, Minus, Zenon
  <2> QED
    BY <1>18, <2>2, ZenonT(60) DEF SizeRest, End
<1>19. ASSUME NEW c \in Client, Copy(c) PROVE ClientTypes' BY <1>19, Zenon DEF Copy, End
<1>20. ASSUME NEW c \in Client, NEW a \in BOOLEAN, Call(c, a) PROVE ClientTypes'
  BY <1>20, Zenon DEF Call
<1>21. ASSUME NEW c \in Client, NEW n \in 0 .. Size + 1, AskPrefix(c, n) PROVE ClientTypes'
  <2>1. CASE UNCHANGED <<pc, req>>
    BY <1>21, <2>1, Zenon DEF AskPrefix
  <2>2. CASE Set(pc, c, "refused") \/ Set(pc, c, "test")
    <3>1. CASE req' = [req EXCEPT ![c] = [kind |-> "prefix", off |-> 0, n |-> n]]
      <4>1. n \in Nat /\ 0 \in Nat
        BY PrefixType
      <4>2. [kind |-> "prefix", off |-> 0, n |-> n]
              \in [kind : {"none", "prefix", "part"}, off : Nat, n : Nat]
        BY <4>1, Zenon
      <4>3. req' \in [Client -> [kind : {"none", "prefix", "part"}, off : Nat, n : Nat]]
        BY <3>1, <4>2, Zenon
      <4> QED
        BY <1>21, <2>2, <4>3, Zenon DEF AskPrefix
    <3> QED
      BY <1>21, <2>1, <3>1, Zenon DEF AskPrefix
  <2> QED
    BY <1>21, <2>1, <2>2, Zenon DEF AskPrefix
<1>22. ASSUME NEW c \in Client, NEW p \in Parts, AskPart(c, p[1], p[2]) PROVE ClientTypes'
  <2>1. p[1] \in Nat /\ p[2] \in Nat
    BY PartType, Zenon
  <2> QED
    BY <1>22, <2>1, Zenon DEF AskPart
<1>23. ASSUME NEW c \in Client, Release(c) PROVE ClientTypes'
  BY <1>23, NoRequestType, Zenon DEF Release, Return
<1>24. ASSUME NEW b \in Buffer, NEW ok \in BOOLEAN, Download(b, ok) PROVE ClientTypes'
  BY <1>24, Zenon DEF Download, Loads
<1>25. ASSUME NEW b \in Buffer, NEW ok \in BOOLEAN, ZipLoad(b, ok) PROVE ClientTypes'
  BY <1>25, Zenon DEF ZipLoad, Loads
<1>26. ASSUME NEW b \in Buffer, NEW ok \in BOOLEAN, SingleLoad(b, ok) PROVE ClientTypes'
  BY <1>26, Zenon DEF SingleLoad, Loads
<1>27. ASSUME NEW b \in Buffer, ZipLock(b) PROVE ClientTypes' BY <1>27, Zenon DEF ZipLock, Loads
<1>28. ASSUME NEW b \in Buffer, Notify(b) PROVE ClientTypes' BY <1>28, Zenon DEF Notify, NotifyAll
<1>29. ASSUME Change PROVE ClientTypes' BY <1>29, Plus, Zenon DEF Change
<1>30. CASE UNCHANGED vars BY <1>30, Zenon DEF vars
<1> HIDE DEF Types, BufferTypes, ClientTypes, PlaceOfClient, PlaceOfThread, Owner, Ended
<1> QED
  BY Zenon, <1>1, <1>2, <1>3, <1>4, <1>5, <1>6, <1>7, <1>8, <1>9, <1>10, <1>11, <1>12,
       <1>13, <1>14, <1>15, <1>16, <1>17, <1>18, <1>19, <1>20, <1>21, <1>22,
       <1>23, <1>24, <1>25, <1>26, <1>27, <1>28, <1>29, <1>30
     DEF Next, ClientStep, Begin, LoaderStep
-----------------------------------------------------------------------------
(* Nothing grows past the file or past the number of its changes.  The      *)
(* chunks of a download are counted twice, in what is available and in what *)
(* is in place, and only the first of them ends it.                         *)
BufferBounds ==
  \A b \in Buffer :
    /\ avail[b] <= Size /\ size[b] <= Size /\ filled[b] <= Size
    /\ ver[b] <= MaxChange /\ time[b] <= MaxChange
    /\ fs = "http" => filled[b] = avail[b]

(* The requests and the history; a mapped file alone is unmapped.           *)
ClientBounds ==
  /\ fs \in Fs /\ now <= MaxChange /\ up \in {"yes", "no"}
  /\ calls \in 0 .. MaxCalls /\ late \in SUBSET Buffer /\ missed \in SUBSET Client
  /\ \A c \in Client :
       /\ req[c].off <= Size /\ req[c].n <= Size + 1 /\ got[c] <= Size
       /\ began[c] <= MaxChange
       /\ pc[c] = "unmap" => fs = "flat"

(* The bounds are natural numbers, and so is what is below them.            *)
LEMMA BoundTypes ==
  /\ Size \in Nat /\ MaxChange \in Nat /\ MaxCalls \in Nat
  /\ 0 <= Size /\ Size <= Size /\ 0 <= MaxChange /\ 0 <= Size + 1 /\ Size + 1 \in Nat
  /\ \A n \in 0 .. Size + 1 : n <= Size + 1
BY SizeAssumption

(* What is below a bound and is not the bound can grow by one.              *)
LEMMA Growth == \A a, s \in Nat : a <= s /\ a # s => a + 1 <= s
OBVIOUS

(* The rest of what is available is a part of the file.                     *)
LEMMA RestWithin == \A x, a, s \in Nat : x <= a /\ a <= s => a - x <= s
OBVIOUS

(* So is what ends before it.                                               *)
LEMMA PartWithin == \A x, y, a, s \in Nat : ~(x + y >= a) /\ a <= s => y <= s
OBVIOUS

(* Every step keeps the bounds of the buffers.                              *)
LEMMA BufferBoundsStep ==
  ASSUME Types, BufferBounds, ClientBounds, [Next]_vars
  PROVE  BufferBounds'
<1>0. /\ buf \in [Client -> Buffer \cup {None}] /\ pc \in [Client -> PlaceOfClient]
      /\ \A c \in Client : pc[c] \notin {"idle", "lookup", "fetch"} => buf[c] \in Buffer
      /\ avail \in [Buffer -> Nat] /\ size \in [Buffer -> Nat] /\ filled \in [Buffer -> Nat]
      /\ ver \in [Buffer -> Nat] /\ time \in [Buffer -> Nat]
      /\ now <= MaxChange /\ \A c \in Client : pc[c] = "unmap" => fs = "flat"
  BY Zenon DEF Types, BufferTypes, ClientTypes, ClientBounds
<1> USE <1>0, BoundTypes DEF Set, At, fileVars, bufVars, callVars, histVars, BufferBounds
<1>1. ASSUME NEW c \in Client, Fetch(c) \/ Reset(c) \/ LoadFails(c) \/ JoinLoad(c) \/ Insert(c)
      PROVE  BufferBounds'
  BY <1>1, Zenon DEF Fetch, Reset, LoadFails, JoinLoad, Insert
<1>2. ASSUME NEW c \in Client, Check(c) \/ Lock(c) \/ Join(c) \/ Test(c) \/ Wait(c)
      PROVE  BufferBounds'
  BY <1>2, Zenon DEF Check, Lock, Join, Test, Wait
<1>3. ASSUME NEW c \in Client, SizeTest(c) \/ SizeRest(c) \/ Copy(c) \/ Release(c) \/ Spurious(c)
      PROVE  BufferBounds'
  BY <1>3, Zenon DEF SizeTest, SizeRest, Copy, Release, Spurious
<1>4. ASSUME NEW c \in Client, Lookup(c) PROVE BufferBounds'
  <2>1. CASE entry = None
    <3>1. PICK b \in Buffer :
            /\ Set(avail, b, 0) /\ Set(size, b, 0)
            /\ Set(filled, b, 0) /\ Set(ver, b, 0) /\ Set(time, b, 0)
      BY <1>4, <2>1, Zenon DEF Lookup
    <3> QED
      BY <1>4, <3>1, Zenon DEF Lookup
  <2> QED
    BY <1>4, <2>1, Zenon DEF Lookup
<1>5. ASSUME NEW c \in Client, Unmap(c) PROVE BufferBounds' BY <1>5, Zenon DEF Unmap
<1>6. ASSUME NEW c \in Client, LoadHere(c) PROVE BufferBounds'
  BY <1>6, Zenon DEF LoadHere
<1>7. ASSUME NEW c \in Client, StartThread(c) PROVE BufferBounds'
  BY <1>7, ZenonT(60) DEF StartThread
<1>8. ASSUME NEW c \in Client, Stamp(c) PROVE BufferBounds' BY <1>8, Zenon DEF Stamp, Timesample
<1>9. ASSUME NEW c \in Client, Begin(c) PROVE BufferBounds'
  BY <1>9, <1>3, Zenon DEF Begin, Call, AskPrefix, AskPart
<1>10. ASSUME NEW b \in Buffer, NEW ok \in BOOLEAN, Download(b, ok) PROVE BufferBounds'
  <2>1. avail[b] # Size => avail[b] + 1 <= Size
    BY Growth, Zenon
  <2>2. UNCHANGED <<size, ver, time, fs>> /\ filled[b] = avail[b]
    BY <1>10, Zenon DEF Download, Loads
  <2>3. \/ UNCHANGED <<avail, filled>>
        \/ /\ avail[b] # Size
           /\ Set(avail, b, avail[b] + 1) /\ Set(filled, b, avail[b] + 1)
    BY <1>10, <2>2, Zenon DEF Download, Loads
  <2> QED
    BY <2>1, <2>2, <2>3, Zenon
<1>11. ASSUME NEW b \in Buffer, NEW ok \in BOOLEAN, ZipLoad(b, ok) PROVE BufferBounds'
  BY <1>11, Zenon DEF ZipLoad, Loads
<1>12. ASSUME NEW b \in Buffer, NEW ok \in BOOLEAN, SingleLoad(b, ok) PROVE BufferBounds'
  BY <1>12, Zenon DEF SingleLoad, Loads
<1>13. ASSUME NEW b \in Buffer, ZipLock(b) \/ Notify(b) PROVE BufferBounds'
  BY <1>13, Zenon DEF ZipLock, Notify
<1>14. ASSUME Change PROVE BufferBounds' BY <1>14, Zenon DEF Change
<1>15. CASE UNCHANGED vars BY <1>15, Zenon DEF vars
<1> HIDE <1>0 DEF BufferBounds
<1> QED
  BY Zenon, <1>1, <1>2, <1>3, <1>4, <1>5, <1>6, <1>7, <1>8, <1>9, <1>10, <1>11, <1>12,
     <1>13, <1>14, <1>15 DEF Next, ClientStep, LoaderStep

(* Every step keeps the bounds of the requests and of the history.          *)
LEMMA ClientBoundsStep ==
  ASSUME Types, BufferBounds, ClientBounds, [Next]_vars
  PROVE  ClientBounds'
<1>0. /\ buf \in [Client -> Buffer \cup {None}] /\ pc \in [Client -> PlaceOfClient]
      /\ \A c \in Client : pc[c] \notin {"idle", "lookup", "fetch"} => buf[c] \in Buffer
      /\ avail \in [Buffer -> Nat] /\ \A b \in Buffer : avail[b] <= Size
      /\ req \in [Client -> [kind : {"none", "prefix", "part"}, off : Nat, n : Nat]]
      /\ got \in [Client -> Nat] /\ began \in [Client -> Nat] /\ now \in Nat
  BY Zenon DEF Types, BufferTypes, ClientTypes, BufferBounds
<1> USE <1>0, BoundTypes DEF Set, At, fileVars, bufVars, callVars, histVars, ClientBounds
<1>1. ASSUME NEW c \in Client, Fetch(c) \/ Reset(c) \/ Unmap(c) \/ Insert(c)
      PROVE  ClientBounds'
  BY <1>1, Zenon DEF Fetch, Reset, Unmap, Insert
<1>2. ASSUME NEW c \in Client, Check(c) \/ Lock(c) \/ Wait(c) \/ Spurious(c) \/ Copy(c)
      PROVE  ClientBounds'
  BY <1>2, Zenon DEF Check, Lock, Wait, Spurious, Copy, End
<1>3. ASSUME NEW c \in Client, Return(c), UNCHANGED <<fileVars, histVars>>
      PROVE  ClientBounds'
  BY <1>3, Zenon DEF Return, NoRequest
<1>4. ASSUME NEW c \in Client, LoadFails(c) \/ Release(c) PROVE ClientBounds'
  BY <1>3, <1>4, Zenon DEF LoadFails, Release
<1>5. ASSUME NEW c \in Client, JoinLoad(c) \/ Join(c) PROVE ClientBounds'
  <2>1. CASE Return(c)
    BY <1>3, <1>5, <2>1, Zenon DEF JoinLoad, Join
  <2>2. CASE UNCHANGED <<req, got>>
    <3>1. \/ pc' = [pc EXCEPT ![c] = "stamp"] \/ pc' = [pc EXCEPT ![c] = "have"]
          \/ pc' = [pc EXCEPT ![c] = "idle"] \/ pc' = pc
      BY <1>5, Zenon DEF JoinLoad, Join, Return
    <3>2. up' \in {"yes", "no"} /\ UNCHANGED <<fs, now, histVars>>
      BY <1>5, Zenon DEF JoinLoad, Join
    <3> QED
      BY <2>2, <3>1, <3>2, Zenon
  <2> QED
    BY <1>5, <2>1, <2>2, Zenon DEF JoinLoad, Join
<1>6. ASSUME NEW c \in Client, Lookup(c) PROVE ClientBounds'
  BY <1>6, Zenon DEF Lookup
<1>7. ASSUME NEW c \in Client, LoadHere(c) PROVE ClientBounds'
  BY <1>7, Zenon DEF LoadHere
<1>8. ASSUME NEW c \in Client, StartThread(c) PROVE ClientBounds'
  BY <1>8, Zenon DEF StartThread
<1>9. ASSUME NEW c \in Client, Stamp(c) PROVE ClientBounds' BY <1>9, Zenon DEF Stamp
<1>10. ASSUME NEW c \in Client, Test(c) PROVE ClientBounds' BY <1>10, Zenon DEF Test
<1>11. ASSUME NEW c \in Client, SizeTest(c) PROVE ClientBounds'
  <2>1. /\ req[c].off \in Nat /\ req[c].n \in Nat /\ avail[buf[c]] \in Nat
        /\ avail[buf[c]] <= Size
    BY <1>11, Zenon DEF SizeTest
  <2>2. ~(Need(c) >= avail[buf[c]]) => req[c].n <= Size
    BY <2>1, PartWithin, Zenon DEF Need
  <2> QED
    BY <1>11, <2>2, Zenon DEF SizeTest
<1>12. ASSUME NEW c \in Client, SizeRest(c) PROVE ClientBounds'
  <2>1. req[c].off <= avail[buf[c]] => avail[buf[c]] - req[c].off <= Size
    BY <1>12, RestWithin, Zenon DEF SizeRest
  <2> QED
    BY <1>12, <2>1, Zenon DEF SizeRest, End
<1>13. ASSUME NEW c \in Client, NEW a \in BOOLEAN, Call(c, a) PROVE ClientBounds'
  BY <1>13, SMTT(60) DEF Call
<1>14. ASSUME NEW c \in Client, NEW n \in 0 .. Size + 1, AskPrefix(c, n) PROVE ClientBounds'
  <2>1. CASE UNCHANGED <<pc, req>>
    BY <1>14, <2>1, Zenon DEF AskPrefix
  <2>2. CASE Set(pc, c, "refused") \/ Set(pc, c, "test")
    <3>1. CASE req' = [req EXCEPT ![c] = [kind |-> "prefix", off |-> 0, n |-> n]]
      <4>1. /\ [kind |-> "prefix", off |-> 0, n |-> n].off = 0
            /\ [kind |-> "prefix", off |-> 0, n |-> n].n = n
        OBVIOUS
      <4>2. \A d \in Client : req'[d].off <= Size /\ req'[d].n <= Size + 1
        BY <3>1, <4>1, Zenon
      <4>3. \A d \in Client : pc'[d] = "unmap" => pc[d] = "unmap"
        BY <2>2, Zenon
      <4> QED
        BY <1>14, <4>2, <4>3, Zenon DEF AskPrefix
    <3> QED
      BY <1>14, <2>1, <3>1, Zenon DEF AskPrefix
  <2> QED
    BY <1>14, <2>1, <2>2, Zenon DEF AskPrefix
<1>15. ASSUME NEW c \in Client, NEW p \in Parts, AskPart(c, p[1], p[2]) PROVE ClientBounds'
  <2>1. p[1] <= Size /\ p[2] <= Size + 1
    BY PartsAssumption
  <2> QED
    BY <1>15, <2>1, Zenon DEF AskPart
<1>16. ASSUME NEW b \in Buffer, NEW ok \in BOOLEAN, Download(b, ok) \/ ZipLoad(b, ok) \/ SingleLoad(b, ok)
       PROVE  ClientBounds'
  BY <1>16, Zenon DEF Download, ZipLoad, SingleLoad
<1>17. ASSUME NEW b \in Buffer, ZipLock(b) PROVE ClientBounds' BY <1>17, Zenon DEF ZipLock
<1>18. ASSUME NEW b \in Buffer, Notify(b) PROVE ClientBounds'
  BY <1>18, Zenon DEF Notify, NotifyAll
<1>19. ASSUME Change PROVE ClientBounds'
  <2>1. \A c \in Client : pc[c] \in {"join load", "stamp"} => buf[c] \in Buffer
    BY Zenon
  <2>2. late' \in SUBSET Buffer
    <3> DEFINE Reloaded == {d \in Client : pc[d] \in {"join load", "stamp"}}
    <3>1. late' = late \cup {buf[c] : c \in Reloaded}
      BY <1>19, Zenon DEF Change
    <3>2. \A c \in Reloaded : buf[c] \in Buffer
      BY <2>1, Zenon
    <3> HIDE DEF Reloaded
    <3>3. {buf[c] : c \in Reloaded} \in SUBSET Buffer
      BY <3>2
    <3> QED
      BY <3>1, <3>3, Zenon
  <2>3. now' <= MaxChange
    <3>1. now < MaxChange /\ now' = now + 1
      BY <1>19, Zenon DEF Change
    <3> QED
      BY <3>1
  <2> QED
    BY <1>19, <2>2, <2>3, Zenon DEF Change
<1>20. CASE UNCHANGED vars BY <1>20, Zenon DEF vars
<1> HIDE <1>0 DEF ClientBounds
<1> QED
  BY Zenon, <1>1, <1>2, <1>4, <1>5, <1>6, <1>7, <1>8, <1>9, <1>10, <1>11, <1>12,
     <1>13, <1>14, <1>15, <1>16, <1>17, <1>18, <1>19, <1>20
     DEF Next, ClientStep, Begin, LoaderStep

(* Types and bounds hold when no file has been asked for.                   *)
LEMMA TypesInit == Init => Types /\ BufferBounds /\ ClientBounds
<1> SUFFICES ASSUME Init PROVE Types /\ BufferBounds /\ ClientBounds
  BY Zenon
<1>1. Types
  BY NoRequestType, Zenon DEF Init, Types, BufferTypes, ClientTypes, Flag, PlaceOfThread,
     PlaceOfClient, Owner
<1>2. BufferBounds
  BY BoundTypes, Zenon DEF Init, BufferBounds
<1>3. ClientBounds
  BY BoundTypes, SMTT(60) DEF Init, ClientBounds, NoRequest
<1> QED
  BY <1>1, <1>2, <1>3, Zenon

(* Together they say that every variable has its type.                      *)
LEMMA TypesEnough == Types /\ BufferBounds /\ ClientBounds => TypeOK
<1> SUFFICES ASSUME Types, BufferBounds, ClientBounds PROVE TypeOK
  BY Zenon
<1>0. \A a, s \in Nat : a <= s => a \in 0 .. s
  OBVIOUS
<1>1. /\ avail \in [Buffer -> 0 .. Size] /\ size \in [Buffer -> 0 .. Size]
      /\ filled \in [Buffer -> 0 .. Size]
  BY <1>0, BoundTypes, Zenon DEF Types, BufferTypes, BufferBounds
<1>2. ver \in [Buffer -> 0 .. MaxChange] /\ time \in [Buffer -> 0 .. MaxChange]
  BY <1>0, BoundTypes, Zenon DEF Types, BufferTypes, BufferBounds
<1>3. req \in [Client -> Request]
  BY <1>0, BoundTypes, Zenon DEF Types, ClientTypes, ClientBounds, Request
<1>4. got \in [Client -> 0 .. Size] /\ began \in [Client -> 0 .. MaxChange]
  BY <1>0, BoundTypes, Zenon DEF Types, ClientTypes, ClientBounds
<1>5. now \in 0 .. MaxChange
  BY <1>0, BoundTypes, Zenon DEF Types, ClientTypes, ClientBounds
<1> QED
  BY <1>1, <1>2, <1>3, <1>4, <1>5, Zenon
     DEF TypeOK, Types, BufferTypes, ClientTypes, ClientBounds, Flag

(* The variables keep their types, whatever the clients and the threads do: *)
(* what is available never exceeds the file, nor what a request is given.   *)
THEOREM TypesKept == Spec => []TypeOK
<1> DEFINE I == Types /\ BufferBounds /\ ClientBounds
<1>1. Init => I
  BY TypesInit, Zenon
<1>2. I /\ [Next]_vars => I'
  BY BufferTypesStep, ClientTypesStep, BufferBoundsStep, ClientBoundsStep, Zenon DEF Types
<1>3. I => TypeOK
  BY TypesEnough, Zenon
<1> HIDE DEF I
<1> QED
  BY <1>1, <1>2, <1>3, PTL DEF Spec

-----------------------------------------------------------------------------

(* A buffer's time is never ahead of the file's.                            *)
TimeInv == \A b \in Buffer : time[b] <= now

Making == {"reset", "unmap", "load", "join load", "stamp", "insert"}

(* Until the file changes, a buffer that is being loaded by get_file_buffer *)
(* is the client's own: it is not in the map and no other client has it.    *)
(* (The buffer that is found in the map is loaded anew only if its time     *)
(* differs.)                                                                *)
OwnInv == now = 0 =>
  \A c \in Client : pc[c] \in Making =>
    buf[c] # entry /\ \A d \in Client : d # c => buf[d] # buf[c]

(* Such a buffer has had no load before: nothing is available, no flag is   *)
(* set, and it has no thread that could be joined or could publish          *)
(* something.                                                               *)
FreshInv == now = 0 =>
  \A c \in Client : pc[c] \in {"reset", "unmap", "load"} =>
    avail[buf[c]] = 0 /\ thread[buf[c]] = "none" /\ flags[buf[c]] = {}

Running == {"start", "load", "notify"}

(* A thread that is at work has not marked its buffer, neither as loaded    *)
(* nor as failed.                                                           *)
RunInv == now = 0 =>
  \A b \in Buffer : thread[b] \in Running => ~IsLoaded(b) /\ ~IsError(b)

(* What is published is in place, and is a part of the file.                *)
PlaceInv == now = 0 =>
  \A b \in Buffer : avail[b] <= filled[b] /\ avail[b] <= Size

(* The age of a buffer's data: it is as new as the buffer's time; as new as *)
(* the file when its load has ended and its time is about to be taken; and, *)
(* once that is done, as new as the client's call was.  Buffers whose file  *)
(* changed in between are the exception.                                    *)
AgeInv ==
  /\ \A b \in Buffer : time[b] <= ver[b] \/ b \in late
  /\ \A c \in Client :
       /\ began[c] <= now
       /\ pc[c] \in {"join load", "stamp"} => ver[buf[c]] = now \/ buf[c] \in late
       /\ pc[c] \in {"insert", "check", "lock", "join", "have"} /\ fs # "http" =>
            ver[buf[c]] >= began[c] \/ buf[c] \in late

(* Stamp takes the time the file has; the file's time only grows.           *)
LEMMA TimeInvStep ==
  ASSUME Types, TimeInv, [Next]_vars
  PROVE  TimeInv'
<1>0. /\ buf \in [Client -> Buffer \cup {None}] /\ pc \in [Client -> PlaceOfClient]
      /\ \A c \in Client : pc[c] \notin {"idle", "lookup", "fetch"} => buf[c] \in Buffer
      /\ now \in Nat /\ time \in [Buffer -> Nat]
  BY Zenon DEF Types, BufferTypes, ClientTypes
<1> USE <1>0 DEF Set, At, fileVars, bufVars, callVars, histVars,
            TimeInv
<1>1. ASSUME NEW c \in Client, Fetch(c) \/ Reset(c) \/ Unmap(c) \/ LoadHere(c) PROVE TimeInv'
  BY <1>1, Zenon DEF Fetch, Timesample, Reset, Unmap, LoadHere, Threaded
<1>2. ASSUME NEW c \in Client, LoadFails(c) \/ StartThread(c) \/ JoinLoad(c) \/ Insert(c) PROVE TimeInv'
  BY <1>2, Zenon DEF LoadFails, Return, StartThread, Threaded, JoinLoad, Insert
<1>3. ASSUME NEW c \in Client, Check(c) \/ Lock(c) \/ Join(c) \/ Test(c) PROVE TimeInv'
  BY <1>3, Zenon DEF Check, Lock, Join, Return, Test, Need
<1>4. ASSUME NEW c \in Client, Wait(c) \/ SizeTest(c) \/ SizeRest(c) \/ Copy(c) PROVE TimeInv'
  BY <1>4, Zenon DEF Wait, SizeTest, Need, SizeRest, End, Copy
<1>5. ASSUME NEW c \in Client, Release(c) \/ Spurious(c) PROVE TimeInv'
  BY <1>5, Zenon DEF Release, Return, Ended, Spurious
<1>6. ASSUME NEW c \in Client, Lookup(c) PROVE TimeInv'
  <2>1. CASE entry = None
    <3>1. PICK b \in Buffer :
            /\ Unused(b) /\ Set(buf, c, b) /\ Set(pc, c, "reset")
            /\ Set(flags, b, {}) /\ Set(avail, b, 0) /\ Set(size, b, 0)
            /\ Set(filled, b, 0) /\ Set(ver, b, 0) /\ Set(time, b, 0)
            /\ Set(thread, b, "none") /\ Set(lock, b, "free")
      BY <1>6, <2>1, Zenon DEF Lookup
    <3> QED
      BY <1>6, <2>1, <3>1, Order, Zenon DEF Lookup
  <2>2. CASE entry # None
    BY <1>6, <2>2, Zenon DEF Lookup
  <2> QED
    BY <2>1, <2>2, Zenon
<1>7. ASSUME NEW c \in Client, Stamp(c) PROVE TimeInv'
  <2>1. Timesample <= now /\ buf[c] \in Buffer
    BY <1>7, Order, Zenon DEF Stamp, Timesample
  <2> QED
    BY <1>7, <2>1, Zenon DEF Stamp
<1>8. ASSUME NEW c \in Client, NEW a \in BOOLEAN, Call(c, a) PROVE TimeInv' BY <1>8, Zenon DEF Call
<1>9. ASSUME NEW c \in Client, NEW n \in 0 .. Size + 1, AskPrefix(c, n) PROVE TimeInv'
  BY <1>9, Zenon DEF AskPrefix
<1>10. ASSUME NEW c \in Client, NEW p \in Parts, AskPart(c, p[1], p[2]) PROVE TimeInv'
  BY <1>10, Zenon DEF AskPart
<1>11. ASSUME NEW b \in Buffer, NEW ok \in BOOLEAN, Download(b, ok) PROVE TimeInv'
  BY <1>11, Zenon DEF Download, Loads
<1>12. ASSUME NEW b \in Buffer, NEW ok \in BOOLEAN, ZipLoad(b, ok) PROVE TimeInv'
  BY <1>12, Zenon DEF ZipLoad, Loads
<1>13. ASSUME NEW b \in Buffer, NEW ok \in BOOLEAN, SingleLoad(b, ok) PROVE TimeInv'
  BY <1>13, Zenon DEF SingleLoad, Loads
<1>14. ASSUME NEW b \in Buffer, ZipLock(b) PROVE TimeInv' BY <1>14, Zenon DEF ZipLock, Loads
<1>15. ASSUME NEW b \in Buffer, Notify(b) PROVE TimeInv' BY <1>15, Zenon DEF Notify, NotifyAll
<1>16. ASSUME Change PROVE TimeInv'
  <2>1. \A b \in Buffer : time[b] <= now + 1
    BY Order, Zenon
  <2> QED
    BY <1>16, <2>1, Zenon DEF Change
<1>17. CASE UNCHANGED vars BY <1>17, Zenon DEF vars
<1> HIDE <1>0 DEF TimeInv
<1> QED
  BY Zenon, <1>1, <1>2, <1>3, <1>4, <1>5, <1>6, <1>7, <1>8, <1>9, <1>10, <1>11, <1>12,
       <1>13, <1>14, <1>15, <1>16, <1>17
     DEF Next, ClientStep, Begin, LoaderStep

(* A new buffer is nobody's; a buffer of the map is not loaded again, as    *)
(* its time is 0; and the buffer that Insert puts into the map is nobody    *)
(* else's.                                                                  *)
LEMMA OwnInvStep ==
  ASSUME Types, TimeInv, OwnInv, [Next]_vars
  PROVE  OwnInv'
<1>0. /\ buf \in [Client -> Buffer \cup {None}] /\ pc \in [Client -> PlaceOfClient]
      /\ \A c \in Client : pc[c] \notin {"idle", "lookup", "fetch"} => buf[c] \in Buffer
      /\ now \in Nat
      /\ entry \in Buffer \cup {None} /\ time \in [Buffer -> Nat]
      /\ \A c \in Client : pc[c] = "fetch" => entry \in Buffer
  BY Zenon DEF Types, BufferTypes, ClientTypes
<1> USE <1>0 DEF Set, At, fileVars, bufVars, callVars, histVars,
            TimeInv, OwnInv, Making
<1>1. ASSUME NEW c \in Client, Spurious(c) PROVE OwnInv' BY <1>1, Zenon DEF Spurious
<1>2. ASSUME NEW c \in Client, Lookup(c) PROVE OwnInv'
  <2>1. CASE entry = None
    <3>1. PICK b \in Buffer :
            /\ Unused(b) /\ Set(buf, c, b) /\ Set(pc, c, "reset")
            /\ Set(flags, b, {}) /\ Set(avail, b, 0) /\ Set(size, b, 0)
            /\ Set(filled, b, 0) /\ Set(ver, b, 0) /\ Set(time, b, 0)
            /\ Set(thread, b, "none") /\ Set(lock, b, "free")
      BY <1>2, <2>1, Zenon DEF Lookup
    <3>2. b # entry /\ \A d \in Client : buf[d] # b
      BY <3>1, Zenon DEF Unused
    <3>3. \A d \in Client : d # c => pc'[d] = pc[d] /\ buf'[d] = buf[d]
      BY <3>1, ZenonT(60)
    <3>4. pc'[c] = "reset" /\ buf'[c] = b /\ pc[c] = "lookup"
      BY <1>2, <3>1, Zenon DEF Lookup
    <3>5. UNCHANGED <<now, entry>>
      BY <1>2, Zenon DEF Lookup
    <3> SUFFICES ASSUME now = 0, NEW d \in Client, pc'[d] \in Making
                 PROVE  buf'[d] # entry /\ \A e \in Client : e # d => buf'[e] # buf'[d]
      BY <3>5, Zenon
    <3>6. CASE d = c
      BY <3>2, <3>3, <3>4, <3>6, Zenon
    <3>7. CASE d # c
      BY <3>2, <3>3, <3>4, <3>7, Zenon
    <3> QED
      BY <3>6, <3>7, Zenon
  <2>2. CASE entry # None
    BY <1>2, <2>2, Zenon DEF Lookup
  <2> QED
    BY <2>1, <2>2, Zenon
<1>3. ASSUME NEW c \in Client, Fetch(c) PROVE OwnInv'
  <2> SUFFICES ASSUME now = 0 PROVE OwnInv'
    BY <1>3, Zenon DEF Fetch
  <2>1. time[entry] = 0 /\ Timesample = 0 /\ entry \in Buffer
    BY <1>3, Order, Zenon DEF Fetch, Timesample
  <2>2. Set(pc, c, "check")
    BY <1>3, <2>1, Zenon DEF Fetch
  <2> QED
    BY <1>3, <2>1, <2>2, Zenon DEF Fetch
<1>4. ASSUME NEW c \in Client, Reset(c) PROVE OwnInv' BY <1>4, Zenon DEF Reset
<1>5. ASSUME NEW c \in Client, Unmap(c) PROVE OwnInv' BY <1>5, Zenon DEF Unmap
<1>6. ASSUME NEW c \in Client, LoadHere(c) PROVE OwnInv' BY <1>6, Zenon DEF LoadHere, Threaded
<1>7. ASSUME NEW c \in Client, LoadFails(c) PROVE OwnInv'
  BY <1>7, NoneAssumption, Zenon DEF LoadFails, Return
<1>8. ASSUME NEW c \in Client, StartThread(c) PROVE OwnInv' BY <1>8, Zenon DEF StartThread, Threaded
<1>9. ASSUME NEW c \in Client, JoinLoad(c) PROVE OwnInv'
  <2>1. CASE pc' = [pc EXCEPT ![c] = "stamp"] /\ UNCHANGED <<async, buf, made, req, got>>
    BY <1>9, <2>1, Zenon DEF JoinLoad
  <2>2. CASE Return(c)
    <3>1. buf' = [buf EXCEPT ![c] = None] /\ pc' = [pc EXCEPT ![c] = "idle"]
      BY <2>2, Zenon DEF Return
    <3>2. UNCHANGED <<now, entry>>
      BY <1>9, Zenon DEF JoinLoad
    <3>3. \A d \in Client : pc'[d] \in Making =>
            d # c /\ pc[d] \in Making /\ buf'[d] = buf[d] /\ buf[d] # None
      BY <3>1, NoneAssumption, Zenon
    <3> QED
      BY <3>1, <3>2, <3>3, Zenon
  <2>3. CASE UNCHANGED callVars
    BY <1>9, <2>3, Zenon DEF JoinLoad
  <2> QED
    BY <1>9, <2>1, <2>2, <2>3, Zenon DEF JoinLoad
<1>10. ASSUME NEW c \in Client, Stamp(c) PROVE OwnInv' BY <1>10, Zenon DEF Stamp, Timesample
<1>11. ASSUME NEW c \in Client, Insert(c) PROVE OwnInv' BY <1>11, Zenon DEF Insert
<1>12. ASSUME NEW c \in Client, Check(c) PROVE OwnInv' BY <1>12, Zenon DEF Check
<1>13. ASSUME NEW c \in Client, Lock(c) PROVE OwnInv' BY <1>13, Zenon DEF Lock
<1>14. ASSUME NEW c \in Client, Join(c) PROVE OwnInv'
  <2>1. CASE pc' = [pc EXCEPT ![c] = "have"] /\ UNCHANGED <<async, buf, made, req, got>>
    BY <1>14, <2>1, Zenon DEF Join
  <2>2. CASE Return(c)
    BY <1>14, <2>2, NoneAssumption, ZenonT(60) DEF Return, Join
  <2>3. CASE UNCHANGED callVars
    BY <1>14, <2>3, Zenon DEF Join
  <2> QED
    BY <1>14, <2>1, <2>2, <2>3, Zenon DEF Join
<1>15. ASSUME NEW c \in Client, Test(c) PROVE OwnInv'
  <2>1. \A d \in Client : d # c => pc'[d] = pc[d]
    BY <1>15, Zenon DEF Test
  <2>2. pc'[c] \in {"error", "block", "refused", "granted", "size"}
    BY <1>15, Zenon DEF Test
  <2> QED
    BY <1>15, <2>1, <2>2, Zenon DEF Test
<1>16. ASSUME NEW c \in Client, Wait(c) PROVE OwnInv' BY <1>16, Zenon DEF Wait
<1>17. ASSUME NEW c \in Client, SizeTest(c) PROVE OwnInv' BY <1>17, Zenon DEF SizeTest, Need
<1>18. ASSUME NEW c \in Client, SizeRest(c) PROVE OwnInv' BY <1>18, Zenon DEF SizeRest, End
<1>19. ASSUME NEW c \in Client, Copy(c) PROVE OwnInv' BY <1>19, Zenon DEF Copy, End
<1>20. ASSUME NEW c \in Client, NEW a \in BOOLEAN, Call(c, a) PROVE OwnInv' BY <1>20, Zenon DEF Call
<1>21. ASSUME NEW c \in Client, NEW n \in 0 .. Size + 1, AskPrefix(c, n) PROVE OwnInv'
  BY <1>21, Zenon DEF AskPrefix
<1>22. ASSUME NEW c \in Client, NEW p \in Parts, AskPart(c, p[1], p[2]) PROVE OwnInv'
  BY <1>22, Zenon DEF AskPart
<1>23. ASSUME NEW c \in Client, Release(c) PROVE OwnInv'
  BY <1>23, NoneAssumption, Zenon DEF Release, Return
<1>24. ASSUME NEW b \in Buffer, NEW ok \in BOOLEAN, Download(b, ok) PROVE OwnInv'
  BY <1>24, Zenon DEF Download, Loads
<1>25. ASSUME NEW b \in Buffer, NEW ok \in BOOLEAN, ZipLoad(b, ok) PROVE OwnInv'
  BY <1>25, Zenon DEF ZipLoad, Loads
<1>26. ASSUME NEW b \in Buffer, NEW ok \in BOOLEAN, SingleLoad(b, ok) PROVE OwnInv'
  BY <1>26, Zenon DEF SingleLoad, Loads
<1>27. ASSUME NEW b \in Buffer, ZipLock(b) PROVE OwnInv' BY <1>27, Zenon DEF ZipLock, Loads
<1>28. ASSUME NEW b \in Buffer, Notify(b) PROVE OwnInv' BY <1>28, Zenon DEF Notify, NotifyAll
<1>29. ASSUME Change PROVE OwnInv'
  <2>1. now' # 0
    BY <1>29, Plus, Zenon DEF Change
  <2> QED
    BY <2>1, Zenon
<1>30. CASE UNCHANGED vars BY <1>30, Zenon DEF vars
<1> HIDE <1>0 DEF TimeInv, OwnInv, Making
<1> QED
  BY Zenon, <1>1, <1>2, <1>3, <1>4, <1>5, <1>6, <1>7, <1>8, <1>9, <1>10, <1>11, <1>12,
       <1>13, <1>14, <1>15, <1>16, <1>17, <1>18, <1>19, <1>20, <1>21, <1>22,
       <1>23, <1>24, <1>25, <1>26, <1>27, <1>28, <1>29, <1>30
     DEF Next, ClientStep, Begin, LoaderStep

(* The steps of other clients and of the threads are on other buffers.      *)
LEMMA FreshInvStep ==
  ASSUME Types, TimeInv, OwnInv, FreshInv, [Next]_vars
  PROVE  FreshInv'
<1>0. /\ buf \in [Client -> Buffer \cup {None}] /\ pc \in [Client -> PlaceOfClient]
      /\ \A c \in Client : pc[c] \notin {"idle", "lookup", "fetch"} => buf[c] \in Buffer
      /\ now \in Nat
      /\ entry \in Buffer \cup {None} /\ time \in [Buffer -> Nat]
      /\ \A c \in Client : pc[c] = "fetch" => entry \in Buffer
      /\ avail \in [Buffer -> Nat] /\ thread \in [Buffer -> PlaceOfThread]
      /\ flags \in [Buffer -> SUBSET Flag]
  BY Zenon DEF Types, BufferTypes, ClientTypes
<1> USE <1>0 DEF Set, At, fileVars, bufVars, callVars, histVars,
            TimeInv, OwnInv, Making, FreshInv
<1>1. ASSUME NEW c \in Client, Insert(c) \/ Check(c) \/ Lock(c) \/ Wait(c) PROVE FreshInv'
  BY <1>1, ZenonT(60) DEF Insert, Check, Lock, Wait
<1>2. ASSUME NEW c \in Client, SizeTest(c) \/ SizeRest(c) \/ Copy(c) \/ Spurious(c) PROVE FreshInv'
  BY <1>2, ZenonT(60) DEF SizeTest, Need, SizeRest, End, Copy, Spurious
<1>3. ASSUME NEW c \in Client, Lookup(c) PROVE FreshInv'
  <2>1. CASE entry = None
    <3>1. PICK b \in Buffer :
            /\ Unused(b) /\ Set(buf, c, b) /\ Set(pc, c, "reset")
            /\ Set(flags, b, {}) /\ Set(avail, b, 0) /\ Set(size, b, 0)
            /\ Set(filled, b, 0) /\ Set(ver, b, 0) /\ Set(time, b, 0)
            /\ Set(thread, b, "none") /\ Set(lock, b, "free")
      BY <1>3, <2>1, Zenon DEF Lookup
    <3> QED
      BY <1>3, <2>1, <3>1, Zenon DEF Lookup, Unused
  <2>2. CASE entry # None
    BY <1>3, <2>2, Zenon DEF Lookup
  <2> QED
    BY <2>1, <2>2, Zenon
<1>4. ASSUME NEW c \in Client, Fetch(c) PROVE FreshInv'
  <2> SUFFICES ASSUME now = 0 PROVE FreshInv'
    BY <1>4, Zenon DEF Fetch
  <2>1. time[entry] = 0 /\ Timesample = 0 /\ entry \in Buffer
    BY <1>4, Order, Zenon DEF Fetch, Timesample
  <2>2. Set(pc, c, "check")
    BY <1>4, <2>1, Zenon DEF Fetch
  <2> QED
    BY <1>4, <2>1, <2>2, Zenon DEF Fetch
<1>5. ASSUME NEW c \in Client, Reset(c) PROVE FreshInv' BY <1>5, Zenon DEF Reset
<1>6. ASSUME NEW c \in Client, Unmap(c) PROVE FreshInv' BY <1>6, Zenon DEF Unmap
<1>7. ASSUME NEW c \in Client, LoadHere(c) PROVE FreshInv' BY <1>7, Zenon DEF LoadHere, Threaded
<1>8. ASSUME NEW c \in Client, LoadFails(c) PROVE FreshInv'
  BY <1>8, NoneAssumption, Zenon DEF LoadFails, Return
<1>9. ASSUME NEW c \in Client, StartThread(c) PROVE FreshInv'
  <2> SUFFICES ASSUME now = 0, NEW d \in Client, pc'[d] \in {"reset", "unmap", "load"}
               PROVE  /\ avail'[buf'[d]] = 0 /\ thread'[buf'[d]] = "none"
                      /\ flags'[buf'[d]] = {}
    BY <1>9, ZenonT(60) DEF StartThread
  <2>1. CASE thread[buf[c]] \notin {"none", "joined"}
    BY <1>9, <2>1, Zenon DEF StartThread
  <2>2. CASE thread[buf[c]] \in {"none", "joined"}
    <3>1. pc'[c] \in {"join load", "stamp"} /\ (buf[c] # buf[d] \/ c = d)
      BY <1>9, <2>2, Zenon DEF StartThread
    <3> QED
      BY <1>9, <2>2, <3>1, Zenon DEF StartThread
  <2> QED
    BY <2>1, <2>2, Zenon
<1>10. ASSUME NEW c \in Client, JoinLoad(c) PROVE FreshInv'
  <2>1. CASE pc' = [pc EXCEPT ![c] = "stamp"] /\ UNCHANGED <<async, buf, made, req, got>>
    BY <1>10, <2>1, Zenon DEF JoinLoad
  <2>2. CASE Return(c)
    BY <1>10, <2>2, NoneAssumption, Zenon DEF Return, JoinLoad
  <2>3. CASE UNCHANGED callVars
    BY <1>10, <2>3, Zenon DEF JoinLoad
  <2> QED
    BY <1>10, <2>1, <2>2, <2>3, Zenon DEF JoinLoad
<1>11. ASSUME NEW c \in Client, Stamp(c) PROVE FreshInv' BY <1>11, Zenon DEF Stamp, Timesample
<1>12. ASSUME NEW c \in Client, Join(c) PROVE FreshInv'
  <2>1. CASE pc' = [pc EXCEPT ![c] = "have"] /\ UNCHANGED <<async, buf, made, req, got>>
    BY <1>12, <2>1, Zenon DEF Join
  <2>2. CASE Return(c)
    BY <1>12, <2>2, NoneAssumption, Zenon DEF Return, Join
  <2>3. CASE UNCHANGED callVars
    BY <1>12, <2>3, ZenonT(60) DEF Join
  <2> QED
    BY <1>12, <2>1, <2>2, <2>3, Zenon DEF Join
<1>13. ASSUME NEW c \in Client, Test(c) PROVE FreshInv'
  <2>1. \A d \in Client : d # c => pc'[d] = pc[d]
    BY <1>13, ZenonT(60) DEF Test
  <2>2. pc'[c] \in {"error", "block", "refused", "granted", "size"}
    BY <1>13, Zenon DEF Test
  <2> QED
    BY <1>13, <2>1, <2>2, ZenonT(60) DEF Test
<1>14. ASSUME NEW c \in Client, NEW a \in BOOLEAN, Call(c, a) PROVE FreshInv' BY <1>14, Zenon DEF Call
<1>15. ASSUME NEW c \in Client, NEW n \in 0 .. Size + 1, AskPrefix(c, n) PROVE FreshInv'
  BY <1>15, Zenon DEF AskPrefix
<1>16. ASSUME NEW c \in Client, NEW p \in Parts, AskPart(c, p[1], p[2]) PROVE FreshInv'
  BY <1>16, Zenon DEF AskPart
<1>17. ASSUME NEW c \in Client, Release(c) PROVE FreshInv'
  BY <1>17, NoneAssumption, Zenon DEF Release, Return
<1>18. ASSUME NEW b \in Buffer, NEW ok \in BOOLEAN, Download(b, ok) PROVE FreshInv'
  BY <1>18, Zenon DEF Download, Loads
<1>19. ASSUME NEW b \in Buffer, NEW ok \in BOOLEAN, ZipLoad(b, ok) PROVE FreshInv'
  BY <1>19, Zenon DEF ZipLoad, Loads
<1>20. ASSUME NEW b \in Buffer, NEW ok \in BOOLEAN, SingleLoad(b, ok) PROVE FreshInv'
  BY <1>20, Zenon DEF SingleLoad, Loads
<1>21. ASSUME NEW b \in Buffer, ZipLock(b) PROVE FreshInv' BY <1>21, Zenon DEF ZipLock, Loads
<1>22. ASSUME NEW b \in Buffer, Notify(b) PROVE FreshInv' BY <1>22, ZenonT(60) DEF Notify, NotifyAll
<1>23. ASSUME Change PROVE FreshInv'
  <2>1. now' # 0
    BY <1>23, Plus, Zenon DEF Change
  <2> QED
    BY <2>1, Zenon
<1>24. CASE UNCHANGED vars BY <1>24, Zenon DEF vars
<1> HIDE <1>0 DEF TimeInv, OwnInv, Making, FreshInv
<1> QED
  BY Zenon, <1>1, <1>2, <1>3, <1>4, <1>5, <1>6, <1>7, <1>8, <1>9, <1>10, <1>11, <1>12,
       <1>13, <1>14, <1>15, <1>16, <1>17, <1>18, <1>19, <1>20, <1>21, <1>22,
       <1>23, <1>24
     DEF Next, ClientStep, Begin, LoaderStep

(* A thread marks its buffer as its last step but one, and no client marks  *)
(* a buffer that has a thread.                                              *)
LEMMA RunInvStep ==
  ASSUME Types, FreshInv, RunInv, [Next]_vars
  PROVE  RunInv'
<1>0. /\ buf \in [Client -> Buffer \cup {None}] /\ now \in Nat
      /\ \A c \in Client : pc[c] \notin {"idle", "lookup", "fetch"} => buf[c] \in Buffer
      /\ flags \in [Buffer -> SUBSET Flag] /\ thread \in [Buffer -> PlaceOfThread]
  BY Zenon DEF Types, BufferTypes, ClientTypes
<1> USE <1>0 DEF Set, At, fileVars, bufVars, callVars, histVars,
            FreshInv, RunInv, Running, IsLoaded, IsError
<1>1. ASSUME UNCHANGED <<now, flags, thread>> PROVE RunInv'
  BY <1>1, Zenon
<1>2. ASSUME NEW c \in Client, \/ Fetch(c) \/ Unmap(c) \/ LoadFails(c) \/ Stamp(c) \/ Insert(c)
                              \/ Check(c) \/ Lock(c)
      PROVE  RunInv'
  BY <1>1, <1>2, Zenon DEF Fetch, Unmap, LoadFails, Stamp, Insert, Check, Lock
<1>3. ASSUME NEW c \in Client, \/ Test(c) \/ Wait(c) \/ SizeTest(c) \/ SizeRest(c) \/ Copy(c)
      PROVE  RunInv'
  BY <1>1, <1>3, Zenon DEF Test, Wait, SizeTest, SizeRest, Copy
<1>4. ASSUME NEW c \in Client, Begin(c) PROVE RunInv'
  BY <1>1, <1>4, Zenon DEF Begin, Call, AskPrefix, AskPart, Release, Spurious
<1>5. ASSUME NEW c \in Client, Lookup(c) PROVE RunInv'
  <2>1. CASE entry = None
    <3>1. PICK b \in Buffer : Set(flags, b, {}) /\ Set(thread, b, "none")
      BY <1>5, <2>1, Zenon DEF Lookup
    <3>2. UNCHANGED now
      BY <1>5, Zenon DEF Lookup
    <3> QED
      BY <3>1, <3>2, Zenon
  <2>2. CASE entry # None
    BY <1>1, <1>5, <2>2, Zenon DEF Lookup
  <2> QED
    BY <2>1, <2>2, Zenon
<1>6. ASSUME NEW c \in Client, Reset(c) PROVE RunInv'
  <2>1. Set(flags, buf[c], {}) /\ UNCHANGED <<now, thread>>
    BY <1>6, Zenon DEF Reset
  <2> QED
    BY <2>1, Zenon
<1>7. ASSUME NEW c \in Client, LoadHere(c) PROVE RunInv'
  <2>1. /\ buf[c] \in Buffer /\ UNCHANGED <<now, thread>>
        /\ \A b \in Buffer : b # buf[c] => flags'[b] = flags[b]
    BY <1>7, Zenon DEF LoadHere
  <2>2. now = 0 => thread[buf[c]] = "none"
    BY <1>7, Zenon DEF LoadHere
  <2> QED
    BY <2>1, <2>2, Zenon
<1>8. ASSUME NEW c \in Client, StartThread(c) PROVE RunInv'
  <2>1. /\ buf[c] \in Buffer /\ UNCHANGED now
        /\ \A b \in Buffer : b # buf[c] => flags'[b] = flags[b] /\ thread'[b] = thread[b]
    BY <1>8, ZenonT(60) DEF StartThread
  <2>2. now = 0 => flags[buf[c]] = {}
    BY <1>8, Zenon DEF StartThread
  <2>3. flags'[buf[c]] = flags[buf[c]] \/ flags'[buf[c]] = {"known"}
    BY <1>8, Zenon DEF StartThread
  <2> QED
    BY <2>1, <2>2, <2>3, SMTT(60)
<1>9. ASSUME NEW c \in Client, JoinLoad(c) PROVE RunInv'
  <2>1. /\ UNCHANGED <<now, flags>>
        /\ thread' = thread \/ Set(thread, buf[c], "joined")
    BY <1>9, Zenon DEF JoinLoad
  <2> QED
    BY <2>1, Zenon
<1>10. ASSUME NEW c \in Client, Join(c) PROVE RunInv'
  <2>1. /\ UNCHANGED <<now, flags>>
        /\ \A b \in Buffer : thread'[b] = thread[b] \/ thread'[b] = "joined"
    BY <1>10, Zenon DEF Join
  <2> QED
    BY <2>1, Zenon
<1>11. ASSUME NEW b \in Buffer, NEW ok \in BOOLEAN, Download(b, ok) PROVE RunInv'
  <2>1. /\ UNCHANGED now /\ thread[b] = "load"
        /\ \A x \in Buffer : x # b => flags'[x] = flags[x] /\ thread'[x] = thread[x]
    BY <1>11, Zenon DEF Download, Loads
  <2>2. thread'[b] \notin {"ended", "notify end"} => flags'[b] = flags[b]
    BY <1>11, Zenon DEF Download, Loads
  <2> QED
    BY <2>1, <2>2, Zenon
<1>12. ASSUME NEW b \in Buffer, NEW ok \in BOOLEAN, ZipLoad(b, ok) PROVE RunInv'
  <2>1. /\ UNCHANGED now /\ thread'[b] \in {"ended", "notify end"}
        /\ \A x \in Buffer : x # b => flags'[x] = flags[x] /\ thread'[x] = thread[x]
    BY <1>12, Zenon DEF ZipLoad, Loads
  <2> QED
    BY <2>1, Zenon
<1>13. ASSUME NEW b \in Buffer, NEW ok \in BOOLEAN, SingleLoad(b, ok) PROVE RunInv'
  <2>1. /\ UNCHANGED now /\ thread'[b] = "ended"
        /\ \A x \in Buffer : x # b => flags'[x] = flags[x] /\ thread'[x] = thread[x]
    BY <1>13, Zenon DEF SingleLoad, Loads
  <2> QED
    BY <2>1, Zenon
<1>14. ASSUME NEW b \in Buffer, ZipLock(b) PROVE RunInv'
  <2>1. UNCHANGED <<now, flags>> /\ thread[b] = "start" /\ Set(thread, b, "load")
    BY <1>14, Zenon DEF ZipLock, Loads
  <2> QED
    BY <2>1, Zenon
<1>15. ASSUME NEW b \in Buffer, Notify(b) PROVE RunInv'
  <2>1. /\ UNCHANGED <<now, flags>>
        /\ \A x \in Buffer : \/ thread'[x] = thread[x] \/ thread'[x] = "ended"
                             \/ thread[x] = "notify" /\ thread'[x] = "load"
    BY <1>15, Zenon DEF Notify
  <2> QED
    BY <2>1, Zenon
<1>16. ASSUME Change PROVE RunInv'
  <2>1. now' # 0
    BY <1>16, Plus, Zenon DEF Change
  <2> QED
    BY <2>1, Zenon
<1>17. CASE UNCHANGED vars BY <1>1, <1>17, Zenon DEF vars
<1> HIDE <1>0 DEF FreshInv, RunInv
<1> QED
  BY Zenon, <1>2, <1>3, <1>4, <1>5, <1>6, <1>7, <1>8, <1>9, <1>10, <1>11, <1>12,
     <1>13, <1>14, <1>15, <1>16, <1>17 DEF Next, ClientStep, LoaderStep

(* Only a fresh buffer is unmapped, and every load publishes what it has    *)
(* put in place.                                                            *)
LEMMA PlaceInvStep ==
  ASSUME Types, FreshInv, PlaceInv, [Next]_vars
  PROVE  PlaceInv'
<1>0. /\ buf \in [Client -> Buffer \cup {None}] /\ pc \in [Client -> PlaceOfClient]
      /\ \A c \in Client : pc[c] \notin {"idle", "lookup", "fetch"} => buf[c] \in Buffer
      /\ now \in Nat /\ avail \in [Buffer -> Nat] /\ filled \in [Buffer -> Nat]
      /\ now = 0 => \A c \in Client : pc[c] \in {"reset", "unmap", "load"} =>
                      avail[buf[c]] = 0 /\ thread[buf[c]] = "none"
  BY Zenon DEF Types, BufferTypes, ClientTypes, FreshInv
<1> USE <1>0 DEF Set, At, fileVars, bufVars, callVars, histVars, PlaceInv
<1>1. ASSUME NEW c \in Client, Lookup(c) PROVE PlaceInv'
  <2>1. CASE entry = None
    <3>1. PICK b \in Buffer :
            /\ Unused(b) /\ Set(buf, c, b) /\ Set(pc, c, "reset")
            /\ Set(flags, b, {}) /\ Set(avail, b, 0) /\ Set(size, b, 0)
            /\ Set(filled, b, 0) /\ Set(ver, b, 0) /\ Set(time, b, 0)
            /\ Set(thread, b, "none") /\ Set(lock, b, "free")
      BY <1>1, <2>1, Zenon DEF Lookup
    <3> QED
      BY <1>1, <2>1, <3>1, Order, PrefixType, Zenon DEF Lookup
  <2>2. CASE entry # None
    BY <1>1, <2>2, Zenon DEF Lookup
  <2> QED
    BY <2>1, <2>2, Zenon, Zenon
<1>2. ASSUME NEW c \in Client, Fetch(c) PROVE PlaceInv' BY <1>2, Zenon DEF Fetch, Timesample
<1>3. ASSUME NEW c \in Client, Reset(c) PROVE PlaceInv' BY <1>3, Zenon DEF Reset
<1>4. ASSUME NEW c \in Client, Unmap(c) PROVE PlaceInv' BY <1>4 DEF Unmap
<1>5. ASSUME NEW c \in Client, LoadHere(c) PROVE PlaceInv'
  <2>1. buf[c] \in Buffer
    BY <1>5, Zenon DEF LoadHere
  <2>2. now = 0 => avail'[buf[c]] \in {0, Size} /\ filled'[buf[c]] = Size
    BY <1>5, <2>1, Zenon DEF LoadHere
  <2>3. \A b \in Buffer : b # buf[c] => UNCHANGED <<avail[b], filled[b]>>
    BY <1>5, <2>1, Zenon DEF LoadHere
  <2> QED
    BY <1>5, <2>2, <2>3, Order, PrefixType, Zenon DEF LoadHere
<1>6. ASSUME NEW c \in Client, LoadFails(c) PROVE PlaceInv' BY <1>6, Zenon DEF LoadFails, Return
<1>7. ASSUME NEW c \in Client, StartThread(c) PROVE PlaceInv' BY <1>7, Zenon DEF StartThread, Threaded
<1>8. ASSUME NEW c \in Client, JoinLoad(c) PROVE PlaceInv' BY <1>8, Zenon DEF JoinLoad, Return
<1>9. ASSUME NEW c \in Client, Stamp(c) PROVE PlaceInv' BY <1>9, Zenon DEF Stamp, Timesample
<1>10. ASSUME NEW c \in Client, Insert(c) PROVE PlaceInv' BY <1>10, Zenon DEF Insert
<1>11. ASSUME NEW c \in Client, Check(c) PROVE PlaceInv' BY <1>11, Zenon DEF Check
<1>12. ASSUME NEW c \in Client, Lock(c) PROVE PlaceInv' BY <1>12, Zenon DEF Lock
<1>13. ASSUME NEW c \in Client, Join(c) PROVE PlaceInv' BY <1>13, Zenon, Zenon DEF Join, Return
<1>14. ASSUME NEW c \in Client, Test(c) PROVE PlaceInv' BY <1>14, Zenon DEF Test, Need
<1>15. ASSUME NEW c \in Client, Wait(c) PROVE PlaceInv' BY <1>15, Zenon DEF Wait
<1>16. ASSUME NEW c \in Client, SizeTest(c) PROVE PlaceInv' BY <1>16, Zenon DEF SizeTest, Need
<1>17. ASSUME NEW c \in Client, SizeRest(c) PROVE PlaceInv' BY <1>17, Zenon DEF SizeRest, End
<1>18. ASSUME NEW c \in Client, Copy(c) PROVE PlaceInv' BY <1>18, Zenon DEF Copy, End
<1>19. ASSUME NEW c \in Client, NEW a \in BOOLEAN, Call(c, a) PROVE PlaceInv' BY <1>19, Zenon DEF Call
<1>20. ASSUME NEW c \in Client, NEW n \in 0 .. Size + 1, AskPrefix(c, n) PROVE PlaceInv'
  BY <1>20, Zenon, Zenon DEF AskPrefix
<1>21. ASSUME NEW c \in Client, NEW p \in Parts, AskPart(c, p[1], p[2]) PROVE PlaceInv'
  BY <1>21, Zenon DEF AskPart
<1>22. ASSUME NEW c \in Client, Release(c) PROVE PlaceInv' BY <1>22, Zenon DEF Release, Return, Ended
<1>23. ASSUME NEW c \in Client, Spurious(c) PROVE PlaceInv' BY <1>23, Zenon DEF Spurious
<1>24. ASSUME NEW b \in Buffer, NEW ok \in BOOLEAN, Download(b, ok) PROVE PlaceInv'
  <2>1. CASE avail[b] # Size /\ ok
    <3>1. now = 0 => avail[b] + 1 <= filled[b] + 1 /\ avail[b] + 1 <= Size
      BY <2>1, Less, PrefixType, Zenon
    <3>2. UNCHANGED now /\ Set(avail, b, avail[b] + 1) /\ Set(filled, b, filled[b] + 1)
      BY <1>24, <2>1, Zenon DEF Download, Loads
    <3> QED
      BY <3>1, <3>2, Zenon
  <2>2. CASE avail[b] = Size \/ ~ok
    BY <1>24, <2>2, ZenonT(60) DEF Download, Loads
  <2> QED
    BY <2>1, <2>2, Zenon
<1>25. ASSUME NEW b \in Buffer, NEW ok \in BOOLEAN, ZipLoad(b, ok) PROVE PlaceInv'
  <2>1. CASE ok
    BY <1>25, <2>1, Order, PrefixType, ZenonT(60) DEF ZipLoad, Loads
  <2>2. CASE ~ok
    BY <1>25, <2>2, Zenon DEF ZipLoad, Loads
  <2> QED
    BY <2>1, <2>2, Zenon
<1>26. ASSUME NEW b \in Buffer, NEW ok \in BOOLEAN, SingleLoad(b, ok) PROVE PlaceInv'
  BY <1>26, Zenon DEF SingleLoad, Loads
<1>27. ASSUME NEW b \in Buffer, ZipLock(b) PROVE PlaceInv' BY <1>27, Zenon DEF ZipLock, Loads
<1>28. ASSUME NEW b \in Buffer, Notify(b) PROVE PlaceInv' BY <1>28, Zenon DEF Notify, NotifyAll
<1>29. ASSUME Change PROVE PlaceInv'
  <2>1. now' # 0
    BY <1>29, Plus, Zenon DEF Change
  <2> QED
    BY <2>1, Zenon
<1>30. CASE UNCHANGED vars BY <1>30, Zenon DEF vars
<1> HIDE <1>0 DEF PlaceInv
<1> QED
  BY Zenon, Zenon, <1>1, <1>2, <1>3, <1>4, <1>5, <1>6, <1>7, <1>8, <1>9, <1>10, <1>11, <1>12,
       <1>13, <1>14, <1>15, <1>16, <1>17, <1>18, <1>19, <1>20, <1>21, <1>22,
       <1>23, <1>24, <1>25, <1>26, <1>27, <1>28, <1>29, <1>30
     DEF Next, ClientStep, Begin, LoaderStep

(* The time is taken after the load, so it is never newer than the data     *)
(* unless the file changed between the two.                                 *)
LEMMA AgeInvStep ==
  ASSUME Types, TimeInv, AgeInv, [Next]_vars
  PROVE  AgeInv'
<1>0. /\ buf \in [Client -> Buffer \cup {None}] /\ pc \in [Client -> PlaceOfClient]
      /\ \A c \in Client : pc[c] \notin {"idle", "lookup", "fetch"} => buf[c] \in Buffer
      /\ now \in Nat /\ ver \in [Buffer -> Nat] /\ time \in [Buffer -> Nat]
      /\ began \in [Client -> Nat] /\ entry \in Buffer \cup {None}
      /\ \A c \in Client : pc[c] = "fetch" => entry \in Buffer
  BY Zenon DEF Types, BufferTypes, ClientTypes
<1> USE <1>0 DEF Set, At, fileVars, bufVars, callVars, histVars,
            TimeInv, AgeInv
<1>1. ASSUME NEW c \in Client, Lock(c) \/ Join(c) \/ Test(c) \/ Wait(c) PROVE AgeInv'
  BY <1>1, ZenonT(60) DEF Lock, Join, Return, Test, Need, Wait
<1>2. ASSUME NEW c \in Client, Spurious(c) PROVE AgeInv' BY <1>2, Zenon DEF Spurious
<1>3. ASSUME NEW c \in Client, Lookup(c) PROVE AgeInv'
  <2>1. CASE entry = None
    <3>1. PICK b \in Buffer :
            /\ Unused(b) /\ Set(buf, c, b) /\ Set(pc, c, "reset")
            /\ Set(flags, b, {}) /\ Set(avail, b, 0) /\ Set(size, b, 0)
            /\ Set(filled, b, 0) /\ Set(ver, b, 0) /\ Set(time, b, 0)
            /\ Set(thread, b, "none") /\ Set(lock, b, "free")
      BY <1>3, <2>1, Zenon DEF Lookup
    <3>2. \A d \in Client : buf[d] # b
      BY <3>1, Zenon DEF Unused
    <3>3. UNCHANGED <<fs, now, late, began>>
      BY <1>3, Zenon DEF Lookup
    <3> QED
      BY <1>3, <3>1, <3>2, <3>3, Order, ZenonT(60)
  <2>2. CASE entry # None
    BY <1>3, <2>2, ZenonT(60) DEF Lookup
  <2> QED
    BY <2>1, <2>2, Zenon
<1>4. ASSUME NEW c \in Client, Fetch(c) PROVE AgeInv'
  <2>1. entry \in Buffer /\ UNCHANGED <<fs, now, late, began, ver, time>>
    BY <1>4, Zenon DEF Fetch
  <2>2. time[entry] = now /\ time[entry] <= ver[entry] => ver[entry] >= began[c]
    BY <2>1, Newer, Zenon
  <2>3. pc'[c] \in {"reset", "check"} /\ buf'[c] = entry
    BY <1>4, Zenon DEF Fetch
  <2>4. fs # "http" /\ pc'[c] = "check" => time[entry] = now
    BY <1>4, Zenon DEF Fetch, Timesample
  <2>5. \A d \in Client : d # c => pc'[d] = pc[d] /\ buf'[d] = buf[d]
    BY <1>4, Zenon DEF Fetch
  <2> QED
    BY <2>1, <2>2, <2>3, <2>4, <2>5, Zenon
<1>5. ASSUME NEW c \in Client, Reset(c) PROVE AgeInv' BY <1>5, Zenon DEF Reset
<1>6. ASSUME NEW c \in Client, Unmap(c) PROVE AgeInv' BY <1>6, ZenonT(60) DEF Unmap
<1>7. ASSUME NEW c \in Client, LoadHere(c) PROVE AgeInv' BY <1>7, Zenon DEF LoadHere, Threaded
<1>8. ASSUME NEW c \in Client, LoadFails(c) PROVE AgeInv' BY <1>8, ZenonT(60) DEF LoadFails, Return
<1>9. ASSUME NEW c \in Client, StartThread(c) PROVE AgeInv' BY <1>9, ZenonT(60) DEF StartThread, Threaded
<1>10. ASSUME NEW c \in Client, JoinLoad(c) PROVE AgeInv' BY <1>10, ZenonT(60) DEF JoinLoad, Return
<1>11. ASSUME NEW c \in Client, Stamp(c) PROVE AgeInv'
  <2>1. buf[c] \in Buffer /\ (ver[buf[c]] = now \/ buf[c] \in late)
    BY <1>11, Zenon DEF Stamp
  <2>2. Timesample <= now /\ (ver[buf[c]] = now => ver[buf[c]] >= began[c])
    BY Order, Zenon DEF Timesample
  <2>3. pc'[c] \in {"check", "insert"} /\ \A d \in Client : d # c => pc'[d] = pc[d]
    BY <1>11, Zenon DEF Stamp
  <2>4. Set(time, buf[c], Timesample) /\ UNCHANGED <<fs, now, late, began, ver, buf>>
    BY <1>11, Zenon DEF Stamp
  <2> QED
    BY <2>1, <2>2, <2>3, <2>4, Zenon
<1>12. ASSUME NEW c \in Client, Insert(c) PROVE AgeInv' BY <1>12, Zenon DEF Insert
<1>13. ASSUME NEW c \in Client, Check(c) PROVE AgeInv' BY <1>13, ZenonT(60) DEF Check
<1>14. ASSUME NEW c \in Client, SizeTest(c) PROVE AgeInv' BY <1>14, ZenonT(60) DEF SizeTest, Need
<1>15. ASSUME NEW c \in Client, SizeRest(c) PROVE AgeInv' BY <1>15, ZenonT(60) DEF SizeRest, End
<1>16. ASSUME NEW c \in Client, Copy(c) PROVE AgeInv' BY <1>16, Zenon DEF Copy, End
<1>17. ASSUME NEW c \in Client, NEW a \in BOOLEAN, Call(c, a) PROVE AgeInv'
  <2>1. began' = [began EXCEPT ![c] = now] /\ pc' = [pc EXCEPT ![c] = "lookup"]
    BY <1>17, Zenon DEF Call
  <2> QED
    BY <1>17, <2>1, Order, ZenonT(60) DEF Call
<1>18. ASSUME NEW c \in Client, NEW n \in 0 .. Size + 1, AskPrefix(c, n) PROVE AgeInv'
  BY <1>18, ZenonT(60) DEF AskPrefix
<1>19. ASSUME NEW c \in Client, NEW p \in Parts, AskPart(c, p[1], p[2]) PROVE AgeInv'
  BY <1>19, Zenon DEF AskPart
<1>20. ASSUME NEW c \in Client, Release(c) PROVE AgeInv' BY <1>20, ZenonT(60) DEF Release, Return, Ended
<1>21. ASSUME NEW b \in Buffer, NEW ok \in BOOLEAN, Download(b, ok) PROVE AgeInv'
  BY <1>21, ZenonT(60) DEF Download, Loads
<1>22. ASSUME NEW b \in Buffer, NEW ok \in BOOLEAN, ZipLoad(b, ok) PROVE AgeInv'
  BY <1>22, ZenonT(60) DEF ZipLoad, Loads
<1>23. ASSUME NEW b \in Buffer, NEW ok \in BOOLEAN, SingleLoad(b, ok) PROVE AgeInv'
  BY <1>23, Zenon DEF SingleLoad, Loads
<1>24. ASSUME NEW b \in Buffer, ZipLock(b) PROVE AgeInv' BY <1>24, ZenonT(60) DEF ZipLock, Loads
<1>25. ASSUME NEW b \in Buffer, Notify(b) PROVE AgeInv' BY <1>25, ZenonT(60) DEF Notify, NotifyAll
<1>26. ASSUME Change PROVE AgeInv'
  <2>1. UNCHANGED <<fs, bufVars, callVars, began>> /\ now' = now + 1
    BY <1>26, Zenon DEF Change
  <2>2. \A x \in late : x \in late'
    BY <1>26, Zenon DEF Change
  <2>3. \A c \in Client : pc[c] \in {"join load", "stamp"} => buf[c] \in late'
    BY <1>26, Zenon DEF Change
  <2>4. \A c \in Client : began[c] <= now + 1
    BY Order, ZenonT(60)
  <2> QED
    BY <2>1, <2>2, <2>3, <2>4, ZenonT(60)
<1>27. CASE UNCHANGED vars BY <1>27, Zenon DEF vars
<1> HIDE <1>0 DEF TimeInv, AgeInv
<1> QED
  BY Zenon, <1>1, <1>2, <1>3, <1>4, <1>5, <1>6, <1>7, <1>8, <1>9, <1>10, <1>11, <1>12,
       <1>13, <1>14, <1>15, <1>16, <1>17, <1>18, <1>19, <1>20, <1>21, <1>22,
       <1>23, <1>24, <1>25, <1>26, <1>27
     DEF Next, ClientStep, Begin, LoaderStep

=============================================================================
