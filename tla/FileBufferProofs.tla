-------------------------- MODULE FileBufferProofs --------------------------
(***************************************************************************)
(* Theorems about FileBuffer, for any number of clients and buffers, any   *)
(* length of the file and any number of calls and changes: the steps of    *)
(* get_file_buffer, of request_data and of the loading threads, as they    *)
(* interleave, keep Inv, and Inv implies five of the properties that the   *)
(* run of MCFileBuffer checks on a small instance.                         *)
(***************************************************************************)
EXTENDS FileBufferLoads

(* What request_data is about to copy is published.                         *)
CopyInv == now = 0 =>
  \A c \in Client : pc[c] = "copy" => req[c].off + got[c] <= avail[buf[c]]

(* SyncGetsLoaded, from the end of the load on.                             *)
SyncInv == now = 0 =>
  \A c \in Client : pc[c] \in {"stamp", "insert"} \cup Reading /\ ~async[c] =>
    IsLoaded(buf[c]) \/ fs = "member"

(* LockHolderWorks, and only zip_async_load takes m_async_mutex as a        *)
(* loader.                                                                  *)
LockInv ==
  \A b \in Buffer :
    \/ lock[b] = "free"
    \/ lock[b] = "loader" /\ fs = "zip" /\ thread[b] \in {"load", "notify end"}
    \/ lock[b] \in Client /\ pc[lock[b]] = "join" /\ buf[lock[b]] = b

(* NoWaiterForgotten, from the test on that makes the client block.         *)
WaitInv == up = "yes" /\ now = 0 =>
  \A c \in Client :
    pc[c] \in {"block", "waiting"} /\ (Need(c) <= avail[buf[c]] \/ IsError(buf[c])) =>
      thread[buf[c]] \in {"notify", "notify end"} \/ c \in missed

(* The size is counted from what is available, which does not shrink under  *)
(* a client that has the buffer.                                            *)
LEMMA CopyInvStep ==
  ASSUME Types, OwnInv, PlaceInv, CopyInv, [Next]_vars
  PROVE  CopyInv'
<1>0. /\ buf \in [Client -> Buffer \cup {None}] /\ pc \in [Client -> PlaceOfClient]
      /\ \A c \in Client : pc[c] \notin {"idle", "lookup", "fetch"} => buf[c] \in Buffer
      /\ now \in Nat /\ avail \in [Buffer -> Nat] /\ got \in [Client -> Nat]
      /\ req \in [Client -> [kind : {"none", "prefix", "part"}, off : Nat, n : Nat]]
  BY Zenon DEF Types, BufferTypes, ClientTypes
<1> USE <1>0 DEF Set, At, fileVars, bufVars, callVars, histVars,
            OwnInv, Making, PlaceInv, CopyInv
<1>1. ASSUME NEW c \in Client, Fetch(c) \/ Reset(c) \/ Unmap(c) \/ LoadHere(c) PROVE CopyInv'
  BY <1>1, ZenonT(60) DEF Fetch, Timesample, Reset, Unmap, LoadHere, Threaded
<1>2. ASSUME NEW c \in Client, StartThread(c) \/ Stamp(c) \/ Insert(c) \/ Check(c) PROVE CopyInv'
  BY <1>2, Zenon DEF StartThread, Threaded, Stamp, Timesample, Insert, Check
<1>3. ASSUME NEW c \in Client, Lock(c) \/ Wait(c) \/ Copy(c) \/ Spurious(c) PROVE CopyInv'
  BY <1>3, Zenon DEF Lock, Wait, Copy, End, Spurious
<1>4. ASSUME NEW c \in Client, Lookup(c) PROVE CopyInv'
  <2>1. CASE entry = None
    <3>1. PICK b \in Buffer :
            /\ Unused(b) /\ Set(buf, c, b) /\ Set(pc, c, "reset")
            /\ Set(flags, b, {}) /\ Set(avail, b, 0) /\ Set(size, b, 0)
            /\ Set(filled, b, 0) /\ Set(ver, b, 0) /\ Set(time, b, 0)
            /\ Set(thread, b, "none") /\ Set(lock, b, "free")
      BY <1>4, <2>1, Zenon DEF Lookup
    <3> QED
      BY <1>4, <2>1, <3>1, Zenon DEF Lookup, Unused
  <2>2. CASE entry # None
    BY <1>4, <2>2, Zenon DEF Lookup
  <2> QED
    BY <2>1, <2>2, Zenon
<1>5. ASSUME NEW c \in Client, LoadFails(c) PROVE CopyInv'
  BY <1>5, NoneAssumption, Zenon DEF LoadFails, Return
<1>6. ASSUME NEW c \in Client, JoinLoad(c) PROVE CopyInv'
  <2>1. CASE pc' = [pc EXCEPT ![c] = "stamp"] /\ UNCHANGED <<async, buf, made, req, got>>
    BY <1>6, <2>1, Zenon DEF JoinLoad
  <2>2. CASE Return(c)
    BY <1>6, <2>2, NoneAssumption, Zenon DEF Return, JoinLoad
  <2>3. CASE UNCHANGED callVars
    BY <1>6, <2>3, Zenon DEF JoinLoad
  <2> QED
    BY <1>6, <2>1, <2>2, <2>3, Zenon DEF JoinLoad
<1>7. ASSUME NEW c \in Client, Join(c) PROVE CopyInv'
  <2>1. CASE pc' = [pc EXCEPT ![c] = "have"] /\ UNCHANGED <<async, buf, made, req, got>>
    BY <1>7, <2>1, Zenon DEF Join
  <2>2. CASE Return(c)
    BY <1>7, <2>2, NoneAssumption, Zenon DEF Return, Join
  <2>3. CASE UNCHANGED callVars
    BY <1>7, <2>3, Zenon DEF Join
  <2> QED
    BY <1>7, <2>1, <2>2, <2>3, Zenon DEF Join
<1>8. ASSUME NEW c \in Client, Test(c) PROVE CopyInv'
  <2>1. \A d \in Client : d # c => pc'[d] = pc[d]
    BY <1>8, Zenon DEF Test
  <2>2. pc'[c] \in {"error", "block", "refused", "granted", "size"}
    BY <1>8, Zenon DEF Test
  <2> QED
    BY <1>8, <2>1, <2>2, Zenon DEF Test
<1>9. ASSUME NEW c \in Client, SizeTest(c) PROVE CopyInv'
  <2>1. CASE Need(c) >= avail[buf[c]]
    BY <1>9, <2>1, Zenon DEF SizeTest
  <2>2. CASE ~(Need(c) >= avail[buf[c]])
    <3>1. req[c].off \in Nat /\ req[c].n \in Nat /\ avail[buf[c]] \in Nat
      BY <1>9, Zenon DEF SizeTest
    <3>2. req[c].off + req[c].n <= avail[buf[c]]
      BY <2>2, <3>1, SumUnder, Zenon DEF Need
    <3> QED
      BY <1>9, <2>2, <3>2, Zenon DEF SizeTest
  <2> QED
    BY <2>1, <2>2, Zenon
<1>10. ASSUME NEW c \in Client, SizeRest(c) PROVE CopyInv'
  <2>1. CASE req[c].off <= avail[buf[c]]
    <3>1. req[c].off \in Nat /\ avail[buf[c]] \in Nat
      BY <1>10, Zenon DEF SizeRest
    <3>2. req[c].off + (avail[buf[c]] - req[c].off) <= avail[buf[c]]
      BY <2>1, <3>1, Rest, Zenon
    <3> QED
      BY <1>10, <2>1, <3>2, Zenon DEF SizeRest
  <2>2. CASE ~(req[c].off <= avail[buf[c]])
    BY <1>10, <2>2, Zenon DEF SizeRest, End
  <2> QED
    BY <2>1, <2>2, Zenon
<1>11. ASSUME NEW c \in Client, NEW a \in BOOLEAN, Call(c, a) PROVE CopyInv' BY <1>11, Zenon DEF Call
<1>12. ASSUME NEW c \in Client, NEW n \in 0 .. Size + 1, AskPrefix(c, n) PROVE CopyInv'
  BY <1>12, Zenon DEF AskPrefix
<1>13. ASSUME NEW c \in Client, NEW p \in Parts, AskPart(c, p[1], p[2]) PROVE CopyInv'
  BY <1>13, Zenon DEF AskPart
<1>14. ASSUME NEW c \in Client, Release(c) PROVE CopyInv'
  BY <1>14, NoneAssumption, Zenon DEF Release, Return
<1>15. ASSUME NEW b \in Buffer, NEW ok \in BOOLEAN, Download(b, ok) PROVE CopyInv'
  <2>1. CASE avail[b] # Size /\ ok
    <3>1. \A c \in Client : now = 0 /\ pc[c] = "copy" =>
            req[c].off + got[c] <= avail[buf[c]] + 1
      <4> SUFFICES ASSUME NEW c \in Client, now = 0, pc[c] = "copy"
                   PROVE  req[c].off + got[c] <= avail[buf[c]] + 1
        BY Zenon
      <4>1. /\ req[c].off \in Nat /\ got[c] \in Nat /\ avail[buf[c]] \in Nat
            /\ req[c].off + got[c] <= avail[buf[c]] /\ avail[buf[c]] <= Size
        BY Zenon
      <4> HIDE <1>0 DEF OwnInv, PlaceInv, CopyInv
      <4> QED
        BY <4>1, SumNext, Zenon
    <3>2. UNCHANGED <<now, callVars>> /\ Set(avail, b, avail[b] + 1)
      BY <1>15, <2>1, Zenon DEF Download, Loads
    <3> QED
      BY <3>1, <3>2, Zenon
  <2>2. CASE avail[b] = Size \/ ~ok
    BY <1>15, <2>2, Zenon DEF Download, Loads
  <2> QED
    BY <2>1, <2>2, Zenon
<1>16. ASSUME NEW b \in Buffer, NEW ok \in BOOLEAN, ZipLoad(b, ok) PROVE CopyInv'
  <2>1. CASE ok
    <3>1. \A c \in Client : now = 0 /\ pc[c] = "copy" => req[c].off + got[c] <= Size
      <4> SUFFICES ASSUME NEW c \in Client, now = 0, pc[c] = "copy"
                   PROVE  req[c].off + got[c] <= Size
        BY Zenon
      <4>1. /\ req[c].off \in Nat /\ got[c] \in Nat /\ avail[buf[c]] \in Nat
            /\ req[c].off + got[c] <= avail[buf[c]] /\ avail[buf[c]] <= Size
        BY Zenon
      <4> HIDE <1>0 DEF OwnInv, PlaceInv, CopyInv
      <4> QED
        BY <4>1, SumWithin, PrefixType, Zenon
    <3> QED
      BY <1>16, <2>1, <3>1, Zenon DEF ZipLoad, Loads
  <2>2. CASE ~ok
    BY <1>16, <2>2, Zenon DEF ZipLoad, Loads
  <2> QED
    BY <2>1, <2>2, Zenon
<1>17. ASSUME NEW b \in Buffer, NEW ok \in BOOLEAN, SingleLoad(b, ok) PROVE CopyInv'
  BY <1>17, Zenon DEF SingleLoad, Loads
<1>18. ASSUME NEW b \in Buffer, ZipLock(b) PROVE CopyInv' BY <1>18, Zenon DEF ZipLock, Loads
<1>19. ASSUME NEW b \in Buffer, Notify(b) PROVE CopyInv' BY <1>19, Zenon DEF Notify, NotifyAll
<1>20. ASSUME Change PROVE CopyInv'
  <2>1. now' # 0
    BY <1>20, Plus, Zenon DEF Change
  <2> QED
    BY <2>1, Zenon
<1>21. CASE UNCHANGED vars BY <1>21, Zenon DEF vars
<1> HIDE <1>0 DEF OwnInv, Making, PlaceInv, CopyInv
<1> QED
  BY Zenon, <1>1, <1>2, <1>3, <1>4, <1>5, <1>6, <1>7, <1>8, <1>9, <1>10, <1>11, <1>12,
       <1>13, <1>14, <1>15, <1>16, <1>17, <1>18, <1>19, <1>20, <1>21
     DEF Next, ClientStep, Begin, LoaderStep

(* A load without a thread marks the buffer, a load with one is joined and  *)
(* looked at, and nobody resets a buffer that others have.                  *)
LEMMA SyncInvStep ==
  ASSUME Types, OwnInv, SyncInv, [Next]_vars
  PROVE  SyncInv'
<1>0. /\ buf \in [Client -> Buffer \cup {None}] /\ pc \in [Client -> PlaceOfClient]
      /\ \A c \in Client : pc[c] \notin {"idle", "lookup", "fetch"} => buf[c] \in Buffer
      /\ now \in Nat /\ flags \in [Buffer -> SUBSET Flag] /\ async \in [Client -> BOOLEAN]
  BY Zenon DEF Types, BufferTypes, ClientTypes
<1> USE <1>0 DEF Set, At, fileVars, bufVars, callVars, histVars,
            OwnInv, Making, SyncInv, Reading, IsLoaded, LOADED
<1>1. ASSUME NEW c \in Client, Lock(c) \/ Wait(c) \/ SizeTest(c) \/ SizeRest(c) PROVE SyncInv'
  BY <1>1, ZenonT(60) DEF Lock, Wait, SizeTest, Need, SizeRest, End
<1>2. ASSUME NEW c \in Client, Copy(c) \/ Spurious(c) PROVE SyncInv'
  BY <1>2, Zenon DEF Copy, End, Spurious
<1>3. ASSUME NEW c \in Client, Lookup(c) PROVE SyncInv'
  <2>1. CASE entry = None
    <3>1. PICK b \in Buffer :
            /\ Unused(b) /\ Set(buf, c, b) /\ Set(pc, c, "reset")
            /\ Set(flags, b, {}) /\ Set(avail, b, 0) /\ Set(size, b, 0)
            /\ Set(filled, b, 0) /\ Set(ver, b, 0) /\ Set(time, b, 0)
            /\ Set(thread, b, "none") /\ Set(lock, b, "free")
      BY <1>3, <2>1, Zenon DEF Lookup
    <3> QED
      BY <1>3, <2>1, <3>1, ZenonT(60) DEF Lookup, Unused
  <2>2. CASE entry # None
    BY <1>3, <2>2, Zenon DEF Lookup
  <2> QED
    BY <2>1, <2>2, Zenon
<1>4. ASSUME NEW c \in Client, Fetch(c) PROVE SyncInv' BY <1>4, Zenon DEF Fetch, Timesample
<1>5. ASSUME NEW c \in Client, Reset(c) PROVE SyncInv' BY <1>5, ZenonT(60) DEF Reset
<1>6. ASSUME NEW c \in Client, Unmap(c) PROVE SyncInv' BY <1>6, Zenon DEF Unmap
<1>7. ASSUME NEW c \in Client, LoadHere(c) PROVE SyncInv' BY <1>7, Zenon DEF LoadHere, Threaded
<1>8. ASSUME NEW c \in Client, LoadFails(c) PROVE SyncInv'
  BY <1>8, NoneAssumption, Zenon DEF LoadFails, Return
<1>9. ASSUME NEW c \in Client, StartThread(c) PROVE SyncInv' BY <1>9, ZenonT(60) DEF StartThread, Threaded
<1>10. ASSUME NEW c \in Client, JoinLoad(c) PROVE SyncInv'
  <2>1. CASE thread[buf[c]] = "ended" /\ IsLoaded(buf[c])
    BY <1>10, <2>1, Zenon DEF JoinLoad
  <2>2. CASE thread[buf[c]] = "ended" /\ ~IsLoaded(buf[c])
    BY <1>10, <2>2, ZenonT(60) DEF JoinLoad, Return
  <2>3. CASE thread[buf[c]] # "ended"
    BY <1>10, <2>3, Zenon DEF JoinLoad
  <2> QED
    BY <2>1, <2>2, <2>3, Zenon
<1>11. ASSUME NEW c \in Client, Stamp(c) PROVE SyncInv' BY <1>11, Zenon DEF Stamp, Timesample
<1>12. ASSUME NEW c \in Client, Insert(c) PROVE SyncInv' BY <1>12, Zenon DEF Insert
<1>13. ASSUME NEW c \in Client, Check(c) PROVE SyncInv' BY <1>13, Zenon DEF Check
<1>14. ASSUME NEW c \in Client, Join(c) PROVE SyncInv'
  <2>1. CASE IsLoaded(buf[c])
    BY <1>14, <2>1, Zenon DEF Join
  <2>2. CASE ~IsLoaded(buf[c])
    BY <1>14, <2>2, ZenonT(60) DEF Join, Return
  <2> QED
    BY <2>1, <2>2, Zenon
<1>15. ASSUME NEW c \in Client, Test(c) PROVE SyncInv'
  <2>1. \A d \in Client : d # c => pc'[d] = pc[d]
    BY <1>15, Zenon DEF Test
  <2>2. pc'[c] \in {"error", "block", "refused", "granted", "size"}
    BY <1>15, Zenon DEF Test
  <2> QED
    BY <1>15, <2>1, <2>2, Zenon DEF Test
<1>16. ASSUME NEW c \in Client, NEW a \in BOOLEAN, Call(c, a) PROVE SyncInv' BY <1>16, Zenon DEF Call
<1>17. ASSUME NEW c \in Client, NEW n \in 0 .. Size + 1, AskPrefix(c, n) PROVE SyncInv'
  BY <1>17, Zenon DEF AskPrefix
<1>18. ASSUME NEW c \in Client, NEW p \in Parts, AskPart(c, p[1], p[2]) PROVE SyncInv'
  BY <1>18, Zenon DEF AskPart
<1>19. ASSUME NEW c \in Client, Release(c) PROVE SyncInv'
  BY <1>19, NoneAssumption, Zenon DEF Release, Return
<1>20. ASSUME NEW b \in Buffer, NEW ok \in BOOLEAN, Download(b, ok) PROVE SyncInv'
  BY <1>20, ZenonT(60) DEF Download, Loads
<1>21. ASSUME NEW b \in Buffer, NEW ok \in BOOLEAN, ZipLoad(b, ok) PROVE SyncInv'
  BY <1>21, ZenonT(60) DEF ZipLoad, Loads
<1>22. ASSUME NEW b \in Buffer, NEW ok \in BOOLEAN, SingleLoad(b, ok) PROVE SyncInv'
  BY <1>22, ZenonT(60) DEF SingleLoad, Loads
<1>23. ASSUME NEW b \in Buffer, ZipLock(b) PROVE SyncInv' BY <1>23, Zenon DEF ZipLock, Loads
<1>24. ASSUME NEW b \in Buffer, Notify(b) PROVE SyncInv' BY <1>24, Zenon DEF Notify, NotifyAll
<1>25. ASSUME Change PROVE SyncInv'
  <2>1. now' # 0
    BY <1>25, Plus, Zenon DEF Change
  <2> QED
    BY <2>1, Zenon
<1>26. CASE UNCHANGED vars BY <1>26, Zenon DEF vars
<1> HIDE <1>0 DEF OwnInv, Making, SyncInv, Reading, IsLoaded, LOADED
<1> QED
  BY Zenon, <1>1, <1>2, <1>3, <1>4, <1>5, <1>6, <1>7, <1>8, <1>9, <1>10, <1>11, <1>12,
       <1>13, <1>14, <1>15, <1>16, <1>17, <1>18, <1>19, <1>20, <1>21, <1>22,
       <1>23, <1>24, <1>25, <1>26
     DEF Next, ClientStep, Begin, LoaderStep

(* m_async_mutex is released in the step that ends its holder's work.       *)
LEMMA LockInvStep ==
  ASSUME Types, LockInv, [Next]_vars
  PROVE  LockInv'
<1>0. /\ lock \in [Buffer -> Owner] /\ thread \in [Buffer -> PlaceOfThread]
      /\ pc \in [Client -> PlaceOfClient] /\ buf \in [Client -> Buffer \cup {None}]
      /\ \A c \in Client : pc[c] \notin {"idle", "lookup", "fetch"} => buf[c] \in Buffer
  BY Zenon DEF Types, BufferTypes, ClientTypes
<1> USE <1>0 DEF Set, At, fileVars, bufVars, callVars, histVars,
            LockInv
<1>1. ASSUME NEW c \in Client, Lookup(c) PROVE LockInv'
  <2>1. CASE entry = None
    <3>1. PICK b \in Buffer :
            /\ Unused(b) /\ Set(buf, c, b) /\ Set(pc, c, "reset")
            /\ Set(flags, b, {}) /\ Set(avail, b, 0) /\ Set(size, b, 0)
            /\ Set(filled, b, 0) /\ Set(ver, b, 0) /\ Set(time, b, 0)
            /\ Set(thread, b, "none") /\ Set(lock, b, "free")
      BY <1>1, <2>1, Zenon DEF Lookup
    <3> QED
      BY <1>1, <2>1, <3>1, Zenon DEF Lookup
  <2>2. CASE entry # None
    <3>1. Set(pc, c, "fetch") /\ UNCHANGED <<fs, lock, thread, buf>> /\ pc[c] = "lookup"
      BY <1>1, <2>2, Zenon DEF Lookup
    <3> QED
      BY <3>1, Zenon
  <2> QED
    BY <2>1, <2>2, ZenonT(60)
<1>2. ASSUME NEW c \in Client, Fetch(c) PROVE LockInv' BY <1>2, Zenon DEF Fetch, Timesample
<1>3. ASSUME NEW c \in Client, Reset(c) PROVE LockInv' BY <1>3, Zenon DEF Reset
<1>4. ASSUME NEW c \in Client, Unmap(c) PROVE LockInv' BY <1>4, Zenon DEF Unmap
<1>5. ASSUME NEW c \in Client, LoadHere(c) PROVE LockInv' BY <1>5, Zenon DEF LoadHere, Threaded
<1>6. ASSUME NEW c \in Client, LoadFails(c) PROVE LockInv' BY <1>6, Zenon DEF LoadFails, Return
<1>7. ASSUME NEW c \in Client, StartThread(c) PROVE LockInv'
  <2>1. UNCHANGED <<fs, lock, buf>> /\ pc[c] = "load"
    BY <1>7, Zenon DEF StartThread
  <2>2. \A b \in Buffer : thread'[b] = thread[b] \/ thread[b] \in {"none", "joined"}
    BY <1>7, Zenon DEF StartThread
  <2>3. \A d \in Client : d # c => pc'[d] = pc[d]
    BY <1>7, ZenonT(60) DEF StartThread
  <2> QED
    BY <2>1, <2>2, <2>3, ZenonT(60)
<1>8. ASSUME NEW c \in Client, JoinLoad(c) PROVE LockInv'
  <2>1. UNCHANGED <<fs, lock>> /\ pc[c] = "join load"
    BY <1>8, Zenon DEF JoinLoad
  <2>2. \A b \in Buffer : thread'[b] = thread[b] \/ thread[b] = "ended"
    BY <1>8, Zenon DEF JoinLoad
  <2>3. \A d \in Client : d # c => pc'[d] = pc[d] /\ buf'[d] = buf[d]
    BY <1>8, ZenonT(60) DEF JoinLoad, Return
  <2> QED
    BY <2>1, <2>2, <2>3, ZenonT(60)
<1>9. ASSUME NEW c \in Client, Stamp(c) PROVE LockInv' BY <1>9, Zenon DEF Stamp, Timesample
<1>10. ASSUME NEW c \in Client, Insert(c) PROVE LockInv' BY <1>10, Zenon DEF Insert
<1>11. ASSUME NEW c \in Client, Check(c) PROVE LockInv' BY <1>11, Zenon DEF Check
<1>12. ASSUME NEW c \in Client, Lock(c) PROVE LockInv' BY <1>12, Zenon DEF Lock
<1>13. ASSUME NEW c \in Client, Join(c) PROVE LockInv'
  <2>1. buf[c] \in Buffer /\ Set(lock, buf[c], "free") /\ UNCHANGED fs
    BY <1>13, Zenon DEF Join
  <2>2. \A b \in Buffer : b # buf[c] => thread'[b] = thread[b]
    BY <1>13, Zenon DEF Join
  <2>3. \A d \in Client : d # c => pc'[d] = pc[d] /\ buf'[d] = buf[d]
    BY <1>13, ZenonT(60) DEF Join, Return
  <2> QED
    BY <2>1, <2>2, <2>3, ZenonT(60)
<1>14. ASSUME NEW c \in Client, Test(c) PROVE LockInv' BY <1>14, ZenonT(60) DEF Test, Need
<1>15. ASSUME NEW c \in Client, Wait(c) PROVE LockInv' BY <1>15, Zenon DEF Wait
<1>16. ASSUME NEW c \in Client, SizeTest(c) PROVE LockInv' BY <1>16, Zenon DEF SizeTest, Need
<1>17. ASSUME NEW c \in Client, SizeRest(c) PROVE LockInv' BY <1>17, Zenon DEF SizeRest, End
<1>18. ASSUME NEW c \in Client, Copy(c) PROVE LockInv' BY <1>18, Zenon DEF Copy, End
<1>19. ASSUME NEW c \in Client, NEW a \in BOOLEAN, Call(c, a) PROVE LockInv' BY <1>19, Zenon DEF Call
<1>20. ASSUME NEW c \in Client, NEW n \in 0 .. Size + 1, AskPrefix(c, n) PROVE LockInv'
  BY <1>20, Zenon DEF AskPrefix
<1>21. ASSUME NEW c \in Client, NEW p \in Parts, AskPart(c, p[1], p[2]) PROVE LockInv'
  BY <1>21, Zenon DEF AskPart
<1>22. ASSUME NEW c \in Client, Release(c) PROVE LockInv' BY <1>22, Zenon DEF Release, Return, Ended
<1>23. ASSUME NEW c \in Client, Spurious(c) PROVE LockInv' BY <1>23, Zenon DEF Spurious
<1>24. ASSUME NEW b \in Buffer, NEW ok \in BOOLEAN, Download(b, ok) PROVE LockInv'
  BY <1>24, Zenon DEF Download, Loads
<1>25. ASSUME NEW b \in Buffer, NEW ok \in BOOLEAN, ZipLoad(b, ok) PROVE LockInv'
  <2>1. CASE ok
    BY <1>25, <2>1, ZenonT(60) DEF ZipLoad, Loads
  <2>2. CASE ~ok
    <3>1. Set(thread, b, "ended") /\ Set(lock, b, "free") /\ UNCHANGED <<fs, pc, buf>>
      BY <1>25, <2>2, Zenon DEF ZipLoad, Loads
    <3> QED
      BY <3>1, Zenon
  <2> QED
    BY <2>1, <2>2, Zenon
<1>26. ASSUME NEW b \in Buffer, NEW ok \in BOOLEAN, SingleLoad(b, ok) PROVE LockInv'
  BY <1>26, Zenon DEF SingleLoad, Loads
<1>27. ASSUME NEW b \in Buffer, ZipLock(b) PROVE LockInv' BY <1>27, Zenon DEF ZipLock, Loads
<1>28. ASSUME NEW b \in Buffer, Notify(b) PROVE LockInv' BY <1>28, Zenon DEF Notify, NotifyAll
<1>29. ASSUME Change PROVE LockInv' BY <1>29, Zenon DEF Change
<1>30. CASE UNCHANGED vars BY <1>30, Zenon DEF vars
<1> HIDE <1>0 DEF LockInv
<1> QED
  BY Zenon, Zenon, <1>1, <1>2, <1>3, <1>4, <1>5, <1>6, <1>7, <1>8, <1>9, <1>10, <1>11, <1>12,
       <1>13, <1>14, <1>15, <1>16, <1>17, <1>18, <1>19, <1>20, <1>21, <1>22,
       <1>23, <1>24, <1>25, <1>26, <1>27, <1>28, <1>29, <1>30
     DEF Next, ClientStep, Begin, LoaderStep

(* A thread that publishes data or fails notifies next, and a client that   *)
(* has tested by then is waiting, and woken, or is recorded as missed.      *)
LEMMA WaitInvStep ==
  ASSUME Types, OwnInv, WaitInv, [Next]_vars
  PROVE  WaitInv'
<1>0. /\ buf \in [Client -> Buffer \cup {None}] /\ pc \in [Client -> PlaceOfClient]
      /\ \A c \in Client : pc[c] \notin {"idle", "lookup", "fetch"} => buf[c] \in Buffer
      /\ now \in Nat /\ flags \in [Buffer -> SUBSET Flag] /\ avail \in [Buffer -> Nat]
      /\ thread \in [Buffer -> PlaceOfThread]
      /\ req \in [Client -> [kind : {"none", "prefix", "part"}, off : Nat, n : Nat]]
  BY Zenon DEF Types, BufferTypes, ClientTypes
<1> USE <1>0 DEF Set, At, fileVars, bufVars, callVars, histVars,
            OwnInv, Making, WaitInv, Need, IsError, IsLoaded, LOADED
<1>1. ASSUME NEW c \in Client, Fetch(c) \/ Reset(c) \/ Unmap(c) \/ LoadHere(c) PROVE WaitInv'
  BY <1>1, ZenonT(60) DEF Fetch, Timesample, Reset, Unmap, LoadHere, Threaded
<1>2. ASSUME NEW c \in Client, Stamp(c) \/ Insert(c) \/ Check(c) \/ Lock(c) PROVE WaitInv'
  BY <1>2, Zenon DEF Stamp, Timesample, Insert, Check, Lock
<1>3. ASSUME NEW c \in Client, Wait(c) \/ SizeTest(c) \/ SizeRest(c) \/ Copy(c) PROVE WaitInv'
  BY <1>3, Zenon DEF Wait, SizeTest, Need, SizeRest, End, Copy
<1>4. ASSUME NEW c \in Client, Spurious(c) PROVE WaitInv' BY <1>4, Zenon DEF Spurious
<1>5. ASSUME NEW c \in Client, Lookup(c) PROVE WaitInv'
  <2>1. CASE entry = None
    <3>1. PICK b \in Buffer :
            /\ Unused(b) /\ Set(buf, c, b) /\ Set(pc, c, "reset")
            /\ Set(flags, b, {}) /\ Set(avail, b, 0) /\ Set(size, b, 0)
            /\ Set(filled, b, 0) /\ Set(ver, b, 0) /\ Set(time, b, 0)
            /\ Set(thread, b, "none") /\ Set(lock, b, "free")
      BY <1>5, <2>1, Zenon DEF Lookup
    <3> QED
      BY <1>5, <2>1, <3>1, Zenon DEF Lookup, Unused
  <2>2. CASE entry # None
    BY <1>5, <2>2, Zenon DEF Lookup
  <2> QED
    BY <2>1, <2>2, ZenonT(60)
<1>6. ASSUME NEW c \in Client, LoadFails(c) PROVE WaitInv'
  BY <1>6, NoneAssumption, ZenonT(60) DEF LoadFails, Return
<1>7. ASSUME NEW c \in Client, StartThread(c) PROVE WaitInv'
  <2>1. CASE thread[buf[c]] \in {"none", "joined"}
    <3>1. buf[c] \in Buffer
      BY <1>7, Zenon DEF StartThread
    <3>2. \A d \in Client : pc'[d] \in {"block", "waiting"} => d # c /\ pc'[d] = pc[d]
      BY <1>7, <2>1, <3>1, ZenonT(60) DEF StartThread
    <3>3. \A x \in Buffer : x # buf[c] => thread'[x] = thread[x] /\ flags'[x] = flags[x]
      BY <1>7, <2>1, <3>1, ZenonT(60) DEF StartThread
    <3> QED
      BY <1>7, <3>1, <3>2, <3>3, ZenonT(60) DEF StartThread
  <2>2. CASE thread[buf[c]] \notin {"none", "joined"}
    BY <1>7, <2>2, ZenonT(60) DEF StartThread
  <2> QED
    BY <2>1, <2>2, ZenonT(60)
<1>8. ASSUME NEW c \in Client, JoinLoad(c) PROVE WaitInv'
  <2>1. CASE pc' = [pc EXCEPT ![c] = "stamp"] /\ UNCHANGED <<async, buf, made, req, got>>
    BY <1>8, <2>1, ZenonT(60) DEF JoinLoad
  <2>2. CASE Return(c)
    BY <1>8, <2>2, NoneAssumption, ZenonT(60) DEF Return, JoinLoad
  <2>3. CASE UNCHANGED callVars
    BY <1>8, <2>3, ZenonT(60) DEF JoinLoad
  <2> QED
    BY <1>8, <2>1, <2>2, <2>3, Zenon DEF JoinLoad
<1>9. ASSUME NEW c \in Client, Join(c) PROVE WaitInv'
  <2>1. CASE pc' = [pc EXCEPT ![c] = "have"] /\ UNCHANGED <<async, buf, made, req, got>>
    BY <1>9, <2>1, ZenonT(60) DEF Join
  <2>2. CASE Return(c)
    BY <1>9, <2>2, NoneAssumption, Zenon DEF Return, Join
  <2>3. CASE UNCHANGED callVars
    BY <1>9, <2>3, ZenonT(60) DEF Join
  <2> QED
    BY <1>9, <2>1, <2>2, <2>3, ZenonT(60) DEF Join
<1>10. ASSUME NEW c \in Client, Test(c) PROVE WaitInv'
  <2>1. buf[c] \in Buffer /\ UNCHANGED <<fileVars, bufVars, buf, req>> /\ missed' = missed \ {c}
    BY <1>10, ZenonT(60) DEF Test
  <2>2. \A d \in Client : d # c => pc'[d] = pc[d]
    BY <1>10, ZenonT(60) DEF Test
  <2>3. pc'[c] \in {"block", "waiting"} => Need(c) > avail[buf[c]] /\ ~IsError(buf[c])
    BY <1>10, Zenon DEF Test
  <2>4. req[c].off + req[c].n > avail[buf[c]] => ~(req[c].off + req[c].n <= avail[buf[c]])
    <3>1. req[c].off \in Nat /\ req[c].n \in Nat /\ avail[buf[c]] \in Nat
      BY <2>1, Zenon
    <3> QED
      BY <3>1, SumOver, Zenon
  <2> QED
    BY <2>1, <2>2, <2>3, <2>4, ZenonT(60)
<1>11. ASSUME NEW c \in Client, NEW a \in BOOLEAN, Call(c, a) PROVE WaitInv' BY <1>11, ZenonT(60) DEF Call
<1>12. ASSUME NEW c \in Client, NEW n \in 0 .. Size + 1, AskPrefix(c, n) PROVE WaitInv'
  BY <1>12, ZenonT(60) DEF AskPrefix
<1>13. ASSUME NEW c \in Client, NEW p \in Parts, AskPart(c, p[1], p[2]) PROVE WaitInv'
  BY <1>13, Zenon DEF AskPart
<1>14. ASSUME NEW c \in Client, Release(c) PROVE WaitInv'
  BY <1>14, NoneAssumption, ZenonT(60) DEF Release, Return
<1>15. ASSUME NEW b \in Buffer, NEW ok \in BOOLEAN, Download(b, ok) PROVE WaitInv'
  <2> HIDE DEF LOADED
  <2>1. CASE avail[b] = Size
    <3>1. Set(flags, b, flags[b] \cup LOADED)
      BY <1>15, <2>1, Zenon DEF Download, Loads
    <3>2. \A x \in Buffer : "error" \in flags'[x] => "error" \in flags[x]
      BY <3>1, ErrorKept, ZenonT(60)
    <3>3. \A x \in Buffer : thread'[x] = thread[x] \/ thread[x] = "load"
      BY <1>15, <2>1, ZenonT(60) DEF Download, Loads
    <3> QED
      BY <1>15, <2>1, <3>2, <3>3, ZenonT(60) DEF Download, Loads
  <2>2. CASE avail[b] # Size /\ ok
    BY <1>15, <2>2, ZenonT(60) DEF Download, Loads
  <2>3. CASE avail[b] # Size /\ ~ok
    BY <1>15, <2>3, ZenonT(60) DEF Download, Loads
  <2> QED
    BY <2>1, <2>2, <2>3, ZenonT(60)
<1>16. ASSUME NEW b \in Buffer, NEW ok \in BOOLEAN, ZipLoad(b, ok) PROVE WaitInv'
  BY <1>16, ZenonT(60) DEF ZipLoad, Loads
<1>17. ASSUME NEW b \in Buffer, NEW ok \in BOOLEAN, SingleLoad(b, ok) PROVE WaitInv'
  <2> HIDE DEF LOADED
  <2>1. \A x \in Buffer : "error" \in flags'[x] => "error" \in flags[x]
    <3>1. CASE ok
      <4>1. Set(flags, b, flags[b] \cup LOADED)
        BY <1>17, <3>1, Zenon DEF SingleLoad, Loads
      <4> QED
        BY <4>1, ErrorKept, Zenon
    <3>2. CASE ~ok
      BY <1>17, <3>2, ZenonT(60) DEF SingleLoad, Loads
    <3> QED
      BY <3>1, <3>2, ZenonT(60)
  <2>2. \A x \in Buffer : thread'[x] = thread[x] \/ thread[x] = "load"
    BY <1>17, ZenonT(60) DEF SingleLoad, Loads
  <2> QED
    BY <1>17, <2>1, <2>2, ZenonT(60) DEF SingleLoad, Loads
<1>18. ASSUME NEW b \in Buffer, ZipLock(b) PROVE WaitInv' BY <1>18, ZenonT(60) DEF ZipLock, Loads
<1>19. ASSUME NEW b \in Buffer, Notify(b) PROVE WaitInv' BY <1>19, Zenon DEF Notify, NotifyAll
<1>20. ASSUME Change PROVE WaitInv'
  <2>1. now' # 0
    BY <1>20, Plus, ZenonT(60) DEF Change
  <2> QED
    BY <2>1, Zenon
<1>21. CASE UNCHANGED vars BY <1>21, Zenon DEF vars
<1> HIDE <1>0 DEF OwnInv, Making, WaitInv, Need, IsError, IsLoaded, LOADED
<1> QED
  BY Zenon, Zenon, <1>1, <1>2, <1>3, <1>4, <1>5, <1>6, <1>7, <1>8, <1>9, <1>10, <1>11, <1>12,
       <1>13, <1>14, <1>15, <1>16, <1>17, <1>18, <1>19, <1>20, <1>21
     DEF Next, ClientStep, Begin, LoaderStep

-----------------------------------------------------------------------------
(* The inductive invariant.                                                 *)
Inv ==
  Types /\ TimeInv /\ OwnInv /\ FreshInv /\ RunInv /\ PlaceInv /\ CopyInv
  /\ SyncInv /\ LockInv /\ WaitInv /\ AgeInv

(* It holds when no file has been asked for.                                *)
LEMMA InvInit == Init => Inv
<1> SUFFICES ASSUME Init PROVE Inv
  BY Zenon
<1>1. Types
  BY TypesInit, Zenon
<1>2. TimeInv /\ PlaceInv
  BY Order, PrefixType, Zenon DEF Init, TimeInv, PlaceInv
<1>3. OwnInv /\ FreshInv /\ RunInv /\ CopyInv /\ SyncInv /\ WaitInv
  BY Zenon DEF Init, OwnInv, FreshInv, RunInv, Running, CopyInv, SyncInv, WaitInv, Making, Reading
<1>4. LockInv
  BY Zenon DEF Init, LockInv
<1>5. AgeInv
  BY Order, Zenon DEF Init, AgeInv
<1> QED
  BY <1>1, <1>2, <1>3, <1>4, <1>5, Zenon DEF Inv

(* Every step keeps it.                                                     *)
LEMMA InvStep == Inv /\ [Next]_vars => Inv'
BY Zenon, BufferTypesStep, ClientTypesStep, TimeInvStep, OwnInvStep, FreshInvStep, RunInvStep,
   PlaceInvStep, CopyInvStep, SyncInvStep, LockInvStep, WaitInvStep, AgeInvStep DEF Inv, Types

(* So it holds in every state.                                              *)
THEOREM Invariance == Spec => []Inv
BY InvInit, InvStep, PTL DEF Spec

(* get_file_buffer without async returns a loaded buffer, whoever loads it, *)
(* unless the file is a member of a compressed archive.                     *)
THEOREM SyncLoaded == Spec => []SyncGetsLoaded
<1>1. Inv => SyncGetsLoaded
  BY Zenon DEF Inv, SyncInv, SyncGetsLoaded
<1> QED
  BY <1>1, Invariance, PTL

(* request_data copies only data that is published and in place.            *)
THEOREM CopiedInPlace == Spec => []CopiesInPlace
<1>1. Inv => CopiesInPlace
  <2> SUFFICES ASSUME Inv, now = 0, NEW c \in Client, pc[c] = "copy"
               PROVE  /\ req[c].off + got[c] <= avail[buf[c]]
                      /\ req[c].off + got[c] <= filled[buf[c]]
    BY Zenon DEF CopiesInPlace
  <2>1. buf[c] \in Buffer /\ req[c].off \in Nat /\ got[c] \in Nat
    BY Zenon, Zenon DEF Inv, Types, ClientTypes
  <2>2. avail[buf[c]] \in Nat /\ filled[buf[c]] \in Nat
    BY <2>1, Zenon DEF Inv, Types, BufferTypes
  <2>3. req[c].off + got[c] <= avail[buf[c]] /\ avail[buf[c]] <= filled[buf[c]]
    BY <2>1, Zenon DEF Inv, CopyInv, PlaceInv
  <2> QED
    BY <2>1, <2>2, <2>3, SumWithin, Zenon
<1> QED
  BY <1>1, Invariance, PTL

(* A client that waits for published data, or for a download that failed,   *)
(* is about to be notified or was missed between its test and its wait.     *)
THEOREM WaitersRemembered == Spec => []NoWaiterForgotten
<1>1. Inv => NoWaiterForgotten
  BY Zenon DEF Inv, WaitInv, NoWaiterForgotten
<1> QED
  BY <1>1, Invariance, PTL

(* m_async_mutex is held only by a loader or by a client that will release  *)
(* it.                                                                      *)
THEOREM LockHoldersWork == Spec => []LockHolderWorks
<1>1. Inv => LockHolderWorks
  BY Zenon DEF Inv, LockInv, LockHolderWorks
<1> QED
  BY <1>1, Invariance, PTL

(* However often the file changes, a client gets data at least as new as    *)
(* its call, unless the file changed while it was loaded.                   *)
THEOREM GetsCurrent == Spec => []HaveIsCurrent
<1>1. Inv => HaveIsCurrent
  BY Zenon DEF Inv, AgeInv, HaveIsCurrent
<1> QED
  BY <1>1, Invariance, PTL

-----------------------------------------------------------------------------
(* To AsyncLoad it is all the same whether a thread is about to notify the  *)
(* readers or not, and whether it has been joined.                          *)
LEMMA SameLoad ==
  ASSUME NEW b \in Buffer, flags'[b] = flags[b], avail'[b] = avail[b],
         Working(b) <=> Working(b)', thread[b] = "none" <=> thread'[b] = "none"
  PROVE  UNCHANGED Load(b)!vars
BY Zenon DEF Load!vars, LoadState, IsLoaded, IsError

(* What a step may do to a buffer, as AsyncLoad promises.                   *)
Kept(b) == Fresh(b) \/ Load(b)!Next \/ UNCHANGED Load(b)!vars

(* A load in the calling thread is one step of a buffer that is fresh; a    *)
(* thread publishes, marks its buffer, and ends.                            *)
LEMMA PromiseStep ==
  ASSUME Types, TimeInv, FreshInv, RunInv, PlaceInv, [Next]_vars, now = 0, NEW b \in Buffer
  PROVE  Kept(b)
<1>0. /\ buf \in [Client -> Buffer \cup {None}] /\ pc \in [Client -> PlaceOfClient]
      /\ \A c \in Client : pc[c] \notin {"idle", "lookup", "fetch"} => buf[c] \in Buffer
      /\ flags \in [Buffer -> SUBSET Flag] /\ thread \in [Buffer -> PlaceOfThread]
      /\ avail \in [Buffer -> Nat] /\ Size \in Nat /\ avail[b] <= Size
      /\ \A c \in Client : pc[c] \in {"reset", "unmap", "load"} =>
           avail[buf[c]] = 0 /\ thread[buf[c]] = "none" /\ flags[buf[c]] = {}
      /\ thread[b] \in Running => ~IsLoaded(b) /\ ~IsError(b)
  BY PrefixType, Zenon DEF Types, BufferTypes, ClientTypes, FreshInv, RunInv, PlaceInv
<1> USE <1>0 DEF Set, At, fileVars, bufVars, callVars, histVars
<1>1. ASSUME flags'[b] = flags[b], avail'[b] = avail[b], thread'[b] = thread[b] PROVE Kept(b)
  BY <1>1, SameLoad, Zenon DEF Kept, Working
<1>2. ASSUME NEW c \in Client, \/ Fetch(c) \/ Unmap(c) \/ LoadFails(c) \/ Stamp(c) \/ Insert(c)
                              \/ Check(c) \/ Lock(c)
      PROVE  Kept(b)
  BY <1>1, <1>2, Zenon DEF Fetch, Unmap, LoadFails, Stamp, Insert, Check, Lock
<1>3. ASSUME NEW c \in Client, \/ Test(c) \/ Wait(c) \/ SizeTest(c) \/ SizeRest(c) \/ Copy(c)
      PROVE  Kept(b)
  BY <1>1, <1>3, Zenon DEF Test, Wait, SizeTest, SizeRest, Copy
<1>4. ASSUME NEW c \in Client, Begin(c) PROVE Kept(b)
  BY <1>1, <1>4, Zenon DEF Begin, Call, AskPrefix, AskPart, Release, Spurious
<1>5. ASSUME NEW c \in Client, Lookup(c) PROVE Kept(b)
  <2>1. CASE entry = None
    <3>1. PICK x \in Buffer :
            /\ Set(flags, x, {}) /\ Set(avail, x, 0) /\ Set(thread, x, "none")
            /\ Set(buf, c, x) /\ Set(pc, c, "reset")
      BY <1>5, <2>1, Zenon DEF Lookup
    <3>2. CASE x = b
      <4>1. pc[c] = "lookup" /\ pc'[c] = "reset" /\ buf'[c] = b
        BY <1>5, <3>1, <3>2, Zenon DEF Lookup
      <4> QED
        BY <4>1, Zenon DEF Kept, Fresh
    <3>3. CASE x # b
      BY <1>1, <3>1, <3>3, Zenon
    <3> QED
      BY <3>2, <3>3, Zenon
  <2>2. CASE entry # None
    BY <1>1, <1>5, <2>2, Zenon DEF Lookup
  <2> QED
    BY <2>1, <2>2, Zenon
<1>6. ASSUME NEW c \in Client, Reset(c) PROVE Kept(b)
  <2>1. /\ Set(flags, buf[c], {}) /\ UNCHANGED <<avail, thread>> /\ flags[buf[c]] = {}
    BY <1>6, Zenon DEF Reset
  <2> QED
    BY <1>1, <2>1, Zenon
<1>7. ASSUME NEW c \in Client, LoadHere(c) PROVE Kept(b)
  <2>1. CASE buf[c] # b
    <3>1. flags'[b] = flags[b] /\ avail'[b] = avail[b] /\ thread'[b] = thread[b]
      BY <1>7, <2>1, Zenon DEF LoadHere
    <3> QED
      BY <1>1, <3>1, Zenon
  <2>2. CASE buf[c] = b
    <3>1. avail[b] = 0 /\ thread[b] = "none" /\ flags[b] = {} /\ thread'[b] = "none"
      BY <1>7, <2>2, Zenon DEF LoadHere
    <3>2. LoadState(b) = "idle" /\ IsError(b) = FALSE
      BY <3>1, SMTT(60) DEF LoadState, IsLoaded, IsError, Working
    <3>3. avail'[b] \in Nat /\ avail'[b] >= avail[b]
      BY <1>7, <2>2, <3>1 DEF LoadHere
    <3>4. CASE flags'[b] = LOADED
      <4>1. LoadState(b)' = "loaded" /\ IsError(b)' = FALSE
        BY <3>4 DEF LoadState, IsLoaded, IsError, LOADED
      <4>2. Load(b)!Finish
        BY <3>2, <3>3, <4>1, Zenon DEF Load!Finish, Load!Grow
      <4> QED
        BY <4>2, Zenon DEF Kept, Load!Next
    <3>5. CASE flags'[b] = {} /\ avail'[b] # 0
      <4>1. LoadState(b)' = "failed" /\ IsError(b)' = FALSE
        BY <3>1, <3>3, <3>5 DEF LoadState, IsLoaded, IsError, Working
      <4>2. Load(b)!GiveUp
        BY <3>2, <3>3, <4>1, Zenon DEF Load!GiveUp, Load!Grow
      <4> QED
        BY <4>2, Zenon DEF Kept, Load!Next
    <3>6. CASE flags'[b] = {} /\ avail'[b] = 0
      BY <1>1, <3>1, <3>6, Zenon
    <3>7. flags'[b] = LOADED \/ flags'[b] = {}
      BY <1>7, <2>2, <3>1, Zenon DEF LoadHere
    <3> QED
      BY <3>4, <3>5, <3>6, <3>7, Zenon
  <2> QED
    BY <2>1, <2>2, Zenon
<1>8. ASSUME NEW c \in Client, StartThread(c) PROVE Kept(b)
  <2>1. avail'[b] = avail[b]
    BY <1>8, Zenon DEF StartThread
  <2>2. CASE buf[c] # b
    <3>1. flags'[b] = flags[b] /\ thread'[b] = thread[b]
      BY <1>8, <2>2, Zenon DEF StartThread
    <3> QED
      BY <1>1, <2>1, <3>1, Zenon
  <2>3. CASE buf[c] = b
    <3>1. avail[b] = 0 /\ thread[b] = "none" /\ flags[b] = {}
      BY <1>8, <2>3, Zenon DEF StartThread
    <3>2. LoadState(b) = "idle" /\ IsError(b) = FALSE
      BY <3>1, SMTT(60) DEF LoadState, IsLoaded, IsError, Working
    <3>3. thread'[b] \in {"start", "load"} /\ flags'[b] \in {{}, {"known"}}
      BY <1>8, <2>3, <3>1, ZenonT(60) DEF StartThread
    <3>4. LoadState(b)' = "loading" /\ IsError(b)' = FALSE
      <4>1. "loaded" \notin flags'[b] /\ "error" \notin flags'[b]
        BY <3>3, Zenon
      <4>2. Working(b)'
        BY <3>3, Zenon DEF Working
      <4> QED
        BY <4>1, <4>2 DEF LoadState, IsLoaded, IsError
    <3>5. Load(b)!Begin
      BY <2>1, <3>2, <3>4, ZenonT(60) DEF Load!Begin
    <3> QED
      BY <3>5, Zenon DEF Kept, Load!Next
  <2> QED
    BY <2>2, <2>3, Zenon
<1>9. ASSUME NEW c \in Client, JoinLoad(c) \/ Join(c) PROVE Kept(b)
  <2>1. /\ flags'[b] = flags[b] /\ avail'[b] = avail[b]
        /\ \/ thread'[b] = thread[b]
           \/ thread[b] \in {"ended", "joined"} /\ thread'[b] = "joined"
    BY <1>9, Zenon DEF JoinLoad, Join
  <2> QED
    BY <2>1, SameLoad, Zenon DEF Kept, Working
<1>10. ASSUME NEW x \in Buffer, LoaderStep(x) PROVE Kept(b)
  <2>1. CASE x # b
    <3>1. flags'[b] = flags[b] /\ avail'[b] = avail[b] /\ thread'[b] = thread[b]
      BY <1>10, <2>1, ZenonT(60) DEF LoaderStep, Download, ZipLoad, SingleLoad, ZipLock, Notify
    <3> QED
      BY <1>1, <3>1, ZenonT(60)
  <2>2. CASE x = b /\ (ZipLock(b) \/ (thread[b] = "notify" /\ Notify(b)))
    <3>1. /\ flags'[b] = flags[b] /\ avail'[b] = avail[b]
          /\ thread[b] \in {"start", "notify"} /\ thread'[b] = "load"
      BY <2>2, Zenon DEF ZipLock, Notify, Loads
    <3> QED
      BY <3>1, SameLoad, ZenonT(60) DEF Kept, Working
  <2>3. CASE x = b /\ thread[b] = "notify end" /\ Notify(b)
    <3>1. /\ flags'[b] = flags[b] /\ avail'[b] = avail[b] /\ thread'[b] = "ended"
      BY <2>3, Zenon DEF Notify
    <3>2. CASE IsLoaded(b)
      <4>1. UNCHANGED Load(b)!vars
        BY <3>1, <3>2, Zenon DEF Load!vars, LoadState, IsLoaded, IsError
      <4> QED
        BY <4>1, Zenon DEF Kept
    <3>3. CASE ~IsLoaded(b)
      <4>1. LoadState(b) = "loading" /\ LoadState(b)' = "failed"
        BY <2>3, <3>1, <3>3, ZenonT(60) DEF LoadState, IsLoaded, Working
      <4>2. Load(b)!GiveUp
        BY <3>1, <4>1 DEF Load!GiveUp, Load!Grow, IsError
      <4> QED
        BY <4>2, Zenon DEF Kept, Load!Next
    <3> QED
      BY <3>2, <3>3, Zenon
  <2>4. ASSUME x = b, thread[b] = "load" PROVE LoadState(b) = "loading" /\ ~IsError(b)
    BY <2>4, Zenon DEF Running, LoadState, Working
  <2>5. ASSUME LoadState(b) = "loading", ~IsError(b), flags'[b] = flags[b] \cup LOADED,
               avail'[b] \in Nat, avail'[b] >= avail[b]
        PROVE  Kept(b)
    <3>1. LoadState(b)' = "loaded" /\ IsError(b)' = IsError(b)
      BY <2>5, SMTT(60) DEF LoadState, IsLoaded, IsError, LOADED
    <3>2. Load(b)!Finish
      BY <2>5, <3>1, ZenonT(60) DEF Load!Finish, Load!Grow
    <3> QED
      BY <3>2, Zenon DEF Kept, Load!Next
  <2>6. ASSUME LoadState(b) = "loading", ~IsLoaded(b), flags'[b] = flags[b],
               avail'[b] = avail[b], thread'[b] = "ended"
        PROVE  Kept(b)
    <3>1. LoadState(b)' = "failed" /\ IsError(b)' = IsError(b)
      BY <2>6, ZenonT(60) DEF LoadState, IsLoaded, IsError, Working
    <3>2. Load(b)!GiveUp
      BY <2>6, <3>1 DEF Load!GiveUp, Load!Grow
    <3> QED
      BY <3>2, Zenon DEF Kept, Load!Next
  <2>7. ASSUME x = b, NEW ok \in BOOLEAN, Download(b, ok) PROVE Kept(b)
    <3>1. LoadState(b) = "loading" /\ ~IsError(b) /\ ~IsLoaded(b)
      BY <2>4, <2>7, Zenon DEF Download, Loads, Running
    <3>2. CASE avail[b] = Size
      <4>1. flags'[b] = flags[b] \cup LOADED /\ avail'[b] = avail[b]
        BY <2>7, <3>2, Zenon DEF Download
      <4> QED
        BY <2>5, <3>1, <4>1
    <3>3. CASE avail[b] # Size /\ ok
      <4>1. flags'[b] = flags[b] /\ avail'[b] = avail[b] + 1 /\ thread'[b] = "notify"
        BY <2>7, <3>3, Zenon DEF Download
      <4>2. LoadState(b)' = "loading" /\ IsError(b)' = IsError(b)
        BY <3>1, <4>1, ZenonT(60) DEF LoadState, IsLoaded, IsError, Working
      <4>3. Load(b)!Publish
        BY <3>1, <4>1, <4>2 DEF Load!Publish, Load!Grow
      <4> QED
        BY <4>3, Zenon DEF Kept, Load!Next
    <3>4. CASE avail[b] # Size /\ ~ok
      <4>1. /\ flags'[b] = flags[b] \cup {"error"} /\ avail'[b] = avail[b]
            /\ thread'[b] = "notify end"
        BY <2>7, <3>4, Zenon DEF Download
      <4>2. LoadState(b)' = "loading" /\ IsError(b)' = TRUE
        BY <3>1, <4>1, Zenon DEF LoadState, IsLoaded, IsError, Working
      <4>3. Load(b)!Raise
        BY <3>1, <4>1, <4>2, Zenon DEF Load!Raise
      <4> QED
        BY <4>3, Zenon DEF Kept, Load!Next
    <3> QED
      BY <3>2, <3>3, <3>4, Zenon
  <2>8. ASSUME x = b, NEW ok \in BOOLEAN, ZipLoad(b, ok) \/ SingleLoad(b, ok) PROVE Kept(b)
    <3>1. LoadState(b) = "loading" /\ ~IsError(b) /\ ~IsLoaded(b)
      BY <2>4, <2>8, ZenonT(60) DEF ZipLoad, SingleLoad, Loads, Running
    <3>2. CASE ok
      <4>1. flags'[b] = flags[b] \cup LOADED /\ avail'[b] \in {Size, avail[b]}
        BY <2>8, <3>2, ZenonT(60) DEF ZipLoad, SingleLoad
      <4>2. avail'[b] \in Nat /\ avail'[b] >= avail[b]
        BY <4>1
      <4> QED
        BY <2>5, <3>1, <4>1, <4>2, ZenonT(60)
    <3>3. CASE ~ok
      <4>1. flags'[b] = flags[b] /\ avail'[b] = avail[b] /\ thread'[b] = "ended"
        BY <2>8, <3>3, Zenon DEF ZipLoad, SingleLoad
      <4> QED
        BY <2>6, <3>1, <4>1, Zenon
    <3> QED
      BY <3>2, <3>3, Zenon
  <2>9. CASE x = b
    <3>1. \/ \E ok \in BOOLEAN : Download(b, ok) \/ ZipLoad(b, ok) \/ SingleLoad(b, ok)
          \/ ZipLock(b) \/ Notify(b)
      BY <1>10, <2>9, Zenon DEF LoaderStep
    <3>2. Notify(b) => thread[b] = "notify" \/ thread[b] = "notify end"
      BY Zenon DEF Notify
    <3> QED
      BY <2>2, <2>3, <2>7, <2>8, <2>9, <3>1, <3>2, Zenon
  <2> QED
    BY <2>1, <2>9, Zenon
<1>11. CASE Change
  BY <1>1, <1>11, Zenon DEF Change
<1>12. CASE UNCHANGED vars
  BY <1>1, <1>12, Zenon DEF vars
<1> HIDE <1>0
<1> QED
  BY <1>2, <1>3, <1>4, <1>5, <1>6, <1>7, <1>8, <1>9, <1>10, <1>11, <1>12, Zenon
     DEF Next, ClientStep

(* Every way to load a file keeps the promise of AsyncLoad to the readers,  *)
(* for any number of readers, from the buffer's creation until the file     *)
(* changes.                                                                 *)
THEOREM PromiseKept == Spec => LoadsAsPromised
<1>1. Inv /\ [Next]_vars =>
        [now = 0 => \A b \in Buffer : Fresh(b) \/ Load(b)!Next \/ UNCHANGED Load(b)!vars]_vars
  BY PromiseStep, Zenon DEF Inv, Kept
<1> QED
  BY <1>1, Invariance, PTL DEF Spec, LoadsAsPromised
=============================================================================
