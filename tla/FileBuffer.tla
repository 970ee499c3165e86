----------------------------- MODULE FileBuffer -----------------------------
(***************************************************************************)
(* uuu's cache of files in memory (buffer.cpp).  get_file_buffer looks a   *)
(* name up in g_filebuffer_map, creates and loads a buffer or reloads the  *)
(* one it finds; most kinds of file can be loaded by a thread, while       *)
(* others read what is there with request_data.                            *)
(*                                                                         *)
(* The module follows one file name.  A step is what a thread does between *)
(* two points where another can see it: a critical section, an access to a *)
(* field of a buffer that is shared, the start of a wait.  A client that   *)
(* is at "block" holds m_requext_cv_mutex of its buffer.                   *)
(*                                                                         *)
(* The file is Size units long.  A bz2 file of several blocks is loaded by *)
(* the threads of Bz2Load, which keep the same promise, AsyncLoad, and are *)
(* left out here.                                                          *)
(***************************************************************************)
EXTENDS Naturals

CONSTANTS
  Client,       \* the threads that use the file
  Buffer,       \* the FileBuffer objects
  None,         \* no buffer
  Fs,           \* the file systems the file may be on
  Changing,     \* those on which it may change
  Size,         \* the length of the file
  Parts,        \* the offsets and sizes that are asked for
  MaxChange,    \* bound: how often the file is changed
  MaxCalls      \* bound: how many calls the clients make together

(* flat: a file of its own; tar: a member of a tar file, or a gz stream;    *)
(* fat: a file in a FAT image; member: a member of a tar file that is       *)
(* itself compressed; single: a bz2 stream of one block.                    *)
FileSystem == {"flat", "tar", "fat", "member", "zip", "http", "single"}

ASSUME FsAssumption == Fs \subseteq FileSystem /\ Changing \subseteq Fs
ASSUME SizeAssumption == Size \in Nat /\ MaxChange \in Nat /\ MaxCalls \in Nat
ASSUME PartsAssumption == Parts \subseteq (0 .. Size) \X (0 .. Size)
ASSUME NoneAssumption == None \notin Buffer

(* FILEBUFFER_FLAG_LOADED has the bit for the known size as well.           *)
LOADED == {"loaded", "known"}

VARIABLES
  fs,           \* the file system the file is on
  now,          \* when the file was last changed
  up,           \* the program runs; std::terminate or assert ends it
  entry,        \* g_filebuffer_map[filename]
  flags,        \* m_dataflags of each buffer
  avail,        \* m_avaible_size
  size,         \* size()
  filled,       \* how much of the data is in place
  ver,          \* which version of the file the data is
  time,         \* m_timesample
  thread,       \* where m_aync_thread is
  lock,         \* who has m_async_mutex
  pc,           \* where each client is
  async,        \* the argument async of its call
  buf,          \* the buffer it has, or None
  made,         \* it has made the buffer (find): the name was not in the map
  req,          \* its request: what kind, offset, size
  got,          \* how much it copies
  calls,        \* how many calls have been made
  began,        \* history: when the file was last changed before the call
  late,         \* history: buffers loaded from a file that changed before Stamp
  missed        \* history: clients that were about to wait when notified

fileVars == <<fs, now, up>>
bufVars == <<flags, avail, size, filled, ver, time, thread, lock>>
histVars == <<calls, began, late, missed>>
callVars == <<pc, async, buf, made, req, got>>
vars == <<fileVars, entry, bufVars, callVars, histVars>>

Owner == Client \cup {"free", "loader"}
NoRequest == [kind |-> "none", off |-> 0, n |-> 0]

Init ==
  /\ fs \in Fs /\ now = 0 /\ up = "yes" /\ entry = None
  /\ flags = [b \in Buffer |-> {}]
  /\ avail = [b \in Buffer |-> 0]
  /\ size = [b \in Buffer |-> 0]
  /\ filled = [b \in Buffer |-> 0]
  /\ ver = [b \in Buffer |-> 0]
  /\ time = [b \in Buffer |-> 0]
  /\ thread = [b \in Buffer |-> "none"]
  /\ lock = [b \in Buffer |-> "free"]
  /\ pc = [c \in Client |-> "idle"]
  /\ async = [c \in Client |-> FALSE]
  /\ buf = [c \in Client |-> None]
  /\ made = [c \in Client |-> FALSE]
  /\ req = [c \in Client |-> NoRequest]
  /\ got = [c \in Client |-> 0]
  /\ calls = 0
  /\ began = [c \in Client |-> 0]
  /\ late = {} /\ missed = {}

IsLoaded(b) == "loaded" \in flags[b]
IsError(b) == "error" \in flags[b]

Set(f, x, v) == f' = [f EXCEPT ![x] = v]

At(c, place) == up = "yes" /\ pc[c] = place

(* The call returns NULL, or the client has finished with the buffer.       *)
Return(c) ==
  /\ Set(pc, c, "idle") /\ Set(buf, c, None) /\ Set(async, c, FALSE) /\ Set(made, c, FALSE)
  /\ Set(req, c, NoRequest) /\ Set(got, c, 0)

-----------------------------------------------------------------------------
(* get_file_buffer.                                                        *)

Call(c, a) ==
  /\ At(c, "idle") /\ calls < MaxCalls /\ calls' = calls + 1
  /\ Set(pc, c, "lookup") /\ Set(async, c, a) /\ Set(began, c, now)
  /\ UNCHANGED <<fileVars, late, missed, entry, bufVars, buf, made, req, got>>

(* A buffer that no client, no thread and no entry refers to.               *)
Unused(b) ==
  /\ b # entry /\ \A c \in Client : buf[c] # b
  /\ thread[b] \in {"none", "ended", "joined"}

(* The name is looked up under g_mutex_map; if it is not there the client   *)
(* makes a buffer and loads it without the mutex.                           *)
Lookup(c) ==
  /\ At(c, "lookup")
  /\ IF entry = None
       THEN \E b \in Buffer :
              /\ Unused(b)
              /\ Set(buf, c, b) /\ Set(made, c, TRUE)
              /\ Set(flags, b, {}) /\ Set(avail, b, 0) /\ Set(size, b, 0)
              /\ Set(filled, b, 0) /\ Set(ver, b, 0) /\ Set(time, b, 0)
              /\ Set(thread, b, "none") /\ Set(lock, b, "free")
              /\ Set(pc, c, "reset")
       ELSE Set(pc, c, "fetch") /\ UNCHANGED <<bufVars, buf, made>>
  /\ UNCHANGED <<fileVars, histVars, entry, async, req, got>>

(* FSHttp::get_file_timesample leaves the time at 0.                        *)
Timesample == IF fs = "http" THEN 0 ELSE now

(* Mutant: a buffer that is found is used as it is.                         *)
FetchAny(c) ==
  /\ At(c, "fetch")
  /\ Set(buf, c, entry)
  /\ Set(pc, c, "check")
  /\ UNCHANGED <<fileVars, histVars, entry, bufVars, async, made, req, got>>

(* The entry is read under g_mutex_map, which has been released since the   *)
(* name was found.                                                          *)
Fetch(c) ==
  /\ At(c, "fetch")
  /\ Set(buf, c, entry)
  /\ Set(pc, c, IF time[entry] # Timesample THEN "reset" ELSE "check")
  /\ UNCHANGED <<fileVars, histVars, entry, bufVars, async, made, req, got>>

(* FileBuffer::reload.  The available size is that of the load before.      *)
Reset(c) ==
  /\ At(c, "reset")
  /\ Set(flags, buf[c], {})
  /\ Set(pc, c, IF fs = "flat" THEN "unmap" ELSE "load")
  /\ UNCHANGED <<fileVars, histVars, entry, avail, size, filled, ver, time, thread, lock,
                 async, buf, made, req, got>>

Unmap(c) ==
  /\ At(c, "unmap")
  /\ Set(filled, buf[c], 0)
  /\ Set(pc, c, "load")
  /\ UNCHANGED <<fileVars, histVars, entry, flags, avail, size, ver, time, thread, lock,
                 async, buf, made, req, got>>

Threaded == fs = "single"                   \* loaded by a thread in any case

(* The load succeeds in the calling thread.  FSFat and FSZip do not set the *)
(* available size; FSBz2 and FSGz do not mark a member of an archive.       *)
LoadHere(c) ==
  /\ At(c, "load") /\ ~Threaded /\ ~(async[c] /\ fs \in {"zip", "http"})
  /\ Set(size, buf[c], Size) /\ Set(filled, buf[c], Size) /\ Set(ver, buf[c], now)
  /\ Set(avail, buf[c], IF fs \in {"fat", "zip"} THEN avail[buf[c]] ELSE Size)
  /\ Set(flags, buf[c], IF fs = "member" THEN flags[buf[c]] ELSE LOADED)
  /\ Set(pc, c, "stamp")
  /\ late' = late \ {buf[c]}
  /\ UNCHANGED <<fileVars, calls, began, missed, entry, time, thread, lock, async, buf, made, req, got>>

LoadFails(c) ==
  /\ At(c, "load") \/ At(c, "unmap")
  /\ Return(c)
  /\ UNCHANGED <<fileVars, histVars, entry, bufVars>>

(* A thread is started.  Assigning it to a thread that has not been joined  *)
(* ends the program.                                                        *)
StartThread(c) ==
  /\ At(c, "load") /\ (Threaded \/ (async[c] /\ fs \in {"zip", "http"}))
  /\ IF thread[buf[c]] \in {"none", "joined"}
       THEN /\ Set(thread, buf[c], IF fs = "zip" THEN "start" ELSE "load")
            /\ IF fs = "http"
                 THEN Set(size, buf[c], Size) /\ Set(flags, buf[c], {"known"})
                 ELSE UNCHANGED <<size, flags>>
            /\ Set(ver, buf[c], now)
            /\ Set(pc, c, IF Threaded /\ ~async[c] THEN "join load" ELSE "stamp")
            /\ late' = late \ {buf[c]}
            /\ UNCHANGED up
       ELSE up' = "no" /\ UNCHANGED <<thread, size, flags, ver, pc, late>>
  /\ UNCHANGED <<fs, now, calls, began, missed, entry, avail, filled, time, lock, async, buf, made, req, got>>

(* FSBz2::load waits for its thread.  Joining one that another client has   *)
(* joined ends the program.                                                 *)
JoinLoad(c) ==
  /\ At(c, "join load") /\ thread[buf[c]] \in {"ended", "joined"}
  /\ IF thread[buf[c]] = "ended"
       THEN /\ Set(thread, buf[c], "joined")
            /\ IF IsLoaded(buf[c])
                 THEN Set(pc, c, "stamp") /\ UNCHANGED <<async, buf, made, req, got>>
                 ELSE Return(c)
            /\ UNCHANGED up
       ELSE up' = "no" /\ UNCHANGED <<thread, callVars>>
  /\ UNCHANGED <<fs, now, histVars, entry, flags, avail, size, filled, ver, time, lock>>

(* The time of the file is taken after the file has been read.  A buffer    *)
(* that the call has made is put into the map.                              *)
Stamp(c) ==
  /\ At(c, "stamp")
  /\ Set(time, buf[c], Timesample)
  /\ Set(pc, c, IF made[c] THEN "insert" ELSE "check")
  /\ UNCHANGED <<fileVars, histVars, entry, flags, avail, size, filled, ver, thread, lock,
                 async, buf, made, req, got>>

Insert(c) ==
  /\ At(c, "insert")
  /\ entry' = buf[c]
  /\ Set(pc, c, "have")
  /\ UNCHANGED <<fileVars, histVars, bufVars, async, buf, made, req, got>>

Check(c) ==
  /\ At(c, "check")
  /\ Set(pc, c, IF ~IsLoaded(buf[c]) /\ ~async[c] THEN "lock" ELSE "have")
  /\ UNCHANGED <<fileVars, histVars, entry, bufVars, async, buf, made, req, got>>

Lock(c) ==
  /\ At(c, "lock") /\ lock[buf[c]] = "free"
  /\ Set(lock, buf[c], c)
  /\ Set(pc, c, "join")
  /\ UNCHANGED <<fileVars, histVars, entry, flags, avail, size, filled, ver, time, thread,
                 async, buf, made, req, got>>

(* Mutant: the outcome of the load is not looked at.                        *)
JoinOnly(c) ==
  /\ At(c, "join") /\ thread[buf[c]] \in {"none", "ended", "joined"}
  /\ thread' = [thread EXCEPT ![buf[c]] = IF @ = "none" THEN @ ELSE "joined"]
  /\ Set(lock, buf[c], "free")
  /\ Set(pc, c, "have") /\ UNCHANGED <<async, buf, made, req, got>>
  /\ UNCHANGED <<fileVars, histVars, entry, flags, avail, size, filled, ver, time>>

(* m_async_mutex is held while the thread is joined.                        *)
Join(c) ==
  /\ At(c, "join") /\ thread[buf[c]] \in {"none", "ended", "joined"}
  /\ thread' = [thread EXCEPT ![buf[c]] = IF @ = "none" THEN @ ELSE "joined"]
  /\ Set(lock, buf[c], "free")
  /\ IF IsLoaded(buf[c]) THEN Set(pc, c, "have") /\ UNCHANGED <<async, buf, made, req, got>>
                         ELSE Return(c)
  /\ UNCHANGED <<fileVars, histVars, entry, flags, avail, size, filled, ver, time>>

-----------------------------------------------------------------------------
(* The loading threads.                                                    *)

NotifyAll(b) ==
  pc' = [c \in Client |->
           IF pc[c] = "waiting" /\ buf[c] = b THEN "woken" ELSE pc[c]]

Loads(b, kind, place) == up = "yes" /\ fs = kind /\ thread[b] = place

(* Mutant: a chunk that fails is flagged, and the loop goes on.             *)
DownloadOn(b, ok) ==
  /\ Loads(b, "http", "load")
  /\ IF avail[b] = Size
       THEN /\ Set(flags, b, flags[b] \cup LOADED) /\ Set(thread, b, "ended")
            /\ UNCHANGED <<avail, filled>>
       ELSE /\ Set(avail, b, avail[b] + 1) /\ Set(filled, b, filled[b] + 1)
            /\ Set(thread, b, "notify")
            /\ Set(flags, b, IF ok THEN flags[b] ELSE flags[b] \cup {"error"})
  /\ UNCHANGED <<fileVars, histVars, entry, size, ver, time, lock, callVars>>

(* http_load: one chunk, or the end.                                        *)
Download(b, ok) ==
  /\ Loads(b, "http", "load")
  /\ IF avail[b] = Size
       THEN /\ Set(flags, b, flags[b] \cup LOADED) /\ Set(thread, b, "ended")
            /\ UNCHANGED <<avail, filled>>
       ELSE IF ok
       THEN /\ Set(avail, b, avail[b] + 1) /\ Set(filled, b, filled[b] + 1)
            /\ Set(thread, b, "notify")
            /\ UNCHANGED flags
       ELSE /\ Set(flags, b, flags[b] \cup {"error"})
            /\ Set(thread, b, "notify end")
            /\ UNCHANGED <<avail, filled>>
  /\ UNCHANGED <<fileVars, histVars, entry, size, ver, time, lock, callVars>>

(* zip_async_load holds m_async_mutex until it returns.                     *)
ZipLock(b) ==
  /\ Loads(b, "zip", "start") /\ lock[b] = "free"
  /\ Set(lock, b, "loader")
  /\ Set(thread, b, "load")
  /\ UNCHANGED <<fileVars, histVars, entry, flags, avail, size, filled, ver, time, callVars>>

(* Mutant: a failure leaves m_async_mutex locked.                           *)
ZipLoadLocked(b, ok) ==
  /\ Loads(b, "zip", "load")
  /\ IF ok
       THEN /\ Set(size, b, Size) /\ Set(filled, b, Size) /\ Set(avail, b, Size)
            /\ Set(ver, b, now)
            /\ Set(flags, b, flags[b] \cup LOADED)
            /\ Set(thread, b, "notify end")
       ELSE Set(thread, b, "ended") /\ UNCHANGED <<size, filled, avail, ver, flags>>
  /\ UNCHANGED <<fileVars, histVars, entry, time, lock, callVars>>

ZipLoad(b, ok) ==
  /\ Loads(b, "zip", "load")
  /\ IF ok
       THEN /\ Set(size, b, Size) /\ Set(filled, b, Size) /\ Set(avail, b, Size)
            /\ Set(ver, b, now)
            /\ Set(flags, b, flags[b] \cup LOADED)
            /\ Set(thread, b, "notify end")
            /\ UNCHANGED lock
       ELSE /\ Set(thread, b, "ended") /\ Set(lock, b, "free")
            /\ UNCHANGED <<size, filled, avail, ver, flags>>
  /\ UNCHANGED <<fileVars, histVars, entry, time, callVars>>

(* decompress_single_thread does not set the available size.                *)
SingleLoad(b, ok) ==
  /\ Loads(b, "single", "load")
  /\ Set(thread, b, "ended")
  /\ IF ok
       THEN /\ Set(size, b, Size) /\ Set(filled, b, Size)
            /\ Set(flags, b, flags[b] \cup LOADED)
       ELSE UNCHANGED <<size, filled, flags>>
  /\ UNCHANGED <<fileVars, histVars, entry, avail, ver, time, lock, callVars>>

(* Mutant: the readers are not notified.                                    *)
NotifyNobody(b) ==
  /\ up = "yes" /\ thread[b] \in {"notify", "notify end"}
  /\ Set(thread, b, IF thread[b] = "notify" THEN "load" ELSE "ended")
  /\ Set(lock, b, IF lock[b] = "loader" THEN "free" ELSE lock[b])
  /\ UNCHANGED <<fileVars, histVars, entry, flags, avail, size, filled, ver, time, callVars>>

(* m_request_cv is notified without its mutex.                              *)
Notify(b) ==
  /\ up = "yes" /\ thread[b] \in {"notify", "notify end"}
  /\ NotifyAll(b)
  /\ missed' = missed \cup {c \in Client : pc[c] = "block" /\ buf[c] = b}
  /\ Set(thread, b, IF thread[b] = "notify" THEN "load" ELSE "ended")
  /\ Set(lock, b, IF lock[b] = "loader" THEN "free" ELSE lock[b])
  /\ UNCHANGED <<fileVars, calls, began, late, entry, flags, avail, size, filled, ver, time, async, buf, made, req, got>>

-----------------------------------------------------------------------------
(* request_data.                                                           *)

End(c, outcome) == Set(pc, c, outcome) /\ UNCHANGED got

(* request_data(sz).  In a build with assertions the program ends when the  *)
(* size is not known.                                                       *)
AskPrefix(c, n) ==
  /\ At(c, "have")
  /\ \/ /\ Set(pc, c, IF IsLoaded(buf[c]) /\ n > size[buf[c]] THEN "refused" ELSE "test")
        /\ Set(req, c, [kind |-> "prefix", off |-> 0, n |-> n])
        /\ UNCHANGED up
     \/ "known" \notin flags[buf[c]] /\ up' = "no" /\ UNCHANGED <<pc, req>>
  /\ UNCHANGED <<fs, now, histVars, entry, bufVars, async, buf, made, got>>

(* request_data(data, offset, sz).                                          *)
AskPart(c, off, n) ==
  /\ At(c, "have")
  /\ Set(pc, c, IF ~IsLoaded(buf[c]) THEN "test"
                ELSE IF off >= size[buf[c]] THEN "refused" ELSE "size")
  /\ Set(req, c, [kind |-> "part", off |-> off, n |-> n])
  /\ UNCHANGED <<fileVars, histVars, entry, bufVars, async, buf, made, got>>

Need(c) == req[c].off + req[c].n

(* The loop's condition and what follows the loop, under                    *)
(* m_requext_cv_mutex.                                                      *)
Test(c) ==
  /\ At(c, "test") \/ At(c, "woken")
  /\ \A d \in Client : ~(pc[d] = "block" /\ buf[d] = buf[c])
  /\ LET b == buf[c]
         past == IF req[c].kind = "prefix" THEN req[c].n > avail[b]
                                           ELSE req[c].off > avail[b]
         waits == Need(c) > avail[b] /\ ~IsLoaded(b) IN
     \/ waits /\ IsError(b) /\ Set(pc, c, "error")
     \/ waits /\ ~IsError(b) /\ Set(pc, c, "block")
     \/ ~waits /\ IsLoaded(b) /\ past /\ Set(pc, c, "refused")
     \/ /\ ~waits /\ ~(IsLoaded(b) /\ past)
        /\ Set(pc, c, IF req[c].kind = "prefix" THEN "granted" ELSE "size")
  /\ missed' = missed \ {c}
  /\ UNCHANGED <<fileVars, calls, began, late, entry, bufVars, async, buf, made, req, got>>

Wait(c) ==
  /\ At(c, "block")
  /\ Set(pc, c, "waiting")
  /\ UNCHANGED <<fileVars, histVars, entry, bufVars, async, buf, made, req, got>>

Spurious(c) ==
  /\ At(c, "waiting")
  /\ Set(pc, c, "woken")
  /\ UNCHANGED <<fileVars, histVars, entry, bufVars, async, buf, made, req, got>>

(* The available size is read twice, in the test and for the size.  The     *)
(* second may be less than the offset; the size wraps, and data.resize      *)
(* throws.                                                                  *)
SizeTest(c) ==
  /\ At(c, "size")
  /\ IF Need(c) >= avail[buf[c]]
       THEN Set(pc, c, "size rest") /\ UNCHANGED got
       ELSE Set(pc, c, "copy") /\ Set(got, c, req[c].n)
  /\ UNCHANGED <<fileVars, histVars, entry, bufVars, async, buf, made, req>>

(* Mutant: the rest is counted from the size of the buffer.                 *)
SizeOfBuffer(c) ==
  /\ At(c, "size rest")
  /\ IF req[c].off <= size[buf[c]]
       THEN /\ Set(pc, c, "copy")
            /\ Set(got, c, size[buf[c]] - req[c].off)
       ELSE End(c, "throws")
  /\ UNCHANGED <<fileVars, histVars, entry, bufVars, async, buf, made, req>>

(* Mutant: an offset past what is available is not looked for.              *)
SizeRestAnyway(c) ==
  /\ At(c, "size rest")
  /\ Set(pc, c, "copy")
  /\ Set(got, c, avail[buf[c]] - req[c].off)
  /\ UNCHANGED <<fileVars, histVars, entry, bufVars, async, buf, made, req>>

SizeRest(c) ==
  /\ At(c, "size rest")
  /\ IF req[c].off <= avail[buf[c]]
       THEN /\ Set(pc, c, "copy")
            /\ Set(got, c, avail[buf[c]] - req[c].off)
       ELSE End(c, "throws")
  /\ UNCHANGED <<fileVars, histVars, entry, bufVars, async, buf, made, req>>

Copy(c) ==
  /\ At(c, "copy")
  /\ End(c, "granted")
  /\ UNCHANGED <<fileVars, histVars, entry, bufVars, async, buf, made, req>>

Ended == {"granted", "refused", "error", "throws"}

(* The client drops its reference.                                          *)
Release(c) ==
  /\ up = "yes" /\ pc[c] \in Ended \cup {"have"}
  /\ Return(c)
  /\ UNCHANGED <<fileVars, histVars, entry, bufVars>>

-----------------------------------------------------------------------------
(* The file is changed on the disk.                                         *)
Change ==
  /\ up = "yes" /\ fs \in Changing /\ now < MaxChange /\ now' = now + 1
  /\ late' = late \cup {buf[c] : c \in {d \in Client : pc[d] \in {"join load", "stamp"}}}
  /\ UNCHANGED <<fs, up, calls, began, missed, entry, bufVars, callVars>>

(* What a client does without waiting for its user.                         *)
ClientStep(c) ==
  \/ Lookup(c) \/ Fetch(c) \/ Reset(c) \/ Unmap(c)
  \/ LoadHere(c) \/ LoadFails(c) \/ StartThread(c) \/ JoinLoad(c)
  \/ Stamp(c) \/ Insert(c) \/ Check(c) \/ Lock(c) \/ Join(c)
  \/ Test(c) \/ Wait(c) \/ SizeTest(c) \/ SizeRest(c) \/ Copy(c)

Begin(c) ==
  \/ \E a \in BOOLEAN : Call(c, a)
  \/ \E n \in 0 .. Size + 1 : AskPrefix(c, n)
  \/ \E p \in Parts : AskPart(c, p[1], p[2])
  \/ Release(c) \/ Spurious(c)

LoaderStep(b) ==
  \/ \E ok \in BOOLEAN : Download(b, ok) \/ ZipLoad(b, ok) \/ SingleLoad(b, ok)
  \/ ZipLock(b) \/ Notify(b)

Next ==
  \/ \E c \in Client : ClientStep(c) \/ Begin(c)
  \/ \E b \in Buffer : LoaderStep(b)
  \/ Change

Spec == Init /\ [][Next]_vars

-----------------------------------------------------------------------------
PlaceOfClient ==
  {"idle", "lookup", "fetch", "reset", "unmap", "load", "join load", "stamp",
   "insert", "check", "lock", "join", "have", "test", "block", "waiting", "woken",
   "size", "size rest", "copy"} \cup Ended
PlaceOfThread == {"none", "start", "load", "notify", "notify end", "ended", "joined"}
Request ==
  [kind : {"none", "prefix", "part"}, off : 0 .. Size, n : 0 .. Size + 1]

(* The variables keep their types; a client that works on a buffer has one. *)
TypeOK ==
  /\ fs \in Fs /\ now \in 0 .. MaxChange /\ up \in {"yes", "no"}
  /\ entry \in Buffer \cup {None}
  /\ flags \in [Buffer -> SUBSET {"loaded", "known", "error"}]
  /\ avail \in [Buffer -> 0 .. Size] /\ size \in [Buffer -> 0 .. Size]
  /\ filled \in [Buffer -> 0 .. Size]
  /\ ver \in [Buffer -> 0 .. MaxChange] /\ time \in [Buffer -> 0 .. MaxChange]
  /\ thread \in [Buffer -> PlaceOfThread] /\ lock \in [Buffer -> Owner]
  /\ pc \in [Client -> PlaceOfClient] /\ async \in [Client -> BOOLEAN]
  /\ buf \in [Client -> Buffer \cup {None}] /\ req \in [Client -> Request]
  /\ made \in [Client -> BOOLEAN] /\ got \in [Client -> 0 .. Size]
  /\ \A c \in Client : pc[c] \notin {"idle", "lookup", "fetch"} => buf[c] \in Buffer
  /\ calls \in 0 .. MaxCalls /\ began \in [Client -> 0 .. MaxChange] 
  /\ late \in SUBSET Buffer /\ missed \in SUBSET Client

Reading == {"have", "test", "block", "waiting", "woken", "size", "size rest", "copy"}

(* A client that called get_file_buffer without async has a buffer that is  *)
(* loaded, whoever loaded it, as long as the file does not change: reload   *)
(* loads a changed file into the buffer that others read.  The exception is *)
(* a member of a compressed archive, which FSBz2::load and FSGz::load never *)
(* mark.                                                                    *)
SyncGetsLoaded ==
  \A c \in Client :
    now = 0 /\ pc[c] \in Reading /\ ~async[c] => IsLoaded(buf[c]) \/ fs = "member"

(* What request_data copies is published and in place, however the loader   *)
(* and the two reads of m_avaible_size interleave, as long as the file does *)
(* not change.                                                              *)
CopiesInPlace ==
  \A c \in Client : now = 0 /\ pc[c] = "copy" =>
    LET end == req[c].off + got[c] IN
    end <= avail[buf[c]] /\ end <= filled[buf[c]]

Working(b) == thread[b] \in {"start", "load", "notify", "notify end"}

LoadState(b) ==
  IF IsLoaded(b) THEN "loaded"
  ELSE IF Working(b) THEN "loading"
  ELSE IF thread[b] # "none" \/ avail[b] > 0 THEN "failed"
  ELSE "idle"

Load(b) == INSTANCE AsyncLoad WITH
  state <- LoadState(b), avail <- avail[b], error <- IsError(b)

Fresh(b) == \E c \in Client : pc[c] = "lookup" /\ pc'[c] = "reset" /\ buf'[c] = b

(* Every way to load a file keeps the promise of AsyncLoad to the readers   *)
(* of the buffer, from the buffer's creation until the file changes.        *)
LoadsAsPromised ==
  [][now = 0 => \A b \in Buffer : Fresh(b) \/ Load(b)!Next \/ UNCHANGED Load(b)!vars]_vars

(* A client that waits for data that is published, or for a download that   *)
(* has failed, is about to be notified, unless it had tested and not yet    *)
(* begun to wait when it was: the notification does not take                *)
(* m_requext_cv_mutex.  (Nothing is said of a read past the end, which the  *)
(* end of a download does not notify.)                                      *)
NoWaiterForgotten ==
  \A c \in Client :
    (/\ up = "yes" /\ now = 0 /\ pc[c] = "waiting"
     /\ Need(c) <= avail[buf[c]] \/ IsError(buf[c]))
    => thread[buf[c]] \in {"notify", "notify end"} \/ c \in missed

(* m_async_mutex is held by a loading thread that is at work or by a client *)
(* that joins the thread of its buffer, so that the others get it.  (A zip  *)
(* file's thread that has not yet taken it is joined for ever.)             *)
LockHolderWorks ==
  \A b \in Buffer :
    \/ lock[b] = "free"
    \/ lock[b] = "loader" /\ thread[b] \in {"load", "notify end"}
    \/ lock[b] \in Client /\ pc[lock[b]] = "join" /\ buf[lock[b]] = b

(* A client gets a file at least as new as when it called, unless the file  *)
(* changed after a load had read it and before reload took its time.  A     *)
(* file on an HTTP server has no time, and is never loaded again.           *)
HaveIsCurrent ==
  \A c \in Client :
    pc[c] = "have" /\ fs # "http" => ver[buf[c]] >= began[c] \/ buf[c] \in late
=============================================================================
