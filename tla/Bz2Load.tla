------------------------------ MODULE Bz2Load ------------------------------
(***************************************************************************)
(* uuu's parallel loader for bz2 files (bz_async_load and bz2_decompress   *)
(* in buffer.cpp).  One thread scans the file for block headers and        *)
(* appends a block for each; workers take the blocks in order, decompress  *)
(* them, copy the result to its place and publish how much of the output   *)
(* is available.                                                           *)
(*                                                                         *)
(* A step is what a thread does between two points where another thread    *)
(* can see it: a critical section of blk_mutex or m_data_mutex, an atomic  *)
(* load, the start of a wait.  blk_mutex is held over more than one step   *)
(* only while the scanner grows the vector; con_mutex is held by a worker  *)
(* that has found nothing to take and has not begun to wait.               *)
(*                                                                         *)
(* Output is counted in blocks.  The header block of the code's vector is  *)
(* left out, so blk[i] is the code's blk[i] and Len(blk) + 1 its size().    *)
(***************************************************************************)
EXTENDS Naturals, Sequences

CONSTANTS
  Worker,       \* the threads that decompress
  Files         \* the files that may be loaded: the kind of each block

(* What decompressing a block gives: its full size, less, or an error.      *)
Kind == {"full", "short", "err"}

ASSUME FilesAssumption == Files \subseteq Seq(Kind)

(* hardware_concurrency() counts the processors; 0 stands for "not known"   *)
(* and would start no worker.                                               *)
ASSUME WorkerAssumption == Worker # {}

(* size: whether the block's compressed size has been set.                  *)
Block == [size : {"unset", "set"}, result : Kind \cup {"none"}]

(* Mutant: a new block is not cleared.                                      *)
UnclearedBlock == [size |-> "unset", result |-> "unset"]

NewBlock == [size |-> "unset", result |-> "none"]

VARIABLES
  file,         \* the file that is loaded
  blk,          \* blks.blk
  top,          \* blks.top
  bottom,       \* blks.bottom: ULLONG_MAX or the size of the vector
  error,        \* FILEBUFFER_FLAG_ERROR_BIT
  size,         \* p->size()
  avail,        \* p->m_avaible_size
  copied,       \* the blocks whose output has been copied
  oom,          \* a worker has ended because resize failed
  main,         \* where bz_async_load is
  pc,           \* where each worker is
  cur,          \* the block that a worker has taken
  one           \* the worker's copy of it

scanVars == <<blk, bottom, error, main>>
outVars == <<size, avail, copied, oom>>
workVars == <<pc, cur, one>>
vars == <<file, top, scanVars, outVars, workVars>>

Init ==
  /\ file \in Files
  /\ blk = <<>> /\ top = 1 /\ bottom = "max"
  /\ error = FALSE /\ size = 0 /\ avail = 0 /\ copied = {} /\ oom = FALSE
  /\ main = "start"
  /\ pc = [w \in Worker |-> "none"]
  /\ cur = [w \in Worker |-> 0]
  /\ one = [w \in Worker |-> NewBlock]

-----------------------------------------------------------------------------
(* bz_async_load.                                                          *)

Growing == main \in {"push", "mark"}     \* the scanner holds blk_mutex

NotifyAll ==
  pc' = [w \in Worker |-> IF pc[w] = "waiting" THEN "woken" ELSE pc[w]]

(* The workers are started unless memory for the output cannot be reserved. *)
Start(ok) ==
  /\ main = "start"
  /\ IF ok THEN main' = "scan" /\ pc' = [w \in Worker |-> "check"]
           ELSE main' = "failed" /\ UNCHANGED pc
  /\ UNCHANGED <<file, top, blk, bottom, error, outVars, cur, one>>

(* The next header is found; blk_mutex is taken.                            *)
FindBlock ==
  /\ main = "scan" /\ Len(blk) < Len(file)
  /\ main' = "push"
  /\ UNCHANGED <<file, top, blk, bottom, error, outVars, workVars>>

(* The block before ends where the new one starts.                          *)
PushBlock ==
  /\ main = "push"
  /\ blk' = Append([i \in DOMAIN blk |->
                      IF i = Len(blk) THEN [blk[i] EXCEPT !.size = "set"]
                                      ELSE blk[i]], NewBlock)
  /\ main' = "notify"
  /\ UNCHANGED <<file, top, bottom, error, outVars, workVars>>

NotifyBlock ==
  /\ main = "notify"
  /\ NotifyAll
  /\ main' = "scan"
  /\ UNCHANGED <<file, top, blk, bottom, error, outVars, cur, one>>

(* pbz->request_data fails: the compressed file cannot be read.             *)
ScanFails ==
  /\ main = "scan"
  /\ error' = TRUE
  /\ main' = "fail"
  /\ UNCHANGED <<file, top, blk, bottom, outVars, workVars>>

NotifyFailure ==
  /\ main = "fail"
  /\ NotifyAll
  /\ main' = "join failed"
  /\ UNCHANGED <<file, top, blk, bottom, error, outVars, cur, one>>

(* The end of the file.  Without a block, or when the output cannot be      *)
(* resized, the function returns while its threads run, and destroying      *)
(* them ends the program.                                                   *)
ScanEnds(ok) ==
  /\ main = "scan" /\ Len(blk) = Len(file)
  /\ IF Len(blk) = 0
       THEN main' = "terminate" /\ UNCHANGED <<blk, size>>
       ELSE /\ blk' = [blk EXCEPT ![Len(blk)].size = "set"]
            /\ IF ok THEN main' = "sized" /\ size' = Len(file)
                     ELSE main' = "terminate" /\ UNCHANGED size
  /\ UNCHANGED <<file, top, bottom, error, avail, copied, oom, workVars>>

LockForMark ==
  /\ main = "sized"
  /\ main' = "mark"
  /\ UNCHANGED <<file, top, blk, bottom, error, outVars, workVars>>

(* The end marker; the workers are notified with blk_mutex held.            *)
MarkEnd ==
  /\ main = "mark"
  /\ blk' = Append(blk, NewBlock)
  /\ bottom' = "size"
  /\ NotifyAll
  /\ main' = "join"
  /\ UNCHANGED <<file, top, error, outVars, cur, one>>

AllDone == \A w \in Worker : pc[w] = "done"

(* Mutant: the blocks are not looked at.                                    *)
VerifiedAlways == TRUE

(* Every block has been decompressed to its full size, except the last,     *)
(* which is the one before the end marker.                                  *)
Verified ==
  \A i \in DOMAIN blk :
    /\ blk[i].result # "err"
    /\ i < Len(blk) - 1 => blk[i].result = "full"

Join ==
  /\ main = "join" /\ AllDone
  /\ main' = IF Verified THEN "publish" ELSE "failed"
  /\ UNCHANGED <<file, top, blk, bottom, error, outVars, workVars>>

(* Mutant: the failure is returned before the workers have ended.           *)
ReturnFailed ==
  /\ main = "join failed"
  /\ main' = "failed"
  /\ UNCHANGED <<file, top, blk, bottom, error, outVars, workVars>>

JoinFailed ==
  /\ main = "join failed" /\ AllDone
  /\ main' = "failed"
  /\ UNCHANGED <<file, top, blk, bottom, error, outVars, workVars>>

(* Mutant: blocks are counted past one that is missing.                     *)
CountStored(k) ==
  /\ k \in 0 .. Len(blk) - 1
  /\ k > 0 => blk[k].result \in {"full", "short"}
  /\ \A i \in k + 1 .. Len(blk) - 1 : blk[i].result \notin {"full", "short"}

(* Mutant: the loop ends one block early.                                   *)
DecompressedButLast(k) ==
  /\ k + 1 \in 0 .. Len(blk) - 1
  /\ \A i \in 1 .. k : blk[i].result \in {"full", "short"}
  /\ k < Len(blk) - 2 => blk[k + 1].result \notin {"full", "short"}

(* bz2_update_available: the first k blocks are decompressed, and no more.  *)
Decompressed(k) ==
  /\ k \in 0 .. Len(blk) - 1
  /\ \A i \in 1 .. k : blk[i].result \in {"full", "short"}
  /\ k < Len(blk) - 1 => blk[k + 1].result \notin {"full", "short"}

Publish(ok) ==
  /\ main = "publish"
  /\ \E k \in 0 .. Len(blk) : Decompressed(k) /\ avail' = k
  /\ IF ok THEN main' = "loaded" /\ size' = avail'
           ELSE main' = "failed" /\ UNCHANGED size
  /\ UNCHANGED <<file, top, blk, bottom, error, copied, oom, workVars>>

-----------------------------------------------------------------------------
(* bz2_decompress.                                                         *)

Goto(w, place) == pc' = [pc EXCEPT ![w] = place]

Running(w, place) == main # "terminate" /\ pc[w] = place

Check(w) ==
  /\ Running(w, "check")
  /\ Goto(w, IF bottom = "size" /\ top >= Len(blk) THEN "done" ELSE "error?")
  /\ UNCHANGED <<file, top, scanVars, outVars, cur, one>>

CheckError(w) ==
  /\ Running(w, "error?")
  /\ Goto(w, IF error THEN "done" ELSE "guard")
  /\ UNCHANGED <<file, top, scanVars, outVars, cur, one>>

(* The worker takes con_mutex and compares top with the size of the vector. *)
(* It does not hold blk_mutex: what it reads while the vector grows may be  *)
(* anything.                                                                *)
Guard(w) ==
  /\ Running(w, "guard")
  /\ \A v \in Worker : pc[v] # "block"
  /\ \/ (top >= Len(blk) \/ Growing) /\ Goto(w, "block")
     \/ (top < Len(blk) \/ Growing) /\ Goto(w, "take")
  /\ UNCHANGED <<file, top, scanVars, outVars, cur, one>>

(* cv.wait gives con_mutex up.  Notifying does not take con_mutex: a call   *)
(* that comes between Guard and Wait wakes nobody.                          *)
Wait(w) ==
  /\ Running(w, "block")
  /\ Goto(w, "waiting")
  /\ UNCHANGED <<file, top, scanVars, outVars, cur, one>>

Spurious(w) ==
  /\ Running(w, "waiting")
  /\ Goto(w, "woken")
  /\ UNCHANGED <<file, top, scanVars, outVars, cur, one>>

Woken(w) ==
  /\ Running(w, "woken")
  /\ \A v \in Worker : pc[v] # "block"
  /\ Goto(w, IF error THEN "done" ELSE "guard")
  /\ UNCHANGED <<file, top, scanVars, outVars, cur, one>>

(* Mutant: the last block of the vector may be taken.                       *)
TakableLast == top <= Len(blk)

Takable == top < Len(blk)

Take(w) ==
  /\ Running(w, "take") /\ ~Growing
  /\ IF Takable
       THEN /\ cur' = [cur EXCEPT ![w] = top]
            /\ one' = [one EXCEPT ![w] = blk[top]]
            /\ top' = top + 1
            /\ Goto(w, "decompress")
       ELSE /\ Goto(w, "check")
            /\ UNCHANGED <<cur, one, top>>
  /\ UNCHANGED <<file, scanVars, outVars>>

Decompress(w) ==
  /\ Running(w, "decompress")
  /\ one' = [one EXCEPT ![w].result = file[cur[w]]]
  /\ Goto(w, "store")
  /\ UNCHANGED <<file, top, scanVars, outVars, cur>>

(* Mutant: the result goes to the block that is next to be taken.           *)
StoredAtTop(w) == top

StoredAt(w) == cur[w]

Store(w) ==
  /\ Running(w, "store") /\ ~Growing
  /\ blk' = [blk EXCEPT ![StoredAt(w)] = one[w]]
  /\ Goto(w, "copy")
  /\ UNCHANGED <<file, top, bottom, error, main, outVars, cur, one>>

(* The output is made larger if it has to be; a worker that cannot ends,    *)
(* and nobody is told.                                                      *)
Copy(w, ok) ==
  /\ Running(w, "copy")
  /\ IF size >= cur[w] \/ ok
       THEN /\ size' = IF size >= cur[w] THEN size ELSE cur[w]
            /\ copied' = copied \cup {cur[w]}
            /\ Goto(w, "update")
            /\ UNCHANGED oom
       ELSE /\ oom' = TRUE
            /\ Goto(w, "done")
            /\ UNCHANGED <<size, copied>>
  /\ UNCHANGED <<file, top, scanVars, avail, cur, one>>

(* Mutant: a worker publishes up to its own block.                          *)
UpdateOwn(w) ==
  /\ Running(w, "update") /\ ~Growing
  /\ avail' = cur[w]
  /\ Goto(w, "check")
  /\ UNCHANGED <<file, top, scanVars, size, copied, oom, cur, one>>

Update(w) ==
  /\ Running(w, "update") /\ ~Growing
  /\ \E k \in 0 .. Len(blk) : Decompressed(k) /\ avail' = k
  /\ Goto(w, "check")
  /\ UNCHANGED <<file, top, scanVars, size, copied, oom, cur, one>>

-----------------------------------------------------------------------------
MainStep ==
  \/ FindBlock \/ PushBlock \/ NotifyBlock \/ ScanFails \/ NotifyFailure
  \/ \E ok \in BOOLEAN : Start(ok) \/ ScanEnds(ok)
  \/ LockForMark \/ MarkEnd \/ Join \/ JoinFailed
  \/ \E ok \in BOOLEAN : Publish(ok)

WorkerStep(w) ==
  \/ Check(w) \/ CheckError(w) \/ Guard(w) \/ Wait(w) \/ Woken(w) \/ Take(w)
  \/ Decompress(w) \/ Store(w) \/ Update(w)
  \/ \E ok \in BOOLEAN : Copy(w, ok)

Next ==
  \/ MainStep
  \/ \E w \in Worker : WorkerStep(w) \/ Spurious(w)

Spec == Init /\ [][Next]_vars

(* Each thread goes on when it can; a condition variable need not wake a    *)
(* thread without being notified.                                           *)
Fairness == WF_vars(MainStep) /\ \A w \in Worker : WF_vars(WorkerStep(w))

FairSpec == Spec /\ Fairness

-----------------------------------------------------------------------------
MainAt ==
  {"start", "scan", "push", "notify", "fail", "join failed", "sized", "mark",
   "join", "publish", "loaded", "failed", "terminate"}
WorkerAt ==
  {"none", "check", "error?", "guard", "block", "waiting", "woken", "take",
   "decompress", "store", "copy", "update", "done"}

(* The variables keep their types.                                          *)
TypeOK ==
  /\ file \in Files /\ blk \in Seq(Block) /\ top \in Nat /\ bottom \in {"max", "size"}
  /\ error \in BOOLEAN /\ size \in Nat /\ avail \in Nat
  /\ copied \in SUBSET Nat /\ oom \in BOOLEAN
  /\ main \in MainAt
  /\ pc \in [Worker -> WorkerAt]
  /\ cur \in [Worker -> Nat]
  /\ one \in [Worker -> Block]

Holds(w, i) == pc[w] \in {"decompress", "store", "copy"} /\ cur[w] = i

(* Between them the workers decompress each block exactly once: a block     *)
(* below blks.top has its result or is in the hands of a worker, and never  *)
(* of two.                                                                  *)
EachBlockOnce ==
  /\ \A i \in 1 .. top - 1 :
       blk[i].result # "none" \/ \E w \in Worker : Holds(w, i)
  /\ \A v, w \in Worker : \A i \in 1 .. top - 1 :
       Holds(v, i) /\ Holds(w, i) => v = w

(* A worker copies a block out of the vector and writes the copy back later,*)
(* while the scanner completes the last block in place.  The copy a worker  *)
(* holds has the block's final size, so writing it back undoes nothing.     *)
TakenIsComplete ==
  \A w \in Worker : \A i \in 1 .. top - 1 :
    Holds(w, i) => one[w].size = "set" /\ blk[i].size = "set"

(* bz2_update_available counts blocks by their result, which is stored      *)
(* before the output is copied.  A block that is published and not copied   *)
(* is one that its worker is about to copy, or memory has run out.          *)
PublishedIsCopied ==
  \A i \in 1 .. avail :
    \/ i \in copied
    \/ oom
    \/ \E w \in Worker : pc[w] = "copy" /\ cur[w] = i

(* FILEBUFFER_FLAG_LOADED is set only when every block of the file is       *)
(* available, is where it belongs (no block but the last is short) and has  *)
(* been copied, unless memory ran out on the way.                           *)
LoadedIsWhole ==
  main = "loaded" /\ ~oom =>
    /\ avail = Len(file)
    /\ \A i \in 1 .. Len(file) :
         i \in copied /\ file[i] # "err" /\ (i < Len(file) => file[i] = "full")

(* m_avaible_size never shrinks: a request that was granted stays granted.  *)
AvailableGrows == [][avail' >= avail]_vars

(* Once every block of a file without errors has been taken, the whole file *)
(* becomes available, even when the load itself never ends.                 *)
TakenIsPublished ==
  (/\ top = Len(file) + 1 /\ file # <<>>
   /\ \A i \in DOMAIN file : file[i] # "err") ~> (avail = Len(file) \/ oom)

(* How far the load is, to a reader of the buffer.                          *)
LoadState ==
  CASE main = "start" -> "idle"
    [] main = "loaded" -> "loaded"
    [] main \in {"failed", "terminate"} -> "failed"
    [] OTHER -> "loading"

Load == INSTANCE AsyncLoad WITH state <- LoadState

(* The scanner and its workers together keep what a loading thread promises *)
(* the readers of the buffer (AsyncLoad): above all, no worker publishes or *)
(* fails after bz_async_load has returned.                                  *)
ImplementsAsyncLoad == Load!Spec

(* "bz2: only support last block less then other block": what is available  *)
(* to a reader never reaches past a block that is short.                    *)
NothingPastShort == \A i \in 1 .. avail : i < avail => file[i] = "full"

(* FSBz2::load joins the loading thread and reports "async data load        *)
(* failure" if it has not succeeded: once it has scanned the file and waits *)
(* for its workers, the thread ends, one way or the other.                  *)
LoadEnds == main = "join" ~> main \in {"loaded", "failed"}
=============================================================================
