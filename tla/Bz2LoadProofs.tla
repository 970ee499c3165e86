--------------------------- MODULE Bz2LoadProofs ---------------------------
(***************************************************************************)
(* The invariants of Bz2Load, for any number of workers and any files.     *)
(*                                                                         *)
(* The argument is one ownership argument.  A block is in one of four      *)
(* hands: the scanner's while it is the last of the vector, nobody's until *)
(* top passes it, one worker's, and then its result is in the vector for   *)
(* good.  ScanInv says where the scanner is, HeldInv which block a worker  *)
(* holds, ResultInv what the vector and the output say of each block, and  *)
(* EndInv what bz_async_load has seen once its workers are gone.           *)
(***************************************************************************)
EXTENDS Bz2Load, TLAPS

ScanInv ==
  /\ bottom = "size" => Len(blk) = Len(file) + 1
  /\ bottom = "max" => Len(blk) <= Len(file)
  /\ main \in {"join", "publish", "loaded"} => bottom = "size"
  /\ bottom = "size" => main \in {"join", "publish", "loaded", "failed"}
  /\ main = "push" => Len(blk) < Len(file)
  /\ main \in {"sized", "mark"} =>
       Len(blk) = Len(file) /\ Len(blk) > 0 /\ blk[Len(blk)].size = "set"
  /\ \A i \in 1 .. Len(blk) : i < Len(blk) => blk[i].size = "set"
  /\ top >= 1
  /\ top > 1 => top <= Len(blk)

Busy == {"decompress", "store", "copy", "update"}

HeldInv ==
  /\ main = "start" => \A w \in Worker : pc[w] = "none"
  /\ \A w \in Worker : pc[w] \in Busy =>
       cur[w] >= 1 /\ cur[w] < top
  /\ \A v, w \in Worker :
       /\ pc[v] \in {"decompress", "store", "copy"}
       /\ pc[w] \in {"decompress", "store", "copy"}
       /\ cur[v] = cur[w]
       => v = w
  /\ \A w \in Worker : pc[w] \in Busy => one[w].size = "set"
  /\ \A w \in Worker : pc[w] = "store" => one[w].result = file[cur[w]]

Working(i) == \E w \in Worker : pc[w] \in {"decompress", "store"} /\ cur[w] = i
Copying(i) == \E w \in Worker : pc[w] = "copy" /\ cur[w] = i

ResultInv ==
  /\ \A i \in 1 .. Len(blk) : i >= top => blk[i].result = "none"
  /\ \A i \in 1 .. Len(blk) : i < top => blk[i].result = file[i] \/ Working(i)
  /\ \A i \in 1 .. Len(blk) :
       blk[i].result # "none" => i < top /\ blk[i].result = file[i]
  /\ \A w \in Worker : pc[w] \in {"decompress", "store"} =>
       blk[cur[w]].result = "none"
  /\ \A i \in 1 .. Len(blk) :
       blk[i].result # "none" => i \in copied \/ oom \/ Copying(i)
  /\ avail > 0 => avail < Len(blk)
  /\ \A i \in 1 .. avail : blk[i].result \in {"full", "short"}

AllTaken == bottom = "size" /\ top >= Len(blk)

EndInv ==
  /\ error => bottom = "max" /\ main \in {"fail", "join failed", "failed"}
  /\ \A w \in Worker : pc[w] = "done" => oom \/ error \/ AllTaken
  /\ main \in {"publish", "loaded"} => AllDone /\ Verified
  /\ main = "loaded" => Decompressed(avail)

IInv == TypeOK /\ ScanInv /\ HeldInv /\ ResultInv /\ EndInv

-----------------------------------------------------------------------------
(* A new block is a block.                                                  *)
LEMMA NewBlockType == NewBlock \in Block /\ NewBlock.result = "none"
  BY Zenon DEF NewBlock, Block

(* The initial state satisfies the invariant.                               *)
LEMMA InitInv == Init => IInv
  <1> SUFFICES ASSUME Init PROVE IInv
    BY Zenon
  <1>1. TypeOK
    <2>1. bottom \in {"max", "size"} /\ error \in BOOLEAN /\ oom \in BOOLEAN
      BY Zenon DEF Init
    <2>2. file \in Files /\ blk \in Seq(Block) /\ copied \in SUBSET Nat
      BY DEF Init
    <2>3. top \in Nat /\ size \in Nat /\ avail \in Nat /\ main \in MainAt
      BY Zenon DEF Init, MainAt
    <2>4. pc \in [Worker -> WorkerAt] /\ cur \in [Worker -> Nat]
      BY Zenon DEF Init, WorkerAt
    <2>5. one \in [Worker -> Block]
      BY NewBlockType, Zenon DEF Init
    <2> QED
      BY <2>1, <2>2, <2>3, <2>4, <2>5, Zenon DEF TypeOK
  <1>2. ScanInv
    <2>1. Len(file) \in Nat
      BY FilesAssumption DEF Init
    <2> QED
      BY <2>1 DEF Init, ScanInv
  <1>3. HeldInv
    BY Zenon DEF Init, HeldInv, Busy
  <1>4. ResultInv
    BY DEF Init, ResultInv
  <1>5. EndInv
    BY Zenon DEF Init, EndInv
  <1> QED
    BY <1>1, <1>2, <1>3, <1>4, <1>5, Zenon DEF IInv

(* A worker that holds no block moves on without taking one, and ends only  *)
(* when it has a reason to: Check, CheckError, Guard, Wait, Spurious, Woken *)
(* and a Take that finds nothing.                                           *)
LEMMA IdleStep ==
  ASSUME IInv, NEW w \in Worker, NEW p \in WorkerAt \ Busy,
         pc[w] \notin Busy, pc[w] \notin {"none", "done"},
         p = "done" => error \/ AllTaken,
         pc' = [pc EXCEPT ![w] = p],
         UNCHANGED <<file, top, scanVars, outVars, cur, one>>
  PROVE  IInv'
  <1> USE DEF scanVars, outVars
  <1>1. TypeOK'
    BY Zenon DEF IInv, TypeOK
  <1>2. ScanInv'
    BY Zenon DEF IInv, ScanInv
  <1>3. \A v \in Worker : pc'[v] = IF v = w THEN p ELSE pc[v]
    BY Zenon DEF IInv, TypeOK
  <1>4. HeldInv'
    BY <1>3 DEF IInv, HeldInv, Busy
  <1>5. ResultInv'
    <2>1. \A i : Working(i) => Working(i)'
      BY <1>3, Zenon DEF Working, Busy
    <2>2. \A i : Copying(i) => Copying(i)'
      BY <1>3, Zenon DEF Copying, Busy
    <2> QED
      BY <1>3, <2>1, <2>2, Zenon DEF IInv, ResultInv, Busy
  <1>6. EndInv'
    BY <1>3, Zenon DEF IInv, EndInv, AllDone, AllTaken, Verified, Decompressed
  <1> QED
    BY <1>1, <1>2, <1>4, <1>5, <1>6, Zenon DEF IInv

(* A block that a worker has is a block of the file and of the vector, and  *)
(* not the last of the vector.                                              *)
LEMMA CurInFile ==
  ASSUME IInv, NEW w \in Worker, pc[w] \in Busy
  PROVE  /\ cur[w] \in Nat /\ cur[w] >= 1
         /\ cur[w] < Len(blk) /\ cur[w] <= Len(file)
         /\ file[cur[w]] \in Kind
  <1>1. cur[w] \in Nat /\ cur[w] >= 1 /\ cur[w] < top
    BY Zenon DEF IInv, HeldInv, TypeOK
  <1>2. top \in Nat /\ top <= Len(blk) /\ Len(blk) \in Nat
    BY <1>1 DEF IInv, ScanInv, TypeOK
  <1>3. file \in Seq(Kind) /\ Len(file) \in Nat
    BY FilesAssumption DEF IInv, TypeOK
  <1>4. cur[w] <= Len(file)
    BY <1>1, <1>2, <1>3 DEF IInv, ScanInv, TypeOK
  <1> QED
    BY <1>1, <1>2, <1>3, <1>4

(* A step of a worker that has not ended leaves what the loading thread     *)
(* knows as it is.                                                          *)
LEMMA EndStep ==
  ASSUME IInv, UNCHANGED <<error, bottom, main>>,
         NEW w \in Worker, pc[w] # "done",
         oom => oom', AllTaken => AllTaken',
         \A v \in Worker : pc'[v] = "done" => pc[v] = "done" \/ oom'
  PROVE  EndInv'
  <1>1. main' \notin {"publish", "loaded"}
    BY Zenon DEF IInv, EndInv, AllDone
  <1>2. error' => bottom' = "max" /\ main' \in {"fail", "join failed", "failed"}
    BY Zenon DEF IInv, EndInv
  <1>3. \A v \in Worker : pc'[v] = "done" => oom' \/ error' \/ AllTaken'
    BY Zenon DEF IInv, EndInv
  <1> QED
    BY <1>1, <1>2, <1>3, Zenon DEF EndInv

(* Taking the block at top, which is not the last of the vector: nobody     *)
(* else has it and its size is known.                                       *)
LEMMA TakeStep ==
  ASSUME IInv, NEW w \in Worker, Take(w)
  PROVE  IInv'
  <1> USE DEF scanVars, outVars
  <1>1. CASE ~Takable
    <2>1. /\ "check" \in WorkerAt \ Busy /\ pc[w] \notin Busy /\ pc[w] \notin {"none", "done"}
          /\ pc' = [pc EXCEPT ![w] = "check"]
          /\ UNCHANGED <<file, top, scanVars, outVars, cur, one>>
      BY <1>1, Zenon DEF Take, Running, Goto, WorkerAt, Busy
    <2> QED
      BY <2>1, IdleStep, Zenon
  <1>2. CASE Takable
    <2>1. /\ pc[w] = "take" /\ top < Len(blk)
          /\ pc' = [pc EXCEPT ![w] = "decompress"]
          /\ cur' = [cur EXCEPT ![w] = top]
          /\ one' = [one EXCEPT ![w] = blk[top]]
          /\ top' = top + 1
          /\ UNCHANGED <<file, scanVars, outVars>>
      BY <1>2, Zenon DEF Take, Running, Goto, Takable
    <2>2. top \in Nat /\ top >= 1 /\ Len(blk) \in Nat /\ blk[top] \in Block
      BY <2>1 DEF IInv, ScanInv, TypeOK
    <2>3. TypeOK'
      <3>1. pc' \in [Worker -> WorkerAt]
        BY <2>1, Zenon DEF IInv, TypeOK, WorkerAt
      <3>2. cur' \in [Worker -> Nat] /\ one' \in [Worker -> Block] /\ top' \in Nat
        BY <2>1, <2>2 DEF IInv, TypeOK
      <3> QED
        BY <2>1, <3>1, <3>2, Zenon DEF IInv, TypeOK
    <2>4. ScanInv'
      BY <2>1, <2>2 DEF IInv, ScanInv
    <2>5. \A v \in Worker :
            /\ pc'[v] = IF v = w THEN "decompress" ELSE pc[v]
            /\ cur'[v] = IF v = w THEN top ELSE cur[v]
            /\ one'[v] = IF v = w THEN blk[top] ELSE one[v]
            /\ cur[v] \in Nat
      BY <2>1, Zenon DEF IInv, TypeOK
    <2>6. blk[top].size = "set"
      BY <2>1, <2>2 DEF IInv, ScanInv
    <2>7. HeldInv'
      BY <2>1, <2>2, <2>5, <2>6 DEF IInv, HeldInv, Busy
    <2>8. ResultInv'
      <3>1. \A i : Working(i) => Working(i)'
        BY <2>1, <2>5, Zenon DEF Working
      <3>2. \A i : Copying(i) => Copying(i)'
        BY <2>1, <2>5, Zenon DEF Copying
      <3>3. \A i : i = top => Working(i)'
        BY <2>5, Zenon DEF Working
      <3> QED
        BY <2>1, <2>2, <2>5, <3>1, <3>2, <3>3, SMTT(60) DEF IInv, ResultInv
    <2>9. EndInv'
      <3>1. AllTaken => AllTaken'
        BY <2>1, <2>2 DEF AllTaken
      <3>2. \A v \in Worker : pc'[v] = "done" => pc[v] = "done"
        BY <2>5, Zenon
      <3>3. UNCHANGED <<error, bottom, main, oom>> /\ pc[w] # "done"
        BY <2>1, Zenon
      <3> QED
        BY <3>1, <3>2, <3>3, EndStep, Zenon
    <2> QED
      BY <2>3, <2>4, <2>7, <2>8, <2>9, Zenon DEF IInv
  <1> QED
    BY <1>1, <1>2, Zenon

(* Decompressing changes only the worker's copy.                            *)
LEMMA DecompressStep ==
  ASSUME IInv, NEW w \in Worker, Decompress(w)
  PROVE  IInv'
  <1> USE DEF scanVars, outVars
  <1>1. /\ pc[w] = "decompress"
        /\ pc' = [pc EXCEPT ![w] = "store"]
        /\ one' = [one EXCEPT ![w].result = file[cur[w]]]
        /\ UNCHANGED <<file, top, scanVars, outVars, cur>>
    BY Zenon DEF Decompress, Running, Goto
  <1>2. file[cur[w]] \in Kind
    BY <1>1, CurInFile, Zenon DEF Busy
  <1>3. /\ one'[w].size = one[w].size /\ one'[w].result = file[cur[w]]
        /\ one' \in [Worker -> Block]
        /\ \A v \in Worker : v # w => one'[v] = one[v]
    BY <1>1, <1>2, Zenon DEF IInv, TypeOK, Block
  <1>4. \A v \in Worker : pc'[v] = IF v = w THEN "store" ELSE pc[v]
    BY <1>1, Zenon DEF IInv, TypeOK
  <1>5. TypeOK'
    BY <1>1, <1>3, Zenon DEF IInv, TypeOK, WorkerAt
  <1>6. ScanInv'
    BY <1>1, Zenon DEF IInv, ScanInv
  <1>7. HeldInv'
    BY <1>1, <1>3, <1>4 DEF IInv, HeldInv, Busy
  <1>8. ResultInv'
    <2>1. \A i : Working(i) => Working(i)'
      BY <1>1, <1>4, Zenon DEF Working
    <2>2. \A i : Copying(i) => Copying(i)'
      BY <1>1, <1>4, Zenon DEF Copying
    <2> QED
      BY <1>1, <1>4, <2>1, <2>2, Zenon DEF IInv, ResultInv
  <1>9. EndInv'
    <2>1. AllTaken => AllTaken'
      BY <1>1, Zenon DEF AllTaken
    <2>2. \A v \in Worker : pc'[v] = "done" => pc[v] = "done"
      BY <1>4, Zenon
    <2>3. UNCHANGED <<error, bottom, main, oom>> /\ pc[w] # "done"
      BY <1>1, Zenon
    <2> QED
      BY <2>1, <2>2, <2>3, EndStep, Zenon
  <1> QED
    BY <1>5, <1>6, <1>7, <1>8, <1>9, Zenon DEF IInv

(* The result goes back to the block the worker took: the only change is    *)
(* the result, because the copy already had the final size.                 *)
LEMMA StoreStep ==
  ASSUME IInv, NEW w \in Worker, Store(w)
  PROVE  IInv'
  <1> USE DEF outVars
  <1>1. /\ pc[w] = "store"
        /\ pc' = [pc EXCEPT ![w] = "copy"]
        /\ blk' = [blk EXCEPT ![cur[w]] = one[w]]
        /\ UNCHANGED <<file, top, bottom, error, main, outVars, cur, one>>
    BY Zenon DEF Store, StoredAt, Running, Goto
  <1>2. /\ cur[w] \in 1 .. Len(blk) /\ cur[w] < Len(blk) /\ cur[w] < top
        /\ one[w] \in Block /\ one[w].size = "set"
        /\ one[w].result = file[cur[w]] /\ file[cur[w]] \in Kind
        /\ blk \in Seq(Block) /\ Len(blk) \in Nat /\ top \in Nat
    BY <1>1, CurInFile DEF Busy, IInv, TypeOK, HeldInv
  <1>3. /\ blk' \in Seq(Block) /\ Len(blk') = Len(blk)
        /\ \A i \in 1 .. Len(blk) :
             blk'[i] = IF i = cur[w] THEN one[w] ELSE blk[i]
    BY <1>1, <1>2
  <1>4. \A v \in Worker : pc'[v] = IF v = w THEN "copy" ELSE pc[v]
    BY <1>1, Zenon DEF IInv, TypeOK
  <1>5. TypeOK'
    BY <1>1, <1>3, Zenon DEF IInv, TypeOK, WorkerAt
  <1>6. ScanInv'
    <2>1. \A i \in 1 .. Len(blk) : blk[i].size = "set" => blk'[i].size = "set"
      BY <1>2, <1>3, Zenon
    <2>2. main \in {"sized", "mark"} =>
            Len(blk) \in 1 .. Len(blk) /\ blk'[Len(blk)].size = "set"
      BY <1>2, <2>1 DEF IInv, ScanInv
    <2>3. \A i \in 1 .. Len(blk) : i < Len(blk) => blk'[i].size = "set"
      BY <2>1, Zenon DEF IInv, ScanInv
    <2> QED
      BY <1>1, <1>3, <2>2, <2>3, Zenon DEF IInv, ScanInv
  <1>7. HeldInv'
    BY <1>1, <1>4 DEF IInv, HeldInv, Busy
  <1>8. ResultInv'
    <2>1. \A i : Working(i) => i = cur[w] \/ Working(i)'
      BY <1>1, <1>4, Zenon DEF Working
    <2>2. \A i : Copying(i) \/ i = cur[w] => Copying(i)'
      BY <1>1, <1>4, Zenon DEF Copying
    <2>3. \A v \in Worker :
            pc'[v] \in {"decompress", "store"} => v # w /\ cur[v] # cur[w]
      BY <1>1, <1>4 DEF IInv, HeldInv
    <2>4. \A v \in Worker : pc'[v] \in {"decompress", "store"} =>
            cur[v] \in 1 .. Len(blk)
      BY <1>4, CurInFile, <1>2 DEF Busy
    <2>5. file[cur[w]] # "none"
      BY <1>2, Zenon DEF Kind
    <2>6. /\ \A i \in 1 .. Len(blk') : i >= top' => blk'[i].result = "none"
          /\ \A i \in 1 .. Len(blk') : i < top' =>
               blk'[i].result = file'[i] \/ Working(i)'
          /\ \A i \in 1 .. Len(blk') : blk'[i].result # "none" =>
               i < top' /\ blk'[i].result = file'[i]
      BY <1>1, <1>2, <1>3, <2>1 DEF IInv, ResultInv
    <2>7. \A v \in Worker : pc'[v] \in {"decompress", "store"} =>
            blk'[cur'[v]].result = "none"
      BY <1>1, <1>3, <1>4, <2>3, <2>4 DEF IInv, ResultInv
    <2>8. \A i \in 1 .. Len(blk') : blk'[i].result # "none" =>
            i \in copied' \/ oom' \/ Copying(i)'
      BY <1>1, <1>3, <2>2 DEF IInv, ResultInv
    <2>9. avail' > 0 => avail' < Len(blk')
      BY <1>1, <1>3, Zenon DEF IInv, ResultInv
    <2>10. \A i \in 1 .. avail' : blk'[i].result \in {"full", "short"}
      <3>1. \A i \in 1 .. avail : i \in 1 .. Len(blk)
        BY <1>2 DEF IInv, ResultInv, TypeOK
      <3>2. \A i \in 1 .. avail : i # cur[w]
        BY <1>1, Zenon DEF IInv, ResultInv
      <3> QED
        BY <1>1, <1>3, <3>1, <3>2 DEF IInv, ResultInv
    <2> QED
      BY <2>6, <2>7, <2>8, <2>9, <2>10, Zenon DEF ResultInv
  <1>9. EndInv'
    <2>1. AllTaken => AllTaken'
      BY <1>1, <1>3, Zenon DEF AllTaken
    <2>2. \A v \in Worker : pc'[v] = "done" => pc[v] = "done"
      BY <1>4, Zenon
    <2>3. UNCHANGED <<error, bottom, main, oom>> /\ pc[w] # "done"
      BY <1>1, Zenon
    <2> QED
      BY <2>1, <2>2, <2>3, EndStep, Zenon
  <1> QED
    BY <1>5, <1>6, <1>7, <1>8, <1>9, Zenon DEF IInv

(* The output of a block is copied, or the worker ends without.             *)
LEMMA CopyStep ==
  ASSUME IInv, NEW w \in Worker, NEW ok \in BOOLEAN, Copy(w, ok)
  PROVE  IInv'
  <1> USE DEF scanVars
  <1>1. PICK p \in {"update", "done"} :
          /\ pc[w] = "copy"
          /\ pc' = [pc EXCEPT ![w] = p]
          /\ UNCHANGED <<file, top, blk, bottom, error, main, avail, cur, one>>
          /\ p = "update" => copied' = copied \cup {cur[w]} /\ oom' = oom
          /\ p = "done" => copied' = copied /\ oom' = TRUE
    BY Zenon DEF Copy, Running, Goto
  <1>2. cur[w] \in Nat
    BY Zenon DEF IInv, TypeOK
  <1>3. size' \in Nat
    BY <1>2, Zenon DEF Copy, IInv, TypeOK
  <1>4. \A v \in Worker : pc'[v] = IF v = w THEN p ELSE pc[v]
    BY <1>1, Zenon DEF IInv, TypeOK
  <1>5. copied' \in SUBSET Nat
    BY <1>1, <1>2, Zenon DEF IInv, TypeOK
  <1>6. oom' \in BOOLEAN /\ (oom => oom')
    <2>1. CASE oom' = oom
      BY <2>1, Zenon DEF IInv, TypeOK
    <2>2. CASE oom' = TRUE
      BY <2>2, Zenon
    <2> QED
      BY <1>1, <2>1, <2>2, Zenon
  <1>7. TypeOK'
    <2>1. pc' \in [Worker -> WorkerAt]
      BY <1>1, Zenon DEF IInv, TypeOK, WorkerAt
    <2> QED
      BY <1>1, <1>3, <1>5, <1>6, <2>1, Zenon DEF IInv, TypeOK
  <1>8. ScanInv'
    BY <1>1, Zenon DEF IInv, ScanInv
  <1>9. HeldInv'
    BY <1>1, <1>4 DEF IInv, HeldInv, Busy
  <1>10. ResultInv'
    <2>1. \A i : Working(i) => Working(i)'
      BY <1>1, <1>4, Zenon DEF Working
    <2>2. \A i : Copying(i) => i = cur[w] \/ Copying(i)'
      BY <1>1, <1>4, Zenon DEF Copying
    <2>3. cur[w] \in copied' \/ oom'
      BY <1>1, Zenon
    <2>4. \A i : i \in copied => i \in copied'
      BY <1>1, Zenon
    <2>5. \A i \in 1 .. Len(blk) : blk[i].result # "none" =>
            i \in copied' \/ oom' \/ Copying(i)'
      BY <1>6, <2>2, <2>3, <2>4, Zenon DEF IInv, ResultInv
    <2>6. \A v \in Worker : pc'[v] \in {"decompress", "store"} =>
            blk[cur[v]].result = "none"
      BY <1>4, Zenon DEF IInv, ResultInv
    <2> QED
      BY <1>1, <2>1, <2>5, <2>6, Zenon DEF IInv, ResultInv
  <1>11. EndInv'
    <2>1. AllTaken => AllTaken'
      BY <1>1, Zenon DEF AllTaken
    <2>2. \A v \in Worker : pc'[v] = "done" => pc[v] = "done" \/ oom'
      BY <1>1, <1>4, Zenon
    <2>3. UNCHANGED <<error, bottom, main>> /\ pc[w] # "done"
      BY <1>1, Zenon
    <2> QED
      BY <1>6, <2>1, <2>2, <2>3, EndStep, Zenon
  <1> QED
    BY <1>7, <1>8, <1>9, <1>10, <1>11, Zenon DEF IInv

(* The count of available blocks never falls: a block that has a result     *)
(* keeps it, so a later count goes at least as far.                         *)
LEMMA CountGrows ==
  ASSUME IInv, NEW k \in 0 .. Len(blk), Decompressed(k)
  PROVE  /\ k \in Nat /\ k >= avail /\ (k > 0 => k < Len(blk))
         /\ \A i \in 1 .. k : blk[i].result \in {"full", "short"}
  <1>1. k \in Nat /\ avail \in Nat /\ Len(blk) \in Nat
    BY DEF IInv, TypeOK
  <1>2. /\ k <= Len(blk) - 1
        /\ \A i \in 1 .. k : blk[i].result \in {"full", "short"}
        /\ k < Len(blk) - 1 => blk[k + 1].result \notin {"full", "short"}
    BY <1>1 DEF Decompressed
  <1>3. k >= avail
    <2> SUFFICES ASSUME k < avail PROVE FALSE
      BY <1>1
    <2>1. avail < Len(blk) /\ k + 1 \in 1 .. avail
      BY <1>1 DEF IInv, ResultInv
    <2>2. blk[k + 1].result \in {"full", "short"}
      BY <2>1, Zenon DEF IInv, ResultInv
    <2> QED
      BY <1>1, <1>2, <2>1, <2>2
  <1> QED
    BY <1>1, <1>2, <1>3

(* A worker publishes the count.                                            *)
LEMMA UpdateStep ==
  ASSUME IInv, NEW w \in Worker, Update(w)
  PROVE  IInv' /\ avail' >= avail
  <1> USE DEF scanVars
  <1>1. /\ pc[w] = "update"
        /\ pc' = [pc EXCEPT ![w] = "check"]
        /\ UNCHANGED <<file, top, blk, bottom, error, main, size, copied, oom, cur, one>>
    BY Zenon DEF Update, Running, Goto
  <1>2. /\ avail' \in Nat /\ avail' >= avail /\ (avail' > 0 => avail' < Len(blk))
        /\ \A i \in 1 .. avail' : blk[i].result \in {"full", "short"}
    BY CountGrows, Zenon DEF Update
  <1>3. \A v \in Worker : pc'[v] = IF v = w THEN "check" ELSE pc[v]
    BY <1>1, Zenon DEF IInv, TypeOK
  <1>4. TypeOK'
    BY <1>1, <1>2, Zenon DEF IInv, TypeOK, WorkerAt
  <1>5. ScanInv'
    BY <1>1, Zenon DEF IInv, ScanInv
  <1>6. HeldInv'
    BY <1>1, <1>3 DEF IInv, HeldInv, Busy
  <1>7. ResultInv'
    <2>1. \A i : Working(i) => Working(i)'
      BY <1>1, <1>3, Zenon DEF Working
    <2>2. \A i : Copying(i) => Copying(i)'
      BY <1>1, <1>3, Zenon DEF Copying
    <2> QED
      BY <1>1, <1>2, <1>3, <2>1, <2>2 DEF IInv, ResultInv
  <1>8. EndInv'
    <2>1. AllTaken => AllTaken'
      BY <1>1, Zenon DEF AllTaken
    <2>2. \A v \in Worker : pc'[v] = "done" => pc[v] = "done"
      BY <1>3, Zenon
    <2>3. UNCHANGED <<error, bottom, main, oom>> /\ pc[w] # "done"
      BY <1>1, Zenon
    <2> QED
      BY <2>1, <2>2, <2>3, EndStep, Zenon
  <1> QED
    BY <1>2, <1>4, <1>5, <1>6, <1>7, <1>8, Zenon DEF IInv

-----------------------------------------------------------------------------
(* The steps of bz_async_load that leave the vector and the output alone.   *)
(* At most they wake workers or start them, and those hold no block.        *)
LEMMA ScannerStep ==
  ASSUME IInv,
         UNCHANGED <<file, top, blk, bottom, outVars, cur, one>>,
         pc' \in [Worker -> WorkerAt],
         \A v \in Worker :
           \/ pc'[v] = pc[v]
           \/ pc[v] \notin Busy /\ pc'[v] \notin Busy /\ pc'[v] # "done",
         error' \in BOOLEAN, main' \in MainAt \ {"start"},
         ScanInv', EndInv'
  PROVE  IInv'
  <1> USE DEF outVars
  <1>1. TypeOK'
    BY Zenon DEF IInv, TypeOK
  <1>2. HeldInv'
    BY Zenon DEF IInv, HeldInv, Busy
  <1>3. ResultInv'
    <2>1. \A i : Working(i) => Working(i)'
      BY Zenon DEF Working, Busy
    <2>2. \A i : Copying(i) => Copying(i)'
      BY Zenon DEF Copying, Busy
    <2>3. \A v \in Worker : pc'[v] \in {"decompress", "store"} =>
            blk[cur[v]].result = "none"
      BY Zenon DEF IInv, ResultInv, Busy
    <2> QED
      BY <2>1, <2>2, <2>3, Zenon DEF IInv, ResultInv
  <1> QED
    BY <1>1, <1>2, <1>3, Zenon DEF IInv

(* What notify_all does to the workers.                                     *)
LEMMA NotifyEffect ==
  ASSUME IInv, NotifyAll
  PROVE  /\ pc' \in [Worker -> WorkerAt]
         /\ \A v \in Worker :
              \/ pc'[v] = pc[v]
              \/ pc[v] \notin Busy /\ pc'[v] \notin Busy /\ pc'[v] # "done"
  BY Zenon DEF NotifyAll, IInv, TypeOK, WorkerAt, Busy

(* While the loading thread is not past its workers, EndInv only asks why a *)
(* worker has ended.                                                        *)
LEMMA EndBefore ==
  ASSUME IInv, UNCHANGED <<error, oom>>, AllTaken => AllTaken',
         error => bottom' = bottom /\ main' \in {"fail", "join failed", "failed"},
         main' \notin {"publish", "loaded"},
         \A v \in Worker : pc'[v] = "done" => pc[v] = "done"
  PROVE  EndInv'
  <1>1. error' => bottom' = "max" /\ main' \in {"fail", "join failed", "failed"}
    BY Zenon DEF IInv, EndInv
  <1>2. \A v \in Worker : pc'[v] = "done" => oom' \/ error' \/ AllTaken'
    BY Zenon DEF IInv, EndInv
  <1> QED
    BY <1>1, <1>2, Zenon DEF EndInv

(* Start, FindBlock, NotifyBlock, NotifyFailure, LockForMark and JoinFailed.*)
LEMMA QuietStep ==
  ASSUME IInv,
         \/ \E ok \in BOOLEAN : Start(ok)
         \/ FindBlock \/ NotifyBlock \/ NotifyFailure \/ LockForMark \/ JoinFailed
  PROVE  IInv'
  <1>1. UNCHANGED <<file, top, blk, bottom, error, size, avail, copied, oom, cur, one>>
    BY Zenon DEF Start, FindBlock, NotifyBlock, NotifyFailure, LockForMark, JoinFailed,
           outVars, workVars
  <1>2. \/ main = "start" /\ main' \in {"scan", "failed"}
        \/ main = "scan" /\ main' = "push" /\ Len(blk) < Len(file)
        \/ main = "notify" /\ main' = "scan"
        \/ main = "fail" /\ main' = "join failed"
        \/ main = "sized" /\ main' = "mark"
        \/ main = "join failed" /\ main' = "failed"
    BY Zenon DEF Start, FindBlock, NotifyBlock, NotifyFailure, LockForMark, JoinFailed
  <1>3. /\ pc' \in [Worker -> WorkerAt]
        /\ \A v \in Worker :
             \/ pc'[v] = pc[v]
             \/ pc[v] \notin Busy /\ pc'[v] \notin Busy /\ pc'[v] # "done"
    <2>1. CASE pc' = pc
      BY <2>1, Zenon DEF IInv, TypeOK
    <2>2. CASE NotifyAll
      BY <2>2, NotifyEffect, Zenon
    <2>3. CASE main = "start" /\ pc' = [w \in Worker |-> "check"]
      BY <2>3, Zenon DEF IInv, HeldInv, TypeOK, WorkerAt, Busy
    <2> QED
      BY <2>1, <2>2, <2>3, Zenon DEF Start, FindBlock, NotifyBlock, NotifyFailure,
           LockForMark, JoinFailed, workVars
  <1>4. ScanInv'
    BY <1>1, <1>2, Zenon DEF IInv, ScanInv
  <1>5. EndInv'
    <2>1. AllTaken => AllTaken'
      BY <1>1, Zenon DEF AllTaken
    <2>2. main' \notin {"publish", "loaded"}
      BY <1>2, Zenon
    <2>3. error => main' \in {"fail", "join failed", "failed"}
      BY <1>2, Zenon DEF IInv, EndInv
    <2>4. \A v \in Worker : pc'[v] = "done" => pc[v] = "done"
      BY <1>3, Zenon
    <2> QED
      BY <1>1, <2>1, <2>2, <2>3, <2>4, EndBefore, Zenon
  <1>6. main' \in MainAt \ {"start"} /\ error' \in BOOLEAN
    BY <1>1, <1>2, Zenon DEF MainAt, IInv, TypeOK
  <1> QED
    BY <1>1, <1>3, <1>4, <1>5, <1>6, ScannerStep, Zenon DEF outVars

(* The compressed file cannot be read.                                      *)
LEMMA ScanFailsStep ==
  ASSUME IInv, ScanFails
  PROVE  IInv'
  <1>1. /\ main = "scan" /\ main' = "fail"
        /\ UNCHANGED <<file, top, blk, bottom, outVars, pc, cur, one>>
    BY Zenon DEF ScanFails, workVars
  <1>2. error' = TRUE
    BY Zenon DEF ScanFails
  <1>3. ScanInv'
    BY <1>1, Zenon DEF IInv, ScanInv
  <1>4. EndInv'
    <2>1. bottom' = "max"
      BY <1>1, Zenon DEF IInv, TypeOK, ScanInv
    <2> QED
      BY <1>1, <1>2, <2>1, Zenon DEF EndInv
  <1>5. pc' \in [Worker -> WorkerAt] /\ main' \in MainAt \ {"start"}
    BY <1>1, Zenon DEF IInv, TypeOK, MainAt
  <1> QED
    BY <1>1, <1>2, <1>3, <1>4, <1>5, ScannerStep, Zenon

(* bz_async_load looks at the blocks when its workers are gone.             *)
LEMMA JoinStep ==
  ASSUME IInv, Join
  PROVE  IInv'
  <1>1. /\ main = "join" /\ AllDone
        /\ main' \in {"publish", "failed"}
        /\ main' = "publish" => Verified
        /\ UNCHANGED <<file, top, blk, bottom, error, outVars, pc, cur, one>>
    BY Zenon DEF Join, workVars
  <1>2. ScanInv'
    BY <1>1, Zenon DEF IInv, ScanInv
  <1>3. EndInv'
    <2>1. error' => bottom' = "max" /\ main' \in {"fail", "join failed", "failed"}
      BY <1>1, Zenon DEF IInv, EndInv
    <2>2. \A w \in Worker : pc'[w] = "done" => oom' \/ error' \/ AllTaken'
      BY <1>1, Zenon DEF IInv, EndInv, AllTaken, outVars
    <2>3. main' = "publish" => AllDone' /\ Verified'
      BY <1>1, Zenon DEF AllDone, Verified
    <2> QED
      BY <1>1, <2>1, <2>2, <2>3, Zenon DEF EndInv
  <1>4. /\ pc' \in [Worker -> WorkerAt] /\ main' \in MainAt \ {"start"}
        /\ error' \in BOOLEAN
    BY <1>1, Zenon DEF IInv, TypeOK, MainAt
  <1> QED
    BY <1>1, <1>2, <1>3, <1>4, ScannerStep, Zenon

(* A vector that grows at its end: what was known of the blocks stays true, *)
(* and the block that was the last now has its size.                        *)
LEMMA GrowStep ==
  ASSUME IInv,
         UNCHANGED <<file, top, error, avail, copied, oom, cur, one>>,
         size' \in Nat,
         main' \in MainAt \ {"start", "publish", "loaded"},
         bottom' \in {"max", "size"},
         pc' \in [Worker -> WorkerAt],
         \A v \in Worker :
           \/ pc'[v] = pc[v]
           \/ pc[v] \notin Busy /\ pc'[v] \notin Busy /\ pc'[v] # "done",
         bottom # "size", error = FALSE,
         blk' \in Seq(Block), Len(blk') >= Len(blk),
         \A i \in 1 .. Len(blk) : blk'[i].result = blk[i].result,
         \A i \in 1 .. Len(blk') : i > Len(blk) => blk'[i].result = "none",
         ScanInv'
  PROVE  IInv'
  <1>1. TypeOK'
    BY Zenon DEF IInv, TypeOK
  <1>2. /\ Len(blk) \in Nat /\ Len(blk') \in Nat /\ top \in Nat /\ avail \in Nat
        /\ top > 1 => top <= Len(blk)
        /\ top >= 1
    BY DEF IInv, TypeOK, ScanInv
  <1>3. HeldInv'
    BY Zenon DEF IInv, HeldInv, Busy
  <1>4. ResultInv'
    <2>1. \A i : Working(i) => Working(i)'
      BY Zenon DEF Working, Busy
    <2>2. \A i : Copying(i) => Copying(i)'
      BY Zenon DEF Copying, Busy
    <2>3. \A v \in Worker : pc'[v] \in {"decompress", "store"} =>
            blk'[cur[v]].result = "none"
      <3> SUFFICES ASSUME NEW v \in Worker, pc'[v] \in {"decompress", "store"}
                   PROVE  blk'[cur[v]].result = "none"
        BY Zenon
      <3>1. pc[v] \in {"decompress", "store"} /\ pc[v] \in Busy
        BY Zenon DEF Busy
      <3>2. cur[v] \in 1 .. Len(blk)
        BY <3>1, <1>2, CurInFile
      <3> QED
        BY <3>1, <3>2, Zenon DEF IInv, ResultInv
    <2>4. /\ \A i \in 1 .. Len(blk') : i >= top => blk'[i].result = "none"
          /\ \A i \in 1 .. Len(blk') : i < top =>
               i \in 1 .. Len(blk) /\ (blk'[i].result = file[i] \/ Working(i)')
          /\ \A i \in 1 .. Len(blk') : blk'[i].result # "none" =>
               i \in 1 .. Len(blk) /\ i < top /\ blk'[i].result = file[i]
      BY <1>2, <2>1, SMTT(60) DEF IInv, ResultInv
    <2>5. \A i \in 1 .. Len(blk') : blk'[i].result # "none" =>
            i \in copied \/ oom \/ Copying(i)'
      BY <2>2, <2>4, Zenon DEF IInv, ResultInv
    <2>6. avail > 0 => avail < Len(blk')
      BY <1>2 DEF IInv, ResultInv
    <2>7. \A i \in 1 .. avail : blk'[i].result \in {"full", "short"}
      <3>1. \A i \in 1 .. avail : i \in 1 .. Len(blk)
        BY <1>2 DEF IInv, ResultInv
      <3> QED
        BY <3>1, Zenon DEF IInv, ResultInv
    <2> QED
      BY <2>3, <2>4, <2>5, <2>6, <2>7, Zenon DEF ResultInv
  <1>5. EndInv'
    <2>1. ~AllTaken
      BY Zenon DEF AllTaken
    <2>2. \A v \in Worker : pc'[v] = "done" => pc[v] = "done"
      BY Zenon
    <2> QED
      BY <2>1, <2>2, EndBefore, Zenon
  <1> QED
    BY <1>1, <1>3, <1>4, <1>5, Zenon DEF IInv

(* Appending to a sequence.                                                 *)
LEMMA AppendFacts ==
  ASSUME NEW S, NEW q \in Seq(S), NEW e \in S
  PROVE  /\ Append(q, e) \in Seq(S) /\ Len(Append(q, e)) = Len(q) + 1
         /\ Len(q) \in Nat
         /\ \A i \in 1 .. Len(q) : Append(q, e)[i] = q[i]
         /\ Append(q, e)[Len(q) + 1] = e
  OBVIOUS

(* A block whose size is set is otherwise as it was.                        *)
LEMMA SizedBlock ==
  ASSUME NEW b \in Block
  PROVE  /\ [b EXCEPT !.size = "set"] \in Block
         /\ [b EXCEPT !.size = "set"].result = b.result
         /\ [b EXCEPT !.size = "set"].size = "set"
  BY Zenon DEF Block

(* A block is appended; the one before it gets its size.                    *)
LEMMA PushBlockStep ==
  ASSUME IInv, PushBlock
  PROVE  IInv'
  <1> DEFINE Old == [i \in DOMAIN blk |->
                      IF i = Len(blk) THEN [blk[i] EXCEPT !.size = "set"]
                                      ELSE blk[i]]
  <1>1. /\ main = "push" /\ main' = "notify" /\ blk' = Append(Old, NewBlock)
        /\ UNCHANGED <<file, top, bottom, error, size, avail, copied, oom,
                       pc, cur, one>>
    BY Zenon DEF PushBlock, outVars, workVars
  <1>2. blk \in Seq(Block) /\ Len(blk) \in Nat
    BY DEF IInv, TypeOK
  <1>D. DOMAIN blk = 1 .. Len(blk)
    BY <1>2
  <1>3. /\ Old \in Seq(Block) /\ Len(Old) = Len(blk)
        /\ \A i \in 1 .. Len(blk) : Old[i].result = blk[i].result
        /\ \A i \in 1 .. Len(blk) :
             blk[i].size = "set" \/ i = Len(blk) => Old[i].size = "set"
    <2>1. \A i \in 1 .. Len(blk) :
            /\ Old[i] \in Block /\ Old[i].result = blk[i].result
            /\ blk[i].size = "set" \/ i = Len(blk) => Old[i].size = "set"
      <3> SUFFICES ASSUME NEW i \in 1 .. Len(blk)
                   PROVE  /\ Old[i] \in Block /\ Old[i].result = blk[i].result
                          /\ blk[i].size = "set" \/ i = Len(blk) =>
                               Old[i].size = "set"
        BY Zenon
      <3>1. blk[i] \in Block
        BY <1>2
      <3>2. CASE i = Len(blk)
        BY <1>D, <3>1, <3>2, SizedBlock, Zenon
      <3>3. CASE i # Len(blk)
        BY <1>D, <3>1, <3>3, Zenon
      <3> QED
        BY <3>2, <3>3, Zenon
    <2>2. Old \in [1 .. Len(blk) -> Block]
      BY <1>D, <2>1, Zenon
    <2> HIDE DEF Old
    <2>3. Old \in Seq(Block) /\ Len(Old) = Len(blk)
      BY <1>2, <2>2
    <2> QED
      BY <2>1, <2>3, Zenon
  <1> HIDE DEF Old
  <1>4. /\ blk' \in Seq(Block) /\ Len(blk') = Len(blk) + 1
        /\ \A i \in 1 .. Len(blk) : blk'[i] = Old[i]
        /\ blk'[Len(blk) + 1].result = "none"
    BY <1>1, <1>3, NewBlockType, AppendFacts
  <1>5. /\ \A i \in 1 .. Len(blk) : blk'[i].result = blk[i].result
        /\ \A i \in 1 .. Len(blk') : i > Len(blk) => blk'[i].result = "none"
        /\ \A i \in 1 .. Len(blk') : i < Len(blk') => blk'[i].size = "set"
    <2>1. \A i \in 1 .. Len(blk') : i \in 1 .. Len(blk) \/ i = Len(blk) + 1
      BY <1>2, <1>4
    <2>2. \A i \in 1 .. Len(blk) : i < Len(blk) \/ i = Len(blk)
      BY <1>2
    <2>3. \A i \in 1 .. Len(blk) : blk[i].size = "set" \/ i = Len(blk)
      BY <2>2, Zenon DEF IInv, ScanInv
    <2>4. \A i \in 1 .. Len(blk) : blk'[i].size = "set"
      BY <1>3, <1>4, <2>3, Zenon
    <2> QED
      <3>1. \A i \in 1 .. Len(blk) : blk'[i].result = blk[i].result
        BY <1>3, <1>4, Zenon
      <3>2. \A i \in 1 .. Len(blk') : i > Len(blk) => blk'[i].result = "none"
        BY <1>2, <1>4, <2>1
      <3>3. \A i \in 1 .. Len(blk') : i < Len(blk') => blk'[i].size = "set"
        BY <1>2, <1>4, <2>1, <2>4
      <3> QED
        BY <3>1, <3>2, <3>3, Zenon
  <1>6. bottom = "max" /\ error = FALSE /\ Len(file) \in Nat
    <2>1. bottom = "max"
      BY <1>1, Zenon DEF IInv, ScanInv, TypeOK
    <2>2. error = FALSE
      BY <1>1, Zenon DEF IInv, EndInv, TypeOK
    <2> QED
      BY <2>1, <2>2, FilesAssumption DEF IInv, TypeOK
  <1>7. ScanInv'
    BY <1>1, <1>2, <1>4, <1>5, <1>6 DEF IInv, ScanInv, TypeOK
  <1>8. /\ main' \in MainAt \ {"start", "publish", "loaded"}
        /\ pc' \in [Worker -> WorkerAt] /\ bottom' \in {"max", "size"}
        /\ size' \in Nat /\ \A v \in Worker : pc'[v] = pc[v]
    BY <1>1, <1>6, Zenon DEF MainAt, IInv, TypeOK
  <1>9. Len(blk') >= Len(blk) /\ bottom # "size"
    BY <1>2, <1>4, <1>6
  <1>10. UNCHANGED <<file, top, error, avail, copied, oom, cur, one>>
    BY <1>1, Zenon
  <1> QED
    BY <1>4, <1>5, <1>6, <1>7, <1>8, <1>9, <1>10, GrowStep, Zenon

(* The scan ends: the last block gets its size, the output its length.      *)
LEMMA ScanEndsStep ==
  ASSUME IInv, NEW ok \in BOOLEAN, ScanEnds(ok)
  PROVE  IInv'
  <1>1. /\ main = "scan" /\ main' \in {"sized", "terminate"}
        /\ Len(blk) = Len(file)
        /\ UNCHANGED <<file, top, bottom, error, avail, copied, oom, pc, cur, one>>
        /\ size' \in {size, Len(file)}
        /\ \/ blk' = blk /\ main' = "terminate"
           \/ Len(blk) # 0 /\ blk' = [blk EXCEPT ![Len(blk)].size = "set"]
    BY Zenon DEF ScanEnds, workVars
  <1>2. blk \in Seq(Block) /\ Len(blk) \in Nat /\ DOMAIN blk = 1 .. Len(blk)
    BY DEF IInv, TypeOK
  <1>3. /\ blk' \in Seq(Block) /\ Len(blk') = Len(blk)
        /\ \A i \in 1 .. Len(blk) : blk'[i].result = blk[i].result
        /\ \A i \in 1 .. Len(blk) : blk[i].size = "set" => blk'[i].size = "set"
        /\ main' = "sized" => Len(blk) > 0 /\ blk'[Len(blk)].size = "set"
    <2>1. CASE blk' = blk /\ main' = "terminate"
      BY <1>2, <2>1, Zenon
    <2>2. CASE Len(blk) # 0 /\ blk' = [blk EXCEPT ![Len(blk)].size = "set"]
      <3>1. Len(blk) \in 1 .. Len(blk) /\ Len(blk) > 0
        BY <1>2, <2>2
      <3>2. \A i \in 1 .. Len(blk) :
              /\ blk'[i] \in Block /\ blk'[i].result = blk[i].result
              /\ blk[i].size = "set" \/ i = Len(blk) => blk'[i].size = "set"
        <4> SUFFICES ASSUME NEW i \in 1 .. Len(blk)
                     PROVE  /\ blk'[i] \in Block /\ blk'[i].result = blk[i].result
                            /\ blk[i].size = "set" \/ i = Len(blk) =>
                                 blk'[i].size = "set"
          BY Zenon
        <4>1. blk[i] \in Block
          BY <1>2
        <4>2. CASE i = Len(blk)
          <5>1. blk'[i] = [blk[i] EXCEPT !.size = "set"]
            BY <1>2, <2>2, <4>2, Zenon
          <5> QED
            BY <4>1, <5>1, SizedBlock, Zenon
        <4>3. CASE i # Len(blk)
          BY <1>2, <2>2, <4>1, <4>3, Zenon
        <4> QED
          BY <4>2, <4>3, Zenon
      <3>3. blk' \in [1 .. Len(blk) -> Block]
        BY <1>2, <2>2, <3>2, Zenon
      <3>4. blk' \in Seq(Block) /\ Len(blk') = Len(blk)
        BY <1>2, <3>3
      <3> QED
        BY <3>1, <3>2, <3>4, Zenon
    <2> QED
      BY <1>1, <2>1, <2>2, Zenon
  <1>4. bottom = "max" /\ error = FALSE /\ Len(file) \in Nat
    <2>1. bottom = "max"
      BY <1>1, Zenon DEF IInv, ScanInv, TypeOK
    <2>2. error = FALSE
      BY <1>1, Zenon DEF IInv, EndInv, TypeOK
    <2> QED
      BY <2>1, <2>2, FilesAssumption DEF IInv, TypeOK
  <1>5. \A i \in 1 .. Len(blk') : i > Len(blk) => blk'[i].result = "none"
    BY <1>2, <1>3
  <1>6. ScanInv'
    BY <1>1, <1>2, <1>3, <1>4, Zenon DEF IInv, ScanInv, TypeOK
  <1>7. /\ main' \in MainAt \ {"start", "publish", "loaded"}
        /\ pc' \in [Worker -> WorkerAt] /\ bottom' \in {"max", "size"}
        /\ size' \in Nat /\ \A v \in Worker : pc'[v] = pc[v]
    BY <1>1, <1>4, Zenon DEF MainAt, IInv, TypeOK
  <1>8. Len(blk') >= Len(blk) /\ bottom # "size"
    BY <1>2, <1>3, <1>4
  <1>9. UNCHANGED <<file, top, error, avail, copied, oom, cur, one>>
    BY <1>1, Zenon
  <1> QED
    BY <1>3, <1>4, <1>5, <1>6, <1>7, <1>8, <1>9, GrowStep, Zenon

(* The end marker makes the last block one that can be taken.               *)
LEMMA MarkEndStep ==
  ASSUME IInv, MarkEnd
  PROVE  IInv'
  <1>1. /\ main = "mark" /\ main' = "join" /\ blk' = Append(blk, NewBlock)
        /\ bottom' = "size" /\ NotifyAll
        /\ UNCHANGED <<file, top, error, size, avail, copied, oom, cur, one>>
    BY Zenon DEF MarkEnd, outVars
  <1>2. blk \in Seq(Block) /\ Len(blk) \in Nat
    BY DEF IInv, TypeOK
  <1>3. /\ blk' \in Seq(Block) /\ Len(blk') = Len(blk) + 1
        /\ \A i \in 1 .. Len(blk) : blk'[i] = blk[i]
        /\ blk'[Len(blk) + 1].result = "none"
    BY <1>1, <1>2, NewBlockType, AppendFacts
  <1>4. /\ \A i \in 1 .. Len(blk) : blk'[i].result = blk[i].result
        /\ \A i \in 1 .. Len(blk') : i > Len(blk) => blk'[i].result = "none"
        /\ \A i \in 1 .. Len(blk') : i < Len(blk') => blk'[i].size = "set"
    <2>1. \A i \in 1 .. Len(blk') : i \in 1 .. Len(blk) \/ i = Len(blk) + 1
      BY <1>2, <1>3
    <2>2. \A i \in 1 .. Len(blk) : blk'[i].size = "set"
      BY <1>1, <1>2, <1>3 DEF IInv, ScanInv
    <2> QED
      BY <1>2, <1>3, <2>1, <2>2
  <1>5. bottom = "max" /\ error = FALSE /\ Len(file) \in Nat
    <2>1. bottom = "max"
      BY <1>1, Zenon DEF IInv, ScanInv, TypeOK
    <2>2. error = FALSE
      BY <1>1, Zenon DEF IInv, EndInv, TypeOK
    <2> QED
      BY <2>1, <2>2, FilesAssumption DEF IInv, TypeOK
  <1>6. ScanInv'
    BY <1>1, <1>2, <1>3, <1>4, <1>5 DEF IInv, ScanInv, TypeOK
  <1>7. /\ main' \in MainAt \ {"start", "publish", "loaded"}
        /\ bottom' \in {"max", "size"} /\ size' \in Nat
    BY <1>1, Zenon DEF MainAt, IInv, TypeOK
  <1>8. Len(blk') >= Len(blk) /\ bottom # "size"
    BY <1>2, <1>3, <1>5
  <1>9. UNCHANGED <<file, top, error, avail, copied, oom, cur, one>>
    BY <1>1, Zenon
  <1>10. /\ pc' \in [Worker -> WorkerAt]
         /\ \A v \in Worker :
              \/ pc'[v] = pc[v]
              \/ pc[v] \notin Busy /\ pc'[v] \notin Busy /\ pc'[v] # "done"
    BY <1>1, NotifyEffect, Zenon
  <1> QED
    BY <1>3, <1>4, <1>5, <1>6, <1>7, <1>8, <1>9, <1>10, GrowStep, Zenon

(* The final count; LOADED is set unless the output cannot be cut to it.    *)
LEMMA PublishStep ==
  ASSUME IInv, NEW ok \in BOOLEAN, Publish(ok)
  PROVE  IInv' /\ avail' >= avail
  <1>1. /\ main = "publish" /\ main' \in {"loaded", "failed"}
        /\ UNCHANGED <<file, top, blk, bottom, error, copied, oom, pc, cur, one>>
        /\ size' \in {size, avail'}
    BY Zenon DEF Publish, workVars
  <1>2. PICK k \in 0 .. Len(blk) : Decompressed(k) /\ avail' = k
    BY Zenon DEF Publish
  <1>3. /\ avail' \in Nat /\ avail' >= avail /\ (avail' > 0 => avail' < Len(blk))
        /\ \A i \in 1 .. avail' : blk[i].result \in {"full", "short"}
    BY <1>2, CountGrows, Zenon
  <1>4. TypeOK'
    BY <1>1, <1>3, Zenon DEF IInv, TypeOK, MainAt
  <1>5. ScanInv'
    BY <1>1, Zenon DEF IInv, ScanInv
  <1>6. HeldInv'
    BY <1>1, Zenon DEF IInv, HeldInv
  <1>7. ResultInv'
    BY <1>1, <1>3 DEF IInv, ResultInv, Working, Copying
  <1>8. EndInv'
    <2>1. error' => bottom' = "max" /\ main' \in {"fail", "join failed", "failed"}
      BY <1>1, Zenon DEF IInv, EndInv
    <2>2. \A w \in Worker : pc'[w] = "done" => oom' \/ error' \/ AllTaken'
      BY <1>1, Zenon DEF IInv, EndInv, AllTaken
    <2>3. AllDone' /\ Verified'
      BY <1>1, Zenon DEF IInv, EndInv, AllDone, Verified
    <2>4. Decompressed(avail)'
      BY <1>1, <1>2, Zenon DEF Decompressed
    <2> QED
      BY <2>1, <2>2, <2>3, <2>4, Zenon DEF EndInv
  <1> QED
    BY <1>3, <1>4, <1>5, <1>6, <1>7, <1>8, Zenon DEF IInv

-----------------------------------------------------------------------------
(* Every step keeps the invariant, and none lowers the count of what is     *)
(* available.                                                               *)
LEMMA InvStep ==
  ASSUME IInv, [Next]_vars
  PROVE  IInv' /\ avail' >= avail
  <1>1. avail \in Nat /\ avail >= avail
    BY DEF IInv, TypeOK
  <1>2. CASE UNCHANGED vars
    <2>1. UNCHANGED <<file, blk, top, bottom, error, size, avail, copied, oom,
                      main, pc, cur, one>>
      BY <1>2, Zenon DEF vars, scanVars, outVars, workVars
    <2>2. TypeOK' /\ ScanInv' /\ HeldInv'
      BY <2>1, Zenon DEF IInv, TypeOK, ScanInv, HeldInv
    <2>3. ResultInv'
      BY <2>1 DEF IInv, ResultInv, Working, Copying
    <2>4. EndInv'
      BY <2>1, Zenon DEF IInv, EndInv, AllDone, AllTaken, Verified, Decompressed
    <2> QED
      BY <1>1, <2>1, <2>2, <2>3, <2>4, Zenon DEF IInv
  <1>3. CASE MainStep
    <2>1. CASE \E ok \in BOOLEAN : Publish(ok)
      BY <2>1, PublishStep, Zenon
    <2>2. CASE \/ \E ok \in BOOLEAN : Start(ok)
               \/ FindBlock \/ NotifyBlock \/ NotifyFailure \/ LockForMark
               \/ JoinFailed
      <3>1. avail' = avail
        BY <2>2, Zenon DEF Start, FindBlock, NotifyBlock, NotifyFailure, LockForMark,
             JoinFailed, outVars
      <3> QED
        BY <1>1, <2>2, <3>1, QuietStep, Zenon
    <2>3. CASE PushBlock
      BY <1>1, <2>3, PushBlockStep, Zenon DEF PushBlock, outVars
    <2>4. CASE ScanFails
      BY <1>1, <2>4, ScanFailsStep, Zenon DEF ScanFails, outVars
    <2>5. CASE \E ok \in BOOLEAN : ScanEnds(ok)
      BY <1>1, <2>5, ScanEndsStep, Zenon DEF ScanEnds
    <2>6. CASE MarkEnd
      BY <1>1, <2>6, MarkEndStep, Zenon DEF MarkEnd, outVars
    <2>7. CASE Join
      BY <1>1, <2>7, JoinStep, Zenon DEF Join, outVars
    <2> QED
      BY <1>3, <2>1, <2>2, <2>3, <2>4, <2>5, <2>6, <2>7, Zenon DEF MainStep
  <1>4. ASSUME NEW w \in Worker, WorkerStep(w) \/ Spurious(w)
        PROVE  IInv' /\ avail' >= avail
    <2>1. CASE \/ Check(w) \/ CheckError(w) \/ Guard(w) \/ Wait(w)
               \/ Woken(w) \/ Spurious(w)
      <3>1. PICK p \in WorkerAt \ Busy :
              /\ pc[w] \notin Busy /\ pc[w] \notin {"none", "done"}
              /\ p = "done" => error \/ AllTaken
              /\ pc' = [pc EXCEPT ![w] = p]
        BY <2>1, Zenon DEF Check, CheckError, Guard, Wait, Woken, Spurious, Running,
             Goto, WorkerAt, Busy, AllTaken
      <3>2. UNCHANGED <<file, top, scanVars, outVars, cur, one>>
        BY <2>1, Zenon DEF Check, CheckError, Guard, Wait, Woken, Spurious
      <3>3. avail' = avail
        BY <3>2, Zenon DEF outVars
      <3> QED
        BY <1>1, <3>1, <3>2, <3>3, IdleStep, Zenon
    <2>2. CASE Take(w)
      BY <1>1, <2>2, TakeStep, Zenon DEF Take, outVars
    <2>3. CASE Decompress(w)
      BY <1>1, <2>3, DecompressStep, Zenon DEF Decompress, outVars
    <2>4. CASE Store(w)
      BY <1>1, <2>4, StoreStep, Zenon DEF Store, outVars
    <2>5. CASE \E ok \in BOOLEAN : Copy(w, ok)
      BY <1>1, <2>5, CopyStep, Zenon DEF Copy
    <2>6. CASE Update(w)
      BY <2>6, UpdateStep, Zenon
    <2> QED
      BY <1>4, <2>1, <2>2, <2>3, <2>4, <2>5, <2>6, Zenon DEF WorkerStep
  <1> QED
    BY <1>2, <1>3, <1>4, Zenon DEF Next

(* The invariant holds in every state of the loader, for any number of      *)
(* workers and any file.                                                    *)
THEOREM Invariance == Spec => []IInv
  <1>1. IInv /\ [Next]_vars => IInv'
    BY InvStep, Zenon
  <1> QED
    BY InitInv, <1>1, PTL DEF Spec

(* The variables of the loader keep their types.                            *)
THEOREM TypeCorrect == Spec => []TypeOK
  <1>1. IInv => TypeOK
    BY Zenon DEF IInv
  <1> QED
    BY Invariance, <1>1, PTL

(* Between them the workers decompress each block exactly once.             *)
THEOREM BlocksOnce == Spec => []EachBlockOnce
  <1>1. ASSUME IInv PROVE EachBlockOnce
    <2>1. ASSUME NEW i \in 1 .. top - 1
          PROVE  blk[i].result # "none" \/ \E w \in Worker : Holds(w, i)
      <3>1. i \in 1 .. Len(blk) /\ i < top
        BY <2>1, <1>1 DEF IInv, TypeOK, ScanInv
      <3>2. CASE Working(i)
        BY <3>2, Zenon DEF Working, Holds
      <3>3. CASE blk[i].result = file[i]
        <4>1. i \in 1 .. Len(file)
          BY <3>1, <1>1, FilesAssumption DEF IInv, TypeOK, ScanInv
        <4>2. file[i] \in Kind
          BY <4>1, <1>1, FilesAssumption DEF IInv, TypeOK
        <4> QED
          BY <3>3, <4>2, Zenon DEF Kind
      <3> QED
        BY <1>1, <3>1, <3>2, <3>3, Zenon DEF IInv, ResultInv
    <2>2. \A v, w \in Worker : \A i \in 1 .. top - 1 :
            Holds(v, i) /\ Holds(w, i) => v = w
      BY <1>1, ZenonT(60) DEF IInv, HeldInv, Holds
    <2> QED
      BY <2>1, <2>2, Zenon DEF EachBlockOnce
  <1> QED
    BY Invariance, <1>1, PTL

(* Writing a block back never undoes what the scanner wrote to it.          *)
THEOREM WriteBackIsSafe == Spec => []TakenIsComplete
  <1>1. ASSUME IInv PROVE TakenIsComplete
    <2> SUFFICES ASSUME NEW w \in Worker, NEW i \in 1 .. top - 1, Holds(w, i)
                 PROVE  one[w].size = "set" /\ blk[i].size = "set"
      BY Zenon DEF TakenIsComplete
    <2>1. pc[w] \in Busy /\ cur[w] = i
      BY Zenon DEF Holds, Busy
    <2>2. i \in 1 .. Len(blk) /\ i < Len(blk)
      BY <1>1, <2>1, CurInFile DEF IInv, TypeOK
    <2> QED
      BY <1>1, <2>1, <2>2, Zenon DEF IInv, HeldInv, ScanInv
  <1> QED
    BY Invariance, <1>1, PTL

(* What is published is copied, about to be copied by the worker that has   *)
(* it, or lost because memory ran out.                                      *)
THEOREM PublishedCopied == Spec => []PublishedIsCopied
  <1>1. ASSUME IInv PROVE PublishedIsCopied
    <2> SUFFICES ASSUME NEW i \in 1 .. avail
                 PROVE  i \in copied \/ oom \/ Copying(i)
      BY Zenon DEF PublishedIsCopied, Copying
    <2>1. i \in 1 .. Len(blk)
      BY <1>1 DEF IInv, TypeOK, ResultInv
    <2>2. blk[i].result # "none"
      BY <1>1, Zenon DEF IInv, ResultInv
    <2> QED
      BY <1>1, <2>1, <2>2, Zenon DEF IInv, ResultInv
  <1> QED
    BY Invariance, <1>1, PTL

(* A file that is marked LOADED is there as a whole, unless memory ran out. *)
THEOREM LoadedWhole == Spec => []LoadedIsWhole
  <1>1. ASSUME IInv PROVE LoadedIsWhole
    <2> SUFFICES ASSUME main = "loaded", ~oom
                 PROVE  /\ avail = Len(file)
                        /\ \A i \in 1 .. Len(file) :
                             /\ i \in copied /\ file[i] # "err"
                             /\ i < Len(file) => file[i] = "full"
      BY Zenon DEF LoadedIsWhole
    <2>1. AllTaken
      <3>1. PICK w \in Worker : TRUE
        BY WorkerAssumption, Zenon
      <3>2. pc[w] = "done" /\ ~error
        BY <1>1, Zenon DEF IInv, EndInv, AllDone
      <3> QED
        BY <1>1, <3>2, Zenon DEF IInv, EndInv
    <2>2. /\ Len(blk) \in Nat /\ Len(file) \in Nat /\ top \in Nat /\ avail \in Nat
          /\ Len(blk) = Len(file) + 1 /\ top >= Len(blk)
      BY <1>1, <2>1, FilesAssumption DEF IInv, TypeOK, ScanInv, AllTaken
    <2>3. \A i : ~Working(i) /\ ~Copying(i)
      BY <1>1, Zenon DEF IInv, EndInv, AllDone, Working, Copying
    <2>4. ASSUME NEW i \in 1 .. Len(file)
          PROVE  /\ blk[i].result = file[i] /\ file[i] \in Kind
                 /\ i \in 1 .. Len(blk)
      <3>1. i \in 1 .. Len(blk) /\ i < top
        BY <2>2
      <3>2. file[i] \in Kind
        BY <1>1, FilesAssumption DEF IInv, TypeOK
      <3> QED
        BY <1>1, <2>3, <3>1, <3>2, Zenon DEF IInv, ResultInv
    <2>5. ASSUME NEW i \in 1 .. Len(file)
          PROVE  file[i] # "err" /\ (i < Len(file) => file[i] = "full")
      <3>1. i \in DOMAIN blk
        BY <1>1, <2>4 DEF IInv, TypeOK
      <3>2. Verified
        BY <1>1, Zenon DEF IInv, EndInv
      <3> QED
        BY <2>2, <2>4, <3>1, <3>2 DEF Verified
    <2>6. \A i \in 1 .. Len(file) : i \in copied
      <3>1. \A i \in 1 .. Len(file) : blk[i].result # "none"
        BY <2>4, Zenon DEF Kind
      <3> QED
        BY <1>1, <2>3, <2>4, <3>1, Zenon DEF IInv, ResultInv
    <2>7. avail = Len(file)
      <3>1. /\ avail <= Len(blk) - 1
            /\ avail < Len(blk) - 1 => blk[avail + 1].result \notin {"full", "short"}
        BY <1>1, <2>2 DEF IInv, EndInv, Decompressed
      <3>2. ASSUME avail < Len(file) PROVE FALSE
        <4>1. avail + 1 \in 1 .. Len(file)
          BY <2>2, <3>2
        <4>2. blk[avail + 1].result \in {"full", "short"}
          BY <2>4, <2>5, <4>1, Zenon DEF Kind
        <4> QED
          BY <2>2, <3>1, <3>2, <4>2
      <3> QED
        BY <2>2, <3>1, <3>2
    <2> QED
      BY <2>5, <2>6, <2>7, Zenon
  <1> QED
    BY Invariance, <1>1, PTL

(* What is available never shrinks.                                         *)
THEOREM AvailableOnlyGrows == Spec => AvailableGrows
  <1>1. IInv /\ [Next]_vars => [avail' >= avail]_vars
    BY InvStep, Zenon
  <1> QED
    BY Invariance, <1>1, PTL DEF Spec, AvailableGrows

-----------------------------------------------------------------------------
(* Once bz_async_load has failed, no worker is left that could publish.     *)
FailedInv == main = "failed" => \A w \in Worker : pc[w] \in {"none", "done"}

(* A failure leaves no running worker: bz_async_load fails before it starts *)
(* them or after it has joined them.                                        *)
LEMMA FailedStep ==
  ASSUME IInv, FailedInv, Next
  PROVE  FailedInv'
  <1>1. CASE MainStep
    <2>1. CASE \E ok \in BOOLEAN : Start(ok)
      BY <2>1, Zenon DEF Start, IInv, HeldInv, FailedInv
    <2>2. CASE \E ok \in BOOLEAN : Publish(ok)
      BY <2>2, Zenon DEF Publish, workVars, IInv, EndInv, AllDone, FailedInv
    <2>3. CASE Join \/ JoinFailed
      BY <2>3, Zenon DEF Join, JoinFailed, workVars, AllDone, FailedInv
    <2>4. CASE \E ok \in BOOLEAN : ScanEnds(ok)
      BY <2>4, Zenon DEF ScanEnds, FailedInv
    <2>5. CASE FindBlock \/ PushBlock \/ NotifyBlock \/ ScanFails
                 \/ NotifyFailure \/ LockForMark \/ MarkEnd
      BY <2>5, Zenon DEF FindBlock, PushBlock, NotifyBlock, ScanFails, NotifyFailure,
                  LockForMark, MarkEnd, FailedInv
    <2> QED
      BY <1>1, <2>1, <2>2, <2>3, <2>4, <2>5, Zenon DEF MainStep
  <1>2. ASSUME NEW w \in Worker, WorkerStep(w) \/ Spurious(w)
        PROVE  FailedInv'
    <2>1. pc[w] \notin {"none", "done"} /\ main' = main
      BY <1>2, Zenon DEF WorkerStep, Spurious, Running, Check, CheckError, Guard, Wait,
                  Woken, Take, Decompress, Store, Copy, Update, scanVars
    <2> QED
      BY <2>1, Zenon DEF FailedInv
  <1> QED
    BY <1>1, <1>2, Zenon DEF Next

(* A step of a worker is, to a reader, a publication or nothing.            *)
LEMMA WorkerRefines ==
  ASSUME IInv, FailedInv, NEW w \in Worker, WorkerStep(w) \/ Spurious(w),
         avail' >= avail, avail' \in Nat
  PROVE  Load!Publish \/ UNCHANGED Load!vars
  <1>1. CASE Update(w)
    <2>1. main' = main /\ error' = error
      BY <1>1, Zenon DEF Update, scanVars
    <2>2. main \notin {"start", "loaded", "failed", "terminate"}
      <3>1. pc[w] = "update" /\ main # "terminate"
        BY <1>1, Zenon DEF Update, Running
      <3> QED
        BY <3>1, Zenon DEF IInv, HeldInv, EndInv, AllDone, FailedInv
    <2>3. LoadState = "loading" /\ LoadState' = "loading"
      BY <2>1, <2>2, Zenon DEF LoadState
    <2> QED
      BY <2>1, <2>3, Zenon DEF Load!Publish, Load!Grow
  <1>2. CASE ~Update(w)
    <2>1. main' = main /\ error' = error /\ avail' = avail
      BY <1>2, Zenon DEF WorkerStep, Spurious, Check, CheckError, Guard, Wait, Woken,
                  Take, Decompress, Store, Copy, scanVars, outVars
    <2> QED
      BY <2>1, Zenon DEF Load!vars, LoadState
  <1> QED
    BY <1>1, <1>2, Zenon

(* A step of bz_async_load is a step of AsyncLoad or changes nothing that a *)
(* reader can see.                                                          *)
LEMMA MainRefines ==
  ASSUME IInv, MainStep, avail' >= avail, avail' \in Nat
  PROVE  [Load!Next]_(Load!vars)
  <1> USE DEF Load!Next, Load!vars, LoadState
  <1>1. CASE \E ok \in BOOLEAN : Start(ok)
    <2>1. main = "start" /\ main' \in {"scan", "failed"}
      BY <1>1, Zenon DEF Start
    <2>2. error' = error /\ avail' = avail
      BY <1>1, Zenon DEF Start, outVars
    <2> QED
      BY <2>1, <2>2, Zenon DEF Load!Begin, Load!GiveUp, Load!Grow
  <1>2. CASE \E ok \in BOOLEAN : Publish(ok)
    <2>1. main = "publish" /\ main' \in {"loaded", "failed"} /\ error' = error
      BY <1>2, Zenon DEF Publish
    <2>2. ~error
      BY <2>1, Zenon DEF IInv, EndInv
    <2> QED
      BY <2>1, <2>2, Zenon DEF Load!Finish, Load!GiveUp, Load!Grow
  <1>3. CASE Join \/ JoinFailed
    <2>1. /\ main \in {"join", "join failed"}
          /\ main' \in {"publish", "failed"}
          /\ error' = error /\ avail' = avail
      BY <1>3, Zenon DEF Join, JoinFailed, outVars
    <2> QED
      BY <2>1, Zenon DEF Load!GiveUp, Load!Grow
  <1>4. CASE \E ok \in BOOLEAN : ScanEnds(ok)
    <2>1. /\ main = "scan" /\ main' \in {"sized", "terminate"}
          /\ error' = error /\ avail' = avail
      BY <1>4, Zenon DEF ScanEnds
    <2> QED
      BY <2>1, Zenon DEF Load!GiveUp, Load!Grow
  <1>5. CASE ScanFails
    <2>1. main = "scan" /\ main' = "fail" /\ error' = TRUE /\ avail' = avail
      BY <1>5, Zenon DEF ScanFails, outVars
    <2> QED
      BY <2>1, Zenon DEF Load!Raise
  <1>6. CASE FindBlock \/ PushBlock \/ NotifyBlock \/ NotifyFailure
               \/ LockForMark \/ MarkEnd
    <2>1. /\ main \in {"scan", "push", "notify", "fail", "sized", "mark"}
          /\ main' \in {"push", "notify", "scan", "join failed", "mark", "join"}
          /\ error' = error /\ avail' = avail
      BY <1>6, Zenon DEF FindBlock, PushBlock, NotifyBlock, NotifyFailure, LockForMark,
                  MarkEnd, outVars
    <2> QED
      BY <2>1, Zenon
  <1> QED
    BY MainStep, <1>1, <1>2, <1>3, <1>4, <1>5, <1>6, Zenon DEF MainStep

(* The parallel loader implements what a loading thread promises: readers   *)
(* see what is available grow, and one end, after which nothing changes.    *)
THEOREM Refinement == Spec => ImplementsAsyncLoad
  <1>1. Init => Load!Init
    BY Zenon DEF Init, Load!Init, LoadState
  <1>2. Init => FailedInv
    BY Zenon DEF Init, FailedInv
  <1>3. IInv /\ FailedInv /\ [Next]_vars => FailedInv'
    <2>1. CASE UNCHANGED vars
      BY <2>1, Zenon DEF FailedInv, vars, scanVars, workVars
    <2> QED
      BY <2>1, FailedStep, Zenon
  <1>4. IInv /\ FailedInv /\ IInv' /\ [Next]_vars => [Load!Next]_(Load!vars)
    <2> SUFFICES ASSUME IInv, FailedInv, IInv', [Next]_vars
                 PROVE  [Load!Next]_(Load!vars)
      BY Zenon
    <2>1. avail' >= avail /\ avail' \in Nat
      BY InvStep, Zenon DEF IInv, TypeOK
    <2>2. CASE UNCHANGED vars
      BY <2>2, Zenon DEF vars, scanVars, outVars, Load!vars, LoadState
    <2>3. CASE MainStep
      BY <2>1, <2>3, MainRefines, Zenon
    <2>4. CASE \E w \in Worker : WorkerStep(w) \/ Spurious(w)
      BY <2>1, <2>4, WorkerRefines, Zenon DEF Load!Next
    <2> QED
      BY <2>2, <2>3, <2>4, Zenon DEF Next
  <1> QED
    BY Invariance, <1>1, <1>2, <1>3, <1>4, PTL DEF Spec, ImplementsAsyncLoad, Load!Spec
=============================================================================
