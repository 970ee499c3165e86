# TLA+ models of the i.MX6ULL flashing tools

This directory models the parts of the repository that together write an image
to a board: the fastboot function in the board's U-Boot and the USB controller
driver under it, the uuu scripts that the two tools ship, uuu itself as far as
the scripts use it, and uuu's cache of files with its loading threads. TLC checks
the models on small instances; TLAPS proves the main properties of the fastboot
function for every size of its buffers and every host, that uuu and the function
stay in step for any scripts, those of the controller's endpoints for any sequence
of commands and transfers, and those of the file cache and of the parallel bz2
loader for any number of threads and any file.

## The system

```
 Python tool ----+                                  +--> eMMC (user area, boot area)
                 +--> uuu + script  ==USB fastboot==> U-Boot f_fastboot.c
 Qt tool --------+   (lines)          (commands,    +--> SD card
                                       data, answers)
```

* **Python tool** (`GUI_sources/python/100ask_imx6ull_flashing_tool.py`): a
  window with two tabs. A button starts a thread that runs uuu once or several
  times; another thread polls the board's state for the LEDs.
* **Qt tool** (`GUI_sources/QT/.../gui code/imx6ull_flash_tool/widget.cpp`): a
  button kills a running uuu, writes a temporary script from a template and
  starts uuu on it.
* **Scripts** (`*.clst`): lists of `FB:` lines, one directory for each device.
* **uuu**: a binary; the repository has its changed `buffer.cpp`
  (`GUI_sources/QT/.../buffer.cpp`), which loads and decompresses images.
* **U-Boot** (`uboot-imx_fastboot`): loaded into the board over USB, runs
  `fastboot 0` and answers uuu. `drivers/usb/gadget/f_fastboot.c` is the
  function, `ci_udc.c` the controller driver, `composite.c` between them,
  `cmd/mmc.c` and `drivers/mmc/mmc.c` the commands behind it,
  `common/image-sparse.c` the writer for sparse images.

## Modules

| module | what it models |
|---|---|
| `FastbootGadget` | `f_fastboot.c`: one action for each handler, with the environment, `cmd/mmc.c`'s current device and the media |
| `UuuSession` | the function composed with a uuu that runs scripts line by line, may be stopped, and times out |
| `ToolScripts` | the scripts of both tools as sequences of lines, the order their lines are in, and the properties of a session |
| `RequestQueue` | abstract: the queue that `linux/usb/gadget.h` promises of an IN endpoint |
| `CiUdc` | `ci_udc.c`'s two bulk endpoints with the requests that `f_fastboot.c` keeps on them; implements `RequestQueue` |
| `CiControl` | `ci_udc.c`'s control endpoint with `composite_setup` |
| `AsyncLoad` | abstract: what a loading thread promises to the readers of a buffer |
| `FileBuffer` | `buffer.cpp`: `get_file_buffer`, `reload`, `request_data` and the loads; each buffer implements `AsyncLoad` |
| `Bz2Load` | `bz_async_load` and its workers in `buffer.cpp`; implements `AsyncLoad` |
| `FastbootGadgetProofs`, `CiControlProofs`, `Bz2LoadProofs` | the inductive invariants and the proofs |
| `SessionProofs` | the same for `UuuSession` and the order of the scripts, on top of `FastbootGadgetProofs` |
| `CiUdcTypes`, `CiUdcProofs` | the same for `CiUdc`: types and what each call does to the lists; then the properties |
| `FileBufferLoads`, `FileBufferProofs` | the same for `FileBuffer`: types and loads; then what the readers see |
| `MCFastbootGadget`, `MCToolScripts`, `MCCiUdc`, `MCCiControl`, `MCFileBuffer`, `MCBz2Load` | instances for TLC |

### FastbootGadget

U-Boot runs one thread. A completion handler runs to its end before the next
one starts, so a handler is one atomic action, with everything it calls.

| variable | in the code |
|---|---|
| `handler`, `length` | `out_req->complete`, `out_req->length` |
| `download_size`, `download_bytes` | the statics of the same name |
| `buffer`, `fastboot_bytes` | the memory at `${fastboot_buffer}`; the environment variable |
| `tx`, `in_complete`, `g_a_cmd_buff` | the requests queued on the IN endpoint; `in_req->complete`; the stored ACmd |
| `fastboot_dev`, `mmcdev` | the environment variables |
| `devinfo`, `ptable` | `fastboot_devinfo`; the device whose partitions `g_ptable` lists |
| `curr_device` | the device that the mmc command has selected |
| `card`, `store` | which devices have a medium; what the media hold |

`configured` is true between SET_CONFIGURATION and a disconnect. The actions
have the names of the handlers; `TxComplete` is the host reading an answer and
the completion handler that follows it, `Reset` is `do_reset` (or the boot of
a kernel), `InsertCard` the user.

Byte counts are the code's own, on small buffers. An image is a sequence of
members of `Byte`; the first byte says whether the image is sparse. An area of
a medium holds one image, or `Torn` when a write failed half way or when a
larger area was written over it. A file of the root file system is an area. The
hardware partition that an earlier command left selected is not in the state: a raw
flash names its own with `mmc dev`, and sparse images and erasing go through
`blk_get_dev`, which selects the user area.

What the model leaves out: SATA, AVB, lock and unlock, the `gpt` partition and
partitions that are written with `saveenv`, which the build does not have or
the tools do not use; `target_ubootdev`, which no script sets; removing a card;
a failing `usb_ep_queue` or `malloc`; response texts. When an answer replaces
an unread one, the host reads the new text: both use the same memory. `tx` is an
ideal queue; `CiUdc` shows that the controller's endpoint is that queue for a host
that reads each answer before its next command and configures the device once.

### UuuSession and ToolScripts

uuu sends a line, reads the answer, and goes on or gives up. A packet is on the
wire until the board takes it, so board and host interleave. `Stop` ends uuu at
any step, as the Qt tool's `close()` does; the board does not notice. `TimeOut`
ends a script for which no answer can come. After either, the next script
starts on the board as it is: it may be in the middle of a download, and it may
hold answers that nobody has read.

A session is of one of two kinds, chosen at its start (`kills`): in the one uuu is
never stopped, in the other it may be stopped at any step and runs only scripts
that carry their image (`Whole`). An upload takes two scripts, and what the second
writes after the first was stopped is nobody's promise.

`expected` is a history variable: the content of the media if each answer that
the script has read was true. `quiet` remembers whether the script found the
board at rest.

`WholeScripts` are the scripts that write with `ucmd` and carry their image: the
Python tool's write_all, write_boot, write_dtb and write_kernel and the Qt tool's
write_boot and write_rootfs, for both devices. `AllScripts` adds the two halves of
the Python tool's upload, which runs uuu once for each. The scripts in `pro/` have
the same lines as those in `basic/`, except for the environment tests in
write_user_file, which are not modelled. The passing runs do not contain
`basic/sd/write_noos` (run `noos_on_card`; the one in `basic/emmc` has the lines of
write_boot) or the Qt tool's scripts with `acmd`: write_all for the eMMC is run
`qt_write_all`; write_dtb, write_kernel, write_user_file and the card's write_all
are in no run. `delay` lines and the SDP line that boots the board are left out.

### CiUdc and CiControl

The controller and the host run beside the driver. The driver polls: it reads the
completion bits, and handles the endpoints afterwards, in their order, so the host
may move in between. What a handler does to its list is one step.

| variable of `CiUdc` | in the code |
|---|---|
| `ep[x].queue`, `.req_primed`, `.dtd` | the endpoint's `queue` and `req_primed`; the descriptor that the controller works from |
| `epcomp`, `irq` | `ENDPTCOMPLETE`; the bits that `udc_irq` has read and not handled |
| `live`, `text` | the requests on the heap; the message in each request's buffer |
| `in_req`, `out_req`, `front`, `rear` | the function's requests and its list for answers of several messages |
| `lost`, `up` | "fail free request" was printed; the driver has not used freed memory |
| `registered`, `configured` | between `usb_gadget_register_driver` and `usb_gadget_unregister_driver` (one `do_fastboot`); a configuration is set |

The actions are `udc_irq` in its parts (`ReadBits`, a completion on either
endpoint), registering and unregistering, SET_CONFIGURATION and reset, and the
host's sending, reading and stopping. A command is answered with one message
(`fastboot_tx_write_str`), with several (`fastboot_tx_write_more`), or with an
upload. `patient` is a host that reads each answer before its next command, as uuu
does unless it is stopped. A message is its command, its part, and its length: the
descriptor keeps the length it was made with, while the text is in the request's
buffer, so both are needed.

`Unregister` is the end of `do_fastboot`: `fastboot_disable` frees the function's
requests while they are linked, and the lists keep them until `ci_udc_probe` makes
them anew at the next start (`Register`).

In `CiControl` a SETUP packet has a direction, has a data stage or none, and is
answered, refused or ignored (`Packets`): these are what `handle_setup` and
`composite_setup` tell apart. `host` is "in step" when it sends a SETUP packet only
after the driver has polled the completion of the transfer before, and "ahead" when it
does not wait, which happens while a fastboot command runs and nobody polls. `result`
records a completion without a request. `ci_ep_queue`'s refusal of a second request
for ep0 (`-EPROTO`) is left out: both of its callers have just reset `req_primed`.

### FileBuffer

The module follows one file name and the threads that use it. A step is what a
thread does between two points where another can see it.

| variable | in the code |
|---|---|
| `entry` | `g_filebuffer_map[filename]` |
| `flags`, `avail`, `size`, `time` | `m_dataflags`, `m_avaible_size`, `size()`, `m_timesample` |
| `thread`, `lock` | where `m_aync_thread` is; who has `m_async_mutex` |
| `filled`, `ver` | how much of the data is in place, and of which version of the file |
| `pc`, `async`, `buf`, `made`, `req`, `got` | the clients: place, argument, buffer, whether the call has made it (`find`), request, how much is copied |
| `now` | when the file was last changed |
| `began`, `late`, `missed` | history: `now` at the call; buffers whose file changed between the load and the time stamp; clients that were notified between their test and their wait |

`Fs` are the file systems, told apart by what their load does: in the caller or in
a thread, with or without setting the available size, with or without marking the
buffer. A client at "block" holds `m_requext_cv_mutex`; the notification does not
take it, as in the code. Starting a thread over one that was not joined, or
joining twice, ends the program (`up`), and so may `request_data`'s assertion that the
size is known, which a release build does not have. `Changing` are the file systems on which
the file may change while it is used.

`AsyncLoad` is the contract between the loads and `request_data`: what is available
grows until the load ends, the load ends once, and nothing changes afterwards.
`LoadsAsPromised` shows it for the loads in `FileBuffer`, `ImplementsAsyncLoad` for
the parallel loader, which is why `FileBuffer` leaves that one out.

### Bz2Load

One thread scans a compressed file for block headers; `hardware_concurrency()`
workers take blocks in order, decompress them, store the result in the vector,
copy the output to its place and publish the size that is available. Here the
threads are preemptive, so a step is only what happens between two points that
another thread can observe.

| variable | in the code |
|---|---|
| `blk`, `top`, `bottom` | the fields of `bz2_blks`; `blk[i]` is the code's `blk[i]`, without the dummy at 0 |
| `error`, `size`, `avail` | `FILEBUFFER_FLAG_ERROR_BIT`, `p->size()`, `p->m_avaible_size` |
| `main`, `pc` | where `bz_async_load` and each worker are |
| `cur`, `one` | the worker's locals |
| `file` | what the file holds: for each block full size, short, or damaged |
| `copied`, `oom` | history: blocks whose output is in place; a worker ended for lack of memory |

Output is counted in blocks: `avail` blocks are published. The byte count of the
code is the sum of their sizes, which is the right position as long as all of
them but the last are full (`NothingPastShort`). `blk_mutex` is held over two
steps only where the scanner grows the vector; in between, a worker that reads
`size()` without the mutex may read anything, so `Guard` may go either way.
`con_mutex` is held between `Guard` and `Wait`, and notifying does not take it.
A condition variable may wake a thread for no reason (`Spurious`). Returning
with running threads ends the program (`main = "terminate"`).

Left out: loading of the compressed file itself (`ScanFails` is its failure at
any time) and the readers, which are in `FileBuffer`. A failing `push_back` is not
modelled.

## Runs

| run | bounds | shows |
|---|---|---|
| `download` | buffer 6, request 4, packet 2; sizes 0, 1, 3, 5, 6, 8; two unread answers | `TypeOK`, `DownloadFits`, `RequestFits`, `RequestCovers`, `InReqOnce`, `SizesAgree` |
| `storage` | one-byte images; all U-Boot commands; both devices | `TableIsSelected`, `WritesSelected` |
| `scripts` | any three scripts of `AllScripts` in a row; or any three of `WholeScripts`, with uuu stopped at any step | `StoreAsReported`, `NeverStranded`, `ScriptsEnd` |
| `udc` | four requests on the heap; three commands of any kind; two lengths; one stop | `TypeOK`, `FreedNotQueued`, `FifoIsFreed`, `ListIsEmpty`, `ImplementsQueue`, `WaitingIsAnswered` |
| `control` | six transfers of any kind, three given up, three bus resets | `TypeOK`, `DirectionInSync`, `RequestIsThere`, `FlipAfterData`, `ControlEnds` |
| `buffers` | two clients, two buffers, three calls; every file system; a file of two units; one change | `TypeOK`, `SyncGetsLoaded`, `CopiesInPlace`, `LoadsAsPromised`, `NoWaiterForgotten`, `LockHolderWorks`, `HaveIsCurrent` |
| `card_late` | as `storage` | `TableFollowsEnv` fails |
| `qt_write_all` | the Qt tool's write_all on the eMMC | `StoreAsReported` fails |
| `noos_on_card` | the Python tool's write_noos for the SD card | `BareOnChosen` fails |
| `bz2_blocks` | two workers; every file of at most three blocks | `TypeOK`, `EachBlockOnce`, `TakenIsComplete`, `PublishedIsCopied`, `LoadedIsWhole`, `AvailableGrows`, `TakenIsPublished`, `ImplementsAsyncLoad` |
| `bz2_short` | one worker, two blocks | `NothingPastShort` fails |
| `bz2_ends` | two workers, two blocks | `LoadEnds` fails |

Why the bounds are enough. In `download` the sizes are one packet or less, one
request or less, more than one request, the size of the buffer, and more than
that; a size is odd and even, so every branch of `rx_bytes_expected` is taken at
its edge. Three scripts are the shortest sequence in which a script can find
the device, the table, or the buffer that each of two earlier ones has left. `MaxTx` bounds the unread answers; the proofs do not need it.
`storage` uses the view `Control`, which leaves out `store`: no handler reads
it, and `WritesSelected` is checked on every step. Three blocks are a first, a
middle and a last one, which are checked differently; two workers are enough
for every race between two of them, and the proofs are for any number.

In `udc` four requests are `in_req`, `out_req` and two messages of a longer answer;
with three commands one answer is read, one is given up and one follows it; with
two lengths a descriptor can be longer or shorter than the text it sends. The proofs
of its safety properties have no bound on requests, commands, stops or resets. In
`control` a transfer may follow one of each kind, given up at any stage, and a reset
after that; the counters bound nothing else. In `buffers` two units are the least
for which a part is available; three calls let a client that has released its buffer
come back to one that another has loaded or reloaded; one change is enough to make a
buffer stale, and the proof of `HaveIsCurrent` is for any number. Clients and
buffers are symmetric, and the view leaves out the fields of a buffer that nobody
refers to, which are cleared before it is used again, and `made` where nothing reads it
any more.

`scripts`, the bz2 runs, `control` and `buffers` do not check for deadlock: a session
ends, so do the loader and the clients when their calls are used up, and `bz2_ends`
shows that the loader may also stop for good.

### Where the properties stop

Some properties have a condition. It is where the code's guarantee ends:

* `SyncGetsLoaded`, `CopiesInPlace`, `LoadsAsPromised` and `NoWaiterForgotten` are
  about a file that has not changed. `reload` loads a changed file into the buffer
  that other threads are reading: the flags go back to 0, the data is unmapped, and
  the available size is that of the load before.
* A member of a compressed archive is never marked as loaded, and `HaveIsCurrent`
  does not hold for HTTP, where a file has no time and is never loaded again.
* `NoWaiterForgotten` excepts the client that was notified between its test and its
  wait, and says nothing of a read past the end, which the end of a download does
  not notify.
* `LockHolderWorks` says that the holder works, not that the lock is released: a
  client that takes `m_async_mutex` before `zip_async_load` does joins a thread
  that waits for that mutex.
* A buffer may be LOADED with an available size of 0 (FAT, zip without async, a bz2
  stream of one block); `request_data` then refuses data that is there.
* `FreedNotQueued`, `FifoIsFreed` and `WaitingIsAnswered` hold as long as the device
  has not been reset and configured again, and `rx_handler_command` has not reset its
  list of messages with requests in it (`Undisturbed`). A host that stops in the
  middle of an answer of several messages and comes back makes it do so: the
  requests stay queued, the list has forgotten them, and `fastboot_fifo_complete`
  looks for them in vain. `ListIsEmpty` says that a patient host never does.
* `FreedNotQueued` is about a registered driver. At the end of `do_fastboot`
  `fastboot_disable` frees `out_req`, and what is left of an answer, while they are
  linked, which `gadget.h` forbids ("Caller guarantees the request is not queued").
  The lists point to freed requests until the next start, and nothing uses them in
  between; `FreedNotQueued` checks that after it they hold none.
* `ImplementsQueue` has three exceptions (`Kept`). When a host stops and comes back,
  `ci_ep_dequeue` leaves the descriptor active, and the next answer is read with the
  length of the old one. A reset of a configured device ends the promise. And when the
  driver is unregistered in the middle of an answer, `ci_ep_disable` gives nothing back,
  although `gadget.h` says that pending requests complete "before this call returns".
* `udc` configures the device once each time fastboot is started (`MaxReset` is 0).
  After a reset and a second SET_CONFIGURATION what `FreedNotQueued` says does not hold,
  hence the condition.
* `DirectionInSync`, `RequestIsThere`, `FlipAfterData` and `ControlEnds` are about a
  host that is in step: `udc_irq` handles a SETUP packet before the completion bits of
  the transfer before. `ControlEnds` also leaves out the packets that nothing answers,
  and an answered one that asks for no data from the device (IN, `wLength` 0):
  `handle_setup` turns ep0 to OUT for its status stage, which is IN.
* `PublishedIsCopied` excepts the block whose worker has stored the result and is about
  to copy the output, and a load that has run out of memory; a reader may be given
  bytes before they are there.
* `TableIsSelected` and `WritesSelected` are about media that stay: a card may be
  inserted at any time, and none is removed.
* `CopiesInPlace` says that what is copied is there, not that it is no more than what
  the caller asked for.

### Fairness

`FairSpec` assumes weak fairness of one disjunction: sending, reading, the
board's taking a packet, and the time limit. The board polls its controller in
`do_fastboot`'s loop and uuu's lines have time limits (`FB[-t 60000]`), so a
script that can go on does. Starting or stopping a script and inserting a card
are the user's, and nothing is assumed of them.

`Bz2Load`'s `FairSpec` assumes weak fairness of the loading thread and of each
worker, which the operating system's scheduler gives; a wait for a mutex ends
because no thread keeps one. Nothing is assumed of spurious wake-ups.

`CiUdc`'s assumes that the driver polls, as `do_fastboot`'s loop does, and that a
host that waits for an answer reads it when it is there. `CiControl`'s assumes that
the driver polls and that the host goes on with a stage for which the device is
ready, as the USB host controller does. Nothing is assumed of transfers being
started or given up, or of resets. `FileBuffer` has safety properties only.

### What the failing runs show

* `card_late`. `fastboot_setup` loads the partition table when the selected
  device number changes. A device that is selected while its slot is empty gets
  an empty table; when the card has been inserted, selecting the device again
  is no change, and each flash command fails until another device is selected.
* `qt_write_all`. `acmd` installs `do_acmd_complete` on the request that all
  answers use and nothing takes it off. The script's first `acmd` writes the
  device tree; the answer to the kernel's download runs it again, and the
  device tree file holds the kernel.
* `noos_on_card`. The script in `basic/sd` names `${emmc_dev}`.
* `bz2_short`. A file with a short block before its last is refused at the end,
  but its blocks have been published on the way, and what follows the short one
  is not where the published size says.
* `bz2_ends`. The end marker is in place and one block is left. Both workers have
  passed the test of the loop; one takes the block, the other finds nothing to
  take and waits. Nobody notifies it, and `join` does not return. The data is all
  there (`TakenIsPublished`): what hangs is the end of the load.

## Proofs

`FastbootGadgetProofs` proves, from `SizeAssumption` (sizes are natural numbers,
the request buffer is a multiple of the packet size, as the comment on
`EP_BUFFER_SIZE` asks) and `CmdsAssumption`:

* `Invariance`: `IInv` holds in every reachable state. `IInv` is the
  conjunction of `RxInv` (receiving), `TxInv` (answers) and `DevInv` (devices).
* `TypeCorrect`, `DownloadStaysInBuffer`, `RequestIsRight`, `RequestCoversRest`,
  `InReqQueuedOnce`, `OneImageSize`, `TableFollowsDevice`: the invariants of the runs.
* `OnlySelectedWritten`: the action property `WritesSelected`.

The properties need each other. `SizesAgree` survives SET_CONFIGURATION in the
middle of a download only because `DownloadFits` says that the download's size
is then positive. `WritesSelected` follows from `TableIsSelected`: an accepted
flash command has a table, a table means a medium, so `mmc dev` succeeds and
`mmc write` goes to the device it selected. `RequestFits` rests on the
arithmetic lemma `RxBytesExpected`: rounding up to a multiple of the packet size
stays within a buffer that is itself a multiple.

There is one lemma for each handler.

`SessionProofs` adds, from `ScriptsAssumption` (scripts are sequences of lines), uuu's
side of the wire, for every set of scripts, every image and every size of the
buffers. `BoardKept` says that the function keeps `IInv` in a session, also in one in
which uuu is stopped anywhere: every packet that uuu sends, or leaves on the wire, is
one that the function's lemmas allow. `StrandedNever` is `NeverStranded`. It rests on
`HostInv` (what uuu is doing with which line) and on `InStep`, which gives for each
phase of uuu what is on the wire, which handler is installed, which answer is queued
and how much of the image has arrived. `InStep` is needed in full: that the last
packet of an image is answered follows only from the byte counts of both sides, and
that no second answer is left over from the line before only from what was queued
for it. Stopping uuu breaks `InStep`, which is why `NeverStranded` excludes it.

`ReportsTrue` is `StoreAsReported`, for any number of scripts, any images and uuu
stopped anywhere. It is not true of every set of scripts (run `qt_write_all`), so
the theorem says of which: those that are `InOrder`. No line is an `acmd`, and a
script that may follow a uuu that was stopped names its device before it flashes
(`NamesDevice`) and downloads its image before it writes it (`CarriesImage`). `MCToolScripts` assumes `InOrder` of the scripts of the run `scripts`,
so TLC evaluates it for the tools' own scripts. The invariant, `ReportInv`, says for
each place in a script what the rest of it relies on (`ScriptInv`): uuu and the board
agree on the device and on the image, or a line that makes it so is still to come. `MediaInv` says what the media hold, before a line is
run, and between the running of a line and the reading of its answer, when uuu does
not know yet; `ImageInv` that the bytes that have arrived are those of the image. A
script that is given up may leave its line on the wire, for the board to run when
nobody waits for it. `EndInv` says why that does no harm: such a line writes only what
uuu has already marked as unknown. The sessions in which uuu is not stopped may
also run the two halves of an upload, and for these the agreement on device and image
must outlast the end of a script (`LastingInv`).

`Bz2LoadProofs` proves, from `FilesAssumption` (a file is a sequence of blocks)
and `WorkerAssumption` (there is a worker), `Invariance`, `TypeCorrect`,
`BlocksOnce`, `WriteBackIsSafe`, `PublishedCopied`, `LoadedWhole` and the action
property `AvailableOnlyGrows`. The invariant follows the ownership of a block. The
scanner owns the last block of the vector (`ScanInv`: every other one has its
size). `top` hands blocks to one worker each (`HeldInv`), never the last one, which
is why writing a copy back is safe. A block below `top` has the file's result or a
worker that is still on it; a result is copied, being copied, or lost to `oom`
(`ResultInv`). A worker ends because of an error, of memory, or because all blocks
are taken (`EndInv`): so when the loading thread has joined them without an error,
the blocks it looks at are all of the file. `Refinement` shows that every step of
the loader is a step of `AsyncLoad` or changes nothing of it.

`FileBufferProofs` proves, from `SizeAssumption`, `PartsAssumption` and
`NoneAssumption`, `Invariance`, `SyncLoaded`, `CopiedInPlace`, `WaitersRemembered`,
`LockHoldersWork` and `GetsCurrent`, for any clients and buffers, any length of the
file, and any number of calls and changes. The argument starts from whose a buffer
is. As long as the file has not changed, every time stamp is 0 (`TimeInv`), so no
buffer of the map is loaded again, and a buffer that is being loaded is known only
to the client that made it (`OwnInv`) and has no earlier load (`FreshInv`).
Therefore nobody takes flags, data or the available size away from a reader, and
what is published is in place (`PlaceInv`), stays published until it is copied
(`CopyInv`), and a buffer that was loaded stays so (`SyncInv`). `LockInv` and `WaitInv`
are the properties themselves, started one step earlier. `AgeInv` needs no
condition on changes: the time is taken after the load, so the data is as new as
the time unless the file changed between the two, and a client that finds the
times equal has data as new as the file was.

`PromiseKept` is `LoadsAsPromised`: each step changes a buffer as `AsyncLoad` allows,
or the buffer is a new one. It needs two facts more about a load: it begins with no
flag set (`FreshInv`), and a thread at work has marked its buffer neither as loaded
nor as failed (`RunInv`), so that a load ends once. `TypesKept` is `TypeOK`. Its bounds
are not inductive as they stand: a download counts its chunks twice, in what is in
place and in what is available, and only the second count ends it, so `BufferBounds`
says that the two are equal for HTTP. Unmapping, which takes the data away and not the
count of what is available, would part them: `ClientBounds` says that only a mapped
file is unmapped. `FileBufferLoads` has the types and the invariants about
loads, `FileBufferProofs` the others.

`CiUdcTypes` and `CiUdcProofs` prove all of `CiUdc`'s safety properties, for any heap, any
kinds of commands and any number of commands, stops and resets. `TypesKept` is
`TypeOK`, with `Quiet`: nothing is primed or pending while the device is not
configured, and nothing is queued either while the driver is registered.
`FreedNotQueuedAlways` and `FifoIsFreedAlways` need to know what the IN
endpoint's queue looks like (`Queues`): the function's list `front` holds, in order,
the requests of the queue other than `in_req`; they are distinct and on the heap; and
the descriptor, the completion bit and `req_primed` agree on the first of them
(`InFit`, `OutFit`). `ListIsEmptyAlways` needs the turns of a patient host as
well (`Protocol`): a command arrives only when every message of the answer before was
read and given back, and the bits that tell the driver so are handled before the
command, because the IN endpoint's bit is read no later. Both are about a registered
driver; of one that is not, it is enough that only `Register` can follow, and that a
list left empty has been given back. `QueueImplemented` shows `ImplementsQueue` step by
step: answering a command is `Queue`, the host's read is `Send`, `handle_ep_complete` on
the IN endpoint is `GiveBack`, `Register` is `Enable`, and everything else changes nothing
of it. `Disable`, which would give back what is pending, has no counterpart in the code. `Logs` in `Protocol` is the part of the mapping that is
inductive: what was given back is what was read, less the request that was sent and
not handled.

`CiControlProofs` proves `TypesKept`, `InStep`, `DirectionKept`, `FindsRequest` and
`FlipsAfterData` with no assumption on the number of transfers, aborts and resets. The
last four rest on `OneStage`: with a host in step the descriptor and the completion bit
belong to the request that is queued and to ep0's present direction, there is one of
them, and none when the next SETUP packet arrives.

Only model-checked: liveness (`ScriptsEnd`, `TakenIsPublished`, `WaitingIsAnswered`,
`ControlEnds`), which is out of the prover's reach. Every safety property of a passing
run is also a theorem.

## Not modelled

* The Python tool's threads. A button starts a thread and nothing keeps a second
  one from being started, from rewriting the same script, or from running uuu on
  the same board; the threads share `LEDFlag` and the scripts without any lock. No
  statement in the repository says what two of them should do together, so the
  sessions take the scripts one after the other, as one button at a time gives
  them, and the races are listed as hazards.
* The Qt tool's widget: processes, temporary files, device notifications. What it
  does to the board, killing uuu and starting another script, is in `UuuSession`.
* The walk over the chunks of a sparse image and the rounding to erase groups:
  sequential loops over one buffer. `FastbootGadget` has their outcomes.
* The Qt tool's scripts with `acmd` other than write_all for the eMMC: the card's
  write_all leaves the same hook in the same place, and the others have one `acmd`.
* `buffer.h`, uuu's USB side and its commands, which are not in the repository; they
  are modelled from how `buffer.cpp` and the scripts use them.
* Parsing of tar, zip, FAT and descriptors, cache maintenance, splitting a request
  into descriptors, memory layout (`g_a_cmd_buff` is shorter than some of its
  commands) and buffers that are never freed.
* U-Boot outside the files named above. The repository carries the whole U-Boot
  tree, drivers and boards of other machines included; the tools reach only the
  part that is modelled.
