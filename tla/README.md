# Verification of PCSX-Redux

PCSX-Redux is an emulator of the PlayStation with its development tools, and carries the guest-side
libraries PSYQo and OpenBIOS in the same repository.  This directory holds TLA+ models of the parts
of it whose correctness is a matter of *order* rather than of data: the event scheduler of the
emulated CPU, the root counters that run beside it, the DMA and CD-ROM controllers that live on it, the
PSYQo and OpenBIOS drivers that talk to these controllers from the guest's side, the serial port with its memory cards and the OpenBIOS
driver that talks to them, what PSYQo's main loop runs, the threads that play the sound and give the machine its pace, and the thread that serves files.  The models are
checked with TLC on small instances, and most safety properties are proved with TLAPS for every instance.

Paths below are relative to the repository's inner `src/` (`core/cdrom.cc` is `src/src/core/cdrom.cc`
in `PROJECT.json`).

## 1. The system

### Threads and their meeting points

The emulator has one main thread, which executes guest code, all devices and the GUI; the SPU has a
mixing thread, SDL its callback thread, the sound output a "null sync" thread that may be the clock in its place, and libuv a thread for files and sockets
with a pool behind it.  `AudioOutput` and `UvFile` are about these; nothing in the other models is preempted by
another host thread.  What is hard there is *re-entrancy on the one
thread*: after every branch of the guest `branchTest` runs `Counters::update`, which at the vertical
blank runs the GUI (which may load a state or reset the machine), and then the handlers of due events,
which schedule and cancel events while the loop over a snapshot of them is still going.  On the
guest's side the same order of things shows as interrupts and device completions that come between any
two instructions.

### Inventory

| component | state | operations | interacts with | what is hard | correct when | status |
|---|---|---|---|---|---|---|
| Event scheduler (`core/r3000a.h`, `core/r3000a.cc`) | `m_regs.cycle`, `interrupt` (bit set), `intTargets`, `lowestTarget`; locals of `branchTest` | `scheduleInterrupt`, `branchTest`/`checkAndUpdate`, cancel by clearing a bit, reset, save and load | every device (schedules, is called back), `Counters::update`, GUI | the loop runs on a snapshot; `lowestTarget` is overwritten at the end of a pass; a 64 bit constant in a 32 bit variable; state replaced in mid-pass | a due event is handled in the next pass, no event early, none lost | modelled, proved |
| DMA controller and MDEC DMA (`core/psxmem.h`, `psxhw.*`, `psxdma.cc`, `mdec.cc`) | DPCR, DICR, CHCR busy bits, ISTAT bit 3, MDEC's parked output | register writes, `dmaExec`, `dmaInterrupt`, completions | scheduler, GPU, SPU, CD-ROM, MDEC; guest | bit 31 of DICR changes in three places and interrupts on its edge only; the output of the MDEC waits for its input | bit 31 sums up the register; interrupts come on its edge; no started transfer is forgotten | modelled, proved |
| CD-ROM controller (`core/cdrom.cc`) | command due, response waiting, reading, playing, seeking, drive and lid, four kinds of events | register writes, `interrupt`, `readInterrupt`, `playInterrupt`, `lidSeekInterrupt`, lid moves, reset | scheduler, guest, GUI (lid) | one response register for five sources; commands override one another; the PLAY event is both seek and audio | no command unanswered, no response overwritten, nothing read or played after a stop, a drive that is not ready gets ready | modelled, proved |
| PSYQo DMA dispatch (`mips/psyqo/src/kernel.cpp`, users `gpu.cpp`, `spu.cpp`) | registered callbacks, transfers awaited | arm, start, `dmaIRQ` | DMA controller | reads DICR, then writes it: a completion may come in between | each awaited transfer is called back, once | modelled; one finding |
| PSYQo CD-ROM device (`cdrom-device*.cpp`) | the action in progress and its state | `irq`, the actions (reading, playing, reset, tables, test, mute), with and without blocking, `pauseCDDA`, `stopCDDA`, `getPlaybackLocation` | CD-ROM controller, kernel's callback queue | asserts an exact order of responses, which the controller must produce | no assertion reached; every action ends with its callback or returns | modelled, partly proved; two findings |
| Root counters (`core/psxcounters.*`) | four counters, `m_psxNextCounter`, hsync count | `update`, register accesses, vsync | scheduler, GPU, SPU, GUI | rates of stopped counters, targets, one-shot interrupts | events on time, scanlines without drift, counts and interrupts those of a counter that counts | modelled, proved |
| SIO and memory cards (`core/sio.*`, `core/memorycard.*`) | control register, FIFO, device selected, acknowledgement due; per card the command, its position, the sector so far, its contents | register accesses, `transceive`, deselecting, inserting and removing | scheduler, driver, GUI (settings) | a card takes every byte that comes while it is selected, whoever meant it; a card removed in mid-transfer | a sector is written whole or not | modelled (controllers' answers, PocketStation and SIO1 are not) |
| OpenBIOS memory card driver (`mips/openbios/sio0`) | request per slot, operation reached, slot whose turn it is, fast track | requests, VBlank handler, interrupt handler, fast track in assembly | serial port, exceptions, the program that waits | shares the port with the poll of the controllers; a time-out every VBlank; two handlers for one interrupt | a request that succeeds did what it asked, every request ends | modelled |
| Audio threads (`support/circular.h`, `spu/sdlaudio.*`, `spu/spu.cc`, `core/psxcounters.cc`) | ring of frames, frames consumed, goal and previous goal, which threads run | `enqueue`, `dequeue`, `advanceFrames`, `waitForGoal`, pause, resume, reinit, save and load | mixing thread, SDL callback, null thread, main thread | condition variables with time-outs; a goal set, reached and set again at once; the waiter pauses what would wake it | the ring is a queue; the waiter wakes, by its own goal; one thread is the clock | modelled, proved |
| Files on their own thread (`support/uvfile.*`) | request queue, cache and its progress, promise, writes under way, handle | open, read, write, cache, download, close, stop of the thread | CD image readers, main thread, libuv thread, its pool | requests, completions and closing cross; the future of the cache could be taken twice | what was written is read and kept; no operation meets a closed handle or a freed cache; close ends | modelled, partly proved |
| PSYQo kernel callbacks, tasks, timers (`mips/psyqo/src/kernel.cpp`, `task.*`, `gpu.*`) | ring of 32 callbacks and its flag; a `TaskQueue`'s index, handlers and parent; clock, last reading of the counter, list of timers | queue, pump; build, run, embed, resolve, reject; arm, change, pause, resume, cancel | interrupt handlers, main loop, each other: a timer resolves a task, a callback pumps | a ring that overwrites; callbacks that change what called them; a counter and a clock that wrap | callbacks in order; every run of a queue ends and calls its handlers; timers fire, and not early | modelled, partly proved |
| OpenBIOS CD-ROM driver (`mips/openbios/cdrom`, `kernel/events.c`) | `s_currentState`, `s_gotInt5`, sector and transfer counters; the flags of five events; in the caller, tries left | initialisation, seek, read, status, mode; the interrupts of the controller and of its DMA channel; the calls that wait | CD-ROM controller, DMA, kernel's events, the program that polls | events of one operation seen by the next; a reset tried again before it is over; errors in the middle of a read | an event means that its operation is over; a read that succeeds is whole; a call fails for a reason and ends | modelled, partly |
| OpenBIOS kernel (`mips/openbios`) | threads, heap, interrupt chains, files | syscalls, interrupt handlers | all devices | nested exceptions | events delivered once | not modelled (the delivery of events is in the driver's model) |
| CPU cores, GTE, PGXP | registers | instructions | all | data, not order | equals the hardware | not modelled: the correctness is arithmetic, covered by the CPU tests |
| GPU, SPU, MDEC data paths | pixels, voices, blocks | rasterise, mix, decode | DMA | data | equals the hardware | not modelled (their DMA control is) |
| Memory map, disc image readers, support containers | tables, parsed files | look-up, parse | CPU, CD-ROM | sequential | unit tests | not modelled |
| Debugger, gdb and web servers, GUI, Lua, main | breakpoints, connections, windows | user actions | all | protocol parsing | | not modelled, except loads of states, resets and lid moves, which are inputs of the models |
| Guest examples, tools, hardware, vendored code | | | | | | out of scope |

## 2. Modules

```
EventTimers      what a scheduler promises (abstract)
  ^ refined by
EventScheduler   scheduleInterrupt and branchTest      <- MCEventScheduler   EventScheduler_proof
RootCounters     Counters: events, gates, scanlines    <- MCBranchTest, with EventScheduler    EventScheduler_proof
DmaController    DPCR, DICR, CHCR, MDEC coupling       <- MCHardware, with CdRom    GuestDrivers_proof
  ^ extended by
PsyqoDma         dmaIRQ and a program that waits       <- MCGuestDrivers     GuestDrivers_proof
CdRom            the CD-ROM controller                                       CdRom_proof
  ^ extended by
PsyqoCdRom       CDRomDevice: irq() and the actions                          PsyqoCdRom_proof
OpenBiosCdRom    OpenBIOS's driver (extends CdRom)     <- MCOpenBiosCdRom    OpenBiosCdRom_proof
AudioClock       frames, goals, who counts
StreamQueue      what the ring promises (abstract)
  ^ refined by
AudioStream      circular.h and the mixing thread
  ^ both extended by
AudioOutput      the four threads together             <- MCAudioOutput      AudioOutput_proof
UvFile           a file, the libuv thread, its pool                          UvFile_proof
PsyqoCallbacks   the kernel's ring of callbacks  \
TaskQueue        tasks, handlers, embedded queues >    <- MCPsyqoMain        PsyqoMain_proof
PsyqoTimers      the clock and the timers        /
CardStore        what a program expects of the cards (abstract)
  ^ refined by
CardDriver       OpenBIOS's driver                     <- MCGuestDrivers, with PsyqoDma    GuestDrivers_proof
  ^ extends
Sio              the serial port, as operators
  ^ extends
MemoryCard       a card's answer to a byte
```

### EventScheduler

Variables `cycle`, `interrupt`, `intTargets`, `lowestTarget` are the members of `m_regs` of the same
names; `interrupt` is the set of its one bits.  `branchTest` is not atomic, so its locals are
variables: `now` (its `cycle`), `snapshot` (its `interrupts`), `index` (how far down the row of
`checkAndUpdate` lines it is), `nearest` (`lowestDistance`) and `newLowest` (its `lowestTarget`).

| action | code |
|---|---|
| `Execute`, `TakeBranch` | guest code; the branch that calls `branchTest` |
| `Schedule`, `Cancel` | `scheduleInterrupt`; the places that clear a bit (`SIO::writeCtrl16`, `StopReading`) |
| `EnterPass`, `SkipPass` | the `if` after `Counters::update` |
| `PassOver`, `Remember`, `Fire` | the three outcomes of `checkAndUpdate`; `Fire` includes what the handler schedules and cancels |
| `EndPass` | `m_regs.lowestTarget = lowestTarget` |
| `SaveState`, `LoadState`, `Reset` | the GUI, in pause or inside `Counters::update` |

Two things of the code decide the properties.  `int32_t lowestDistance` is initialised with the
maximum of an `int64_t`, which is -1 once converted (`InitialDistance`): no distance is ever nearer, so
each pass ends with `lowestTarget = now` and the next branch test walks the row again.  That is slow
but safe; with the constant the code seems to mean, the lowering of `lowestTarget` by a handler inside
the pass would be overwritten and lost, as the mutant of `NothingOverdue` shows.  And a state loaded
from inside `branchTest` leaves `now` of the old state behind: `view` records this, and the properties
speak of the time when it is `"fresh"` again.

Devices are abstracted to the tables `MayArm` and `MayCancel`: what a handler may do to the scheduler.
`MCEventScheduler` gives them the values of SIO, the CD command event and the CD sector event.

`EventTimers` is the promise without the bookkeeping: a due time per event, and a service that may
only finish when nothing that was due before it is left.  `KeepsTime` says that `EventScheduler`
implements it under the mapping `due[i]` = `intTargets[i]` if `i`'s bit is set, else off.

### DmaController

`dpcr`, the five fields of DICR, `dmaBusy` (bit 24 of each CHCR), `dmaIstat` (bit 3 of ISTAT), the
completions scheduled (`dmaPending`), and the two facts that couple the MDEC's channels: `parked`
(`pending_dma1.adr` is not 0) and `decoding` (`MDEC1_BUSY`).  `refused` is a history variable: channels whose bit 24 is set
although no device took the transfer on (disabled in DPCR; ignored by the MDEC; PIO), or although the MDEC gave it up: at a reset, and at
once if it is an output to address 0 that comes before its stream (`ParkedAt(0)`), since the address is the only mark of a parked one.  `Raise` is
`dmaInterrupt` followed by `dmaInterruptError`; `WriteDicr` is the write handler with its own computation of
bit 31; `Outcomes(c)` are the ways device `c` reacts to a start, one for each path through its `dma`
function.  `Finish(c)` is the scheduled completion, that of the MDEC's output ending the input, too, when
the stream is used up.

### PsyqoDma

Extends `DmaController` with the CPU: `pc` is how far `dmaIRQ` is (each access to a device register is a
step of its own, and `Complete` may come between any two), `read` its local copy of DICR, `calling` the
channels still to call back; `Registered` are the channels in use that PSYQo registers a callback for,
which are those its program starts; `copy` is the same for the read and write by which a program arms a channel,
and `awaited` the transfers whose callback has not run.  `Overlap = "no"` is a program with one transfer
at a time.

### CdRom

The controller's members that decide what happens next, and the set of its scheduled events.  One action
per register write and per path through `interrupt`, `readInterrupt`, `playInterrupt` and
`lidSeekInterrupt`.  Commands with the same control are one command (the module's header lists them).  The number of Sync is 0, which in `m_irq` means that
nothing is due: while it waits for its answer reads and plays are not put off, and a second one is not merged with it (`IrqOf`).
Abstracted: positions (a `Setloc` is `far` or not), the sector buffer and its DMA (the latter is in
`DmaController`), results, and *delays*: an event fires at any time after it is scheduled.  A handler that
finds an unacknowledged response only schedules itself again; in the model that is a guard.  The guest
acknowledges a response as a whole, and enables the response interrupts all together or not at all.

### PsyqoCdRom

Extends `CdRom` with the driver: `pc`, `ranOnce` and `cause` are how far `irq()` is and its locals;
`action`, `state`, `blocking`, `table`, `toEnd`, `count`, `location` are the members of the device and its actions; `queued`
holds the callbacks put in the kernel's ring.  `ReadStep` and `PlayStep` are the tables of what an
acknowledgement leads to, `TocMore` decides whether `readTOC` asks for another track; `Overrides` says which responses an action has a function for (the others abort: `NotImplemented`).
A call that blocks chooses `blocking` at its start (`Begin`, `Blocks`), polls until its action has ended, and then returns (`Return`); without blocking the end is a callback to run (`Finish`).
`broken` records the abort or assertion that ended the program, or that it wrote past the program's table.  Time matters
here: the driver relies on cycle counts that the controller model leaves open.  A command is
answered 0x800 cycles after it is written, a `Pause` completes some 7000 cycles after that, sectors and frames of
audio are 451584 cycles apart (half that at double speed).  `Timely` lets an event fire while a response is being handled only if
`Hurry` contains `"late"`, and then never the answer to a command the handler has just sent; `MayStart` lets
an action start while a PLAY event of stopped audio is still to come only with `"restart"`.

### OpenBiosCdRom

The other driver of the same controller.  `state`, `gotInt5`, `initialized`, `sectors` and `transfers` are the statics of `statemachine.c`; `delivered`
holds the kernel's events that are pending; `isr` and `cause` are how far the interrupt's verifier and handler are; `dma` and `dmaIstat` stand for the channel that
copies a sector; `call` is where the program is.

| action | code |
|---|---|
| `PrepareInit`, `SendInit`, `InitReturns`, `Delay` | `initCDRom` and `cdromInnerInit`, which is tried until the controller has started over |
| `BlockReading`, `SeekL`, `SetSeekState`, `Sought`, `BlockRead`, `ReadReturns`, `GiveUp` | `cdromBlockReading` between the points where it polls, `cdromSeekL` in two, around its last assignment |
| `GetStatus`, `StatusReturns` | `cdromBlockGetStatus` |
| `DirectRead`, `DirectSetMode`, `TestEvent` | the calls that do not wait, and a program that looks at the events itself |
| `Verify`, `Dispatch`, `IOHandler` | `cdromIOVerifier`, whose second half is one state of the machine, and `cdromIOHandler` |
| `DMAInterrupt`, `TransferEnds` | `cdromDMAVerifier` and `cdromDMAHandler`; the transfer |

Initialisation waits a number of rounds, and what matters is whether that is longer than the answers to a command take: a `Reset` takes 4.1 million cycles, more than the
30000 rounds of `cdromInnerInit`; its acknowledgement takes 0x800, and less (`TakesLong`, `Delay`).  So the first tries fail, and their responses come in the next ones.
An interrupt is taken before the program's next instruction, and a response is handled before the next one is ready (`Timely`); with `Hurry = {"preempted"}` something else
may hold the program up between two instructions of `cdromSeekL`.  `why` and `silenced` are history: what gave a call a reason to fail, and whether a lid stopped a read.

### RootCounters

`rcnt` is `m_rcnts`, `next` and `line` are `m_psxNextCounter` and `m_hSyncCount`.  The code keeps absolute cycles, `cycleStart`
and `m_psxNextCounter`; the model keeps both relative to the present cycle, so that a run has finitely many states without a
horizon.  `Top` and `Word` stand for 0xffff and 2^32: every product of a count and a rate is reduced modulo `Word`, as in
`writeCounterInternal`, and every count modulo `Top + 1`.

| action | code |
|---|---|
| `Run(n)` | `n` cycles of guest code that end in a branch: `branchTest` calls `update` if `m_psxNextCounter` has come |
| `ReadCounter`, `ReadMode`, `WriteCounter`, `WriteMode`, `WriteTarget` | the register accesses, each of which calls `update` first |
| `Reset` | `HW::reset`, which calls `init` and leaves modes and targets as they were |

`Updated` is `update`: `Event` for each counter that has `Expired` (the code's `reset`), then the scanline, the gates and the
vertical blank.  `set` runs after each event and when a gate opens, but not when a gate restarts its counter, and `next` is
computed from the counters as the last call of `set` saw them.

Three history variables tell what should happen: `clock` counts cycles modulo a frame, `truth` counts, cycle for cycle, what a
counter that really counts would show, and `expected` whether it would have interrupted.  They follow the register accesses, and know nothing of
events, start cycles or rates.  Only counters of rate 1 that are not stopped and not restarted at each blank are judged (`Judged`);
`OnTime` holds of slow counters too.  `CountersAssumption` is what the code takes for granted of the interpreter: it branches
or touches a register before a counter could have its next event twice.  Without it (a target of 16 counts, reached twice in one block of code) a counter to be reset at
its target runs past it and on to 0xffff.

### AudioClock, AudioStream, AudioOutput

`AudioClock` is how the machine keeps the pace of its sound.  `frames`, `goalpost` and `previousGoalpost` are the members of
`SDLAudio`; `moved` says whether `m_triggered` changed since `waitForGoal` read it, which is all that its
value is for; `adding` holds what `fetch_add` returned to a consumer that has not compared it yet.  `audioFrames` is `m_audioFrames`, `since` the cycles
since `previousCycles`, counted in frames.  Frame counts are modulo `2 * Half`, and `Ahead` reads their difference as signed.

| action | code |
|---|---|
| `Add`, `Check` | the two halves of `advanceFrames`, of the device's callback and of the null thread |
| `Update` | the block at the start of `Counters::update`: the goal, or, when the machine is far too late, giving up |
| `Load`, `Store`, `Wake` | `waitForGoal`, in the order of its accesses |
| `ResumeExecution`, `PauseExecution`, `GuestBreak`, `EndBlock` | the listeners of `Run` and `Pause`; the machine may be paused by the code it executes, whose block then goes on |
| `ChangeSettings`, `Reinit` | the audio window |
| `Restart` | a reset, or a state loaded |

`AudioStream` is the ring, slot by slot, with both indices and the size, and the mixing thread with its wait of 200 ms.
`mixer` is where that thread is; `"notified"` is a thread that was waked and has yet to test its predicate again.  It refines `StreamQueue`: `StreamSafe`
under `queue` = the frames from `begin` on.  `AudioOutput` puts both together: a slice of the callback drains the ring and counts
its frames in one action of the device's thread, and `SaveOrLoad` makes the main thread stop the mixer.

### UvFile

One file, its owner, the libuv thread and the operations in flight.  `main` is where the owner is, `uv` where the
thread is; `requests` is `s_queue` in the order of the sequence numbers, which is the order they are served in whatever order the queue
returns them; `flying` holds what was handed to libuv or curl.  `cachePtr`, `cached`, `cache`, `progress` and `barrier` are the
members of the cache (`progress` is `m_cacheProgress`, of which only 0, 1 and what lies between are told apart), `pendingWrites` and `closePending` those of `PendingCloseInfo`.  `fd`, `disk` and `diskSize` are the operating
system's.  Chunks stand for bytes, and what a chunk holds is the number of its write; so `last`, a history variable, says what a read should
return, and `racy` names the operations that were submitted while a write of the same chunk was in flight: the pool runs these in either order.
`silent` is a server that sends no more without closing the connection: curl is driven by its sockets and its timer, so none of its callbacks comes then.

The progress of a cache is a float, and 1 stands for "done".  In a file of more than 2^24 bytes the ratio that is stored after all but the last chunk
may be rounded to 1 (`Ratio`; the download clamps its own to 0.99).  The history variable `early` says that it happened; from there on the owner may take
the cache for whole, close the handle or free the memory under the last chunk, and what comes of that is `"crashed"` (`ChunkLost`).

| action | code |
|---|---|
| `StartCaching`, `Read`, `Write`, `Close`, `FinishClose` | the owner's calls; `closeInternal` in two, around its wait |
| `Stop`, `Unref`, `Join` | `stopThread` |
| `Serve` | the callback of `s_kicker`, with the functor it runs |
| `Complete` | the callbacks of `uv_fs_read` (`ReadDone`, `ChunkDone`, `ChunkLost`), `uv_fs_write`, `uv_fs_close` |
| `Finish` | the value of the promise, set after `m_cacheProgress` |
| `XferInfo`, `CurlWrite`, `DownloadDone` | curl's callbacks, which need a server that is heard of |
| `FallSilent` | the server of the download |

### MemoryCard, Sio, CardDriver

`MemoryCard` and `Sio` are operators on records: what a card does with a byte (`Transceive`), and what the port does with a byte and with a
write of its control register.  `CardDriver` is the state machine on top.  A byte is the set of its bits, so that the checksum is a
symmetric difference; constants keep the values of the code.  `mc` holds the driver's globals, `asked` and `buffer` are per slot; `flags` is
`g_mcFlags`, reduced to 1 for whatever ends a request.

| action | code |
|---|---|
| `Ask`, `AllowNewCard` | `mcReadSector`, `mcWriteSector`, `cardInfoInternal`, `mcAllowNewCard` |
| `McHandler` | the interrupt's verifier and handler: one operation of `mcReadHandler`, `mcWriteHandler` or `mcInfoHandler` and what follows from its result |
| `FastWrite`, `FastRead` | the exception handler's fast track (`cardfasttrack.s`) |
| `VBlank`, `ReadPad`, `FirstStage` | `sio0Handler`: the poll of both controllers if a program has started them, then abort, pass over or start |
| `Interrupt` | `SIO::interrupt` |
| `Insert` | the user's settings |

A poll of a controller selects the port and sends 01 42 00.  If the card is in the middle of a transaction (`device` is set) it takes these for its own:
that is `PadBytes`, as far as the card acknowledges them.  Otherwise a controller may answer or not (`Polled`).

`CardStore` is the promise: a sector changes only while a write of it is under way, and then to all of what was to be written; a success means
that the request was carried out; a failure means nothing, not even that nothing was stored: the byte that ends a request may be the one that makes the card
store (`Fail`).  `StoreSafe` says that the driver, the port and the cards implement it.

### PsyqoCallbacks, TaskQueue, PsyqoTimers

Three parts of PSYQo that call code of the program from a loop of their own; each has a stack of what is being called, so that a
callback may come back to the part that called it.

`PsyqoCallbacks`: `slots`, `begin`, `end` and `size` are EASTL's `fixed_ring_buffer` with its spare slot, `flag` is `s_flag`.  `pumps` holds the active
calls of `pumpCallbacks`: what each has left to call and the slot at the front.  `Enter` and `Leave` are before and after the call; between them, as
in the program, interrupts queue.  Callbacks are numbered in the order they are queued.

`TaskQueue`: an outer and an inner queue, which may be embedded in the outer one or run alone.  `set`, `index`, `running` and `parent` are the members;
`calls` is the stack: `"next"` and `"fail"` are `runNext` and `runCatch`, `"task"` is a runner, `"catch"`, `"finally"` and
`"moved"` (the finally handler that `runCatch` took out) are the handlers, `"resolved"` and `"rejected"` the test of `m_parent` that comes last.  A task completes once, at
once or later; programs that run a queue that runs are left out, as the documentation says that this is undefined.  A queue may be run again, and its handlers may
build it and run it.  `MayRun` and `MayRestart` leave out two cases in which the code goes wrong (section 4); `Habits` puts them back.

`PsyqoTimers`: time is counted in blanks and has no end; `elapsed` is what the clock should tell, `unseen` the blanks since the last reading, and `left` how
far each timer is from its due time, reckoned without clock or deadlines.  `pumpCallbacks`, `CallTimer`, `TimerReturns`, `CallQueued` and `PumpReturns` are one
call of `GPU::pumpCallbacks` with its double loop; `Program` is what any code of the program does with timers, in a callback or outside.

The three share no variable; in the code they meet in `GPU::pumpCallbacks`, which calls the timers and then the kernel's callbacks, either of which may resolve a task.
`MCPsyqoMain` checks them in one run, one part in each behaviour, so that their states add up instead of multiplying.  What crosses from one to the
other is in each model an action that may come at any time: a callback that is queued, a task that is completed, a timer that the program arms.

## 3. Runs

| run | instance | shows |
|---|---|---|
| `branch_test` | three events, delays 0 and 2, blocks of 1 and 3 cycles, 5 cycles; or counter 1 and the scanlines, counts of three bits, products of six | `KeepsTime` (refinement), `Served`: every event within the horizon is handled, cancelled or rescheduled; `CountersOnTime` (`OnTime`, `LinesOnTime`), `CountersTrue` (`CountsTrue`, `InterruptsTrue`) |
| `scheduler_gui` | two events, 4 cycles, states saved and loaded and resets in both places the GUI runs | `NothingOverdue` outside the state that a load from inside `branchTest` left |
| `hardware` | nine commands of the CD-ROM, two sets of modes, arbitrary guest, lid and reset; or both MDEC channels, any write to the registers, list errors | `CommandDue`, `EventsRight`, `QuietWhileStopping`, `DriveGetsReady`, `ResponseKept`; `NotForgotten`: a busy channel that is not in `refused` has a completion to come, or waits for the other; `InterruptsOnEdge` |
| `guest_drivers` | three DMA channels, one transfer at a time; or two slots, one card that comes and goes, seven requests | `NoCallbackLost`, `CalledBack`; `StoreSafe` (refinement), `RequestsEnd`, `AnswersRead` (`TypeOK`): the port holds one answer at most |
| `psyqo_lost` | two channels that overlap | **violated**: `CalledBack` (the finding below) |
| `psyqo_cd` | every action but mute, blocking or not: reads of up to two sectors, tracks, discs, pauses, locations, tables for two or three positions on a disc of two tracks; all hurry | `ResponseSeen` always; `DeviceAgrees` (`NeverAborts` and `NobodyForgotten`), `ActionsEnd`, `PlaysEnd` for careful programs |
| `psyqo_mute` | a program that mutes | **violated**: `NeverAborts` (a finding below) |
| `psyqo_disc` | a program that plays to the end of the disc | **violated**: `DiscEnds` (a finding below) |
| `openbios_cd` | reads of one and two sectors, waiting or not, requests of status and mode, two sectors in error; or waiting calls, one error, and a lid that moves twice; two tries | `DriverSound` (with `NobodyForgotten`), `ReadsWhole`, `FailsForCause`, `CallsEnd` |
| `audio` | a ring of three frames, blocks of two; frame counts of four bits; both consumers, every pause, change, save and load | `NotEarly`; `StreamSafe` (refinement); `WaitEnds`, `MixerStops` |
| `uv` | files of up to two chunks, two writes, every order of completions, both roundings of the progress, a server that falls silent | `HandleKept`, `CacheKept`, `ReadsLast`, where the progress was not rounded to 1; `WaitsRight`, `Durable`; `CloseEnds`, unless the server falls silent or a chunk is lost |
| `psyqo_main` | a ring of three, eight callbacks, interrupts at any time; two queues of two tasks, every set of handlers, two runs of each; two timers, a counter of two blanks, a clock of six, delays of one and two | `CalledInOrder`, `RingSound` (`NeverPopsEmpty`, `NoneForgotten`); `QueuesSound` (`GoesOn`, `HandlersOnce`, `Cascades`); `TimersSound` (`ClockTrue`, `SingleFiresOnce`, `NotEarly`); `AllDone` (`AllCalled`, `RunEnds`, `DueFires`) |

Four runs put parts that share no variable side by side, one in each behaviour (`MCBranchTest`, `MCHardware`, `MCGuestDrivers`, `MCPsyqoMain`), so that their states add up; the names in brackets are the conjuncts, in the parts' own modules.
Under the liveness properties of four parts lies a safety property of its own, which needs no fairness: whoever waits, waits for something that is on its way.  `NotForgotten` says it of a busy DMA channel,
`NobodyForgotten` of the actions of PSYQo's CD-ROM device and of the calls of OpenBIOS's driver, `WaitsRight` of the program and the thread of `UvFile`.  Fairness adds that what is on its way arrives, and
the run checks that there is an end to it.
The type invariants of the counters (in `LinesOnTime`), of the memory cards' driver (in `AnswersRead`) and `openbios_cd` (in `DriverSound`) and of the task queues are checked by TLC as well as proved.  Those of the other modules, and `SummaryBit`, `OnlyAwaited`, `ReadsGoOn`, `OneClock` and `ShortWaits`, are
proved for every value of the constants (section 5), and no run repeats them.

**Bounds.**  The scheduler's horizon `MaxCycle` bounds the cycle counter, which else grows for ever; with
delays of at most two and blocks of at most three cycles, five cycles hold two or three passes, with events that
come due before, at and after them, from handlers and from the guest: the hazards need one event
rescheduled or cancelled in a pass and one more pass to notice.  (The proofs need no horizon.)  Two or
three DMA channels are enough for a flag that rises while another is handled.  The CD-ROM has one command of each shape:
answered once (`Setloc` and `Setmode`), twice, starting reading, audio, a seek, the lid sequence, changing modes, and Sync; the theorems cover
every set of commands and modes.  Two sectors are a first and a last one.  On a disc of two
tracks a table of two positions fills up before the last track is known, and one of three does not.
In `branch_test` counters of three bits have targets below, at and above a count that is written, and 0xffff; with scanlines of four cycles and
blocks of one or two, updates are late by every amount they can be, and counter 1 lives through resets at its target, overflows and both blanks of a three-line frame.

`audio`: with counts modulo 16 the frame counter wraps around often; `MaxDrift` bounds how far consumers run on after the last
goal, since 2^31 frames without a wait are thirteen hours.  A block of two in a ring of three starts at every slot, is split by the
end of the ring, and a second one does not fit.  One kind of block is enough for the run, as its two frames differ; the theorem takes any blocks.
`uv`: two chunks give a cache with a first chunk, a last one and something in between; two writes are a pair to one chunk, or
one past the end.  The theorems need no bound.  The cards of `guest_drivers`: a sector has two bytes instead of 128, one by the handler and one by the fast track of a read;
the values stored (`MCGuestDrivers`) are those for which the bytes of a poll are a valid checksum or complete a sector, the case in which a poll could write.

`openbios_cd`: two sectors are a first and a last one, so that an error comes before, between or after transfers; two tries are one that is repeated and one that is not; two errors make a
try fail that follows one, and use up both tries; two movements open the lid and close it, and the driver meets the drive in each of its five states.

`psyqo_main`: eight callbacks go round the ring of four slots twice, and fill it while one is running.  Two tasks are one that goes on to another and
one that ends the queue; two runs show what the first leaves behind.  Nothing bounds the time of the timers: counter and clock wrap around again and again; `InReach` keeps deadlines within half the clock's range, as `gpu.hh` 428 asks of delays.

**Deadlock** is checked except in `psyqo_cd`, `psyqo_mute` and `psyqo_disc`, where a program that has run into an abort stops, in `uv`, where the program ends, in `openbios_cd`, where a read that the lid has silenced is waited for without end, and in
`psyqo_main`, where all callbacks were called or all runs are done.

**Fairness.**  `EventScheduler`: the CPU keeps executing and runs into branches (`TakeBranch`), and `branchTest`
runs to its end: it has no wait.  `PsyqoDma`: scheduled completions come (`Served`), interrupts are off for
bounded times, the handler runs to its end.  `PsyqoCdRom`: each of the controller's events comes, the handler and the main
loop run, and a call that polls looks again.  `AudioOutput`: the operating system schedules the threads, calls back a device that plays, and lets 200 ms elapse; the main
thread goes on inside `waitForGoal` and at the end of a block.  `UvFile`: the loop runs, each operation that was submitted completes, curl ends a
download that is cancelled as long as the server is heard of (no other need end, and a silent one does not), and an owner that began to close goes on.  `CardDriver`: VBlanks come, and their handler, whose loops
are all bounded by counters, returns; interrupts of the cards need not come, as the VBlank ends what they do not.  `PsyqoCallbacks`, `PsyqoTimers`, `TaskQueue`: the main loop pumps, callbacks return,
and a task that waits is completed.  All this fairness is weak: nothing relies on the choice among the guest's actions.
`OpenBiosCdRom`: the program and the handlers go on, weakly; each event of the controller comes, strongly, because a handler that runs in between disables it for a moment (`Timely`) and no event
is put off for ever by that.  `ResetOver`, strong too, says that the end of a reset does not fall between two tries of `cdromInnerInit`, a few instructions against 30000 rounds, time after time.
No fairness is assumed of what the guest, the program or the user may do.

**Careful programs.**  `careful` turns 0 when an action starts while a PLAY event is pending, when a response
comes while another is being handled, or when a location is asked for.  Without it TLC
finds these further ends of the program, which `DeviceAgrees` therefore excludes, and which no
document of the driver rules out or admits:

- a sector arrives between the acknowledgement of the last response and the `Pause` that follows from it (`cdrom-device.cpp`
  line 75, `cdrom-device-readsectors.cpp` lines 67-68): `dataReady` in state PAUSE;
- the loop in `irq()` handles a second response, whose interrupt then enters `irq()` again with no cause
  (`cdrom-device.cpp` lines 68, 42 and 135), or with no action;
- audio ends while the answer to `getPlaybackLocation` is to come (`cdrom-device-cdda.cpp` line 150): the answer finds no action
  (`cdrom-device.cpp` line 72);
- `pauseCDDA` is called while that answer is not yet handled (`cdrom-device-cdda.cpp` line 141): it is taken for the pause's.

The first two need a handler delayed by a sector's time, 15 ms; the last two an ordinary program that polls its position.

## 4. Findings

*DMA.*  `dmaIRQ` (`kernel.cpp` 292-306) acknowledges the flags it read.  A channel that completes between the
read and the write keeps its flag, so bit 31 of DICR stays set, and by `InterruptsOnEdge` no DMA
interrupt ever comes again: neither callback that is still awaited runs.  `kernel.hh` promises that all registered callbacks will be called.
It takes a completion within those few instructions, and two channels in use at once, e.g. the SPU's and the GPU's.

*Mute.*  The actions of `mute` and `unmute` override `complete` only (`cdrom-device-muteunmute.cpp` 51, 88).  The controller answers both commands with an acknowledgement and
nothing else (`cdrom.cc` 783-789), and `ActionBase::acknowledge` aborts: every call ends the program (`psyqo_mute`).  `cdrom-device.hh` 304-306 promises a callback.

*The end of the disc.*  The controller tells the guest of it only under AUTOPAUSE or REPORT (`cdrom.cc` 537-545), neither of which `playCDDADisc` sets.
The second call of its callback, which `cdrom-device.hh` 328-332 promises, does not come (`psyqo_disc`).

### Observations

Behaviour met while modelling.  The models contain it, or a guard or a property names what it leaves out.

*Callbacks that pump.*  `Kernel::Internal::pumpCallbacks` (`kernel.cpp` 416-418) and `GPU::pumpCallbacks` (`gpu.cpp` 574-583) finish their bookkeeping after the call.
The blocking methods of the GPU, the CD-ROM and the memory cards all pump, and may be called in a callback (`examples/task-demo` does).  Then a callback
of the kernel is called twice and later ones are dropped, although `kernel.hh` 296 queues it for any idle moment "like various blocking operations"; a single timer fires again from inside its own
callback, although it is to be "disabled upon being fired" (`gpu.hh` 428); and the clock counts the blanks since the last reading twice, so that
timers fire early.  With `MaxDepth = 2` TLC shows each of these, as violations of `CalledInOrder`, `SingleFiresOnce` and `NotEarly`; the run has `MaxDepth = 1`.  A timer that its own callback
cancels is erased under the loop, which `cancelTimer` leaves out.  To remove a callback or a timer before it is called, and to store the reading at once, would do.

*Task queues.*  `runCatch` (`task.cpp` 91) moves the finally handler out and does not put it back, so a queue that was rejected and is run again does not call it,
although `task.hh` 110-111 lets `run` "be called multiple times" (`Habits = {"rerun"}` violates `HandlersOnce`).
A handler of an embedded queue that runs the queue anew clears `m_parent` (62) before it is looked at (81, 98), and the outer queue waits forever (`Habits = {"restart"}` violates `QueuesSound`);
the loader of `psyqo-paths` (`cdrom-loader.cpp` 50) calls back from its finally handler, so that to read the next file from there is such a case.
The archive manager's task for an entry that is missing is never resolved (`archive-manager.cpp` 115).

*CD-ROM.*  `StopCdda` leaves the PLAY event scheduled (`cdrom.cc` 194).  The next action's `Setloc` makes a seek pending, the
stale event completes it, and `readSectors` aborts on a `Complete` it does not expect (`cdrom-device-readsectors.cpp` 88-89).
`careful` turns 0 there; drop the conjunct from `DeviceAgrees` and TLC shows it.
`PlaysEnd` leaves out a program that plays to the end of the disc, which is the third finding.
The time left of a repeated command is an unsigned difference (`cdrom.cc` 590): the second copy is answered only if the event comes exactly on time, else it is dropped.  `CommandDue` holds either way.
`readTOC` stores a position before it compares the track with the size of the table (`cdrom-device-toc.cpp` 120-125): a table of one entry, which holds no track at all as tracks count from 1, is
written past its end.  With `Sizes = {1}` TLC shows it, as a violation of `DeviceAgrees`.

*OpenBIOS and the CD-ROM.*  `cdromSeekL` sets the state after it has sent the command (`statemachine.c` 93): a program that is held up there for 0x800 cycles, e.g. by another handler, has its acknowledgement handled
in the state IDLE, and waits for the seek for ever (`Hurry = {"preempted"}` violates `CallsEnd`).  A lid that opens while sectors are read stops them without a response (`cdrom.cc` 302-313), and `cdromBlockReading`, which has no time-out,
waits for ever; `CallsEnd` leaves out a program whose read was `silenced`; `NobodyForgotten` says, and `DriverStaysSound` proves, that this is the only way to wait in vain without a program that is held up.  `s_needsCDRomReset` (`main.c` 281) is never set, so `cdromReset` and `cdromReadTOC` are never called.

*Root counters.*  A stopped counter has the rate 0xffffffff (`psxcounters.cc` 310), by which counts are multiplied in 32 bits: any count but zero
written to it lies beyond its next event, which is due at once and at every branch, although line 305 says that it is stopped.  A counter restarted at each blank may notice its target as late as the
next scanline; with a target of 0xffff the interrupt on target never comes; in toggle mode bit 10 flips at every event; the fraction of a
count is dropped at each event of a slow counter; a loaded state starts the counters that wait for a blank (`sstate.cc` 450).

*Audio.*  The emulated code may pause the machine (a write to 0x1f802081, `psxhw.cc` 457-459): the listener pauses the device and joins the null thread, and
the rest of the block then runs into `Counters::update`, which waits for a goal that nothing will reach (`psxcounters.cc` 172).  `GuestBreak` and `EndBlock` model this; `WaitEnds` is about waits with
a consumer left.  Likewise a device that will not resume leaves a dummy one that nobody starts (`fallback`).  Giving up
(`psxcounters.cc` 174-175) sets `m_audioFrames` but not `previousCycles`, so the next wait covers the lost time again: `ShortWaits` excludes it by `gaveUp`.
The mixing thread's own test for a full buffer compares with 24192 bytes more than the ring can hold: it is `enqueue` alone that paces it.
`enqueue` never takes a block that would fill the ring (`circular.h` 58 has `<`).

*MDEC.*  An output whose address is 0 after masking and that comes before its stream is put aside with an address that says there is none (`mdec.cc` 428, 490): `dma0` does not start it, and its
channel stays busy.  So does a parked one when the MDEC is reset (388).  `refused` takes both out of `NotForgotten`.

*Files.*  In a file of more than 2^24 bytes the progress of the cache may be 1 before the last chunk is read (`uvfile.cc` 750; 2^25 + 1 bytes is such a size): a read then
closes the handle (442), or a close frees the cache (213), with that chunk in flight, or a read copies what is not there yet.  `early` takes these out of `HandleKept`, `CacheKept` and `ReadsLast`; without it TLC shows each of them.
Closing a download only sets a flag that curl's callback looks at (211, 355), and curl calls back when it hears of the server: on a connection that stalls, `close` waits for ever.  `CloseEnds` leaves out a server that is `silent`.
A write to a file that could not be opened uses a null `m_pendingCloseInfo`; a write past the end of a cached file leaves bytes of the cache uninitialised;
overlapping writes land in either order; a file that becomes shorter while it is cached is read again for ever; a read of a download whose size is not known yet returns an
error; `readCacheChunk` touches the file object after `m_cacheProgress` (`uvfile.cc` 719-724), when a close may have passed and the file been deleted.
The program that `UvFile` models writes only to a file that was opened, and leaves no gap behind its end; accesses to a deleted file object are not
modelled, though `Finish` is a step of its own so that a close may come in between.

*Memory cards.*  The driver accepts sector 0x400 (its test is `>`): a read returns ff, a write waits for the abort.  A request for one slot resets
`g_mcOperation`, so the other slot's request, if under way, fails.  A poll of the controllers in mid-transaction goes to the card, and so do the first
bytes, 81 57 00, of an operation that was reset; either can complete a write whose request is then reported as failed, the latter with the very byte after which the
driver gives up: `CardStore` allows a failure to have written, or to write.  The flag byte's bit 2 never comes from this card, so the error branches on it are not reached.

## 5. Proofs

All theorems hold for every value of the constants that satisfies the named assumptions, which type the
constants.  Four say more: `CardsAssumption`, that a sector has 128 bytes or fewer; `StreamAssumption`, that
blocks are shorter than the ring, 810 frames against 2048; `ClockAssumption`, that a step of emulation and one of consumption stay within half the range of the frame counter; and
`CountersAssumption`, that no stretch of code between two updates of the root counters is longer than a scanline or as long as a count from zero to a target, nor goes from a target to beyond an overflow, and that a
slow counter's products fit in 32 bits (8, or the two thousand cycles of a scanline, times 0xffff do).
A theorem about a program of a particular kind says so in its statement, and below is why: `Overlap = "no"`, `GuiAt = {}`, `Supported`, `Hurry = {}` of OpenBIOS's driver, `MaxDepth = 1` and `Habits = {}`.

- **EventScheduler_proof**: `TypeCorrect`, `NoEventOverdue`, `ImplementsTimers`.  `NothingOverdue` is not inductive: it says nothing of
  the time inside `branchTest`.  `IInv` adds `LowestIsSafe` (while the guest runs, either `lowestTarget` has passed, so that the next branch
  test will enter the row, or it is no later than any event), `NowIsFresh`, and `PassCovers`: in a pass, an event that is still armed is not
  due, or is in the snapshot at a position yet to come; and `nearest <= 0`, which is where the conversion to -1 enters.
  `ImplementsTimers` is `KeepsTime`, step by step: `Finish` of `EventTimers` follows from `NothingOverdue` after the step, `Handle` from
  the lemma `DueAfter`, which says what arming and clearing do to the due times.  It assumes that the user keeps his hands off (`GuiAt = {}`), as a
  state that is loaded replaces what the promise was about; the run without the GUI assumes the same.
  Of the root counters: `EventsOnTime`, `CountersRight`, which are `CountersOnTime` and `CountersTrue` for any width of the counts, rates, targets, modes, scanlines and frames.  What `OnTime` says of
  the next event is not inductive, as it does not say which event that is.  `CountInv` says of each counter that counts freely that its next event is the first it will come to and has
  not come (`Well`: a target above the count, or the overflow with the target behind it or at 0xffff), that `next` is no later than any of them (`InTime`), and that the count of each one that is judged is that of `truth`
  (`Shows`); and that the line times its length, plus what went by of the present one, is the clock.  `Fits` is what never changes of a counter, the one of the scanlines above all.
  `LoadedWell` and `CarriedRight` are the arithmetic of `writeCounterInternal` and `reset`: whatever count is loaded, and whatever is left over of the last one, what follows is `Well` again, and no product is cut off.
  `UpdatedIs` writes `update` out, counter by counter, `FirstLeast` is what `set` leaves in `next`, and `IdealRight` says that a counter handled by at most one event goes on as the one that counts.
- **GuestDrivers_proof**, of the DMA controller: `TypeCorrect`, `SummaryRight`, `NothingForgotten`, `EdgeRight`, for any set of channels, `NothingForgotten` with what `refused` takes out (section 4).  `IInv` adds `ParkedInUse`; the
  lemma `OutcomesSound` states once what all devices' reactions to a start have in common, and the step
  lemmas use nothing else of them.  `NothingForgotten` and `EdgeRight` state what run `hardware` checks with the MDEC's two channels.
  Of PSYQo's dispatch: `PsyqoTypeCorrect`, `OnlyAwaitedCalled` for overlapping transfers too (the run checks serial ones), `SerialLosesNothing`: a program that
  waits for each transfer before it starts the next loses no callback.  `StepOfController` shows that every step of the composition is a step
  of `DmaController`, so that its invariant carries over; `PInv` relates the handler's copies to the registers, and `SInv` says where the one transfer is.
  Of the memory cards' driver: `OneAnswerWaits`, which is `AnswersRead`: the port never holds a second answer, and the fast track stays within the sector.  It assumes that requests are typed and that a sector has between
  two and 128 bytes: with more, a byte of it would be number 255, which stands for a refused command (`memorycard.cc` 228).  `CardsInv` has five parts.  `DriverTypes` includes `CardStates`: a card that is written to has collected as many bytes as it counts, so
  that a whole sector is what it stores.  `Requested`: a busy slot has its request and a buffer.  `Resting`: between requests the port is off.  `Talking`: during one it is on, and an answer that is due has not been
  raised yet.  `Counts` is the one that matters.  A request of the other slot sets `g_mcOperation` back, and the count stays, so that a read may come through its fast track a second time and count on.  It stays within the
  sector because a third request cannot come while both slots are busy.  A write would not, but it never gets there again: `Follows` says that the card it left in the middle of a sector takes what comes for data, and
  does not answer as a card that is addressed does.  One lemma for each function of the port and of the card, one for each action of the driver.
  `CardsKeepSectors` is `StoreSafe`, the refinement, step by step, for sectors of the same sizes.  What it rests on is `StoreInv`, on top of `CardsInv`: what the driver and the card that it talks to know of
  each other.  Either nothing has been sent yet (`Fresh`), or it depends on the request.  A card that is written to has collected what the request sends, up to the byte where the driver is (`OnCourse`, with `Faithful`), or
  the driver started over because the other slot's request set `g_mcOperation` back (`Lost`): the card takes the 81 57 00 that comes again for a part of the sector's number and of the sector.
  It answers with the bytes it is sent, which are not those that let the driver go on to send a sector, and where a poll might end the sector early, its checksum has bit 7, which no byte of a poll has.  A card that is read from is never behind the driver (`Reading`); one that is ahead, for the same reason, stops answering before the driver is done, and one that is in step has
  sent what `buffer` holds of the sector (`InStep`).  `Loaded`: what is to be written is not read into meanwhile.  A poll of a controller may reach a card that was left selected, which takes its bytes for the
  next ones of its command: `Safe` says how many of them do no harm.  None of them is 81, 57 or has bit 7, and a poll is too short for anything else.
  A request that fails may still have written its sector, with the very byte that ends it: that is why `Fail` of `CardStore` allows it.  `StoreInv` was first checked by TLC on the run's instance (488,504 states), and with two and three bytes to a sector.
- **CdRom_proof**: `TypeCorrect`, `CommandsDue`, `EventsKept`, `QuietStops`, `DriveMoves`, `SectorsGoOn`,
  `ResponsesKept`.  The invariants support one another and are proved together: `QuietWhileStopping` needs `EventsRight`
  (no READ event once reading has stopped) and `CommandDue` (a second response is for the command still due).  The action
  properties follow from it step by step.
- **PsyqoCdRom_proof**: `PsyqoTypeCorrect`, `ResponsesSeen`, `DeviceStaysInAgreement`, `DeviceNeverAborts`.  The device drives the controller only by commands, acknowledgements and clearing its
  interrupt, so the invariant of `CdRom_proof` carries over; the mask stays 1 all along, which is what raises the interrupt with each response.
  `NeverAborts` needs to know what comes next in each state of each action.  `Due` says what the controller owes it: the first response to the one command the action waits for in this state (`First`), the
  second (`Again`), or what comes without a command (a sector, the end of a seek or of the audio); `Coming` is the response on its way, whether still in the controller or already read by irq().  `Sectored` and `Played`
  say when READ and PLAY events may still be scheduled, so that no sector and no end of a seek comes when it is not awaited: a pause that was sent leaves no sector behind, and an action only starts when no PLAY event is
  left, which is what `careful` is about.  The theorems assume `Supported`: nothing is muted, and no table has room for fewer than two positions; with either, the device does abort or write past the table (`psyqo_mute` and §4).
  One lemma for each action's responses, one for each event.
  `NobodyForgotten`, the other half of `DeviceAgrees`, is the converse: not that nothing comes which is not awaited, but that what is awaited comes.  `Promised` is what has to be added for it: while a read's or a
  playback's response is on its way the event that goes on from there is scheduled already, and stays so until its own response takes its place.
- **OpenBiosCdRom_proof**: `DriverStaysSound`, `SectorsArrive`, `CallsFailForCause`, on top of the invariant of `CdRom_proof`, for any number of sectors, tries, errors and movements of the lid.
  None of them is inductive: whether a call may be told of its end depends on what the controller may still answer.  `Interrupting` says that each response has its interrupt to come, and comes when no other is handled;
  `Answers`, which commands may be due in each state of the driver (one that was repeated is acknowledged and still due, so that it may outlast the operation it was sent for), which responses may come in it, and that events
  wait only when it is idle; `Booted`, how far the initialisation is, and that a seek was answered by nothing yet when its first interrupt comes;
  `Accounts`, that the sectors still to come, those copied and the transfers under way add up to what the call asked for, also over a read that is tried again; and `Caused`, that a driver that is starting over or
  busy has an error or an impatient program behind it.  `Hears` states once what an event of the controller does to what the driver sees, and there is one lemma per dispatch of a response.
  `Owed` is on top of these and says of each state of the driver which response takes it out of there, and that it is due, or that the event is scheduled which brings it; `Heeds` states once
  what an event of the controller does to that.  A sector's event is scheduled as long as it is read, and only the lid ends that without a response (`silenced`); `NobodyForgotten`, a conjunct of `DriverSound`, follows.
  The theorems assume `Hurry = {}`: a program held up between a command and the state it sets for it has its answer handled in the wrong state (`cdrom.c` 41, see §4), where `Answers` does not hold.
- **AudioOutput_proof**: `StreamImplementsQueue` is the refinement, step by step: lemmas say what `Written` and `Dequeue` do to `Contents` when
  a block is split by the end of the ring.  `MixerWaitsForRoom`: no notification is lost between the predicate and the sleep.
  `WakesOnGoal`, `WaitsAreShort` and `OneThreadCounts` rest on one invariant of the clock.  `NotEarly` alone is not inductive.  `ClockInv` says that whenever the machine
  does not wait the last goal has been served (`previousGoalpost = goalpost`, and not ahead of what was consumed: `IdleInv`), so that a late consumer has nothing left to trigger; that a goal just chosen
  lies beyond the last one (`AskInv`), which gives `GoalIsFresh`: `advanceFrames` takes a goal equal to the
  previous one for one already served, and the machine never waits for such a goal; and that a consumer that compares late is the last one that counted (`ConsumerInv`).  The wrap-around of the counts is dealt with by lemmas on `Ahead` and `Plus`.
- **UvFile_proof**: `TypeCorrect`, `NobodyWaitsInVain`, `CacheIsKept`, `HandleIsKept`, `ReadsAreLast`, `KeptWhenOver`.  A future is taken by a read that waits for a download or by a close that waits for a cache.  A read that waits
  keeps its owner waiting, until the promise is kept, and that happens only after the progress is "done", after which nobody asks for the future: the invariant relates `taken`, `main`,
  `progress`, `barrier` and the operations that may still keep the promise.  `CacheKept` rests on it: the cache is filled by one request or chunk at a time, or by a download, the last
  of them keeps the promise, and a close has waited for the promise before it lets go of the cache.
  All this is so until the progress is rounded to 1 under the last chunk.  `early` never falls back, so each theorem but `TypeCorrect` rests on an invariant of the form
  `early = 0 => ...` (`Safe`, `NothingLost`): only `ChunkDone` can raise `early`, and where it does not, it stores what a real number would say.  `HandleKept`, `CacheKept` and `ReadsLast` have the condition themselves; `Durable` and
  `WaitsRight` are proved under it, and TLC finds them to hold without.
  `WaitInv` turns that around: as long as a cache or a download has not come to its end and the file is there, its next chunk is queued or under way, or the promise is kept; and the requests by which the
  owner stops the thread are in the queue until they are served.  With it nobody waits in vain (`WaitsRight`).
  `HandleInv` is a second invariant on top of it, for the handle of the system: the request that closes it is the last in the queue that uses it; a file without a
  handle posts nothing that would need one; and every write is another one, so that `pendingWrites` counts those in flight and a close that was put off comes after the last.
  `ContentInv` is a third one, of what the bytes are: as long as no two writes were in flight together, the file's content with the writes that are still queued or at the system
  applied to it is what the program wrote last, and so is what the cache holds and what a request that reads will bring; `EndInv` says the same of the size.  `ReadsLast` and `Durable` follow: the first
  from the cache and the size, the second because a file that is over has no write left anywhere.
- **PsyqoMain_proof**: `Ordered`, `RingStaysSound`, for `MaxDepth = 1`: no callback pumps.  `CalledInOrder` is not inductive, as it says nothing of what the ring holds.
  `EndInv` puts the end of the ring where its size says, which is where the spare slot and the wrap-around are dealt with; `OrderInv` says that, as long as nothing was overwritten,
  the ring holds the last callbacks queued, in order, and those before them were called; `LeftInv` that a pump has no more left to call than the ring holds, which an overrun
  does not break, because a full ring stays full.
  `QueuesStaySound`, for `Habits = {}`: the program keeps to what it may do with its queues (a run of TLC shows what the two habits do).  What `QueuesSound` says holds only when the main
  thread is done with its calls, so the invariant says what the stack of calls holds meanwhile, seen from its bottom: only the innermost call works on a queue (`Stacked`); a queue that
  runs has its task waiting or the innermost call working on it, unless it is the outer one and the inner one runs or is about to tell it (`GoingOn`); what a queue's handlers are owed is
  the number of calls of them on the stack (`OwedRight`), which needs that a handler once moved out is called although it is no longer set (`SetRight`); and a rejection that cascaded is either in the outer queue's
  `fail` or has stopped it (`Cascading`).  There is a lemma for each way the stack changes (`Pops`, `Replaces`, `PushesTwo`, `PushesThree`, `Begins`), and one for each way what is owed does.
  `TimersStaySound`, for `MaxDepth = 1`, is `TimersSound`: `ClockInv` relates the clock and the counter, as they were last read, to the time there was, each modulo its own range, and `DeadlinesInv` the deadline
  of a timer, or what a paused one has left, to what the timer has left by the history; a single timer is counted as called only while its own callback runs (`CalledInv`).  `DueIs` is the reason why a signed difference on
  a clock that wraps tells what is due: what is left is less than half the range.  Nothing is needed of how late a timer may be.  The arithmetic is in lemmas on remainders (`Remainder`, `AddMod`, `ModMod`), which the provers do not know.

Only model-checked: everything under fairness (`Served`, `CalledBack`, `ActionsEnd`, `PlaysEnd`, `WaitEnds`, `MixerStops`, `CloseEnds`, `RequestsEnd`, `CallsEnd`, `AllDone`), which is out of the
prover's reach; and callbacks that pump.  Of `ActionsEnd`, `PlaysEnd`, `CallsEnd` and `CloseEnds` the part that is a safety property (section 3: what is waited for is on its way) is proved; what is left to TLC is that it arrives, and that
there is an end to what comes.  Every invariant and every action property that a run without a violation checks is stated by a theorem, and so are the three refinements; `Durable` and `WaitsRight`
under the condition that the progress of a cache was not rounded to 1 early, without which they are only model-checked.

## 6. Not modelled

Of the modelled parts: 8 and 16 bit accesses to the DMA registers; IMASK and the exception itself (an interrupt is ISTAT's bit); the
CD-ROM's data FIFO, decode-buffer event and the reload of its state from a save; the setting of the volume, and the wrappers of PSYQo's actions as tasks and coroutines;
a second callback on a channel (`registerDmaEvent` looks through more entries than a channel has); a DMA channel started while it is disabled, which never starts (the TODO at `psxhw.cc` 741 says so; `refused` counts it); the counters' saved state, and what `update` does for SIO1.
Of the audio: the second ring, which CDDA and XA feed from the main thread through the same class, the choice of backends, and all samples.  Of the
files: `UvFifo` (sockets), seeking, statistics, the callback of a finished cache, and `waitCache` (`uvfile.h` 72), which takes the future of the cache as well, but which nothing calls.  Of the serial port: controllers' answers (`writePad`), the PocketStation's commands, off by default, the
interrupts on reception and transmission, which no program of the repository turns on, and the saved state, which lacks the FIFO.  The files behind the cards are written in full
after every byte that changed a card; those writes and the loading of a card by the GUI are left out.  Of the driver: `startCard`, `stopCard` and what its events lead to.
Of OpenBIOS's CD-ROM driver: a second initialisation, `deinitCDRom`, audio, the tables that the file system caches, and the states of the machine that only `cdromReadTOC` and `cdromReset` lead to.

Most of the repository is not about order, and is left out for that reason rather than for lack of time: of the lines of the
implementation, the instruction semantics of the interpreter, the two recompilers, the GTE and PGXP, the pixel, voice and block pipelines, the GUI with its windows, fonts and splash
screen, the parsers of disc images, executables and debug protocols, the Lua bindings, the headers of the guest's libraries and the tools are by far the most.  Their correctness is a matter of values
computed from values, by sequential code; a model of them would be a copy in another language, with nothing to interleave and state spaces of whole memories.  The
map therefore covers a small share of all lines, and most of what the parts in the table above that are marked modelled consist of.

## 7. Plan

In this order, the most consequential first:

1. Proofs: the rings and queues of PSYQo's kernel with callbacks that pump, and OpenBIOS's CD-ROM driver with a program that is held up, as far as something holds then.
2. The CD-ROM's data FIFO.
3. OpenBIOS: threads, the chains of interrupt handlers, and the events of the root counters.
4. SIO1 and its two peers; `UvFifo`.

Every theorem module extends its component, no component uses recursion, and new properties come with the
hazards listed in `PROJECT.json`, of which those without a property are the list to work from (at present the stopped counter of `psxcounters.cc` 310).
