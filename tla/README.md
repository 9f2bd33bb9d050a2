# OSsim in TLA+

A verification project for the operating system simulator in `src/`: TLA+ models
of its scheduler, timer, CPU threads and virtual memory, TLC runs that check them
on small instances, and TLAPS proofs for every size. `PROJECT.json` maps each
definition to the lines it models and lists runs, mutants, findings, hazards and
theorems.

## The system

The simulator is one C program of several POSIX threads.

- **main** (`os.c`) reads a configuration, attaches one timer device per CPU and
  one for the loader, starts the timer, creates the threads, joins them and stops
  the timer.
- The **timer** (`timer.c`) advances time in slots. A device that has done its
  work calls `next_slot` and sleeps; when all devices sleep or have detached, the
  timer increments `_time` and wakes them.
- The **loader** (`os.c`, `loader.c`) adds each process at its start time, then
  sets `done` and detaches.
- A **CPU** (`os.c`, `cpu.c`) holds at most one process. In a slot it executes one
  instruction of it, or finishes, frees, puts back or gets a process first.
- The **scheduler** (`sched.c`, `queue.c`) is a multilevel queue under
  `queue_lock`: level `p` has `MAX_PRIO - p` dispatches a round. `running_list`
  names all live processes for `killall`.
- **killall** (`sys_killall.c`) marks every process of a name. It takes those in
  a ready queue out and frees them itself; the others are reaped by a CPU that
  finds the mark.
- **Virtual memory** (`libmem.c`, `mm-vm.c`, `mm.c`, `mm-memphy.c`) works under
  `mmvm_lock`. Regions are cut from a free list of the process's area. The area
  grows by pages, which get frames of RAM; without a free frame the caller's
  oldest page goes to swap and comes back when accessed.

CPUs meet the scheduler through `queue_lock`, each other through `proc->killed`,
the loader through the queues and `done`, everybody through the timer, and the
memory of other processes through the two free frame lists.

## Modules

| Module | Models | Contents |
|---|---|---|
| `Lists` | | membership and absence of duplicates in a sequence |
| `Queue` | `queue.c` | the four queue operations as functions on sequences |
| `Sched` | `sched.c`, `__sys_killall`, the end of a PCB | one action per operation |
| `SchedBypass` | `Sched` with a history variable | counts the dispatches that pass a waiting level |
| `Clock` | what `timer.c` promises | abstract: slots in lockstep |
| `Timer` | `timer.c` and main | one action per critical section, wait and signal |
| `OS` | `os.c`, `run` of `cpu.c` | CPU and loader threads over `Sched` and `Clock` |
| `VirtMem` | what the paged memory promises | abstract: private pages that keep their values |
| `Paging` | `libmem.c`, `mm.c`, `mm-vm.c`, `mm-memphy.c` | page tables, frames, swapping |
| `Regions` | `__alloc`, `__free`, free list, bounds check | one area, byte by byte |
| `Pte` | bit fields of `mm.h` and `bitops.h`, `pte_set_fpn`, `pte_set_swap` | 32-bit words as sets of bit positions |
| `Memory` | the same functions as `Paging` and `Regions`, down to the bytes | one address space after another over `Regions` and `Pte` |
| `System` | the whole simulator | the threads of `OS` calling the memory of `Paging` |
| `MCSched`, `MCOS`, `MCSystem`, `MCMemory` | | processes, programs, levels and sizes of the runs |
| `ListLemmas`, `SchedProofs`, `OSProofs`, `TimerProofs`, `PagingProofs`, `MemoryProofs`, `SystemThreads`, `SystemProofs` | | theorems and proofs |

The two views of the memory divide the work. `Paging` has several processes and
every step under the lock, a page being one value and an entry one of three kinds.
`Memory` has one process at a time and each operation in one step, with addresses,
words and bytes as in the code.

### How state and actions correspond to the code

**Sched.** Variables carry the names of the globals of `sched.c`; `proc[c]` is the
local `proc` of the `cpu_routine` of CPU `c`, and `victims[c]` the part of the
array of its `__sys_killall` not freed yet. `pcb` records how far the life of a PCB
has gone. `get_proc`, `put_proc`, `add_proc` and `finish_proc` touch only data
guarded by `queue_lock` and are atomic. The loop of `kill_proc_by_name` writes
`killed`, which CPUs read without the lock, so each iteration is a step
(`KillSkip`, `KillMark`, `KillTake`) between `kill_lock` and `kill_unlock`. The
victims are freed one by one after the lock is released (`free_victim`). The two
rounds of `get_mlq_proc` are `GetThisRound`, `GetNextRound` and `GetNothing`.
`ready_queue` and `run_queue` are always empty when MLQ is compiled in and are
left out.

**Timer.** `timer_routine` is `begin_slot`, `scan_device` (first pass), `tick`,
`release_device` (second pass) and `end_slot`. `next_slot` is its first critical
section (`next_slot`) and its wait (`wait_slot`). A thread in `pthread_cond_wait`
is in state `"sleep"`; a signal moves it on, one that finds nobody asleep is lost,
and `spurious_wakeup` may wake anyone. `Clock` is what remains for the users: a
device works, waits or has finished, and `Tick` releases all at once.

**OS.** `pc[c]` is a point of `cpu_routine`. Between two points there is at most
one access to shared state, so the interleavings are those of the threads.
`Test` is the first if-chain, `Recheck` the second, `Run` is `run()`. An
instruction is `killall` or a member of `Other`, the instructions that touch neither
scheduler nor timer. `late` is a history variable.

**Paging.** `at`, `who`, `page`, `need`, `held` and `val` are the local state of the
operation that holds `mmvm_lock`; every loop iteration over frames or pages is a
step. A page's content is one value. `get_freefp`, `swap_out_page` and `no_frame`
serve both `alloc_pages_range` and `pg_getpage`, which ask for a frame in the same
way. Only swap device 0 is active, as in main. `free_pcb` drops the FIFO list after
it has released the lock; nobody else can reach that list by then, so the model
does it in the last step under the lock.

**Regions.** One area, since no other process touches it and every operation holds
the lock throughout. `visited` is the loop of `enlist_vm_freerg_list`: the new region
and the list after each region it meets. `lost` and `starved` are history variables. A failed growth
changes nothing here; what it does to frames is in `Paging` and `Memory`.

**Pte.** A word is the set of the positions of its ones: `|` is union, `&`
intersection, a shift a translation. Operators carry the names of the macros.

**Memory.** `mm` holds the page table, the FIFO list and the two devices with their
bytes and free lists. The functions of `mm.c`, `mm-memphy.c` and `libmem.c` are
operators on it under their own names. A loop whose passes depend on each other is a
recursive function of the number of passes (`alloc_pages_range`, `free_pcb_memph`); one
whose passes do not is a function on cells or pages (`copy_cells`, `map_pages`).
Operations are
`Regions`' actions joined with what they do to `mm`: `alloc_with_frames` and
`alloc_without_frames` are the two outcomes of `alloc_pages_range`. `free_pcb` ends
the process and the next one starts on the same devices, which are not cleared. A
write behind the page table is undefined in C; the model drops it. `shadow` and
`data` are history variables.

**System.** `call[c]` is the memory operation CPU `c` has to make before it goes on in
`cpu_routine`; `"hold"` means that it has `mmvm_lock`. `CpuGoes` is a step of `OS`,
`Enter` takes the lock, `Inside` is a step of `Paging` under it and `Refused` an access
to a page that was never mapped. `name[c]` is `proc_name` of `__sys_killall`, read
from page 0 of the caller before `queue_lock` is taken; its bytes are one value.
`free_pcb` of a CPU's own process and of each victim gives the memory back before
the PCB goes. `written` is a history variable.

## Runs

| Run | States | Checks |
|---|---|---|
| `Sched` | 111,179 | `TypeOK`, `ExclusiveOwner`, `NoDanglingPcb`, `VictimsFit`, `KillallMissesNone`, `NothingLost`, `BoundedBypass`, `NoStarvation` |
| `Timer` | 2,460 | `TypeOK`, `FreedUnused`, `Lockstep` (refines `Clock`), `SlotAdvances`, `TimerStops` |
| `OS` | 545,440 | `OSTypeOK`, `KillLatency`, `FreshSlice`, `NobodyLeftBehind`, `NoCallRefused`, `EveryProcessEnds` |
| `Paging` | 334,956 | `PagingTypeOK`, `FramesExclusive`, `FramesConserved`, `FifoInRam`, `AreaMapped`, `ValuesSurvive` (refines `VirtMem`) |
| `Regions` | 116,035 | `RegionsTypeOK`, `EachByteOnce`, `Coalesced`, `GrowthSuffices`, `AccessStaysInside` |
| `System` | 382,872 | `SysTypeOK`, `MemoryHasOneUser`, `AllGivenBack`, `KillsWhatWasWritten`, `SysNoDeadlock`, `EveryProcessEnds` |
| `Memory` | 222,668 | `MemoryTypeOK`, `BytesSurvive`, `EachFrameOnce`, `MappedUpToSbrk` |

`NobodyLeftBehind` shows that the `next_slot` between the last `add_proc` and
`done = 1` is load-bearing: without it all the CPUs can stop with a process
waiting. `KillsWhatWasWritten` speaks only of processes that have written a name:
`alloc_pages_range` does not clear a frame, so a process that reads before it writes
gets what the frame held before, another process's data included. `KillLatency`
allows one more instruction because the mark is tested without a lock: a process
marked between `os.c:64` and `put_proc` goes back to a ready queue, and any CPU, not
only its own, may reap it later.

Five runs show where the code differs from what the repository says of it:

| Run | Property | What happens |
|---|---|---|
| `OSCpusStop` | `EveryCpuStops` | A CPU that is idle when `done` is set takes the `continue` at `os.c:62` in every slot and never tests `done`; main then waits in its join for ever. `tests/run_tests.sh:8` says "every CPU stops". |
| `OSQueueFull` | `EveryProcessEnds` | `enqueue` drops a process when its level is full. `tests/run_tests.sh:7` says "every loaded process either finishes or is killed". |
| `PagingLoad` | `PageComesBack` | An access to a swapped page fails when RAM has no free frame and the caller has no page to evict or no room in swap. `README.md:48` says "A page is loaded back when it is accessed." |
| `PagingFifo` | `FifoKeepsOrder` | A victim that finds swap full is enlisted again as the newest page. `README.md:47-48` says "the process's oldest page (FIFO) moves to SWAP". |
| `MemoryLimit` | `AreaWithinSpace` | `inc_vma_limit` (`mm-vm.c:114`) never compares the area with the address space; when RAM and swap hold more pages than that, as in the default configuration, it grows past the end. `README.md:44` says "a 22-bit address space (4 MB)". |

### Bounds

- `Sched`, `OS`: two CPUs, three processes and two names; two levels in `OS`, and in
  `Sched` three, of which the middle one stays empty and the lowest, with one slot,
  has `p3`, whose configured priority is clamped. Two CPUs are enough for
  every pair of critical sections to meet and for two killalls to overlap; two
  processes share a name, so a killall finds several victims, and one waits while
  another runs. In `Sched` queues hold two entries and the third `enqueue` of
  `running_list` drops its process. In `SchedBypass` a count stops at the first
  value that is too high.
- `OS` fixes a choice of programs, an empty one and one with a killall between two
  other instructions, and start times 0 and 2. `TimeCap` stops `_time` at the
  largest start time; the code only compares it with start times. The violation
  runs use shorter programs and one start time.
- `Timer`: three devices (two CPUs and the loader), time up to 2.
- `Paging`: two processes of up to three pages, two frames in each device. RAM and
  swap both run full, a process has a victim or has none, and an allocation fails
  after having evicted a page. Two values tell a page's content from another's.
  The violation runs use smaller devices.
- `Regions`: three IDs, pages of two bytes, requests of up to three bytes and an
  area of up to four pages: exact fits, splits, merges on both sides, growth that
  merges with a free tail and growth by two pages all occur.
- `System`: three processes on two CPUs, each with one of two programs, one level,
  slices of one instruction, two pages a process and two frames in each device. The
  three together want more than there is, so pages go to swap, allocations fail and
  victims are killed in the middle of their programs. `inc_vma_limit` of `Paging` has
  a guard on the size of the area (the code has none); no program here meets it.
- `Memory`: pages of two bytes and addresses of three bits, so four pages; RAM of five
  bytes (two frames and a rest) and swap of two frames; two region IDs, which are
  symmetric; sizes 2 and 3, so regions end within a page, cross pages and grow the
  area by one page or two; one write, whose byte differs from all others. The number
  of processes that follow each other is not bounded. `MaxBrk` is above what the
  frames allow. `MemoryLimit` has six bytes of swap, one frame too many.

`CHECK_DEADLOCK FALSE` is set where the system comes to an end (`OS`, `Timer`: all
threads exit) or has no more requests (`Paging` when every process is freed,
`Regions` at its bound); in `Memory` `free_pcb` is always possible. `SysNoDeadlock`
states the absence of other stuck states of the whole simulator.

### Fairness

- `Timer`: weak fairness of main, of the timer thread and of each device thread,
  i.e. a thread that can run does. A device's work in a slot is finite. Spurious
  wakeups are never assumed.
- `OS`: weak fairness of each thread. A thread that waits for `queue_lock` gets it,
  since the lock is held for a bounded time and the lockstep of the timer keeps
  the others from taking it again and again.
- `System`: weak fairness of each CPU, and of the step of timer or loader. For
  `mmvm_lock` the same argument holds: an operation is finite, and a CPU makes a
  bounded number of them before it waits for the next slot.
- `Sched` has no timer, so there the last argument is stated as strong fairness of
  the scheduler calls of each CPU.

## Proofs

TLAPS checks them for all values of the constants that satisfy the named
assumptions: a finite set of processes and any `MAX_PRIO`, `MAX_QUEUE_SIZE >= 1`,
`NPage`, `NRam`, `NSwp >= 1` and so on (`QueueAssumption`, `SchedAssumption`,
`ClockAssumption`, `OSAssumption`, `PagingAssumption`, `SystemAssumption`,
`RegionsAssumption`, `MemoryAssumption`, `TimerAssumption`).

- **`SchedProofs`**: `TypeCorrect`, `Ownership`, `NoUseAfterFree`, `VictimsBounded`,
  `KillallComplete`, `SlotQuota`. `ExclusiveOwner` is not inductive alone: that a
  process taken by one owner is held by no other needs the link between `pcb` and
  the places that may hold a process (`"live"` in queues and on CPUs, `"delisted"`
  with exactly one holder that will free it), that `running_list` holds live
  processes once each, and how far the walk has come. `VictimsFit` follows from the
  sum of victims and remaining list entries, which a walk never increases.
  `NobodyLost` says that a process the scheduler knows is in its ready queue or on a
  CPU. It has a hypothesis, `LevelsFit`: a queue has room for all the processes of its
  level. Without it the statement is false, which is what `OSQueueFull` shows. `Reaped`
  has to be proved with it: a process that has left `running_list` is on a CPU or among
  the victims of one, which will free it.
  `BypassBounded` is by `BypassInv`: what has passed level `j` is at most the counter of
  the current round, plus a whole earlier round as long as `j` still has slots.
- **`OSProofs`**: every step of the threads is a step of `Sched` or leaves it alone (the
  lemma `SchedImplemented`, by the way `OS` is put together), so the theorems of
  `SchedProofs` carry over, e.g. `OSNoUseAfterFree`, `OSNobodyLost`. That this costs no
  behaviour of the code is `CallsAsExpected` (`NoCallRefused`): a call of the C code never
  refuses, an action of `Sched` has a guard, and the theorem says that, whatever the other
  threads did since its last step, a CPU or the loader meets each guard that is not a wait
  for `queue_lock`. The inductive invariant relates each point of
  `cpu_routine` to the ownership it implies. `KillIsPrompt` and `SliceIsFresh` follow from
  it. `AllServed` (`NobodyLeftBehind`, for at least one CPU and under `LevelsFit`) needs
  `StayInv`: a CPU stops only without a process and with `done` set (`StopOK`); what lies
  before the loader's index is loaded (`LoadOK`); and from the slot after the last
  `add_proc` on, as long as a process is left, some CPU has not found the queues empty
  (`OneStays`): the last one that looks finds the process, which by `NobodyLost` is in a
  queue if no CPU has it. TLC has checked `StayInv` on the instance of `OS.cfg`.
- **`TimerProofs`**: `TypesKept`, `FreedIsUnused`, and `LockstepImplemented`, that
  `timer.c` implements `Clock` with any number of devices. `TimerInv` says what the timer
  knows of the devices at each point of its two passes: in the first, those it has
  passed have ended their slot, and its count of finished devices is full only if all of
  them are (`ScanOK`); in the second, those still to be let go have not moved since
  (`ReleaseOK`); a device sleeps only with `done` set (`DeviceOK`); and what has ended when
  main frees the list (`MainOK`). TLC has checked it with one and with three devices.
- **`PagingProofs`**: `PagingTypeCorrect`, `FramesNeverShared`, `VictimsAreInRam`,
  `AreasHaveNoHoles`, `NoFrameLost` and the refinement `SwappingIsInvisible`.
  `PagingInv` joins
  these with `OpOK`, what holds at each point of an operation: how many frames are
  in hand, that the page to load is in swap, that the pages still to be mapped are
  unmapped. Exclusive frames are what makes a copy or a write invisible to every
  other page.
  `NoFrameLost` is shown by following each frame through each action: it leaves one
  of the three places (free list, hand, page table) only for another.
- **`MemoryProofs`**: `RegionsTypes`, `ByteOnce`, `FreeIsCoalesced`, `GrowthIsEnough` and
  `AccessIsInside`, for any page size, any set of IDs, any sizes and lists of any length.
  They follow from `RegInv`: free regions lie apart (not only disjoint), those of the IDs
  are disjoint, and each byte below `sbrk` is in the list, in the table or lost, and in
  one of them only. TLC has checked it on the instance of `Regions.cfg`. The heart is the
  loop of `enlist_vm_freerg_list`, one pass that never looks back.
  `LoopInv` shows that this is enough: the new region lies apart from what has
  been passed and is disjoint from what is still to come, and a region that touches it
  cannot touch one passed before, since the two lay apart in the old list. Induction
  over the loop goes by the least counterexample (`Least`), which the library gives for
  sets of naturals; `VisitedStep` shows with it that the recursive definition of the
  loop has a solution. `MemoryRegions` says that all this also holds in `Memory`, of
  each of the processes that follow each other.
  `FpnRoundTrip`, `SwapRoundTrip` and `NoStaleBits` are about page table entries, for all
  words. They justify the abstraction of an entry in `Paging`, as long as frame numbers
  have at most 13 bits and swap offsets 21.
- **`SystemThreads`** and **`SystemProofs`**: every step of `System` is one of `OS` or
  leaves its variables alone (the lemma `ThreadsImplemented`, by the way `System` is put
  together), and `MemoryImplemented` is the same for `Paging`; they
  carry the theorems of both halves over, e.g. `SysKillIsPrompt` and `SysAllServed`.
  `SystemThreads` holds the half of the argument that needs no fact of the memory.
  What only the whole has needs `SysInv`: the invariants of the two halves; `LiveOK`, that a process has
  memory until a CPU frees it; `CallOK`, which ties the operation a CPU waits for
  or makes to its point in `cpu_routine` and to the process it owns there; and
  `NameOK` and `WrittenOK`, that page 0 and what has been read from it are what the
  history says. `NoSharedMemory` follows from the scheduler's exclusive ownership,
  `MemoryComesBack` from `NoFrameLost`, `NameIsTheOneWritten` from the invisibility of
  swapping. TLC has checked `SysInv` on the instance of `System.cfg`.
  `WaitsNeverNested` is the safety half of `SysNoDeadlock`: a CPU with `queue_lock` waits
  for nothing, and one that waits for the timer has no lock.
- **`ListLemmas`**: what tail, append, cons and front do to membership and
  duplicates.

Only model-checked: all liveness (`NoStarvation`, `SlotAdvances`, `TimerStops`,
`EveryProcessEnds`), and `SysNoDeadlock`, which uses ENABLED, both out of reach of the
prover; and `MemoryTypeOK`, `BytesSurvive`, `EachFrameOnce` and `MappedUpToSbrk` of
`Memory`. These speak of numbers as bits, through powers of 2, of which the provers know
nothing, and hold only while areas stay within the address space, which `MemoryLimit`
shows the code does not ensure. What they say of whole pages is proved in `PagingProofs`.

## Inventory and what is not modelled

- Configuration and program files (`read_config`, `loader.c`): text parsing only;
  programs, start times and priorities are constants or initial choices.
- The bytes of a killall's name: in `System` a name is one value in one page.
- The FREE instruction in `System`: it moves bytes between lists of its own process
  (`Regions`, `Memory`) and touches no frame.
- Integer overflow of sizes near `INT_MAX`: undefined in C.
- A program that issues system call 17 itself, which runs without `mmvm_lock`: the
  local state of an operation is one set of variables in `Paging`, which stands for
  the lock. No program in `input/` does it.
- Swap devices 1 to 3, which are formatted but never become active.
- The sequential mode of `mm-memphy.c`, which main never selects.
- Dumps, listings and the system call table: output and generated code.
- `mem.c`, `paging.c` and the scheduler without `MLQ_SCHED`: not used by this build.

## Plan

What could follow, in order of importance:

1. **Memory**: `EachFrameOnce` and `BytesSurvive` for areas within the address space,
   from the binary representation of page and frame numbers.
2. **Direct memmap calls**: operations with their local state per CPU, so that one can
   run without the lock.
3. **Regions**: an abstract allocator that it refines.
