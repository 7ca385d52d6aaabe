# AgentOS kernel: TLA+ models and proofs

This directory holds TLA+ models of the bare-metal kernel in `agentos-kernel/`
(Rust, x86-64), the TLC configurations that check them on small instances, and
TLAPS proofs of what matters most for every instance. Line numbers below are
those of `agentos-kernel/src`; `PROJECT.json` maps every definition to the lines
it models.

## 1. Inventory

One CPU, no threads: concurrency comes from interrupts (timer, keyboard, ATA),
from the ring-0 schedulers that the timer drives, and from ring-3 programs.
Every IDT entry is an interrupt gate, so a handler runs with interrupts off and
is atomic with respect to everything except what it has interrupted.

| Component | State | Operations | What is hard | What makes it correct |
|---|---|---|---|---|
| Task selection (`scheduler/tier_select.rs`) | none (pure) | `select_next`, `arm_task_slots` | an unbounded loop with interrupts off | ends, picks the top tier, round robin |
| Ring-3 multitasking (`scheduler/ring3_mt.rs`, `ring3_preempt.rs`, stubs in `ring3.rs`, `interrupts.rs`) | per-task context buffers, priorities, done flags, current task | `run_multitasking`, `run_intercepting`, tick, 0x86 yield, 0x84 done, 0x81 exit | contexts are copied, poisoned and resumed by address from three entry stubs | no context lost or mixed, no hang, fairness, a session ends |
| Ring-0 preemption (`scheduler/preemptive.rs`, `context_switch.rs`) | two task slots, saved stack pointers, tick budget, PCBs under a spin lock | `start_demo`, `tick`, task bodies, `wait_for_demo_and_cleanup` | ticks between any two instructions, `try_lock` from the handler, ticks in ring 3 | resumes exactly, even shares, PCBs at most one tick stale, ring 3 costs no budget, safe cleanup |
| Process table and KV blocks (`agent_scheduler.rs`, `kv_allocator.rs`, `syscall.rs`) | PCB array, pid counter, block array and count | spawn, schedule, update, alloc, free | two tables kept consistent under unchecked arguments | a claim is an ownership, counts exact |
| FAT12 (`fat12.rs`, `fat_common.rs`, `ata.rs`, shell commands) | on-disk FAT and directories, a cached FAT per mount | create, write, delete, mkdir, rmdir, read, list | several sector writes per operation, failures between them, shell commands from the keyboard handler | no cross links, no leaks, names unique, damage confined |
| Cooperative ring-0 tasks (`context_switch.rs`) | task slots, saved RSPs, rows of the process table | `spawn_cooperative`, `yield_now`, `finish_current_task` | hand-over between stacks, three ways out of a yield, two tables | resumes exactly, the kernel gets the CPU back, `ps` shows who runs |
| Cooperative ring-3 tasks (`ring3.rs`, vectors 0x82, 0x83, 0x85) | one frame per task, one shared RSP0, priorities, done flags | arm, yield, retire, exit | every entry from ring 3 lands on the same RSP0 | as above, and the turn the tests expect |
| Keyboard and line editor (`keyboard.rs`, `vga_buffer.rs`) | line buffer, cursor, history and its index, Shift, last scancode; the bottom row of the screen | one scancode at a time | repeats, several keys at once, a row redrawn from the middle of the line | every key acts once, the row shows the line, the history is what was entered |
| Shell and the locks of interrupt handlers (`shell.rs`, `interrupts.rs`, `main.rs`) | spin locks `WRITER`, `SERIAL1`, `KEYBOARD`, `SCHEDULER`, `KV_MANAGER` | whole commands inside the keyboard handler | the interrupted code may hold what the command needs | no handler waits for what it interrupted |
| ATA (`ata.rs`) | drive registers | read, write | polls that give up, a drive that answers a later call | `Ok` means the sector asked for, on the medium |
| virtio-net (`net/virtio.rs`) | two split rings, one receive buffer | init, send a frame, ask for and receive an ARP reply | the device runs concurrently and may answer at once | frames go out once and intact, a reply is neither dropped nor slept through |
| e1000 and its clients (`net/e1000.rs`, `tcp.rs`, `icmp.rs`, `udp.rs`, `dns.rs`) | one receive and one transmit ring, NIC registers, one exchange at a time | netcheck, ARP, ping, SYN, DNS, resolve, TCP echo | lost, late and foreign frames between any two register writes, timeouts, wrapping sequence numbers | an answer is fresh and from the host asked, every call returns, every segment is in sequence |
| Tensor system call (`syscall.rs`, `memory/paging.rs`, `tensor_engine.rs`) | page tables (read) | `SYS_TENSOR_EVAL` | range arithmetic, caller privilege | nothing outside what the caller may use is touched |
| Frames, heap, user pages (`memory/*`) | next frame, mappings | allocate, map, install | one counter moved from the boot to a global | a frame is handed out once |
| GGUF loader (`gguf_loader.rs`) | none (pure) | parsing, eleven decoders | running offsets, masks and packed scales | every bit of a block used once, with its own scale |
| Clock (`rtc.rs`) | CMOS registers | read | an update during the read | a time that existed |
| Boot and self-tests (`main.rs`), GDT, PCI, FAT32 reader, partition table | | straight-line code | | |
| Dashboard (`src/`, `public/`) | in-memory mock | | | separate from the kernel |

## 2. Plan

In this order; 1 to 12 are done.

1. `TierSelect` (selection as pure operators) and `TierSelectProofs`.
2. `Ring3Mt`, which extends it, and `Ring3MtProofs`.
3. `Preempt`.
4. `PcbKv` and `PcbKvProofs`.
5. `Fat12`, with failures, and `Fat12Isr`, which extends it with the keyboard handler.
6. `E1000` (the exchanges) and `TcpEcho` (the one conversation).
7. `Virtio`.
8. `Handover`, the abstract cooperative scheduler, and `Coop` and `Ring3Coop` (which extends `TierSelect`), shown to implement it.
9. `Console` (line editor and screen) and `ConsoleLocks`, which extends it.
10. `Memory` and, extending it, `Tensor`; `Rtc`; `Gguf`.
11. `Ata`, the drive's registers below `Fat12`.
12. Proofs: `PcbKv`'s action property, `Preempt`, `Ata`, `Rtc`, keyboard driver, editor and screen of `Console`, `Memory` and `Tensor`, `E1000`, `Virtio`, `TcpEcho`, and the steps of `Coop` and `Ring3Coop` as steps of `Handover`.
13. Proofs about `Fat12`: every sector write of a plan keeps the volume sound, whatever failure follows it.

## 3. Modules

What a definition models is in `PROJECT.json`. `MCRing3Mt`,
`MCFat12`, `MCE1000`, `MCRollover`, `MCConsoleLocks` and `MCAta` instantiate one
module each. `MCNet` (E1000, TcpEcho, Virtio), `MCSyscall` (PcbKv, Tensor, Gguf),
`MCSchedulers` (Preempt, Coop, Ring3Coop) and `MCConsole` (Console, Rtc, Ata) put
together components that share no variable and of which the kernel runs one at a time: a
variable chosen at the start (`part` or `demo`) says which one a behaviour is
about, the others stay in one initial state. The assumptions of a module that is
instantiated and not extended are an operator `Assumptions`, which the MC module
states as an `ASSUME`.

`TierSelect` gives `select_next` as `SelectNext(active, current, prios, done)`,
the set of results of its walk: empty exactly when the loop would not end.

`Ring3Mt` models memory as a function from addresses (one context buffer per
task, the interception buffer, the frame pushed on RSP0) to contexts. A stub
pushes the CPU's context (`Pushed`), the handler returns an address, the stub
resumes from it (`Resume`). `TimerTick` chains the interception and the
multitasking tick the way `handle_timer_tick` does. `RunMultitasking` starts
sessions that keep the rules of the module documentation (`SafeSession`): task 0
leaves with `int 0x81`, and whoever outranks it retires. The assumption
`CallersAreSafe`, which TLC evaluates, says that the four sessions the kernel
really starts (`KernelSessions`) keep these rules. `work` and `bypass` are
history variables the properties use.

`Preempt` has three contexts (the kernel, two tasks). A saved RSP is the
position at which its context was interrupted. Task 0 runs `ps` first, holding
`SCHEDULER` for `PsLength` lines with interrupts on, so ticks fall inside it. The
kernel may enter ring 3 while the demo runs, as the concurrent test does.

`PcbKv` is the process table and the block table. System calls run behind an
interrupt gate, so each is one step. Pids and ids come from the caller unchecked.

`Fat12` plans an operation from the FAT copy and the directory, as the code
does, as a sequence of sector writes (`CreateFile`, `WriteFile`, ...), and
executes one write per `Step`. `PowerLoss` drops the rest and mounts anew;
`IoError` drops the rest, the last write landed or not, with the cache not
updated. `Fat12Isr` extends it with `ShellCommand`, a touch or rm that the keyboard
handler runs to its end in the middle of another operation.
`files` and `lost` are history variables: what must be on the disk, and which
entries a failure has damaged. After a failure the model follows the calls that
keep off the damaged entries: a second delete of a half-deleted entry, which the
code accepts, is not one of its calls (hazard at `fat12.rs:1066`). The checksum of
a VFAT entry is eight bits of the short name, a function `Checksum` that need not be
injective; where an instance has two aliases, they collide. `write_fat_entry_to_disk`
copies two whole bytes into the cache (`fat12.rs:601-602`), half of a neighbouring
entry with the one it writes; the model copies the one. On one mount the two differ
only after an I/O error, where the cache is behind the disk in entries that belong to
the operation that failed.

`E1000` gives the shape that netcheck, ARP, ping, SYN, DNS and resolve share:
arm a fresh ring register by register (`SetBase`, `SetHead`, `SetTail`), post the
request, then look at the descriptor, compare the clock, halt. The NIC
(`Transmit`, `Receive`) and the network act between any two steps. A frame is the
fields the clients compare, plus the call it answers, which no client reads. A
caller is the boot sequence or the shell, inside the keyboard's interrupt gate:
only in the former does a tick end a halt.

`TcpEcho` is the client of `tcp_echo_test`, phase by phase, against a peer
(external) that may refuse, acknowledge before it echoes, echo in pieces, close
early or with its last data, and retransmit. Sequence numbers are taken modulo
`SeqSpace` on both sides. The caller is again the boot or the shell: for the shell
the first look that finds its descriptor not done is followed by a `hlt` that never
ends (`Hlt`).

`Virtio` runs the driver's boot sequence as a list of accesses (`Boot`), each an
action at which the device may have come any distance. Publication is two steps
(slot, then index). Ring sizes and offsets are computed; that the rings fit the
frames allocated for them is evaluated for every queue size up to 1024
(`RingsFitAssumption` of `MCNet`) and proved for all of them (`RingsLaidOut`).

`Handover` says what a cooperative scheduler promises: contexts have positions,
one step advances the one that runs, a task that has ended never runs, a session
starts its tasks at their beginning, and the kernel always gets the CPU back.
There are no stacks, slots or saved registers in it. `Coop` and `Ring3Coop`
implement it (`HandsOver`): a waiting context's position is read off the frame
that would resume it, so a frame lost, mixed up or loaded twice is a step the
abstract specification does not have.

`Console` is `handle_scancode` as a function of driver, screen and byte, with the
code's scancodes and the bottom row of the VGA buffer cell by cell. The keyboard
is external: it sends make, repeat and break codes, extended keys behind 0xE0, and
holds bytes back while one is handled. No break code is the prefix 0xE0, and no
extended key sends the codes of Shift (`KeysAssumption`; a keyboard with NumLock on
would wrap some keys in such codes). Each byte carries, unseen by the driver,
whether its key has just gone down; `TypedAsPressed` compares. The keyboard
self-tests of the boot are given as scripts (`BackspaceTest`, ...), which an
assumption runs. `ConsoleLocks` adds the locks: the boot takes and releases them
with interrupts on, a byte needs the locks its handling takes, and a command those
of its kind.

`Rtc` is `read_time` register by register: wait for the update flag, seven reads,
again, compare. The clock may begin and end an update between any two accesses;
during one a register reads as anything. The clock starts at a valid time
(`Times`) and the year wraps after 99. A second is long enough for two passes
(`Quiet`).

`Ata` is one sector transfer at a time, poll by poll, and the drive (external)
that runs beside it: busy, asking for or offering data, with a cache in front of
the medium. A poll may give up while the drive is still at work; the next call
begins all the same, and a drive that is busy or in a transfer ignores registers
and commands, as QEMU's does.

`Memory` is the frame allocator as the code has it, the n-th frame of the usable
regions laid end to end, and the boot's mappings with the frames their tables
take; `range_has_flags` on an address space with a hole. `Tensor` is
`SYS_TENSOR_EVAL`: the argument block, four slices, the dimensions, then
`matmul_layer` row by row. `touched` is what a step reads or writes.

`Gguf` decodes one block of each format, one iteration of the outer loop a step,
with the running offset, scale index and mask of the code. The blocks are those of
the boot's self-tests, with the values it expects.

The definitions marked *slip* are plausible mistakes next to the definition they
deviate from (several are earlier versions of the code, named by the phase that
fixed them); replacing the definition by its slip must break the property named
in `PROJECT.json`.

## 4. Runs

| Run | Instance | Shows |
|---|---|---|
| `ring3_mt` | up to 3 tasks, 2 priorities, programs of 1 step before the last, fair | contexts intact through ticks, yields, retirement and interception; selection ends; strict tiers and bounded bypass; retirement is final; every session returns |
| `schedulers` | budgets 12 and 13, 2 priorities, `ps` of 2 lines; or up to 4 ring-0 tasks of 3 priorities, 2 rounds each, 2 demos; or up to 3 ring-3 tasks of 2 priorities, any choice of yielding and retiring programs, 2 sessions; fair | exact resumption in ring 0 and ring 3, shares by priority, the table at most one tick stale, cleanup safe, ticks in ring 3 cost the demo nothing, the demo returns; both cooperative schedulers implement `Handover`, the process table shows the schedule, the signatures are those the tests expect |
| `syscalls` | 2 processes, 3 blocks, pids 0, 1, 2, 9, ids 0..4; or 8 pages of 4 bytes with a hole, 4 pointers, lengths 0, 1, 2, 16, both rings; or every weight format and 10,240 halves | claims are owned, the count exact, a claim ends only with its block; no frame is handed out twice; `SYS_TENSOR_EVAL` touches only what its caller may use; the decoders use every bit once and pass the boot's tests; f16 to f32 is exact |
| `fat12` | 4 clusters, 3 root slots, 3 slots per cluster, a long name and its alias as a user-given name | integrity at every sector write, no cross link, no entry out of sight, no leak, names unique and no orphan long names |
| `fat12_fail` | 3 clusters, 2 root slots, 3 slots per cluster, 1 failure, a long name, a user-given name that is its alias and one that is not | the damage is confined to the entry being changed, as long as no file has the checksum of an alias |
| `fat12_isr` | 3 clusters, keystrokes during operations | **violated**: see findings |
| `net` | 2 calls of any kind, 2 hosts, 1 foreign frame, ring of 3; or an echo of 2 bytes, 16 sequence numbers with wrapping initial ones, 5 receive slots, 1 foreign frame, 1 retransmission; or virtio queues of 2, 256 and 512, 3 foreign frames; fair | an answer is fresh and from the host asked, dropped only when another frame took the slot, and every call from the boot returns; the echo test returns from the boot, and from the shell unless it halts; every segment is acceptable to the peer, the echo is a beginning of the payload; virtio frames are sent once, in order and intact, the reply is seen, and dropped only when crowded out |
| `e1000_shell` | 1 call from the shell | **violated**: see findings |
| `console` | 10 keys, one at a time and Shift beside them, a row of 3 columns, 3 characters, 2 commands; or the last seconds of a day, month and year, 2 updates, both encodings and both hour formats; or 3 transfers on 2 sectors, 1 that gives up, 1 error | every key acts once, as the character Shift makes it; the row and its cursor show the line; the history is what was entered and browsing shows it; the time read is one the clock has shown; a transfer that finds the drive quiet and returns `Ok` has read or committed the sector asked for |
| `console_rollover` | 2 keys, which may overlap | **violated**: see findings |
| `ata_late` | 3 transfers on 2 sectors, 1 that gives up, 1 error | **violated**: see findings |
| `console_locks` | a command of one letter, any lock of the boot | **violated**: see findings |

The type invariants (`TypeOK`) are stated in the modules and were checked while
they were written; the runs spend their time on the others. Those of `Ring3Mt`,
`PcbKv`, `Preempt` and `Ata` are proved, and the proofs of the other modules carry
the types they need in their invariants.

Bounds. Three tasks are the least with a middle one, two priorities the least
with tiers; one step before the last separates a started from a finished program.
A budget of 12 is the smallest in which `ps` finishes (an assumption, `PsFitsAssumption`;
the code's budgets are 50 and 30 ticks of 55 ms), odd and even budgets differ in
who is abandoned. Two processes and three blocks let a process hold a block it no
longer names. Three slots per cluster leave one after the dots, so that a
directory grows with its second entry and a long name spans two clusters; four
clusters hold a directory, its growth and a file of two. Two calls are what a late
answer takes, two hosts a wrong sender; a ring of three has slots before, at and
after the armed one, and a patience of one tick already gives timeouts. Sixteen
sequence numbers hold the conversation twice. A queue of 2 is the least that has
`ARP_DESC_INDEX` (an assumption), 256 is QEMU's, and at 512 the used ring exceeds
a frame by exactly its header; two foreign frames fill both receive entries and a
third is dropped. A row of three columns has a prompt of one and wraps at the
third character of a line; two commands make a history with an older and a newer
entry. Pages of four bytes with elements of two let a slice end inside, at the end
of and beyond a page; a length of 16 makes a product that saturates. Two updates
let both passes of a read be torn. Three transfers are one that gives up, one that
meets its leftovers and one after that. The halves are all mantissas of the least, a
middle and the greatest exponents, both signs. A second demo or session starts from what the first left behind.
Runs whose system may stop (calls, demos or sessions used up; every entry of the
volume damaged) do not check for deadlock.

Fairness. `Ring3Mt`: a program on the CPU executes and ends, the timer keeps
firing. `Preempt`: the PIT keeps firing, and whoever has the CPU executes.
`E1000`: the client executes, the timer fires while interrupts are on; nothing is
asked of NIC, network and peer. `TcpEcho`: the client executes and, for the boot
alone, its clock runs out. `Coop`, `Ring3Coop`: whoever has the CPU executes. All of it is what the
hardware does while interrupts are on; no run assumes that a frame arrives.

### Findings

* `fat12_isr`: `find_free_clusters` relies on nothing else writing to the disk.
  The keyboard handler runs shell commands, `touch` among them, on a mount of its
  own; between two sector writes of a create in the boot sequence it takes the
  same cluster.
* `e1000_shell`: every wait of the driver halts until the next interrupt. The
  shell runs inside the keyboard's interrupt gate, with interrupts off: unless the
  descriptor is done at the first look, the command never returns; `tcpecho` has
  four such waits.
* `console_rollover`: `handle_scancode` is documented to act only on a genuinely
  new key-down. It remembers one scancode, and any break code replaces it: press a,
  press b, release a, and the next repetition of b is typed again.
* `ata_late`: `write_sector` is documented to return `Ok` only for a write that is
  committed (`ata.rs:99-102`). A call that times out leaves its command with the
  drive, and the next one does not wait for the drive to be idle (`ata.rs:171-185`):
  when a late read raises DRQ under a write, the drive ignores command, data and
  flush, no error bit is set, and the write returns `Ok`. `QuietDriveServes` shows
  that this is the only way: from a quiet drive `Ok` is kept.
* `console_locks`: `preemptive.rs:32-38` explains why no handler may take
  `SCHEDULER` the blocking way. `ps` does so inside the keyboard handler, and the
  boot holds the lock over `main.rs:486-593` with interrupts on: `ps` typed there
  hangs the machine. `WRITER`, `SERIAL1`, `KEYBOARD` and `KV_MANAGER` are taken the
  same way.

### Observations

What the models made precise without a run of its own:

* The test that runs a ring-3 program beside a demo reads the tick budget before and
  after it, and the CI job requires `budget_untouched_during_ring3=true`
  (`.github/workflows/kernel-ci.yml:671`), `the direct proof` that ring-3 ticks are
  not counted (`preemptive.rs:432-434`). The reads are made with interrupts on
  (`preemptive.rs:448-450`): a tick between a read and the ring-3 code lands in ring
  0 and counts, and the test fails although the guard works. The window is a few
  instructions wide. `BudgetAllOrNothing` shows that this is the only way the
  readings differ, and that the second one is then 0.
* The checksum of a long name is there to guard against `a mismatched/orphaned
  sequence` (`fat_common.rs:93-96`). A create stopped between its long and its short
  entry (`fat12.rs:756`) leaves an orphan, and a later file put in the slot behind it
  is listed under that long name if its short name has the same checksum: always when
  it is given that alias as its name, by chance (one byte) otherwise. `OthersIntact`
  of `fat12_fail` is stated with that condition, on an instance that has such a name.
* Between the two FAT writes of `grow_directory` the whole directory is lost to
  lookups, and a delete stopped half way leaves an entry whose clusters others may
  be given (both within what `fat12_fail` allows). Deleting that entry again would
  free them under their new owner.
* Writing descriptor 0 and RDT = 1 again after a foreign frame
  (`net/e1000.rs:874-885`) leaves RDH = RDT: the ring stays full for the rest of
  the call. This is why `OnlyCrowdedOut` excuses crowded answers. `tcp_echo_test`
  arms its slots in advance for this reason.
* DNS queries have one transaction id and one port (`net/e1000.rs:2045`): a late
  reply to an earlier query for another name is taken for the new one. The sender
  is the only thing `AnswerIsOwn` can promise.
* A FIN that carries data is acknowledged at its own number (`net/e1000.rs:1938`),
  so the last ACK may cover less than was received.
* `virtio.rs:855` always reads the length of the first used entry, while two
  publications share one buffer: behind a short foreign frame the reply is not
  recognised. The late completion of the test frame may be taken for that of the
  ARP request (`virtio.rs:775-786`), which only starts the wait early.
* One flag stands for both Shift keys (`keyboard.rs:262-272`): with both down,
  releasing one ends Shift. The run presses one of them.
* A line longer than the row scrolls it away; `redraw_line` and `backspace` then
  work on the new row only (`vga_buffer.rs:129-163`). `ScreenShowsLine` is about
  lines that still fit.
* Interrupts are on (`main.rs:183`) before the heap is (`main.rs:205`); a key typed
  in between makes the line editor allocate without one.
* `SYS_TENSOR_EVAL` accepts any pointer for a slice of length zero, and checks
  neither alignment nor that the output overlaps no input (`syscall.rs:217-299`).
  `TouchesOnlyCallers` is about which memory is touched.
* `usable_frames` steps through the regions laid end to end
  (`frame_allocator.rs:32-39`), which is right for regions of whole pages; that is
  an assumption (`WholePagesAssumption`).
* `find_free_clusters` searches every entry the FAT has room for
  (`fat12.rs:379`), not only those of clusters the volume has. A FAT entry over two
  sectors is written in two steps (`fat12.rs:592`). `Fat12` has neither.

## 5. Proofs

A proof module extends the module of the run that checks the component (or the
component itself), so a theorem names the very formula TLC checks. Every safety
proof has one shape: an inductive invariant, one lemma per action that the action
keeps it, a theorem `... => []Inv` that puts them together, and the properties as
corollaries. Where TLC can evaluate an invariant it was checked on the runs' instances
first.

| Module | About | Results |
|---|---|---|
| `TierSelectProofs` | `TierSelect` | `SelectNextExists`, `SelectNextUnique` |
| `Ring3MtProofs` | `Ring3Mt` | `Invariance`, `TypeCorrect`, `ContextIntegrity`, `NoHang`, `FairChoices`, `RetirementLasts` |
| `PcbKvProofs` | `PcbKv` | `Invariance`, `TypeCorrect`, `UniquePids`, `ClaimsOwned`, `BlocksNotShared`, `CountNeverDrifts`, `ClaimsEnd` |
| `SchedulersProofs` | `Preempt`, `Coop`, `Ring3Coop`, `Handover` | `PreemptInvariance`, `PreemptTypeCorrect`, `ExactResumption`, `FairShares`, `TableFresh`, `ReclaimSafe`, `BudgetKept`; `CoopInvariance`, `TableRight`, `HandsOverSafely`; `Ring3Invariance`, `SignatureRight`, `Ring3HandsOverSafely` |
| `Fat12Proofs` | `Fat12` | `VolumeInvariant`, `VolumeStaysSound`, `TypeCorrect`, `NoLeaks` |
| `ConsoleProofs` | `Ata`, `Rtc`, `Console` | `AtaInvariance`, `AtaTypeCorrect`, `QuietServed`; `RtcInvariance`, `TimeRight`; `EditorInvariance`, `HistoryRight`, `TypingInvariance`, `TypedRight`, `DisplayInvariance`, `ScreenRight` |
| `TensorProofs` | `Memory`, `Tensor` | `Invariance`, `FramesExclusive`, `TouchesAllowed` |
| `NetProofs` | `E1000`, `Virtio`, `TcpEcho` | `Invariance`, `CrowdedOutOnly`, `OwnAnswers`; `RingsInvariance`, `FramesIntact`, `ReplySeen`, `RingsLaidOut`; `EchoInvariance`, `SegmentsAccepted`, `EchoRight` |

`TierSelectProofs`: if some task is not finished, `SelectNext` is a singleton.
Existence (`SelectNextExists`): take an unfinished task of the least priority, the
walk reaches every slot within `active` steps, and the least step at which it
meets an eligible one is the result. `SelectNextUnique`: two results are at the
same step of the walk.

`Ring3MtProofs`: for every number of tasks, every set of priorities and every
length of program. `IInv` adds to the checked invariants what an armed but not yet
entered session looks like (`SessionShape`, `ArmedFresh`) and how far the
round-robin walk still is from each task (`WalkClosesIn`), without which the bound
on bypasses is not inductive.

`PcbKvProofs`: `IInv` = types, unique pids, claims owned, count exact. That no
block is shared follows from unique pids and owned claims. The count uses the
library's facts about cardinalities. `ClaimsEnd` is the action property: in each
action, a process whose claim changes has got a newer block or lost that one.

`SchedulersProofs`. `Preempt`, for every budget, pair of priorities and length of `ps`: what is
armed follows from where the kernel is (`Phases`); `SCHEDULER` is held exactly
while task 0 prints (`Locking`); slices alternate between equals and a lower
priority never runs (`Shares`); the table shows who runs or, while the lock is
held, task 0 (`Table`). That nobody is inside `ps` at the cleanup needs a measure:
`PsProgress` bounds the steps a task still has to make by half of the ticks left. It
holds from the start only if `ps` fits into the budget (`PsFitsAssumption`), which
is a real condition on the constants of the code. `BudgetKept` adds `Readings`: between
the two readings of the budget the kernel has the CPU only with the budget as it was
read or, once a tick in ring 0 took the CPU away, used up.

`Coop`, for any number of slots, priorities, rounds and demos:
a saved RSP resumes the context that was saved (`SavedWhere`), a free slot holds
nothing and whoever runs has a slot (`SlotsSound`). `Ring3Coop`, for any number of
tasks, order of priorities and choice of programs: `Resumable` is the same for the
frames; `Progress` relates a task's position, its done flag and its byte;
`OneRound` says that, when nobody outranks task 0, the turn goes once round its
peers and back, which is what the tests expect to read (`SignatureRight`). Vectors
0x83 and 0x85 share one lemma about the hand-over (`HandsOn`). Both refine
`Handover` step by step (`HandsOverSafely`, `Ring3HandsOverSafely`): a `switch_to`,
from the push on the old stack to the pop from the new one, is one step of it, and
a timer tick that overwrites RSP0's frame is none.

`Fat12Proofs`, for every size of FAT, root directory and cluster, any names, aliases
and contents, and any number of power losses and I/O errors, each followed by any
further operations. `SoundVolume` speaks of the entries a listing reaches; the
invariant speaks of places: a place holds an entry (`EntAt`) if it lies in the root or
on the chain of a directory in the root and no failure has damaged it. `Safe` says of
them that every chain ends, that the cache agrees with the FAT along it, that a file
has as many clusters as its size asks for, that no two chains meet, and that no
directory has a gap. It is not inductive, since most writes of an operation make
sense only by the ones that follow. `Ready` therefore says of the writes still to
come what they will have done: each but the last touches nothing that an entry owns
(`Harmless`), and the last either marks a slot deleted or puts in place an entry whose
chain the writes before it have completed in the FAT and in the cache (`PutsEntry`,
`Coming`). A failure may then drop the rest at any point: what is on the disk is
`Safe` already. `grow_directory` is the exception: between its two FAT writes the
directory's chain does not end. `GrowsA`, `GrowsB` and `GrowsC` (before its first,
second and third write) say that the volume is sound without that directory and that
the remaining plan is `Ready` on the volume with the grown one. What a chain is for
every FAT is shown for the least step of the walk at which it would not hold
(`ChainPath`, `ChainUnique`), as the prover has no induction over data.

`NoLeaks` needs the converse, that every cluster in use has an owner (`Tight`), which
holds only between operations and before the first failure. `LeakInv` adds to
`SoundInv` what holds during one (`Covers`): a cluster in use is owned by an entry that
stays, or belongs to the entry the last write puts in place, or one of the writes to
come frees it; and no other cluster will come into use. While a directory grows,
this is said of the volume with the grown directory (`NeatGrowing`). Deleting a directory
leaves no entry in it without a home, since a listing reaches every entry there is
(`ListedIs`, from the absence of gaps) and the delete found none.

`ConsoleProofs`. `Ata`, for any sectors, data, time-outs and errors: `InCall` says
where a drive that was quiet at the call is at each line of the driver, up to the
flush that makes the medium agree with the buffer. `Rtc`, for any start, update
count and contents of registers: at most one update falls into two consecutive
passes (`Quiet`), so of two passes that agree one is clean (`PassClear`,
`RawClear`) and holds the registers of one time; `BcdBack` and `HoursBack` show
that decoding undoes the encoding. `Console`: every handler keeps `Faithful`,
which is about the keyboard's state alone; neither the screen nor the overlap of
keys matters to it, so it holds with `Rollover` too. `TypedRight` is about keys
that do not overlap (`~Rollover`), as `console_rollover` shows it must be. Of codes
the driver remembers the last one and Shift; `Leads` is the sequence of values that
the bytes under way, however many, will take it through, each telling the byte that
follows for what it is, and at its end (`Caught`) the driver knows which keys are
down. `ScreenRight` is for any width of the row: `write_string` is a recursive
function, of which a function that satisfies its equation is shown to exist
(`StagesExist`) and what it leaves after n bytes is shown for the least n at which
it would not hold (`WriteIs`); `redraw_line` then draws any new line over any old
one (`RedrawShows`), from wherever the arrow keys left the cursor.

`TensorProofs`, for every page size, address space, memory map and arguments:
frames are handed out in order (`FramesInOrder`), across `install_global`, hence
none twice. A slice that `range_has_flags` accepted lies in pages its caller may
use: the loop steps by pages from the first one, so it visits every page of the
range, the hole is made of whole pages, and a product or sum that saturates ends
at the last address, where the range is rejected (with pages of one byte it would
not be, hence `PageSize > 1`). `RowsFit` keeps every row of `matmul_layer` within
the slices.

`NetProofs`. `E1000`, for any hosts, names, calls, ring size and traffic: requests
and answers under way belong to this call or an earlier one and never to a later
part of it (`NothingEarly`), and what a done descriptor holds came in since the
ring was armed (`RingReady`). `Virtio`, for any queue sizes and traffic: an entry
the device may take is written, and so is its descriptor (`TxRing`, `RxRing`); the
request is answered once (`OneReply`); the index sampled before the request does
not count the reply (`Sampled`). `RingsLaidOut` proves for every queue size that the
parts of a ring lie apart and fit their frames. `TcpEcho`, for any payload, initial
numbers and number of receive slots: segments are described by their offset in the
conversation (`Peer`, `Sequence`), the first data the client meets is the beginning
of the echo (`Order`), and what it has read so far (`Polled`); the offsets are
turned into sequence numbers modulo `SeqSpace`, which must be more than twice the
conversation, as 2^32 is for these payloads.

The assumptions are the named `ASSUME`s of the modules and the operators
`Assumptions` of the instantiated ones: bounds are positive, priorities are
numbers, regions and the hole are whole pages, keys have the codes of the first scancode set,
the clock starts at a valid time and shows each second for at least sixteen
accesses, the rings have `ARP_DESC_INDEX`.

Only model-checked, and why:

* liveness, which is out of reach of the prover: `SessionReturns`, `DemoReturns`,
  `CallReturns`, `EchoReturns`, and the last conjunct of `Handover` in the two
  refinements;
* `EveryBitOnce` and `HalfExact`: evaluations over given blocks and halves;
* `NamesSound` and `OthersIntact` of `Fat12`: what is on the disk must be compared with
  all that should be, name by name and block by block, while the theorems of
  `Fat12Proofs` are about places and clusters.

## 6. Not modelled

Within modelled components: the machine code of the self-test programs beyond its
calls, timestamps, the byte layout of FAT12 entries and of network headers,
checksums, the DNS record parser, long names of more than one VFAT entry, token
counters, the single-worker `run_demo` of `context_switch.rs`, the GGUF header parser and
`execute_gguf_layer_pass`, the free list of the heap (a library), f32 arithmetic.

Left out whole: GDT and PCI enumeration (tables written once, before interrupts
are on), the FAT32 reader and partition table (read-only; the directory scan is the
one of `fat_common.rs`), the packet stub of `net/tcpip.rs` (no state), shell
commands that only print, and the TypeScript dashboard, an in-memory mock that does
not run in the kernel.
