# 3x86 in TLA+

3x86 is a small protected-mode operating system for a PC with a 386 or better:
a boot sector that loads the kernel from a floppy, and a kernel with
cooperative tasks, a heap, a VGA text console and a keyboard. This directory
holds TLA+ modules of its parts, the TLC configurations that check them and the
TLAPS proofs about them. The line numbers are those of the files under `src/`.

## 1. The system

| part | state | operations | talks to |
|---|---|---|---|
| **tasking** `task.c`, `x86/task.c`, `x86/task_asm.S`, `include/task.h` | `run_queue`, `current_task`, `idle_task`; each task's `state`, `critical_section_count`, `saved_sp`; EFLAGS.IF | `task_init`, `task_create`, `task_start`, `task_reschedule`, `task_exit`, `task_become_idle`, `enter_`/`exit_critical_section`, the trampoline and the context switch | every task; `list.h`; the interrupt flag, which decides when an interrupt can see its state |
| **boot loader** `bootblock.S`, and `makeflop.c`, which patches the sector count into it | the registers, the retry count, the address it copies to, the count of memory map entries | `start`, `load_floppy`, `fail`, `find_mem_size_real`, `find_mem_size_probe`, jump to the kernel | int 0x13, 0x15, 0x19 of the BIOS; the kernel's `_start` |
| **heap** `miniheap.c`, `heap.c` | `theheap`: range, free list, `remaining`, `low_watermark`; a header in front of every block | `miniheap_init`, `_alloc`, `_free`, `_realloc`, `_trim`, `_get_stats`; `malloc`, `calloc`, `memalign`, `realloc`, `free`, `heap_grow` | `list.h`; callers in tasks |
| **text console** `hw/vga.c`, `console.c`, `stdio.c` | `line`, `col`, the frame buffer | `console_init`, `console_write`, `console_input`, `vga_console_putchar`, `vga_console_scrup`, `putchar`, `puts` | called by tasks (`printf`) *and* by the keyboard interrupt |
| **keyboard** `hw/keyboard.c` | `key_lshift`, `key_rshift`, `lastCode`; the i8042's registers | `keyboard_init`, `i8042_command`, `_flush`, `_wait_write`, `keyboard_irq`, `process_scode` | the controller, the PIC, `console_input` |
| **interrupt controller** `hw/pic.c` | the two 8259s: masks, requests, in-service | `pic_init`, `pic_set_mask`, `pic_send_eoi`, `pic_irq` | keyboard, timer |
| **timer** `hw/pit.c` | `timer_ticks`, the PIT's counter | `pit_init`, `pit_irq`, `current_time`, `pit_read_count` | PIC |
| **exception entry** `x86/x86.c`, `x86/exceptions.S`, `x86/tss.c` | GDT, IDT, TSS; an `x86_iframe` on the stack that was interrupted | `x86_init`, `x86_exception_handler` | PIC |
| **formatted output** `printf.c`, `string.c`, `ctype.c` | none | `_printf_engine`, `vsnprintf`, ... | console |
| **lists** `include/list.h` | links in the nodes | insertion, removal, iteration | tasking, heap |
| **kernel start** `start.S`, `main.c` | none | `_start_c`, `main2` | everything, once |
| debugging aids, build files | none | | |

One CPU runs everything. There are three actors: the task that has the CPU; the
interrupt handlers, which come between any two instructions while IF is set,
run on the stack of the task they interrupt with IF clear, and never call into
`task.c` or the heap; and the hardware behind the ports. What makes the system
hard to test comes from these:

* task switches happen in the middle of `task_reschedule`: the critical section
  entered on behalf of one task is left by code that runs on another stack;
* interrupts and tasks share the console with nothing between them;
* the i8042 delivers bytes whenever it likes, while its interrupt is being set up;
* a floppy read may fail at any sector, and reads must break at track ends;
* the heap's blocks come back in any order, from chunks split at any size.

What makes each part correct:

* tasking: whenever an interrupt can look, the run queue holds exactly the READY
  tasks and `current_task` is the one RUNNING; counts of critical sections are
  those of each task's own code; a task resumes where it was left, exactly once
  per turn; the idle task runs only when nothing else can.
* boot loader: the kernel starts only with every sector of its file in memory,
  in order, and with a correct memory size.
* heap: no word lost or given twice; neighbours merged; blocks aligned and
  disjoint until freed.
* console: what is on the screen is the end of what was printed.
* keyboard: no byte is stuck without an interrupt, and characters follow shift.
* interrupt controller and timer: every interrupt taken is ended in each
  controller it is in service in, none nests in another, the masks are those
  the drivers asked for, no request of an open line is lost but ticks that
  coincide, and the clock moves on with every tick handled.
* exception entry: the frame on the stack is the one the handler expects,
  whatever the vector.
* formatted output: no character goes behind the buffer and one that has a
  length is terminated inside it, the length returned is that of the whole text,
  and a field is what C says it is.
* lists: the pointers are the sequence their users take them for.

## 2. Modules

### Sched — the tasking core

The CPU executes the stack of task `cpu`, one statement per step; `pc[t]` is
where the stack of `t` stands, so for a suspended task it is the return address
its `saved_sp` leads to. A label is named after the function and the statement:
`rs_pick` is line 143 of `task.c`, in `task_reschedule`. `cpu` and
`current_task` are two variables because they are two things in the code:
between lines 144 and 157 `current_task` is already the next task and the stack
is still the old one. `EnterCritical(l)` and `ExitCritical(l)` stop short of
the `cli` and the `sti`, which are steps of their own (`Cli`, `Sti`), so that an
interrupt can come between the count and the flag. `RsSwitch` is
`x86_asm_switch`: it exchanges stacks and nothing else.

`TakeIrq` leaves the scheduler's state alone since no handler of this kernel
calls into it; it matters for what a handler can *see* (`IrqSeesQuiescent`) and
for whether it ever comes (`IrqTaken`).

The clients are any well-formed use of `task.h`: they create tasks that are not
alive, start any task, yield also inside a critical section, nest critical
sections up to `MaxNest` (the only bound), leave only those they entered, exit.
Calling `task_create` on a live task breaks the code (it clears a linked list
node, `task.c:97`); that is outside the contract of its one caller and is not
modelled. A task that exits inside a critical section is, and so is one that is
created again after its exit.

### Tasking — what task.h promises

Cooperative tasks with atomic operations: create, start, yield, exit. `Sched`
implements it under the mapping at its end, which undoes what a half-executed
`task_reschedule` or `task_start` has done before the point where it takes
effect (`rs_pick`, `start_add`).

### List, RunQueue, HeapLinks — the pointers

`List` has every operation of `list.h` as an operator from the memory of the
nodes to the memory after it, one assignment after the other: `list_delete` on
neighbours reads pointers it has just written. `Sched` and `Heap` use sequences.
That this is right is checked and proved, not assumed: `RunQueue` is `Sched` with the
`task_t.node`s beside it, and `HeapLinks` is `Heap` with the
`struct free_heap_chunk`s beside it; the steps make the calls of the code on the
pointers, which take nothing from the sequence, and `QueueLinked`, `ListReads`
and `FreeListLinked` compare the two after every step. In `HeapLinks` a node
that leaves the list is wiped, as its memory belongs to somebody else then: a
pointer left to it is found out.

### Pic, Interrupts and IrqService

`Pic` is the 8259 as the code uses it: requests, masks, services, the
initialisation words, priorities, the cascade, the non-specific EOI, and the
acknowledge cycle with its spurious interrupts (a request that is withdrawn
before the CPU takes it gives line 7 of its controller and leaves nothing in
service). It is external, like channel 0 of the timer chip.

`Interrupts` executes `pic_init` write by write (`PicWrites` is the list of
them, in order, from masks a BIOS may have left and perhaps with an interrupt in
service), then `pit_init`, then client code for ever: it opens and closes lines,
reads the timer's count, turns interrupts off and on and causes exceptions. `at`
is the task's next statement; `frames` the interrupt frames on its stack, each
with the words that were pushed. `pic_set_mask` is two steps, the read and the
write, because it runs with interrupts on. `Dispatch` to `Iret` are
`x86_exception_handler` and `pic_irq`, whose EOIs come *before* the driver.
`opened` and `seen` are history variables, for the lines asked for and the
counts the timer had.

`IrqService` is what drivers are promised: one request handled at a time, the
highest priority first among the open lines (a line of the second controller
only with line 2 open), by its own driver; ten milliseconds for each tick.
`Interrupts` implements it (`ImplementsIrqService`). Time is that of the
interrupts taken: ticks that come while interrupts are off are one tick when
they come on, so `current_time` is not the "time in milliseconds since boot" of
`time.h:27` but a lower bound of it; and it is the product modulo 2^32, so it
wraps in the middle of its range of ticks (`Wrap`).

### Printf

`_printf_engine` reads one character of its format per step; formats and
arguments are arbitrary. A field is put as the text the code formats
(`Decimal`, `Hex`, `Justified`), to the console, which stops at a NUL, or to the
buffer of `vsnprintf`, which stops at its length. `ToDigits` fills the number
buffer from its end, as the code does; the reference it is compared with,
`Numeral`, builds the digits by recursion. `CText` is what C says of a field,
written down apart from the code, and `Differs` names the fields in which the
engine is known to differ: no sign is printed in left-justified fields, one is
in unsigned ones, the `#` prefix is outside the width and printed for 0, and
`%c` pays no attention to its width. `MatchesC` says they are the only ones. A
precision is read as more digits of the width (`printf.c:456`), so a field with
one is not compared. With a length of 0 `vsnprintf` writes its terminator in
front of the buffer; `Terminator` does so too (`nul = -1`), and `Terminated`
leaves this length out (section 6).

### The modules named ...Proofs: see section 5.

### BootLoader

The registers are kept, the bytes of a sector are not: a sector is its linear
number, `loaded` the sequence of sector numbers found at the destination.
`TryAgain` is the code from `tryagain` to `int 0x13`, whose use of `bx` and `cx`
for the BIOS call is what the retry then goes on with. `Int13Ok` and
`Int13Error` are the BIOS: it fails on a read it cannot do (`Readable`), and at
most `MaxErrors` times on one it can. `Reboot` is int 0x19: the boot sector is
loaded afresh. The memory map keeps only its length.

### Heap and Allocator

`Heap` counts in words of four bytes, to which every length is rounded. The free
list is a sequence of chunks in list order; `live` holds each block with the
header miniheap wrote before it and, since only the caller knows it, the size
asked for. `InsertFreeChunk` is `heap_insert_free_chunk` as a function of list
and chunk. `page_alloc` gives `heap_grow` nothing in this kernel, so a request
without a chunk returns NULL. `Allocator` is what callers are promised.

### Console

The task's `putchar` is taken apart at its accesses to `line`, `col` and the
frame buffer in the order in which the compiled code makes them (`line` is
loaded first). Where the compiler may choose, the step takes either: `line++` and
`col++` as a store of the loaded value plus one or as an increment in memory
(`PutNewline`, `StoreCol`), `line--` as a decrement or as a store of 24
(`LineBack`). A key echoed by the interrupt handler is the whole of `putchar`
in one step, as handlers run with interrupts off. `printed` is the text on a
terminal of unlimited height, the reference the screen is compared with.

### Keyboard

`keyboard_init` is taken apart at its port accesses; `keyboard_irq` is one step.
The controller (`TakeInput`), the keyboard (`Press`, `Release`) and the request
latch of the 8259 are external and run by themselves. `Reads` is the expression
of line 155 as it stands; it is zero for every command (`NothingIsRead`), so the
loop behind it has no action. Keys whose codes begin with `0xe0` are there
(`Right`); those that bring fake shift codes with them (`e0 2a`) are left out of
the passing run, as they meet the finding about `lastCode`.

## 3. Runs

| run | instance | what it shows |
|---|---|---|
| `sched_safety` | boot thread and three interchangeable clients, two nested sections | the scheduler's safety properties, and that the run queue's pointers are the queue |
| `sched_live` | boot thread and two clients, one nested section | the code implements `Tasking`; ready tasks run; interrupts are never shut out for good |
| `boot_load` | 125 kernel sizes from 1 byte to 120 blocks and one byte, four read errors, up to two map entries and two pages | the kernel is entered only complete and in order; every read stays in its track; the disk is booted from in the end |
| `boot_retry` | *violation* | finding 1 |
| `heap` | 25 words from address 6, pages of 8, three blocks, sizes 0, 2, 5, alignments 2, 3, 8 | the heap is tiled, sorted, merged, implements `Allocator`, never leaves a caller of `realloc` without a block to copy from, and its free list is linked as it should be |
| `console` | 4 by 2 screen, tab stop 2, seven characters | without keys in the middle of a putchar the screen shows the tail of the text; with them the column stays on the screen |
| `console_scroll` | *violation* | finding 2 |
| `keyboard` | A, both shifts and an arrow key, five key events, waits of two polls | no byte without its interrupt, no overrun, the echo follows shift, `keyboard_init` ends, every byte is read |
| `keyboard_ctr`, `keyboard_code` | *violations* | findings 3 and 4 |
| `interrupts` | the timer, the keyboard's line and line 10; drivers of 1, 2 and 10; exceptions 6 and 17; a countdown of 3 in two digits of base 2; four ticks | frames are well formed and do not nest, nothing stays in service, masks are as asked, the count is not torn, the path implements `IrqService`, ticks go on |
| `printf` | formats of up to six characters, buffers of 0, 1, 3 and 8 and the console, widths to 33, integers of 3, 5, 7 and 8 bits | nothing goes behind the buffer, which is terminated inside if it has a length, cuts are reported, fields are as in C |

Why the bounds are enough:

* *Sched.* A reschedule involves the old task, the picked one and the tail of the
  queue; three clients besides the boot thread make a queue of three with one
  running, and let one be created again while the others wait. Two nested
  sections tell "the first exit enables interrupts" from "the last". Symmetry is
  used in `sched_safety` only; it is sound there, since no definition tells the
  clients besides `Boot` apart, and it is not used where liveness is checked.
* *BootLoader.* A disk of 36 sectors per cylinder: 120 blocks take three
  cylinders and every track end is met with the sizes before, at and after
  it. The loader gives up after three errors; four make it do so more than once.
* *Heap.* Sizes below, at and above the smallest chunk; an alignment that is
  raised to 16 bytes, one that is refused, one above 16; a base that is not on a
  page boundary and three page boundaries. Three blocks are what it takes for a
  chunk to be freed between two free ones. The header (2 words), list node
  (3 words) and rounding are the code's; only the page is smaller.
* *Console.* The code depends on width, height and tab stop through wrapping,
  scrolling and alignment. With 4 x 2 and a tab stop of 2, seven characters fill
  a row and scroll more than once; tabs end at and before the row's end.
* *Keyboard.* A wait that succeeds at once, at the last poll and not at all needs
  two polls; a flush that ends because it is empty and because it has reached
  its length needs two bytes; five events hold and release both shifts around
  a key.

* *Interrupts.* One line of each controller beside the timer gives every case of
  the cascade and every order of priorities: 0 before 10 before 1. A driver for
  line 2 itself opens and closes the cascade. An exception without an error
  code and one with cover both kinds of stub. The countdown of 3 has different
  bytes (1 and 1, 0 and 1, 1 and 0), a count that is withdrawn (2) and one that
  is not. Ticks and clock wrap at different times with a range of 4.
* *Printf.* Six characters are a flag or two, a two-digit width, a length and a
  conversion, or two fields, or text and a field. The four widths of integers are
  different, so that a wrong one shows; the values lie at their ends. The
  buffers have no room, room for the terminator, for part of a field and for
  most. Widths up to 33 are wider than every number.
* *List.* Four tasks make lists of up to four entries; entries are deleted,
  inserted at either end and, in the heap, before and behind any other.

Deadlock is checked in every run. The steps `KernelRuns`, `Idle` are stutters
that stand for the CPU doing something else when a component has nothing to do.

## 4. Fairness

* *Sched.* `WF(KernelStep)`: the CPU executes. `SF(TakeIrq)`: a pending interrupt
  is taken at the next boundary with IF set; between a `sti` and the next `cli`
  there is one, though IF is not set continuously. The last conjunct is an
  assumption on clients, not on the kernel: tasks are cooperative, so one that
  gets to run again and again must yield or exit and leave its sections again
  and again. Nothing is fair about creating and starting tasks. `ReadyRuns`
  carries `StartsForever` for a reason: `task_start` puts a task at the *head*
  of the queue (`task.c:123`), so tasks that start one another for ever can keep
  a waiting one from running. The idle task never gives the CPU back (it halts
  in a loop and no handler calls the scheduler), which is why `NoStrandedTask`
  matters.
* *BootLoader.* The CPU executes, the BIOS answers, somebody presses the key that
  `fail` waits for, and the number of errors is finite (`MaxErrors`).
* *Keyboard.* Only the CPU is fair. The controller may never take a command.
* *Interrupts.* `WF(Handler)`: handlers run. `SF(Accept(TIMER))`: the timer has
  the highest priority, so the CPU takes its interrupt at the next boundary at
  which interrupts are on; they may go off again before, hence strong fairness.
  Nothing is fair about the devices, the timer chip or the client. `TicksGoOn` is
  therefore conditional: *if* again and again there is a request while interrupts
  are on, the driver runs again and again. A client that closes the timer's line
  is not among those modelled (nothing in the kernel does).

## 5. Proofs

`SchedProofs` proves, for any set of clients and any `MaxNest`, with
`SchedAssumption` (the boot thread is a client, the idle task is not, `MaxNest`
is a natural number) as the only assumption, for the specification without
fairness:

* `Invariance`: `Spec => []IInv`, and from it
* `TypeCorrect`, `IrqQuiescent`, `SectionsBalance`, `NoneStranded`,
  `ResumesSuspended` and `ExitIsFinal`: each safety property of `sched_safety`.

None of the properties is inductive by itself: what an interrupt sees depends on
what `task_reschedule` has done several steps earlier. `IInv` adds

* `SuspendedInv`: what a stack that is not on the CPU looks like, by its task's
  state: never created; new, in the trampoline with count 1; left in
  `task_reschedule` with one section more than its client's; left by
  `task_exit` with two more; or the boot stack with two. It makes `RsSwitch`
  resume something known.
* `FrameInv`: where the stack on the CPU can be, where its call returns to, and
  that `cpu` and `current_task` differ only between pick and switch.
* `FlagInv`: IF against the count, through the halves of `cli` and `sti`.
* `StateInv`: the task's `state` at every label of the functions that change it.
* `QueueInv`: the queue and the one task in hand (`InHand`) are the READY tasks.

The proof has one lemma per action, and three about sequences (appending,
prepending and taking the tail of an injective sequence) under them.

`TaskingImplemented` proves that `Sched` implements `Tasking`, step by step: each
action is a step of the abstract specification or a stutter. Most of a
`task_reschedule` is a stutter. Beside `IInv` it needs `LastInv`: a task that has put
itself back in the queue is the last of it until it has been switched from, or a
step of the queue would not be a step of the abstract one.

`RunQueueProofs` proves `PointersAreQueue` (`RQSpec => []QueueLinked`) for any set
of tasks. What is added to `IInv` of `Sched` is only that `nodes` is a memory of
the tasks' and the queue's nodes; the work is in the lemmas about `list.h`, which
say what each operation makes of a memory that is a list: `AddHeadList`,
`AddTailList`, `RemoveHeadList` and `ClearKeepsQueue`, with the empty list and neighbours as cases.

`QueueIsRead` proves `ListReads` in the same module: whatever the length of the queue,
peeking, `list_next` and `list_prev` with and without wrapping, `list_length` and
`list_is_empty` answer what the queue says, and removing the tail or any member
leaves the list without it. `list_length` is a loop; that its `k`th turn stands
at the `k`th member is shown by induction over the places of the queue. It is
here that the tasks have to be finitely many (`RunQueueAssumption`), or a queue
without repetitions could not be bounded by them.

`BootLoaderProofs` proves, for any set of kernels that fit the floppy, any number
of read errors and any memory (`KernelFits`, `BoundsAssumption`):

* `Invariance`: `Spec => []IInv` (the `IInv` of `BootLoader`), and from it
* `TypeCorrect`, `TracksKept`, `GaplessLoad` and `KernelWhole`: every safety
  property of `boot_load`.

What makes the invariant inductive is `Position`: cylinder, head and sector are
the linear position of the next sector of the part, and `cx` is what is left of
it. It is held in `bx` and `cx` between reads and on the stack during one
(`AtCall`); a read either comes from it or, after an error, asks for sector 0,
which no BIOS can do (`AtRead`), so a wrong retry never copies anything. The
arithmetic is in lemmas of its own: `CountFits` (a read that starts at a position
of the disk stays in its track and ends the track or the part) and
`NextTrackFollows` (head and cylinder after it). The bounds 255, 65535 and 1 MB
have names because the provers expand literal ranges.

`InterruptsProofs` proves, for any devices, drivers and exceptions, any
`Countdown` and `ByteBase` (`InterruptsAssumption`): `InterruptsInvariance`, and
from it `FramesDoNotNest`, `MasksAreAsAsked` and `CountInOnePiece`. The invariant is

* `Stacked`: there is a frame only with interrupts off, and then one;
* `SetUp`: how many initialisation words each controller has had, by the number
  of writes `pic_init` has made, so that a byte at a data port is known to be a
  word or a mask;
* `Masked`: during `pic_set_mask` every line but its own is masked as asked, and
  what is about to be written differs from the mask in that line only; it is
  inductive because no handler writes a mask;
* `CountKept`: what is latched is the digits of a count in `seen`.

The second half of the module goes on from there, with `IInv` as a premise of every
step, and proves `EachServiceEnds` and `FramesAsExpected`. Its invariant `SInv` says what is
in service in which controller by the place of the handler on the stack
(`Serving`: before the EOIs at most the interrupt of its vector, with line 2 of
the master if it is one of the slave's; between them only the master's), and
therefore has to know that the vectors are those `pic_init` wrote (`VectorsSet`)
and how an 8259 makes a vector of ICW2 (`BaseOf`). The frame is compared word by
word (`FrameWords`), for every vector, where the run has two exceptions.

`InterruptsTyped` proves the type invariant (`Ranges`: each register of both 8259s,
the depths and the counters), and `IrqServiceImplemented` that all of this, access by
access, implements `IrqService`: one interrupt at a time, the first in priority of
those asked for and not masked, each taken once and handled to its end, the time
going on by one period with each of the timer's and with nothing else.

`KeyboardProofs` proves `NeverOverrun` and `EveryByteAsks` for any keys and any
number of polls. `NoSilentByte` is nearly inductive; `NoOverrun` needs `Polled`: what
the wait before a write has found out stays true, for only the CPU fills the
input buffer. `KeyboardTyped` is the type invariant. `EchoIsRight` (`EchoFollowsShift`)
needs `ShiftsFollow`: the two shift flags say, of everything `keyboard_irq` has
read, what the last code of either shift key was.

`ShiftReleased` (`ShiftNotStuck`) relates the flags to the keys somebody holds.
`SInv` has three parts: while the driver flushes, how many bytes from before it
can still be there (`Flushing`); that the answer to the read of the control
register is taken as such (`FirstAnswer`); and that the last byte of a shift key
still on its way, or the flag if there is none, tells whether it is held
(`ToldAll`). It has two hypotheses, stated in the theorem. `PlainKeys`: a shift
key sends its code and its break code, and no other key sends either. `QuietStart`:
what was left in the keyboard at the start is no more than the flush can drop, and
the control register is not the code of a shift key, for it can be read as one. Keys
and starts outside of them do make shift stick, so the theorem cannot do without.

`HeapProofs` proves `TypeOK` (`HeapTyped`), `EachWordOnce` (`WordsHaveOneOwner`),
`SortedAndMerged` (`ListIsMerged`), `PayloadFits` (`BlocksFit`) and `Accounting`
(`AccountIsRight`) for a heap of any size and any requests, and that `Heap` implements
`Allocator` (`HeapImplemented`), from `HeapAssumption` alone. The invariant `HeapInv` is
`Divided`: the free list is sorted and merged, every block is in shape (aligned, its
header inside), and free list, live blocks and the pages `heap_trim` has handed
to `page_free` divide the heap; with what `remaining` then has to be. `Divided` says of the
list as a set of cells what its walks need; where the first fit is, where a
chunk is inserted and what `heap_trim` leaves are found by induction over the places
of the list, from `f[k]` to `f[k+1]` (with the least place that is different). That an
aligned pointer stays in its block rests on a lemma on powers of two.
`ReallocIsSafe` (`ReallocKeepsABlock`) follows from the same invariant: what the first
fit takes is no part of a live block, the one being reallocated among them.

`FreeListIsLinked` proves `FreeListLinked` of `HeapLinks` in the same module
(`HLSpec => []FreeListLinked`). `HeapLinksAssumption` is needed beside `HeapAssumption`:
the list's head is not in the heap, and nothing of either is at `NULL`. The
invariant `LinkedInv` is `HeapInv` and `LinkedAs(mem, free)`, which says what
`FreeListLinked` says and that no address is twice in the list. `HeapInv` is needed for
more than the sequence: that chunks do not overlap is what keeps the node
of a remainder, or of a block just freed, off the nodes already linked. The argument has
four layers.

* *Pointers.* `AddTailMem`, `AddHeadMem` and `DeleteMem`: the three nodes each function
  of `list.h` writes, for any memory.
* *Sequences.* `InsertLinked`, `RemoveLinked`, `ResizeLinked` and `UnlinkLinked`: what this
  makes of a memory that is a list, with `Inserted(t, s, k, c)` (`t` is `s` with `c` behind
  its first `k` chunks) for both insertion and removal. `OtherLinked`: a node that is not in
  the list can be written over.
* *Walks.* `WalkMem` and `LengthMem`: the `k`th turn of `list_for_every` stands at the `k`th
  chunk. With them the chunk a walk stops at is the one `Heap` finds by position.
* *Operations.* `InsertMemLinked` (the chunk linked in, then merged with its neighbour on
  either side or both), `AllocMemLinked`, and `TrimAllLinked`, whose loop deletes and inserts
  under a walk: after `k` turns the memory is `Left(free, k)`, what the turns have left of
  the first `k` chunks and the rest untouched, and the node read ahead is still the
  next chunk (`TurnLinked`).

`ConsoleProofs` proves `ColumnReturns` for every width, height, tab stop and text
with keys coming anywhere (`ColumnTested`: at every statement but the test itself
the column is on the screen, and a key leaves it there), and
`NothingBehindTheScreen` as long as none came in the middle (`OnItsOwn`: line and
column by the statement of `putchar`).

`TailIsShown` (`ShowsTheTail`) relates the frame buffer to the whole text. `On(v, l, rows)`
says that a memory shows the end of some rows with the last at line `l`, which may be
the one past the bottom, and three lemmas what the three things `putchar` does make
of it: `NewLineOn`, `InkOn` and `MovedUpOn`. From them follows for each statement what is still
missing to the terminal the character leads to (`Missing`), in the middle of the
copy too; the invariant adds that what is left of the string leads from there to
`printed` (`Rest`). `putchar` does not do what a terminal does with a newline in the middle of
a row, so `Leads` asks that every newline comes in column 0, and `WriteLeads` shows, by
induction over the string, that `console_write`'s returns see to that.

`PrintfProofs` proves `BufferKept` and `CutsReported` for every format, width,
integer size and buffer; what `BufferKept` says of the terminator is for buffers
whose length is not 0. `Accounted` says that the buffer holds the first
characters of what was formatted, as many as there are or fit, and `Ended` where
the terminator went; the lemmas under it give the length of a padded field, for
the sum of what is formatted to be a number at all.

`FieldsAsC` proves `MatchesC` in the same module, for every combination of flags, width,
type and argument; what it assumes of the types (`PrintfAssumption`) is that none is
wider than `long long`. It has three parts.

* *Digits.* `ToDigitsIs`: the digits the loops put, each read off by a power of the base,
  are those of `Numeral`, which takes the last one off first. `HasDigits` says how many
  there are, `PlacesIs` that the loops put as many, and `NumeralIs` that the two are the
  same, by the least number of which they are not: its quotient by the base is
  smaller. The number of turns is bounded by a third of the bits, which is enough
  from base 8 on (`EightIsThree`). `SignedIs` and `UnsignedIs` bound what `va_arg` returns, the
  magnitude of the most negative value among it.
* *Layout.* `Laid` and `CLaid` are the two ways a field is put together, for a blank and a
  zero of which nothing is known. `SameFront`, `SignLost`, `SignAdded` and `PrefixAdded` say when
  they give the same text, and by which character or length they are told apart
  when not. That a digit is no sign (`DecimalCharacters`) is what makes a lost sign show.
* *Conversions.* One lemma each, from what `DefinedByC` says of its flags. The invariant
  needs, beside `PInv`, that no field is read with the engine's own flag for capitals set
  (`FieldInv`), or `%x` would come out in them.

`b^k` is written as the recursive function `Power`, because nothing is known to the
provers of the operator of the library.

Only model-checked: liveness (`ReadyRuns`, `IrqTaken`, `BootsInTheEnd`, `InitEnds`,
`KeysAreRead`, `TicksGoOn`), which is out of the prover's reach. Every invariant and
every other action property or refinement of a passing run is a theorem. `Accounting`
is a theorem only: no run checks it.

## 6. Findings

1. *boot_retry.* After a read error `load_floppy` jumps back to `tryagain` with
   `bx` and `cx` as the BIOS call had them (`bootblock.S:216-217`): the retry asks
   for sector 0 of cylinder 128. It cannot succeed, so a single error always
   leads to `fail`. That is why `BootsInTheEnd` needs the reboot.
2. *console_scroll.* A key echoed between `line++` and the end of a scroll
   (`hw/vga.c:83`) scrolls the screen once more under the copy.
3. *keyboard_ctr.* `(command & 0xf0) >> 8` (`hw/keyboard.c:155`) is zero for every
   command: the control register is never read, and what is written back has
   lost its other bits, for instance the system flag.
4. *keyboard_code.* `lastCode` is stored after its high bit is gone
   (`hw/keyboard.c:239`, `265`), so no code is recognised as following `0xe0`.

One disagreement with C has no run, as no doc, comment or test of the repository
says otherwise and no caller in `src/` meets it: with a length of 0 `vsnprintf`
writes its terminator to `str[-1]` (`printf.c:96`), where C has nothing written.

## 7. Not modelled

* *Boot loader:* the A20 gate, the mode switches and the VESA code; `makeflop`'s
  files, where a read error is written out as a length (`makeflop.c:147`); the
  memory map's count, which is a byte (`bootblock.S:351`), at more than two entries.
  What is loaded does not depend on the memory the BIOS reports: `KernelComplete`
  takes every word the loader writes to be there.
* *Heap:* the contents of blocks, and with them the copy of `realloc`, which reads
  the new size from the old block (`miniheap.c:353`); sizes near 2^32, where
  `miniheap_alloc` and `calloc` wrap (`HeapAssumption` excludes them);
  `low_watermark`, which starts at 0 and never says anything (`miniheap.c:306`).
* *Tasking:* `task_create` on a task that is alive, which its contract excludes.
* *Exception entry:* the descriptor tables and the hardware TSS, which are written
  once; the fault dump.
* *Formatted output:* the other wrappers of the engine, which set a length or a
  `va_list`; fields with a precision; floating point, which is not compiled in.
  `string.c` and `ctype.c`: loops over memory without state.
* *Debugging aids and build:* hex dumps, traces, panic; no behaviour of the system.
* *Timer:* that a tick raised while another waits is lost is the hardware's doing
  (an 8259 latches one request per line), and `current_time`, which wraps, has no
  caller: no property says anything else of either.
* Liveness of the console has nothing to say: its loops are bounded by the string.
* `Interrupts`, `Keyboard` and `Sched` are not composed in one run. They meet in one
  place each: `Sched`'s `TakeIrq` is the whole of a handler, which `Interrupts` shows to
  run with interrupts off and one at a time; the request latch in `Keyboard` is
  line 1 of `Pic`. Handlers share nothing with the scheduler.

## 8. Order in which the modules can be read

`Tasking`, `Sched`, `List`, `RunQueue`; `Pic`, `Interrupts`, `IrqService`; `Keyboard`,
`Console`; `Allocator`, `Heap`, `HeapLinks`; `BootLoader`; `Printf`; each proof
module after its own. What would be worth doing next: the contents of blocks, so that
`realloc` and `calloc` can be stated; and `Interrupts`, `Keyboard` and `Sched` in one run.
