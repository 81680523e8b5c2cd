# A verification of the bare-metal kernel

The repository is a small operating system kernel for the Raspberry Pi 3: one
core, interrupts, preemptive tasks, two memory allocators, a virtual file
system and a shell on the serial line. This directory holds TLA+ models of its
core, the TLC configurations that check them on small instances, and TLAPS
proofs of the properties that matter most for every size.

    tlc -workers 2 -config Scheduler.cfg MCScheduler     # one run
    tlapm SchedulerProofs.tla                            # one set of proofs

`PROJECT.json` lists the components, the runs, the source lines each definition
stands for, the hazards of the code and the theorems.

## 1. The system

### Components, their state and how they interact

| component | source | state | operations |
|---|---|---|---|
| scheduler and process calls | `lib/scheduler.c`, `lib/exception.c` | `run_queue`, `zombies_queue`, `pid`, the task structs, `tpidr_el1` | `task_create`, `schedule`, `idle_thread`, `kill_zombies`, `kill_thread`, exit, fork, kill |
| core timer queue | `lib/timer.c` | `timer_queue`, the compare register, the interrupt mask | `add_timer`, `pop_timer`, `normal_timer` |
| page allocator | `lib/malloc.c` | `frame[]`, `page_list[]`, a list item in each free block | `page_init`, `memory_reserve`, `page_allocate`, `page_divide`, `page_free`, `merge` |
| slab allocator | `lib/malloc.c` | `pool`, a header and a byte map in each pool page | `malloc_`, `open_page`, `free`, `remove_page` |
| signals | `lib/exception.c`, `lib/scheduler.c` | `temp_queue`, `signal_pid`, `signal_exit`, `_handler`, `task.handler` | register, `signal_kill`, `signal_handler_wrapper`, `remove_task`, `add_to_queue` |
| virtual file system | `lib/vfs.c` | `rootfs`, mount points, open files, `fd_table`, `cwd` | mount, open, close, read, write, mkdir, chdir |
| tmpfs, devfs, initramfs | `lib/tmpfs.c`, `lib/devfs.c`, `lib/cpio.c` | the vnode trees, `mounted` | lookup, create, mkdir, read, write |
| path translation, tokenizer | `lib/vfs.c`, `lib/string.c` | the static variables of `strtok` | `to_abs_path`, `spilt_strings` |
| UART | `lib/uart.c`, `lib/devfs.c`, `lib/exception.c` | the two FIFOs of the device (the rings in memory have no caller) | `uart_send`, `uart_getc`, uart_write, uart_read, `devfs_write`, `devfs_read` |
| shell, boot, exception vectors | `lib/shell.c`, `main.c`, `start.S` | the input line | `run`, `mount`, ... |

The shell runs on the boot stack. Its command `run` creates a task for the
program and enters the idle loop, which adds a periodic timer and calls
`schedule()`. From then on control moves in three ways only: system calls of
the running task, the timer interrupt, and `schedule()` switching stacks. When
the idle task is alone, `schedule()` masks the timer and *calls* the shell,
which never returns. The timer interrupt allocates (`add_timer` calls
`malloc_`), and `task_create` allocates a struct and two stacks, so the
allocators are below everything; the slab allocator gets its pages from the
page allocator. The file system is used by exec, by `task_create` (three open
files per task) and by the file system calls.

### What is hard in it

* **Interleaving.** Handlers run with interrupts masked from the exception
  entry to the `eret`: `start.S` never unmasks, and the only code that does is
  that of the UART system calls (`exception.c:71-80`). So the interleaving is
  between whole handlers, and between the tests and accesses of tasks that
  share the serial line - but a handler that calls `schedule()` is itself
  suspended in the middle, and its rest (the end of `pop_timer`, the body of
  the idle loop) runs after any number of other handlers, or never.
* **Shared state with one link.** A task is in `run_queue`, in `zombies_queue`,
  parked by a signal or running, through a single `next` pointer. Any mistake
  loses a task or closes a list into a cycle.
* **Ordering.** The pid counter goes back to 2, the timer is masked but its
  queue is not emptied, tasks are reaped one at a time: each is right only if
  something else has happened before.
* **Arithmetic at boundaries.** `memory_reserve` works with inclusive ends and
  three loops with different comparisons; the buddy of the last block is past
  the array; `free` recovers page and slot from an address.
* **Partial failure.** Callers do not look at results: `page_allocate` may
  return -1, a directory may be full, a path may not exist.

`PROJECT.json` has the complete list of hazards with their lines. The
properties that make each component right:

* scheduler: every task struct is in exactly one place; dead tasks do not run;
  pids identify live tasks; the shell is alone; there is always a next task;
  no starvation; zombies are freed;
* timer queue: sorted, the hardware set for the first timer, nothing early;
* page allocator: blocks tile the memory, lists are exactly the free blocks,
  reserved and held memory is never handed out, everything merges back;
* slab allocator: slots of different callers are disjoint, `free` undoes
  `malloc_`, pages go back;
* signals: no task is lost while one is parked, the target runs again after its
  handler, an exit does not kill it before, a target without handler is killed;
* file system: the vnodes form trees, a path finds what was created there, no
  call changes what other paths name, a relative path stays where the task is,
  the archive is shown as it is, a file returns what was written;
* serial line: bytes leave once and in order, every write ends.

## 2. The plan

Done (sections 3 to 6):

1. `Scheduler`, its abstract specification `TaskLifecycle`, their proofs.
2. `TimerQueue`, its abstract specification `TimerCount`, which is what
   `Scheduler` assumes of the timers, and their proofs.
3. `PageAllocator` and `SlabAllocator`, and their proofs.
4. `PathTranslation` (tokenizer, `to_abs_path`) and `Cpio` (the walks through
   the archive), operators that `FileSystem` (the tree of vnodes, mounts and
   the working directory) extends; `OpenFiles` (descriptors, positions,
   contents); their proofs in one module, `VfsProofs`.
5. `Signals`, on linked lists, with the steps of the wrapper in user mode, and
   its proofs.
6. `Uart`, the polled serial line under preemption, and its proofs.

Left, in this order:

7. `PageAllocator` gets an abstract specification, a partition of the pages
   into free and held blocks, that implies what `SlabAllocator` assumes of the
   blocks of `page_allocate`; its invariant is proved already.
8. Composition of `Scheduler` with allocations that fail, and of exec.

## 3. The modules

### Scheduler (`lib/scheduler.c`, `lib/exception.c:163-226`, `lib/shell.c:41-46`)

One action per handler: `ShellRun` (the command `run` up to the first
`schedule()`), `IdleSchedule` and `KillZombies` (the two calls of the idle
loop), `TimerIrq`, `Exit`, `Fork`, `Kill`. Two kinds of handlers may not
return, and keep the timer off while they run, since they run masked like all
others: a call that waits for a device (`PollDevice`, `PollReturns`: read of
`/dev/uart`, `devfs.c:60-66`, or the mailbox) and `invalid_exception_router`
(`InvalidException`, `exception.c:44`), in which unknown calls and faults end.
They change nothing but what the CPU does. Since nothing can interrupt a
handler, the action contains the handler, the switch it makes and the code in
which the next task resumes: a task that was preempted finishes `pop_timer`
(`ResumeTimer`), a fresh one enters user mode, the idle task returns into its
loop (`ResumePoint`). `Schedule` has the three branches of `schedule()`:
another task is ready, the idle task is alone, and nobody is ready at all -
the code then switches to NULL, which the model calls `crashed` and keeps.

The linked queues are sequences; `context` says where a task resumes instead
of its registers; `timers` counts `timer_queue` (`TimerQueue` proves that
counting is enough). `Task` is the set of task structs `malloc_` may return; a
struct that was freed can be handed out again. `Killable` are the pids that
user programs pass to kill. `MaxPid` and `MaxRuns` bound the pid counter and
the number of runs; both are guards of the actions that count.

Assumptions: the timer does not tick in the few instructions between
`add_timer` in `idle_thread` and its first `schedule()` (the period is 31 ms);
`malloc_` succeeds, in the calls and in the timer interrupt. Copying of
registers and stacks in fork is left out, and so are signals, which have a
module of their own (a list that they have closed into a cycle would be another
handler that does not return).

`TaskLifecycle` is the abstract specification: free, ready, running, zombie,
at most one running. `phase` in `Scheduler` is the refinement mapping and
`LifecycleSpec` the property.

### TimerQueue (`lib/timer.c:65-109`)

`timer_queue` is the sequence of the expiration times, `compare` the compare
register, `waiting` the number of `pop_timer` calls whose callback has not
returned because `schedule()` switched away. `Irq` is `irq_router` up to the
switch, `PopTimerEnds` the rest, in any order and any time later, `KillWaiting`
the case that it never comes, `Run` and `EnterShell` the other users.
`AddTimer` has the branches of `add_timer`; `Predecessor` is its insertion
loop as it is, which does not sort in general. `TimerCount` is what `Scheduler`
knows: how many timers there are and whether the interrupt is enabled.

### PageAllocator (`lib/malloc.c:18-221`)

`mem` is the memory the allocator works on: `frame[]` (order and status; one
entry more than the array has, which `merge` reads), `page_list[]` and the
`next`/`previous` pointers of the items in the free pages. `page_init` is one
action per iteration of its loops, so that its cursor `head` can be followed:
`InitBlock`; for each range `StartReserve`, `SplitStart`, `Fill`, `SplitEnd`,
`EndReserve`; `ListBlock`. `Allocate` and `Free` are the whole calls, with
`Divide` and `Merge` as functions that repeat `SplitHead` and `MergeOnce`.
Stale pointers are kept: an item that left its list holds `Junk`, and the new
head of a list keeps the previous pointer that the code does not clear.

Two cases leave the arrays. A range that ends one page behind a block sends
`memory_reserve` below order 0; the model records this in `boundary` and the
invariants about the tables are claimed without it, while `CorruptOnlyAtEdges`
says there is no third way to corruption. And a merge may take the bytes past
`frame[]` for a buddy (`GuardOrders` are the values that may be there).

### SlabAllocator (`lib/malloc.c:223-292, 334-338`)

Addresses are numbers, computed as the code does. `TakeSlot` and `OpenPage` are
the two ways `malloc_` ends, `Free` is `free` with `remove_page`; `SlotOf` is
the slot that `free` finds in the address alone. `live` is what callers hold.
`page_allocate` is used through its promise, which `SlabAllocatorAssumption`
states of `Blocks`: they are disjoint, start at a page and are each large
enough for the request. That `page_allocate` finds none is left out: it would follow the NULL head of a
list (section 4, findings). The model does not distinguish blocks by their order:
any of them is large enough for any request of the instance.

### PathTranslation (`lib/string.c:86-169`, `lib/vfs.c:198-219, 246-293`)

A text is a sequence of `Tokens`, slashes and names: names are atoms, because
the code only compares, copies and skips them. `Split` is `spilt_strings` with `strtok`,
which returns blank components; `SearchComps` is what a search visits with
`first_component` and `pop_first_component`, which skip slashes in their own
way, so that `//a` is one component for the one and two for the other.
`Translate` is the stack that `to_abs_path` keeps in place of its input (`Push`
is one round of its loop), and
`AtZero` what the bytes at address 0 spell: the inner loop of `to_abs_path`
runs over the end of `comps` when a text ends with `/` or `.`, and takes the
NULL there for a name. `Canonical` is the reference: it removes every name and
the `..` that answers it like a pair of parentheses, by the balance of names
and `..`, without a stack.

### Cpio (`lib/cpio.c:15-153`)

The archive is laid out as the cpio program does (`Offset`, `FieldOf`), and the
walks read it as the code does, header by header, from the two numbers in it.
`ReadHeader` has the uninitialised first digit (`Garbage`), which the width of
an int removes again. `cpio_cat` and `load_program` fill up names in another
way than `cpio_ls` and `cpio_parse` (`FileAt`; `WalkOn` is one round of the
loop, `Walk` the loop). A walk that meets no header is `Lost`. `Digits` is 2 instead of 8 in the runs; the arithmetic is the same.

### FileSystem (`lib/vfs.c:23-195`, `lib/exception.c:245-318`, `lib/tmpfs.c`, `lib/devfs.c`, `lib/cpio.c:157-246`)

`tree` is the vnodes with their components, `rootfs->root` and the static
`mounted` of initramfs; a vnode is its index, so a new one is always larger.
`cwd` is the working directory of the program that is followed, as a text, as
the code keeps it. `BootMount` is the two mounts that main makes after the
root; `MkdirCall`, `OpenCall` (with O_CREAT), `WriteCall`, `MountCall` and
`ChdirCall` are the calls of programs, which translate their path, and of the
shell, which does not (`PathsOf`); `TaskCreate` starts a task, whose `cwd` is
`/` whatever that of its parent was. `Search` and `CreatePath` are the two
loops of `lookup_path` (`FindComponent` and `MakeComponent` are their rounds),
which treat mounts differently: the searching one enters a chain of mounts (`Enter`), the creating one only what `tmpfs_lookup`
enters. The file system that a mount asks for is taken to be tmpfs, as in
every mount of the kernel where it matters: for another name
`register_filesystem` returns -1 (`vfs.c:19-20`), nobody looks, and the
uninitialised `setup_mount` is called. The file systems differ in `Setup` and in what their mkdir refuses
(`Refuses`). `damaged` remembers that an open made a file of a vnode it had
not created, `fault` that NULL was followed; `MaxVnodes` is the bound.

`Skips` is where the loop of `lookup_path` starts: its index is not
initialised (`vfs.c:109`, `for(int i; ...)`), and the kernel is built without
optimisation, so it starts at what the stack holds. The runs assume that this
is 0, which the program needs: `cpio.c:196` prints an empty text before the
call "for some bug I don't know why", and a call that leaves another value
there would skip components; with `Skips = {0, 1}` `CreatedIsFound` fails at
once. `CreatedIsFound` leaves out paths with two mounts on one directory and
paths with blank components, where the two loops do differ, and paths through a
directory of initramfs on which something is mounted: the creating loop asks
every directory on the way for mkdir, is refused there, and the open makes a
file of the root of the mount. `RelativeIsInside` leaves out working
directories with a component called `..` or `.`, which mkdir makes and chdir
enters if the path begins with a slash.

`TreeShape` is stated of any tree (`Shape`), so that the proofs can use it of
the trees between two steps of a call. Entries have names, as the search and
the creating loop treat blank components differently. Its last parts - nothing is mounted on
the root of everything, no directory has its own mount for an entry, and at
most two mounts lie on each other - are what the search relies on: a mount on
a directory that is found goes to the root of what is mounted there, and a
third one replaces the second.

### OpenFiles (`lib/exception.c:245-284`, `lib/tmpfs.c:37-100`, `lib/vfs.c:131-178`)

`fd_table` holds the handles of each task (a handle belongs to one descriptor:
fork opens new ones for the child), `len` and `data` the component of each
file. `Open`, `Close`, `Read` and `Write` are the system calls on files of
tmpfs, `CallClosed` every call with a descriptor that is not open. `Block` is
the larger block that a growing file moves to, with `Unwritten` for what
`malloc_` leaves in it; `Writable` and `Readable` are the unsigned sizes, which
wrap around if a position is ever behind the end. Where the file is found is
`FileSystem`; here a file exists or does not.

### Signals (`lib/exception.c:209-243, 320-329`, `lib/scheduler.c:97-186`)

`lists` are `run_queue`, `zombies_queue` and the one `next` pointer of every
task, as the code has them, because the wrapper works on them in user mode:
`Enqueue` walks to the end and notes if there is none (`endless`),
`RemoveTask` of the first task cuts off what is behind it. `SignalKill` parks
the target and creates the wrapper task, whose statements are actions
(`TestHandler` to `WrapperExit`; `AddToQueue`, `Walk`, `Link` and `Clear` are
`add_to_queue`), with `Preempt` between any two of them. `pc` is what a task
executes, `walk` the local variable of `add_to_queue`. Around it, `IdleLoop`,
`Fork`, `Kill`, `Exit` as in `Scheduler`.

`spoiled` becomes true in the six situations that signals do not survive, each
of which alone breaks a property: the target is the first task of `run_queue`;
another target is still parked; the wrapper, preempted between its walk and
its link, links behind a task that is no longer the last; the wrapper is
killed; the handler exits; the handler forks. The model goes on from there (a
list may become a cycle, in which the next `enqueue` does not end, or a task
that exited may be dispatched), but programs then only exit: this, and that no
task struct is used twice, are its bounds.

### Uart (`lib/uart.c:32-46`, `lib/exception.c:71-80, 137-147`, `lib/devfs.c:48-71`)

`uart_send` and `uart_getc` are two steps each, the loop that reads the line
status until it succeeds (`TestOf`) and the access to the data register
(`WriteByte`, `ReadByte`). A task makes them for each byte of a call; the
system calls uart_write and uart_read are preempted between any two steps
(`Preempt`), those of `/dev/uart` run masked, and `Kill` takes a task out of
the queue in the middle of a call. The device is two FIFOs of `Depth` bytes.
A byte is `<<task, number>>`, so that the order of a buffer and the loss or the
repetition of a byte can be seen. `raced` has the tasks that another one has
overtaken between test and access, `lost` and `junk` what happened at a full or
an empty FIFO. The conversion of `\r` to `\n` is left out: no property is about
the values.

## 4. The runs

| run | checks | instance |
|---|---|---|
| `scheduler` | `QueuesPartitionTasks`, `LivePidsUnique`, `ExitedNeverRuns`, `PreemptedOnlyInFirstRun`, `CrashOnlyIfIdleKilled`, `FifoOrder`, `LifecycleSpec`, `ReadyEventuallyRuns`, `ZombieEventuallyFreed` | idle task and three structs, every pid can be killed, pids to 5, three runs, calls that wait masked or never return, fairness |
| `timer_queue` | `QueueSorted`, `ArmedForHead`, `NeverEarly`, `CountSpec` | ten ticks, period 2, three runs, three preempted tasks |
| `page_allocator` | `BlocksTile`, `ReservedExactly`, `ListsAreFreeBlocks`, `HeldBlocksKept`, `AllFreedRestores`, `CorruptOnlyAtEdges` | seven pages, every pair of disjoint ranges in both orders, requests of one and two pages |
| `page_divide` | `NoPageCanBeDivided`: violated | the same |
| `slab_allocator` | `SlotsAreHeld`, `MemoryIsDisjoint` | pages of 4096 bytes, requests of 600, 1024, 2048 and 4096 bytes, three blocks |
| `file_system` | `TreeShape`, `CreatedIsFound`, `RelativeIsInside`, `AbsPathCanonical`, `ArchiveIntact`, `WalksAgree`, `PathsKept` | nine texts of at most two names, relative and absolute, six places to mount, four to change to, an archive of four files, four vnodes after boot, directories of three entries |
| `file_system_create_fails` | `DirectoriesStay`: violated | files in one directory of three entries, five vnodes after boot |
| `open_files` | `PosInFile`, `BytesWritten`, `WritesInBlock`, `OtherBytesKept` | two tasks with two descriptors, two files of at most two bytes |
| `open_files_read` | `ReadAtPosition`: violated | the same |
| `signals` | `TasksAccounted`, `ParkedIsAwaited`, `ExitKillsOnlyInWindow` | idle task and four structs, which are symmetric |
| `signals_no_handler` | `NoHandlerKills`: violated | the same |
| `uart` | `WrittenIsSent`, `OnlyRacesHurt`, `WriteEnds` | two tasks that write two bytes each, in one call or two, and read, FIFOs of one byte, two bytes from outside, fairness |

Why these bounds are enough. Three user tasks give every relation that the
scheduler distinguishes: one running, one ready before and one behind, one
zombie while another is created. Three runs cover the first run (preemption),
the second (a timer is left over) and a further one (more than one is left
over). In the timer queue three runs put earlier timers in front of the one
that is added, and ten ticks let each expire several times. Seven
pages are, like the 0x3c000 of the board, not a multiple of the largest block,
so the last block has its buddy outside the array; order 2 leaves two levels
to divide and merge across, and a `DivideLimit` below `MaxOrder` is the
situation of the constants 5 and 16. The sizes of the slab run share a class (600 and
1024, three slots to a page), fill a page alone (2048, the size of a task and
of a stack) and exceed it (4096, the largest file of tmpfs). Four vnodes
fill a directory, stack two mounts, or make a path of two names twice; the
texts have every shape that the two loops and `to_abs_path` distinguish, and
the sizes of the archive every case of filling up. Files
of two bytes are written over their end by either task from either position.
Four user tasks are a sender, a target and two wrappers, or three programs and
a wrapper, with the idle task waiting among them. A FIFO of one byte is full
after every write, where the eight of the device need more bytes to be; two
tasks and two bytes are a race, its victim, and what follows it.

Deadlock is checked only for `slab_allocator`. In the scheduler a program may
loop with the timer lost, and the kernel may crash or be stuck; the timers stop when the
bounded time is over; the page allocator stops when it fails; the file system
and the open files stop where NULL is followed, the file system also at its
bound; signals stop when the shell is called, or where no task runs any more;
on the serial line tasks may wait for bytes for good.

The invariants that are worth reading first: `QueuesPartitionTasks`,
`LivePidsUnique` (which needs `ShellRunsAlone`, because the counter is set back
exactly when nobody but the idle task is left), `CrashOnlyIfIdleKilled`,
`ArmedForHead`, `ListsAreFreeBlocks` (which says which stale pointer is
harmless), `AllFreedRestores`, `SlotsAreHeld`, `CreatedIsFound`,
`RelativeIsInside`, `PosInFile`, `TasksAccounted` and `WrittenIsSent`.
`QueuesPartitionTasks` and the others of a module rest on its type invariant
`TypeOK`; where that is proved, no run repeats it.

**Preemption.** `PreemptedOnlyInFirstRun` holds, and describes what the code
does rather than what one would wish: the timer that `schedule()` leaves in the
queue keeps `add_timer` from enabling the interrupt in the second run, so from
then on programs are switched only when they exit. The liveness properties are
therefore stated for the first run, while there is one timer (`timers = 1`).

**Findings.** `page_divide` looks at higher levels only below level 5
(`malloc.c:215`). It prints "No page can be divided!!!" (`malloc.c:219`) while
larger blocks are free, and `page_allocate` goes on with the NULL head of the
list (`malloc.c:161`). The run `page_divide` shows a shortest sequence. On the
board it takes a request of exec (level 6, `exception.c:153`) when the lists of
levels 6 and 7 are empty.

`file_system_create_fails`: `lookup_path` returns 0 also when mkdir failed, so
the message of `vfs.c:143` is dead code, and an open with O_CREAT in a full
directory, or under a file, makes an empty file of the last vnode it reached:
the directory loses its entries. `open("/initramfs/a", O_CREAT)` does this to
the root of initramfs, which "cannot" be modified (`cpio.c:230`).

`open_files_read`: `f_pos` is the position of a handle (`vfs.h:43`), but
`tmpfs_read` copies from the start of the file whatever it is (`tmpfs.c:97`).

`signals_no_handler`: a target without handler is not killed
(`exception.c:325`), because it is parked when the wrapper looks for it.

More the models have, without a run of their own.

* The last file of the archive is never inserted, because the loop ends at the
  file that has no next one (`cpio.c:191`; `Insert` in `FileSystem`).
* close, read and write of a descriptor that is not open follow NULL, and open
  returns such a descriptor when it fails (`exception.c:257-284`; `CallClosed`
  in `OpenFiles`).
* The uninitialised index of `vfs.c:109`, above.
* A text that ends with `/` or `.` makes `to_abs_path` read past the end of
  `comps` (`vfs.c:270`), so `mkdir a/` makes `a` and in it a directory whose
  name is whatever address 0 spells; `chdir .` looks for such a name.
* `chdir ..` from a directory of the root gives the empty path, because the
  root is the one directory that `to_abs_path` does not write with a slash. The
  call fails, after reading the byte before the buffer (`exception.c:312`).
  `open("..", O_CREAT)` there follows NULL.
* chdir to a file succeeds (`exception.c:311`), and a child of fork starts in
  `/` and not where its parent was (`scheduler.c:57`).
* `open("//a", O_CREAT)` creates `/a` but does not find it again: the search
  takes the blank component for a name. A second such open makes an empty file
  of the first, whose length stays; a write then copies from NULL.
* A byte that a task writes to the serial line is lost when the task is
  preempted between "wait until we can send" (`uart.c:35`) and the write, and
  the next tasks fill the FIFO and do not give it time to drain.
  `OnlyRacesHurt` says that this is the only way. A reader can find an empty
  FIFO in the same way.
* A read of `/dev/uart` waits with interrupts masked (`devfs.c:60`), so the
  whole system waits with it; uart_read does not. A program that faults, or
  makes a call with an unknown number, stops the whole system for good
  (`exception.c:44`; `PollDevice` and `InvalidException` in `Scheduler`).

## 5. Fairness

The runs `scheduler` and `uart` assume some. In `Scheduler`: weak fairness of
`IdleSchedule` and `KillZombies` (the idle loop is straight-line code), and
strong fairness of `TimerIrq`: the timer is periodic, `TimerQueue` shows that
it is armed whenever it is enabled, and once it has expired its interrupt stays
pending until it is taken. A handler that waits with interrupts masked delays
it to its `eret`, but no longer, so a program that makes such calls again and
again does not keep it off; weak fairness would allow just that, because
`TimerIrq` is disabled in between. It is not assumed that a handler returns:
no device need answer (`PollReturns` is not fair), and nothing leaves the loop
of `invalid_exception_router`. Nothing is assumed of user programs either,
which may loop for ever, nor of whoever types at the shell. So the properties
say: in the first run every waiting task gets the CPU or is killed, and a zombie
is freed, unless the idle task is alone and the shell takes over, the idle task
itself was killed, or the running task never comes back from a masked handler
(`[]Masked`). The last is the exception that `WriteEnds` has on the serial
line. Without it both properties fail, as they do with weak fairness.

In `Uart`: weak fairness of `Transmit` (the device sends what it has) and of
`Preempt`, and strong fairness of the two steps of each task. Strong, because a
task may lose the CPU, or find the FIFO full, again and again; but the timer
leaves it 31 ms at a time, in which it executes millions of instructions and
the device sends hundreds of bytes, so that it does not lose the CPU at the
same instruction for ever. Nothing is assumed of the bytes that come in.
`WriteEnds` therefore has the exception that the code has: the system waits for
good in a masked read.

## 6. The proofs

| theorem | states |
|---|---|
| `SchedulerProofs!Invariance` and its corollaries `TypeCorrect`, `Partition`, `PidsUnique`, `NoExitedTaskRuns`, `ShellAlone`, `Preemption`, `CrashCause` | the invariants of the run `scheduler` for every set of tasks and every bound |
| `SchedulerProofs!NoCrash` | if no program kills pid 1, `switch_to(cur, NULL)` never happens |
| `SchedulerProofs!Fifo` | no step lets a task overtake a waiting one |
| `SchedulerProofs!LifecycleRefined` | `Scheduler` implements `TaskLifecycle` |
| `TimerQueueProofs!TypeCorrect`, `SortedQueue`, `Armed`, `NoEarlyTimer` | the properties of `timer_queue` for every period and every bound |
| `TimerQueueProofs!CountRefined` | `TimerQueue` implements `TimerCount` |
| `PageAllocatorProofs!Inductive`, `TilingHolds`, `ReservedHolds`, `ListsHold`, `HeldHold`, `RestoreHolds`, `CorruptHolds` | the invariants of the run `page_allocator`, for every number of pages and of orders, every limit of `page_divide`, every set of ranges and whatever lies past `frame[]` |
| `PageAllocatorProofs!TypesHold` | `TypeOK` until a range ends one page behind a block |
| `SlabAllocatorProofs!Invariance`, `SlotsHeld`, `Disjoint` | `SlotsAreHeld` and `MemoryIsDisjoint` for every page size, every set of requests and every set of blocks |
| `VfsProofs!TreeInductive`, `Trees` | `TreeShape` for every archive, every set of paths and every limit, whatever the uninitialised digit and index hold |
| `VfsProofs!FoundPathsStay` | `PathsKept`, of every path that a program uses |
| `VfsProofs!CreatedFound` | `CreatedIsFound`, of every path, if the uninitialised index of `lookup_path` is 0 |
| `VfsProofs!RelativeNames` | `RelativeIsInside`, of every working directory that a program gets into |
| `VfsProofs!CanonicalPaths` | `AbsPathCanonical`, of every working directory and every text |
| `VfsProofs!EveryFileListed`, `FirstFileFound` | `cpio_ls` and `cpio_parse` meet every file, `cpio_cat` and `load_program` find the first file of a path that has data, for every archive (parts of `WalksAgree`) |
| `VfsProofs!ArchiveStays` | what the tree holds of the archive after boot it holds for good, with its data (the step of `ArchiveIntact`) |
| `VfsProofs!ArchiveShown`, `SameArchive` | `ArchiveIntact` and `WalksAgree`, for every archive of a file tree (`ArchiveFits`) |
| `VfsProofs!FilesTypeCorrect`, `PositionsInFiles`, `NoGarbage`, `NoOverrun`, `OthersUntouched` | types, `PosInFile`, `BytesWritten`, `WritesInBlock` and `OtherBytesKept` for any tasks, files, sizes and limits |
| `UartProofs!TypeCorrect`, `RacesOnly`, `InOrderOnce` | types, `OnlyRacesHurt` and `WrittenIsSent` for any tasks, buffers and depth of the FIFOs |
| `SignalsProofs!Inductive`, `AccountedHolds`, `AwaitedHolds`, `ExitWindow` | `TasksAccounted`, `ParkedIsAwaited` and `ExitKillsOnlyInWindow` for every set of tasks |

*Assumptions* are those on the constants: `SchedulerAssumption` (the idle task
is a task, NULL is not, the bounds are numbers), `TimerQueueAssumption`,
`PageAllocatorAssumption` (ranges lie in the memory, levels are at most the
largest order; any number of pages, not a power of two in particular),
`SlabAllocatorAssumption` (half a page has room for a header and a slot, no
request is beyond the largest power of two that `log2` finds, `page_allocate`
keeps its promise), `PathAssumption`, `CpioAssumption` and
`FileSystemAssumption` (texts consist of tokens, the slash, the blank, `.` and
`..` among them, no two names in a row and none of them blank; the special names
are names, and two of them are not the same; the archive is not empty, its paths
neither, and its numbers fit their fields; a directory holds an entry), `OpenFilesAssumption` (the uart is no file of tmpfs, NULL no
handle, garbage no byte), `UartAssumption` (finitely many tasks, a FIFO holds
at least a byte) and `SignalsAssumption` (finitely many tasks, the idle task
among them, NULL not). Two theorems assume more, in their statements. `CreatedFound` has
`Skips = {0}`, without which it is false (section 3). `ArchiveShown` and
`SameArchive` have `ArchiveFits`: the files with data have different paths, none
of which leads through another, each a row of names, and no directory has more
entries than tmpfs makes. That is what `cpio` writes of a directory tree, but
for the last: with more entries some files can not be made, and
`initramfs_setup_mount`, which does not look at results, puts their data into
the file before. The run evaluates `ArchiveFits` for its archive.

*The invariant of the scheduler*, `IInv`, is the conjunction of the invariants
of `Scheduler`; none is inductive alone. That the queues partition the tasks
after a switch needs to know that the running task is in neither queue; that
`schedule()` in the idle task may reset the pids needs that only the idle task
is left; that a preempted task re-enables the timer only in the first run
needs that in later runs no waiting task was preempted (`ResumePoints`). The
proof has one lemma per action, but for the steps into and out of handlers that
wait, which have one together (`WaitingInv`). `schedule()` is treated once, in its three
branches, for its three callers (`CallersInv`). What the queue operations do
to the *set* of queued tasks comes first (`EnqueueQueue`, `DequeueQueue`,
`UnlinkQueue`).

*The invariant of the timer queue* adds to sortedness and `ArmedForHead` that
every timer expires at most one period from now. This is why a new timer always
goes to the end: it is nowhere early, so `Predecessor` is the last position
(`InsertLast`) although the insertion does not sort in general. `FirstPosition`
shows that a least position exists at all, by well-founded induction on the
initial segments.

*The invariant of the page allocator*, `IInv`, has the same parts in every loop
of `page_init` and after it: the blocks tile the pages below the cursor
(`Tiling`: aligned, covering, with their marks inside), each is wholly reserved,
or free, or held (`Whole`), no two free blocks are the halves of one, but for the
block at work (`Settled`), and the list of each level is a sequence of exactly
its free blocks (`Lists`). None is inductive alone. That a merge joins two
blocks of a tiling needs alignment; that it may delete the buddy from its list
needs that the buddy is there, and is no head with a stale `previous` pointer,
which the code never clears: only `page_allocate` and `page_divide` leave one,
and they do not merge, while the head that `page_free` puts in front is new
(`Merging`). A tiling changes in four ways only - a block is halved, joined,
appended or changes hands - and there is one lemma for each (`Halving`,
`Joining`, `Appending`, `Remarking`), so that an action is a chain of these.
`merge` and `page_divide` repeat a step as often as the levels allow; `Recursion`
of `DataLemmas` gives what the repetition reaches. `page_init` makes no pair of
halves because its block sizes fall (`Falling`), whatever the number of pages. `AllFreedRestores` then is a statement about
intervals: blocks that cover a set of pages and contain no two halves are
determined by the set (`OneDissection`), so what merging leaves is what
`page_init` made, in whatever order blocks were freed. `ReservedExactly` is
`Whole`, at the end of a range; the invariant of the loops says how far it has
come (`ReservedSoFar`). All this is claimed until a range ends one page behind a
block (`boundary`): then there are blocks of order -1, and pages in no block.

*The invariant of the slab allocator* is about slots, not addresses: every
caller holds a marked slot that its request fits, every marked slot is held, no
two callers have one address (`Holders`); headers belong to a size class,
their counters to their marks (`Headers`). That `free` unmarks the right slot is
the arithmetic of lemma `Layout`: header, `page_info` and slots fit the page,
so the address divided by the page size is the page, and the rest, divided by
the size of a slot, is the slot (`DivisionUnique`; multiplication of two
variables is treated with lemmas of its own). From this two slots have two
addresses (`AddressUnique`), which each action needs, and slots of one page are
a slot apart (`ApartInPage`). A request beyond half a page fits behind the
header only because its size was doubled before (`SizeClasses`).

*The invariant of the file system*, `TreeIInv`, is `TreeShape` with the types,
and that before the mount of initramfs the root has no entries. The tree is
changed in four ways only, and there is one lemma for each: a vnode without a
place is created (`RootShape`), a directory gets an entry (`AddedShape`), a
vnode becomes a file (`FileShape`), a vnode gets a mount (`MountShape`); a fifth
replaces the root (`NewRootShape`). That a mount keeps the shape is the
interesting one: it is put on what a search has found, which is an entry
without mount or the root of a mount (`Reached`), so that no third mount gets on
top of two, and what a mount replaces is a root without a further mount. The
loops over the components of a path and over the archive are recursive
functions; `DataLemmas!Solvable` shows that such a function exists and keeps
what one round keeps, so there is one lemma for a round (`MakeStep`,
`FindStep`, `AddArchivedAdds`, `WalkStep`) and one for the loop
(`CreatePathMakes`, `FoundDefined`, `InsertInserts`, `ParseType`). The search
for the next component goes by recursion on the rest of the text (`Descent`).

`FoundPathsStay` needs more than the shape of the tree after the step: that old
vnodes keep their names and types, and their entries as a prefix of the new
array (`Relies`), so that `tmpfs_lookup` meets the same entry first
(`LookupKept`), and that a mount changes only on a vnode that a search can
find. The latter makes the search enter the same chain of mounts (`EnterKept`):
an entry that has a mount is not found itself, nor is the second of two mounts,
so neither can get another one. By induction on the components every prefix of
the path is found as before (`FoundKept`). A mount call makes the special names
first, so it is two such steps, and what covers the path is decided by the
first tree (`PathKept`). The same four changes give `ArchiveStays`: a file that
is not of tmpfs keeps all but its mount (`KeepsFiles`).

Texts are compared by counting: a text has a row of names (`Counts`,
`Spells`), the search visits just these if it meets no blank component
(`SearchSpells`), and the tokenizer yields them with blanks in between
(`Skims`, `SplitSkims`), so that the two ways of taking a path apart agree. For
`CreatedFound` the loop that creates then goes along the directories that the
search has found (`Chain`, `CreatableChain`), makes the rest one below the other
(`Sprouts`, by induction on the names: `FirstSprout`, `NextSprout`), and the
search goes down the new directories (`LeadsFound`). For `RelativeNames` the
invariant is the form of `cwd`: a text that begins and ends with a slash
(`CwdForm`), which chdir keeps because what it found began with one
(`FoundBegins`); the stack of `to_abs_path` then is the row of the names of
`cwd` and of the text (`TranslateSkims`), and the search of one name more goes
through the directory that the search of `cwd` finds (`FoundOnTheWay`).

For `CanonicalPaths` the stack is compared with the reference round by round, as
a fact about parentheses (`DataLemmas`): `Stacked` says that it holds the
components that no `..` has cancelled so far (`Remains`), in their order, the
`..` among them first, and that behind the m-th of the L entries, a name, the
path has never been shorter than there and is now L - m longer. So the name on
the top is the only one that the next `..` cancels (`StackPops`), and a `..`
without a name to cancel stays (`StackPushes`).

The walks through the archive are exact: offsets grow by what header, name and
data fill up (`OffsetFacts`), and of each field the uninitialised digit is
shifted out of the 32 bits before the value is used (`HeaderRead`), so
`FileRead` gives every file whatever the digit, and `WalkList` the list. That
the list then makes the tree of the archive needs to know what is in the mount:
every vnode behind its root has a label, the names that lead to it, which is
the way to a file that was inserted before or the path of one (`Labels`). So a
directory on the way to the next file is no file (no path is the way to another
one), and has no more entries than the archive has names there, but for the
next (`RoomLeft`, by cardinalities): the file is made, at the end of its path,
and every file before it stays (`InsertFile`, `FilledMore`). `ShownSearch` takes
the name of the mount off a path, and `ArchiveInv` keeps what boot has made.

*The invariant of the open files* is the conjunction of `TypeOK` and the three
properties. `PosInFile` carries the rest: a position in the file is what makes
the number of bytes that a write copies fit the block that it has allocated
(lemma `WriteBounds`), and with it every byte between the old end and the new
one is written. The action property `OtherBytesKept` follows from it: only a
write changes bytes, and what it copies from the old block is all that its
handle does not pass over (`WriteKeeps`).

*The invariant of the serial line* adds `TestHolds`: a test that has succeeded
stays true until the task itself or another one accesses the same FIFO, which
`raced` then records. The device only makes it truer: it takes bytes out of
the FIFO that is tested for room, and puts bytes into the one that is tested
for data. A second invariant, `Bytes`, is about the order: of each task the
bytes 1 to `done` are sent, in the FIFO or lost, and a call that sends goes on
with `done + 1` (`Progress`). It needs that no task is in the queue twice, so
that a kill takes the victim out for good; `NoByteMoves` disposes of the
actions that move no byte.

*The invariant of signals*, `IInv`, has two parts. `Typed` holds always: the
list operations give lists even when a list has become a cycle, and the walk of
`add_to_queue` reaches its link with a task (`WalkEnds`). `Accounted` holds until
signals are spoiled. It says where each task is (`Located`: it runs, is parked,
is in one of the queues, or its struct is not in use), that one wrapper at most
is at work and `signal_pid` is what it has parked (`OneSignal`), and that a
parked task with a handler has a wrapper that will call the handler
(`HandlerKnown`). None of these is inductive without the others: an exit kills
`signal_pid` if it finds it in `run_queue`, which must not be a wrapper at work;
a second wrapper would link the target twice; a wrapper that has missed the
handler would leave its target parked. Half of the proof is about the linked
lists. A list that ends is a sequence without duplicates (`Chained`), and
`ChainFollows` shows that following the links for as many steps as there are
tasks meets just these, by the pigeonhole principle. Then `EnqueueQueues`,
`DequeueQueues`, `KillQueues`, `RemoveQueues` and `LinkQueues` say what each
operation does to the *sets* of both queues and which links it leaves alone
(`OnlyLinks`), and only these are used afterwards. `ExitWindow` follows from
`ExitPending`: while `signal_exit` is set, the target is parked, where
`kill_thread` does not find it, or a wrapper is between its link and the reset.

`DataLemmas` has what several of these need of lists - what linking, unlinking
and moving to the end do to the set of elements - and of numbers: that a set of
them has a least one, and, from it, what holds of a function that is defined
step by step (`UpTo`, `Recursion`). The induction is on the set of steps where
it fails, because the induction theorems of the library take an operator.

*Refinements* are proved action by action from the invariant: each step maps to
a step of the abstract specification or to a stutter.

Only model-checked: the three liveness properties (fairness is out of the
prover's reach), `TypeOK` of `PageAllocator` once `boundary` is set, and the
findings.

## 7. Not modelled

The interrupt driven rings of `lib/uart.c` are dead code: the one call, in
`printf.c:154`, is commented out, and `AUX_MU_IER` stays 0, so that
`uart_interrupt_r_handler` and its counterpart never run. `cpio_exec` and
`uart_read_byte` have no caller. exec replaces the image of a task; beyond a
handle that it opens and closes and 64 pages that nobody frees it changes
nothing that a model here keeps. (It does not translate its path, unlike the
other calls.) Further the exception vectors and register saving in `start.S`
(they justify the atomic handlers), the messages of the mailbox, the device tree, delay, reboot,
the system call stubs, line editing of the shell, `printf.c` (vendored), and the
build scripts: no state of their own that a property of the kernel could be
about.

Known limits: the boot stack grows with every run, because the shell is called
and never left; memory that is lost with a killed task (its `timer_list`, its
open files, the pages of exec) is not counted; no allocation fails in
`Scheduler` or in `malloc_`; every mount that needs a file system asks for
tmpfs.
