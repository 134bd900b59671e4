# KeyholeOS in TLA+

KeyholeOS is a small x86-64 kernel: it boots from GRUB, sets up memory, an
in-memory file tree and a shell that runs inside the keyboard interrupt, and
jumps to one fixed program in ring 3. There is no README in the repository; the
source, its comments, the messages it prints and `todo.txt` are the only
documents. This directory holds specifications of its parts, the
configurations TLC checks them with, and proofs checked by TLAPS. Paths below
are relative to `src/src/`.

## The system and its parts

| Part | Source | State | Operations | Hard because |
|---|---|---|---|---|
| Page allocator | `impl/x86_64/pmm.c` | bitmap at 0x300000, `total_pages`, `used_pages` | `pmm_setup`, `pmm_alloc`, `pmm_free` | rounding at both ends of regions, whole bytes only, the bitmap's own pages |
| Page mapper | `impl/x86_64/vmm.c`, `boot/main.asm` 25-65 | page tables reached from cr3, the translations the processor keeps | `vmm_init`, `vmm_map`, `vmm_unmap`, `vmm_get_phys` | tables come from `pmm_alloc` unchecked and are reached through the mapping they make; memtest takes pages out of it |
| Heap | `impl/x86_64/kmemory.c` | `free_list`, `heap_end` | `heap_init`, `kmalloc`, `kfree` | splitting, merging without looking at addresses, failure half-way through growth |
| File tree | `impl/x86_64/vfs.c` | nodes with parent, child and sibling pointers; `current_dir`, `sudo_mode` | mkdir, touch, cd, rm, rmdir, rm -r, mv, write, cp, cp -r; pwd, ls, ls -R, cat and the prompt read it | two directions kept in step by hand, cycles, protection looked up by name, copies that change the tree they walk, paths taken apart from both ends |
| Keyboard | `impl/kernel/main.c` 596-792 | `shift_held`, `ctrl_held`, `caps_lock`, `extended`, `input_buffer` | one call per scancode | bytes arrive late, two keys share a flag, two-byte keys |
| Shell | `impl/kernel/main.c` 70-100, 120-595, 727-756; `impl/x86_64/string.c` | history array and file, `sudo_mode`, `sudo_expires`, `ticks`, the words of a line in the heap | `execute`, arrow keys, timer | a ring read as a page, expiry that only the next command notices, early returns that free nothing |
| Console | `impl/x86_64/print.c` | text memory, `row`, `col`, the hardware cursor | `print_char`, `print_clear_char`, ... | unsigned column, wrap, scroll; the line is edited on a screen on which others print |
| Interrupts | `impl/x86_64/pic.c`, `boot/main64.asm`, `main.c` 599-660, 787-792 | PIC masks, requests and in-service bits, the interrupt flag, the gates | dispatch, `pic_init`, `pic_eoi`, exceptions, panic, reboot | interrupts during boot, acknowledgement of what was no interrupt |
| System calls | `impl/x86_64/syscall.c`, `boot/main64.asm` | none | write, exit, by `syscall` and by `int 0x80` | exit never returns |
| Task state | `impl/x86_64/tss.c` | the stack for interrupts in ring 3 | `tss_install` | it must be there before the first interrupt in ring 3 |
| Boot | `boot/main.asm`, `kernel_main` 858-912 | the order of the set-up | | everything up to the jump to ring 3 runs with the handlers on |

How they interact: `kernel_main` calls the set-up functions in the order
interrupts, pages, mapper, heap, task state, file tree, and then leaves for
ring 3. From then on everything happens in interrupt handlers that run with
interrupts off: the timer increments `ticks`; the keyboard handler decodes one
byte, edits the line, and on Enter calls `execute`, which calls the file tree,
which calls `kmalloc`, which calls `pmm_alloc` and `vmm_map`. Handlers are not interrupted by devices (`OneAtATime` of
`Interrupts`, checked), so that **a whole call is one step** in the models of
what runs inside them. The exceptions are modelled as what they are:

- `Interrupts` has every activity (`kernel_main`, handlers, exceptions, system
  calls) as a list of things to do, and an interrupt may come between any two.
- `kernel_main` runs with interrupts on from `load_idt` to the jump to ring 3, so
  its calls of the mapper (`Vmm`) and what it prints, character by character
  (`Console`), interleave with commands and with the line that is being edited.
- `VfsCopy` takes one step per node, because the copy changes the tree it walks.
- `CommandLine` takes one step per word and per call of `vfs.c` that allocates, because
  each allocation may fail.
- The keyboard moves while bytes are under way (`Keyboard`), and the timer ticks
  between the commands (`Shell`).

Nothing is persistent and there is one processor, so there is no crash recovery
to model; what fails is memory: pages (`Heap`, `Pmm`, `Vmm`), blocks
(`CommandLine`, `VfsCopy`), the stack (`VfsCopy`).

## Modules

- **Heap** — `kmemory.c`. `free_list` is the sequence of block headers met along
  the `next` pointers, `live` what callers hold, `frames` the pages the page
  allocator still has. `KmallocFit`, `KmallocGrow` and `KmallocExhausted` are the
  three ways through `kmalloc` (found; extended, then found in the recursive
  call; out of pages half-way), `Kfree` is `kfree`. The case "at `heap_max`"
  changes nothing and is no step. `vmm_map` takes at most one page per extension
  of less than 2 MiB.
- **AbsHeap** — what a user of an allocator may rely on: a set of owned ranges
  that never overlap, inside a heap that only grows. `Heap!AbstractSpec` is the
  refinement.
- **Pmm**, **MCPmm** — `pmm.c`. The bitmap is the set of pages whose bit is set.
  `PmmSetup` is `pmm_setup` with everything it calls. `held` is what callers got.
- **PmmHeap** — `Pmm` with the addresses of the code and the one write of
  `heap_init` that lands in the bitmap.
- **Vfs**, **MCVfs** — `vfs.c`. A node is an identifier; `kids[n]` is the sibling
  chain below `n`, `parent[n]` the other direction. One action per command; a
  command that returns an error changes nothing and is no step. Names are tuples
  because `mv` may store a path as a name. `status` becomes "hung" when a loop
  along parent pointers has no end. The two files that `init_filesystem` creates
  are ordinary files and left out, as are the lengths of names.
- **VfsRead**, **MCVfsRead** — the functions of `vfs.c` that change nothing: `Pwd` and
  `Prompt` (`vfs_pwd`, `print_prompt`), `Ls` and `LsR` (`vfs_ls`, `ls_recursive` and
  the commands around them), `Cat`. They are operators on a state of `Vfs`; that
  what the other calls did is right is said through them, as a user would see it.
- **VfsCopy**, **MCVfsCopy** — `vfs_cp_r` with `vfs_cp`, on a state of `Vfs`. `calls` is the
  stack of nested calls, each with its node and its place in the chain it walks;
  `CopyStep` is one turn of the innermost loop, with all lookups by path that the
  turn makes. `Build` makes a tree, a file with contents in it, by commands each of which
  may be left out.
  `job` remembers what was asked for and what the source looked like then.
- **AddressSpace** — what the callers of the mapper rely on: pages appear where they
  are asked for, with memory of their own behind them, and nowhere else.
- **Vmm**, **MCVmm** — `vmm.c` and all of its callers. `mem` holds the cells of the pages
  that are tables, `Walk` is the processor's way through them, by physical
  address, and `Load` and `Store` are the mapper's, through the tables as they
  are at that moment; `tlb` is what the processor keeps. A call works on records
  of the state, step by step (`Then`), and stops where the page fault handler halts ("fault") or where
  it would follow something that is no table ("wild"). `pmm_alloc` is "the lowest
  free page" (`Pmm`). `Vmm!MapsAsAsked` is the refinement of
  `AddressSpace`, for as long as the tables are in reach of the mapper (`TablesInReach`).
- **Console**, **MCConsole** — `print.c`, and how `interrupt_handler` edits its line on the
  screen. `t` is the screen; `PrintChar`, `PrintNewline`, `PrintClearChar`, `PrintClear`
  are the functions of `print.c`. `split` remembers that something was printed
  behind the line or that the line was erased past the start of a row: after
  that the screen does not show the line, and the properties do not say so.
- **Interrupts**, **MCInterrupts** — `pic.c`, the dispatch of `interrupt_handler`, the order
  of `kernel_main`, `syscall.c`, the two ways into it, and the program
  `userspacetest.c`. `stack` holds the activities, the topmost runs. A command returns
  (`Execute`), never does (`Hang`), reboots (`Reboot`) or raises an exception; so may
  `sys_write`, parts of the boot sequence and the program (`Fault`). Keys are typed at any
  time, also before the prompt. The controller (`pic`: requests, in service, mask, first
  vector), the interrupt flag, the behaviour of a processor that cannot enter a handler,
  and the keyboard's own buffer are external.
- **Keyboard**, **MCKeyboard** — the keyboard half of `interrupt_handler`. `keys` are those that the
  user of a behaviour touches; `pressed` and `wire` are
  the keyboard (external: scancode set 1), one action per branch of the handler
  is the kernel. The line recalled from the history is any line here.
- **Shell**, **MCShell** — `execute`, the arrow keys and the timer. A command line
  is reduced to "sudo or not" and a command; rm stands for one that removes the
  history file, ls for any that touches nothing modelled here. `log`, `granted`
  and `last` record the past for the properties and influence nothing.
- **CommandLine**, **MCCommandLine** — the heap as `execute` and `vfs.c` use it: a line takes an
  array and a block per word, calls itself for sudo, and frees at its end or returns before;
  the history, echo and cp take room for the contents of files, which grow with every line
  appended (`Add`), mkdir, touch and cp take nodes, and rm gives back. An array, a word, a
  node and a line of contents are a block each. Blocks are numbers; where they lie is
  `Heap`'s business. Which node a path leads to is left open: any file may be written, copied
  or removed, and every call may be refused. `careless` remembers that a line was run of a kind
  that loses memory.
- **Text**, **MCText** — the loops over characters, on strings as sequences of codes:
  `string.c`, the two loops of `execute` that count words and take them, the
  joining for sudo and echo, the text of the history file and `history_load_page`,
  the cutting of paths at their last slash against `resolve_path`, the printing
  of numbers. The other modules take lines, words and components as units; the
  properties here say that they may.
- **HeapProofs**, **PmmProofs**, **VmmProofs**, **VfsProofs** (with `VfsCopy`), **ShellProofs**,
  **ConsoleProofs**, **InterruptsProofs**, and **InputProofs** for `Keyboard` and `CommandLine` — the
  theorems. A few facts about sequences and numbers stand at the head of each module that needs them.

In each module a definition whose name ends in what is wrong with it
(`FitsInUse`, `MarkNothing`, `LeaveNot`, ...) is a faulty variant of the definition
below it. No specification uses one; replacing the definition by its variant
makes the property fail that the variant is meant for, which shows that the
property depends on that line of code.

## What the runs show

| Run | Question | Bounds, and why they are enough |
|---|---|---|
| `heap` | Is the block list consistent with memory and with its users, and does it implement `AbsHeap`? | headers of 24, slack 16 and first page as large as fits three small blocks; sizes 0, 40, 120 so that blocks are split, taken whole, too small, and need two pages; none to three frames, so that an extension of one or two pages succeeds, fails at once and fails half-way; heap_max reached |
| `pmm` | Is what is handed out available and private, and is nothing lost? | five maps: a region that ends inside a page, two holes, too little memory for one byte of bitmap, a region that begins inside a page and pays with its last one, and regions that begin and end inside pages |
| `pmm_heap` | (violated) What does the first heap block do to the bitmap, at the real addresses? | 8 MiB; three steps: boot, `pmm_setup`, `heap_init` |
| `vmm` | Do mapper and processor agree, are tables private, is a mapping what was asked for, and what stops the machine? | tables of 8 entries, so that four levels, the boot code's tables and tables made later fit into 58 pages; a machine of 25 pages runs out when the heap needs its second table, one of 32 ends where memory mapped to itself ends, one of 44 goes on behind it, and on both a table comes to lie where memtest or the program are mapped; three heap pages at boot, since every further one adds order only; extensions of one and two pages |
| `vfs` | Does the tree keep its shape, who may change what, when does a command hang, when are nodes lost, and do pwd, the prompt, ls -R and cat show what the calls made? | five commands of a user who may become root, two nodes beside `/`, `/home` and `/home/root`: a cycle, a shadowed name, a directory with a file and a detached subtree need no more; hidden names, a name that begins like root, paths as names |
| `vfs_copy` | Is a copy what was there, does its walk follow the tree it changes, and does it stay where the user may write? | a script of eleven commands, each of which may be left out: a missing, file or directory destination, a file with contents, nesting of two, a cycle, a name with a slash; nine nodes so that memory runs out inside a copy, three nested calls so that the stack does |
| `keyboard` | Do modifiers stick or change a key they were not held for, is shift ever missed, do modifiers let go? | three kinds of users with six keys each: both keys of both modifiers; arrow, keypad twin and enter; caps lock and erasing. Three bytes under way: a prefixed key and another one |
| `shell` | Does sudo end; do the arrows show the right command? | an array of two and four commands: below, at and beyond the array's size |
| `console` | Does the screen show the line that Enter runs, while kernel and program print? | three rows of four, prompts of one and two, lines of up to four: they wrap, scroll, and are recalled and erased across rows; a command that prints a line and one that prints nothing |
| `interrupts` | What is in service, what comes before what is prepared for it, is a halt for good, are keys read, does the clock run? | the timer, the keyboard and one line that stays masked; a program for each way into the kernel and one that faults; the protection fault, whose handler differs, and one exception for all others; two bytes of the keyboard (one that waits, one that arrives meanwhile); a clock of two |
| `command_line` | Is a block used after it was freed, is memory lost, but by the careless lines, and does it run out without a reason? | twenty lines, one of each kind that `execute` tells apart, in any order; seven blocks, of which two are the tree: room for `sudo ls` and its nested call, and they run out in longer lines, when the history has grown, or when memory was lost |
| `text` | Do the loops over characters agree with each other, and with what the other modules take for granted? | all lines of up to five characters of blanks, letters and slashes; three recorded lines and an array of two; all numbers up to 5000 |

An invariant of a run is often the conjunction of named parts, which the modules
state one by one and the text here speaks of by name:

| Invariant | Parts |
|---|---|
| `Heap!BlocksAreSound` | `TypeOK`, `Tiled`, `CoversHeap`, `LiveBacked` |
| `Heap!GrowthIsBounded` | `HeapBounded`, `ExtensionSuffices` |
| `Pmm!PagesArePrivate`, `BitmapIsExact` | `HeldIsMarked`, `SystemIsKept`; `TypeOK`, `NoPageLost` |
| `Vfs!TreeIsSound` | `TypeOK`, `TreeShape`, `CurrentDirIsLinked` |
| `VfsCopy!CallsFollowSource` | `CopyTypeOK`, `StackFollowsSource` |
| `Keyboard!ModifiersFollowKeys` | `TypeOK`, `NoStuckModifier`, `NoPhantomModifier`, `ShiftIsHonoured` |
| `Vmm!FramesAreAccounted`, `KernelSeesMemory` | `TypeOK`, `TablesArePrivate`, `NoFrameLost`; `IdentityKept`, `GetPhysAgrees` |
| `Console!ScreenEndsWithLine` | `TypeOK`, `ShowsLine`, `NothingBehind`, `CursorFollows` |
| `Interrupts!DispatchIsSound`, `BootIsInOrder` | `TypeOK`, `OneAtATime`, `ServiceIsOwed`, `AskedToRead`; `NoFalseException`, `ResetOnlyWhenAsked` |
| `CommandLine!BlocksAreOwned`, `MemoryComesBack` | `TypeOK`, `NothingStale`; `NothingLost`, `ExhaustionHasReason` |
| `Text!PiecesFit`, `TextsMeanWhatTheySay` | `WordsFillTheArray`, `RestKeepsItsWords`, `CutsLeadToTheSame`; `TypeOK`, `ComparesTexts`, `PrintsTheNumber` |

The faulty variant for a conjunction breaks at least one of its parts.

**Further instances**, run by hand (`tlc -config X.cfg M.tla`, each with the module
named). Two widen a run: `MCVfs.cfg` (`MCVfs`) lets a user without sudo go on for
as long as there are nodes, `MCVfsSudo.cfg` (`MCVfs`) one who switches sudo on and
off; both pass. The others show a statement of the source about itself,
or an order it sets things up in, that the code does not keep, and are violated:

| Configuration | Module | Statement | What happens |
|---|---|---|---|
| `MCPmmUnaligned` | `MCPmm` | `pmm.h:18` "1 = available, 2 = reserved" | `pmm_free_region` rounds the start of a region down (`pmm.c:63`) and frees a page that is partly reserved |
| `MCKeyboardArrows` | `MCKeyboard` | `main.c:717` "right ctrl press", `main.c:727` "up arrow" | 1D and 9D are handled at `main.c:673` and 678 without clearing `extended`, which then applies to the next plain key: the 8 of the keypad is taken for the arrow |
| `MCShellPage` | `MCShell` | `main.c:74`, page_start is "which command the array starts at" | `execute` overwrites the ring without moving `page_start` |
| `MCShellPanic` | `MCShell` | `main.c:238` "panic: requires \`sudo\`" | the test only prints, and the kernel halts |
| `MCInterruptsEarly` | `MCInterrupts` | the order of `kernel_main`: heap and tree first (`main.c:886`, 888), the prompt after them (895) | keys are read from `load_idt` on (881): an Enter typed during boot runs `execute` with `free_list` and `root` NULL (`CommandFindsItReady`) |
| `MCTextMemmap` | `MCText` | `main.c:544` "Start: 0x" | `print_int` prints decimal digits behind it |

`pmm_heap` is the seventh: the bitmap's own page is handed out and overwritten by
the first heap block (`pmm.c:12`), against the same line of `pmm.h`. `Heap` and its
proofs assume that pages given to the heap are the heap's alone; on this point
the code breaks the assumption, with the effect that bits change, and that a
later `pmm_alloc`, which sets bits in the byte array, may change the first
header's fields. Whatever the heap later stores in its first page changes bits too, so that
`PmmPagesArePrivate`, and `Vmm` with its ideal supply of pages, rest on the same assumption as `Heap`:
what they say holds for the composed code once the bitmap is reserved.

**What else the models show**, without a statement of the source to compare with:

- The heap's page tables come to lie at about 0x301, 0x517, 0x718 and 0x919
  (page numbers). The last lies beyond the 8 MiB that the boot code maps to itself: on a machine
  with more than 9 MiB the heap can not grow past 6 MiB without a page fault.
  A table at the address of memtest's page or of the program's pages is out of reach in the
  same way; out of memory, a table is put into page 0.
- `cp -r` onto a file, or onto a directory that has one of the same name, copies
  into the wrong place or none, without a message; into itself it overruns the stack, at
  about 1.6 KB per level. After the program has left by `syscall`, which switches no stack,
  the handlers run on the program's (64 KiB), otherwise on the kernel's (16 KiB), below which lie
  the page tables.
- `sudo` drops a redirection; `ls -R` ignores its operand; `ls -a` of an empty
  directory complains about `-a`; the prompt shows `/home/rootx` as `~x`; of two nodes
  of one name the later made is out of reach.
- `.ksh_history` grows with every recorded line, and while it grows the heap holds it twice
  (`vfs.c:324`): typing `ls` often enough is enough to exhaust the heap, after which the callers of
  `kmalloc` write to page 0. `MemoryComesBack` says that, but for the careless lines, this is the only way.
- `rm -r` of a file loses its contents: `vfs_rm_recursive` frees the node it is called with and
  nothing else (`vfs.c:354`).
- A command that loops for ever (`vfs.c:52-55`, 382) does so inside the handler of the keyboard with interrupts
  off: no key is read any more and the clock stands still. `HangNeedsLostDirectory` says what it takes.
- Interrupts are on from `load_idt`: a byte of the keyboard that came before
  `pic_init` is read by nobody, and neither is any later one.

**Fairness.** `Keyboard`: `WF_vars(Handle)` says that a byte that waits is read in the
end. `Interrupts` has what stands behind that, for as long as the machine is `Alive` (no exception was
reported, and no command is one that never returns; both end keys and clock, and the model has both): the processor goes on (WF of `Cpu`), the
timer asks again and again (WF of `Raise` of its line), a request that stays is delivered
(WF of `Deliver` for the timer, which has the highest priority), and one that is
again and again deliverable is delivered (SF of `Deliver` for the keyboard, because
the timer comes before it). `KeysAreRead` has the premise `TimerLeavesRoom`: were the
handler of a tick longer than a tick, the keyboard would never come through. The
handler of a tick is a few instructions, and the timer asks 100 times a second (`PIT_FREQ`,
`main.c:75`), 18 times before `kernel_main` has set it (889).
No fairness is on the user: nobody has to press or release anything.

**Deadlock** is not checked (CHECK_DEADLOCK FALSE) where a model may rightly stop: the
machine has halted or was reset (`Interrupts`, `Shell`, `Vmm`), everything is
allocated (`Vfs`, `CommandLine`), the one copy of a behaviour is done (`VfsCopy`), or
the bound on what is typed is reached. `Heap`, `Pmm` and `Console` never stop.

## What is proved

All theorems hold for every value of the constants that the named assumptions of
the modules allow.

- `HeapProofs` (`HeapTypeCorrect`, `HeapIsSound`, `HeapGrowthIsBounded`, `HeapImplementsAbsHeap`): the
  inductive invariant `IInv` says that the list is a nonempty
  sequence of blocks, gapless and sorted by address (`Chain`), that it covers the
  heap (`CoversHeap`), that each live pointer has a block (`Backs`) and each block in
  use exactly one owner (`OneOwner`). `Tiled` alone is not inductive: that kfree
  finds *the* block of a pointer needs sortedness, and that no two owners share
  a block needs `OneOwner`. From it follow the invariants of the run and, step by
  step, `HeapImplementsAbsHeap`.
- `PmmProofs`: `PmmPagesArePrivate` (`HeldIsMarked` and `SystemIsKept`) from an invariant on
  the bitmap: what is held is marked, and no page of the system is unmarked. The types
  need that the number of pages covers every page freed, so the highest address of
  the map, a maximum over a finite set, has to exist (`Greatest`). All four theorems are about any map.
  `PmmHandsOutAvailable` and `PmmBitmapIsExact` say what rounding the start of a region down does and does not do:
  what is handed out is available up to its end, and a region that begins inside a page loses its last page at most.
  That it is available from its beginning is false (`MCPmmUnaligned.cfg`).
- `VfsProofs` (`TreeStaysSound`): the inductive invariant `Inv` is the conjunction of `TypeOK`,
  `TreeShape` and `CurrentDirIsLinked`. None of the three is inductive alone: a
  chain keeps its shape only if the node an operation works on is allocated
  and where its parent pointer says, which for a node found by a path (through
  the current directory and "..") is what `CurrentDirIsLinked` gives
  (`ResolveReached`). From it follow that a command hangs only when the current
  directory is no longer below root (`HangOnlyWhenLost`), and that nobody changes
  what is protected without sudo (`UserChangesOwnFilesOnly`).
  The walks along pointers (`Up`, `Below`) are smallest closed sets, so a proof
  about one exhibits a closed set; a path is a recursive function over its
  components, shown to exist and to stay inside a closed set by way of the least
  counterexample (`Least`, from the well-foundedness of the naturals).
  A node moved into itself makes a cycle that `Inv` allows: `Inv` does not say
  that every node is below root, and cannot.
  `NothingElseIsLost` follows a node that root no longer reaches down the one chain that
  the step has changed: every link above it is still there, or the node moved was above
  its destination (`AnchoredIsBelow`, `RelinkLoss`).
  Assumed are `VfsAssumption` (room for the first directories, "home" the first of
  them) and nothing about the paths users type.
- `VfsProofs`, on `VfsCopy`: `CopyInv` adds to `Inv` that every call of `vfs_cp_r` on the stack
  is at a place in the chain of a directory that is there, or right behind the chain
  (`Ready`). It is kept because a copy only ever adds nodes at the ends of chains (`Adds`,
  `Grows`). From it follow `CopyKeepsTreeSound`, `CallsStayAtWork` and
  `CopyWritesWhereUserMay`. That a copy *is* what was there (`CopyIsFaithful`) is about the
  shape of a tree, a recursive operator, and stays with TLC.
- `VfsProofs`, on `VfsRead` (`PathsFindWhatTheyMade`): a path that leads nowhere, into a directory that
  is there, ends in a plain word, and that is the name the new node gets (`NowhereFacts`); the
  functions that make cut a path from its end, `resolve_path` reads it from the front, and
  `FollowLast` says that the two agree. A new node at the end of a chain hides no other, so that
  each lookup that gave a node before gives it again (`CreateFinds`), and the rest of the path leads
  where it led (`FollowKeeps`); a node put first in its chain is found before any of its name
  (`RelinkFinds`). The proof found a case that the property has to leave out, and that the run was too small for: without
  `/home/root`, `mkdir ~/home/root` (with sudo) starts at `/`, makes `/home/root`, and from then on
  the same path starts there and leads nowhere (`StartStays`).
  `PwdAlwaysLeadsBack` is about two walks in opposite directions. The one of `vfs_pwd` ends:
  among more steps than there are nodes two come to the same one, and what lies before the second
  is then closed under `parent` and has no root in it (`RootIsMet`). The one of `resolve_path` down the
  names it wrote undoes it step by step, for a plain name that no sibling has is
  found where its node hangs (`PlainLeads`, `DownAgain`), from `/` as from `/home/root`.
- `InputProofs`, on `Keyboard` (`ModifiersAreSound`): the kernel sees the keys as they were some bytes ago.
  `Replays` says that the bytes under way, taken one after the other, lead from what the
  kernel has seen to what is pressed now; `FlagsFollow` says of the flags and the keys
  seen what they should say of each other. A flag that is set always has a key that
  is held; the converse is stated for shift and for users with one shift key, because
  two keys share one flag.
- `ShellProofs` (`Types`, `SudoEnds`, `ArrowsRecall`): while sudo mode is on, `sudo_expires` is the
  last grant plus the lifetime (`SudoHasAnEnd`); until the array has been filled once it
  holds the log in order and `page_start` is 0 (`ArrayHoldsLog`).
- `InputProofs`, on `CommandLine` (`BlocksHaveOneOwner`, `MemoryReturns`): `IInv` says what a call owns at each
  step of `execute` (`CallsAreSound`), that neither calls nor nodes nor files share a block
  (`NothingShared`), that only the last call runs (`OthersWait`), and that as long as no
  careless line has been run whatever is in use has an owner (`Careful`). Every action changes the blocks
  of the last call (`TopStep`, `PushStep`, `PopStep`) or those of the tree (`TreeStep`, with one lemma for each way in which `vfs.c` does that).
  `MemoryReturns` counts: the calls under way hold at most n (n + 3) / 2 blocks, the sum over the calls
  that sudo makes of the rest of a line of n words (`InUse`), and what is asked for is at most what the
  tree holds and one more (`Refused`). So kmalloc can only refuse when the tree has filled what is left.
- `InterruptsProofs` (`Dispatched`, `BootOrder`, `HaltsForGood`): `StackShape` says what may run over
  what: a call over `kernel_main`'s program, a device over either, a fault over any work that may
  raise one (`FaultVectors`, `DeviceVectors` keep the two apart). It holds because of `OnWhereSafe`: interrupts are on only where
  nothing but `kernel_main` or a call is on top. `Prepared` says on which stages of
  `kernel_main` (`MainInOrder`) the gates, the first vector and the keys depend. `Owed` and
  `Asked` relate each activity's list of things to do to the controller: a line is in
  service exactly while a handler that has still to acknowledge it is on the stack, and a
  byte that waits has a request or a handler about to read it.
- `ConsoleProofs` (`ScreenShowsTheLine`, `NothingIsStoredOutside`, `WhatWasShownStays`): `Sound` says of a screen that the
  next character goes behind everything shown, that `col` is at most the width or, after
  erasing past the first column, at most a line's length below zero (modulo 2^64), and
  that the hardware cursor is there. One lemma says what a character more does to a sound
  screen and to the line it shows, wrapping and scrolling included, another what a
  character less does; they are carried along a text by induction over its length, for
  which the recursive function that prints it is first shown to exist (`StepsExist`).
  `ConsoleInv` adds that the line is shown unless `split`, and that a column below zero leaves
  room for the rest of the line. Assumed is that a line (256 characters) is shorter than
  the screen without its last row, and 2^64 more than two screens and a line.
  `WhatWasShownStays` is carried along a text as well. `Rises` says of two screens that what was
  before a given cell stands `k` rows higher, and that `k` is 0 unless the bottom row was reached.
  `Reach`, the cell where the next character really goes, gives the number of rows: a character
  takes it one cell further or, with a newline, at most a row, and scrolling takes it back by a row
  each time (`StrRises`). Hence a text raises the screen by no more rows than it has newlines and
  filled rows. The property asks this of every step that prints, of a split line too.

- `VmmProofs` proves the five properties of the run, for tables of any size, any memory, any place of
  the heap, the program and memtest's page. The difficulty is that the mapper edits the tables through the
  tables, so that a call that goes wrong writes anywhere. The argument has three layers.
  1. *One load, one store.* `KInv(k, D)` is what holds in the middle of every call, when the pages `D` have been
     given memory: the tables of the boot code stand where they stood (`Shape`); each table that
     `vmm_map` made hangs from one entry, in a frame of its own or, out of memory, in page 0 (`TablesMade`);
     an entry of such a table is empty, leads to a frame that nobody else has, maps a page that memtest or the
     program may take, or is `Junk`, and `Junk` only where the mapper does not see the table (`Kinds`, `HeldOnce`);
     the processor keeps what the tables say (`Coherent`); and the machine has stopped only if some
     frame in use that serves no page is out of reach (`Stopped`). Under `KInv` a load or a store of the mapper hits the table it wants,
     or a page that holds no table, or stops the machine (`LoadIs`, `StoreIs`, `ClearIs`), so the tables
     of the boot code stay what they are.
  2. *One call.* `MapKeeps` says what a call of `vmm_map` has done while every table made is in reach (`InReach`):
     the page asked for leads to the new frame and every other page where it led. A table once out
     of reach stays there, because what memtest and the program take from the identity mapping is not given
     back: memtest leaves its page unmapped. `ReturnKeeps` says the same of `vmm_unmap` at the end of memtest.
  3. *The system.* `IInv` is `KInv` between calls for the pages asked for so far (`Given`), and which
     frame was lost (`Lost`). It also counts (`Spent`): at most two frames for each page before the system is
     up, so that with `MemoryForBoot` the callers that do not look whether `pmm_alloc` has a page get one
     (`Lasts`). Each action keeps `IInv` and makes one of the four moves of `AddressSpace` (`Moves`).

  `VmmTlbCoherent`, `VmmStopsOnlyForATable` and the first half of `VmmKernelSeesMemory` need no premise: they hold
  out of memory, and after a table was lost. The others say "as long as the tables are in reach", which
  is the premise of the properties themselves; `TablesInReach` implies `InReach` (`ReachIs`), which the
  proofs use. `VmmMapsAsAsked` is the refinement, initial state and step: `GetsMemory` turns "the pages `E` have got frames" into a step of `AddressSpace`.

The assumptions are the named ones of the modules; the hypotheses beyond them stand in the
theorems: `Sizes # {}` (somebody calls kmalloc). Both refinements, of
`AbsHeap` and of `AddressSpace`, are proved step by step (`HeapImplementsAbsHeap`, `VmmMapsAsAsked`).
Two assumptions on constants are about this kernel rather than about any. `VmmAssumption` says where things lie: the
reservation covers the boot code's tables, memtest's page and the program's code lie in the identity
mapping, the stack and the heap behind it and in this order, and all of it below the 1 GiB of one l2 table.
`MemoryForBoot` says that a machine has room behind the reservation for two frames a page mapped before the system is
up; `heap_init` and `kernel_main` do not look. With 17 pages of stack that is a machine with 3.2 MB and
two frames for each page the heap takes during boot.

Only model-checked:

- `CopyIsFaithful` and `StackFollowsSource` of `VfsCopy`, `ListsEverythingOnce` of `VfsRead`, and the
  loops of `Text`: they compare what recursive definitions compute.
- Liveness (`ModifiersLetGo`, `KeysAreRead`, `ClockRuns`), which is out of the prover's reach.

## Not modelled, and what is left

Not modelled, and why:

- `kernel_main` allocates and maps the program's pages with interrupts on, so that a command
  can run between two lines of one `pmm_alloc` or `vmm_map`. `Vmm` interleaves whole calls
  only. The window is some instructions long, at boot, and every call
  has its own; a model of it would be one of the instructions.
- The lengths of buffers: `input_buffer`, an entry of the history, the paths of `cp -r` and
  `ls -R`. The code compares none of them with the length of what it writes; the models bound what the user types.
- Bytes that the keyboard drops because its own buffer is full.
- `~x`, which `resolve_path` reads as `~/x` where a slash is missing: the paths of
  `Vfs` have an anchor and components.
- Colours, the wording of messages, and commands that only print (help, neofetch, ...).
- `tss.c` but for when it is installed, the checks of `boot/main.asm` for multiboot, cpuid and
  long mode, the port instructions of `io.h`, and `strjoin`, which nobody calls.
- Addresses and sizes stay far below 2^64 in every model, so no width is modelled but where a
  subtraction could go below zero (`TypeOK` of `Heap`, `col` of `Console`).

What would come next: `ListsEverythingOnce` of `VfsRead` as a theorem, and a model of `kernel_main`
between the lines of one `pmm_alloc`.
