# A TLA+ model of RML (Real Mode Linux)

RML is a small operating system for the 8088: a boot loader, a kernel that runs
programs from a FAT12 diskette one inside the other, system calls through
`int 80h`, and a C library with a shell. There is no scheduler. What makes the
kernel hard is that it is *nested*: a program that calls `run_program` is
suspended inside a system call while another program runs and makes system calls
of its own, and all activations share one parameter buffer, one `dsuser`, one
`ssbak:spbak` and one `running_proc`.

## Inventory

| Part | Source | State | Operations | Module |
|---|---|---|---|---|
| Segment allocator | `mm/mm.c` | `seg_arr` | `init_seg`, `get_free_seg`, `release_seg` | `Memory` |
| Process table | `kernel/sched.c` | `processes`, `running_proc` | `init_processes`, `set_running_proc`, `register_proc`, `unregister_proc` | `ProcTable` |
| Context switch | `arch/8088/kernel/dispatch.asm`, `utils/head.asm` | `params`, `dsuser`, `ssbak:spbak`, `ssuser/spuser/suserp`, the kernel's stack, SS:SP, DS, IF | `intr`, `sysexit`, `farcall` | `ContextSwitch` |
| Kernel | `kernel/kernel.c` | locals of nested activations | `startk`, `load`, `run_program`, `dispatch` | `Kernel` |
| Floppy reads | `kernel/kernio.c` (`lba_to_chs`, `lseek`, `read`), `kernel/bios.c` | position, cylinder/head/sector, buffers | seek, read sector by sector | `Floppy` |
| Descriptor tables | `kernel/kernio.c` | `fd_list`, `files_table` | `open`, `close`, `lseek`, `read` | `Files`; writes outside the table: `ProcTable` |
| FAT12, files | `fs/msdos/fs.c` | the FAT on disk, the segment being filled | `load_file_content`, `get_next_cluster`, `read_cluster` | `Fat12` |
| FAT12, directory | `fs/msdos/fs.c` | the directory on disk, position of `fd_list[5]` | `get_root_files`, `get_file`, `list_root_files` | `Directory` |
| Boot loader | `arch/8088/boot/boot.asm` | - | copy the image | `LoadImage` of `ContextSwitch` |
| User library | `arch/8088/kernel/io.c` | `sysparam` | one wrapper per service | `Syscall`, `Arguments` of `Kernel`; `UserCalls` |
| Shell, init | `utils/shell.c`, `src/init/init.c` | `buf`, `i`, the screen | edit a line, execute it | `Shell`; also arbitrary programs of `Kernel` |
| Date | `kernel/kernel.c` (`time`), `kernel/bios.c` | the real time clock | read date, read time, print | `Clock` |
| C library | `lib/`, `extract_file_name` of `fs.c` | arrays, buffers | strings, numbers, formatted output | `CString`, `Stdio`, composed in `CLib` |
| ls, ps, demo | `utils/` | - | layout of output | arbitrary programs of `Kernel` |
| Drivers | `drivers/` | - | empty files | - |

Interaction: `startk` calls `run_program("init")` for ever. `run_program` takes a
segment (`mm.c`) and a process slot (`sched.c`), reads the file (`fs.c` over
`kernio.c` over the BIOS) and starts it with `farcall`. A program enters the
kernel with `int 80h`; `intr` copies its `sysparam` to `params`, switches stacks
and calls `dispatch`; `sysexit` copies `params` back. Service 7 calls
`run_program` from inside `dispatch`.

What is hard, and which properties answer it, is listed as `hazards` in
`PROJECT.json`: the shared variables above across nested calls; resources taken
in one function and released in another on every path; a five-entry table
written through any descriptor, 5 and -1 being ones `open` itself answers;
interrupts that must stay off while
the shared variables are in use; `hlt` after a disk error, whose meaning depends
on the interrupt flag; a reboot over old tables; sector and track boundaries of
the read loop, and a position that nothing stops at the end of the disk; 12-bit entries packed into bytes, and chains the disk may break;
one position of the root directory moved by every reader, and a second table of
positions, the one `lseek` moves, that looks as if it mattered; strings that end, or loops that end, only
because of what lies in memory; a screen and a line buffer that are kept in step
by separate writes, as far as the keys typed let them; a clock that goes on between two reads of it.

## Modules

* **`Memory`** - a segment is its index in `seg_arr`; `used` is the set of taken
  entries. `GetFreeSeg` is first fit; with no free entry it returns *any*
  segment and marks none, as the code returns an uninitialised local.
* **`ProcTable`** - slot `i` is `processes[i-1]`. The fields kept are `pid`,
  `ppid`, `cs`, `state` and `name`. `open("/")`, `close` and `lseek` write outside
  `files_table`, the last two with any `int`. Where such an entry lies
  (`EntryAt`) follows from the structure layouts of the build (`gcc -m16`: 4-byte
  `int`, 304-byte descriptors, 48-byte files), so that `CloseFd` and `LseekFd` hit
  what they hit in the code: entry 5 the next descriptor, or `running_proc` behind
  the last one; -1 the process's own `ppid` and `state`; -2 its own `pid`; -14 the
  `pid` two slots down.
* **`ContextSwitch`** - registers SS, SP, DS and the interrupt flag; the kernel's
  stack as an array of frames addressed by SP, so that a wrong `spbak` reads or
  overwrites the wrong frame; `ustk` is `ssuser`/`spuser`, indexed from 1 as the
  code increments `suserp` first (entry 0 is never used). One frame stands for
  everything `farcall` and the `run_program` around it push, or `intr` and the
  `dispatch` it calls. `umem` keeps of each segment the first word of `sysparam`
  and the frame the processor pushed on the program's stack.
* **`Kernel`** - composes the three. `pc` is the place in the kernel code where
  another actor (program, key, disk, interrupt) can act or where the order of
  steps matters. A program is arbitrary: it makes any system call with any stack
  depth, or returns. Names, paths and data are model values; an answer of a
  service is the word that arrives in the parameter buffer. The history variable
  `stray` records that, since `init_processes`, a program has closed or moved a
  descriptor that `open` never answers (not in `Answers`). What the process table
  promises (`ProcTree`, `OneRunning`, the refinement) is stated until then, as one
  `close(-2)` undoes it; segments, stacks, context and interrupt flag are not kept
  in that table, and their properties are stated without any such condition.
* **`ProgramCalls`** - the abstract specification: programs are a stack of
  procedure calls, the caller finds the answer of its call in its own memory.
* **`KernelCalls`** - the refinement mapping from `Kernel` to `ProgramCalls`; after a
  stray descriptor the abstract machine is off until `init_processes`.
* **`KernelInv`** - the inductive invariant; **`KernelProofs`** - the proofs;
  **`CallsProofs`** - the refinement proved.
* **`Floppy`** - one drive and the loop of `read`. A byte of the disk is named by
  its position, so "the right bytes" is an equation. `SectorAt` and `Valid` are
  the drive (external). `read` has no test for the end of the disk
  (`kernio.c:159-164` is an `if` with an empty body), and neither has the model: the
  position passes the end, and the drive refuses (`Fault`). The cylinder is an
  `unsigned char` and wraps behind 256 (`BYTE`); from there a read finds the start
  of the disk again, which `Addressable` excludes from the properties.
  **`FloppyProofs`** - the proofs.
* **`Fat12`** - `load_file_content` over every FAT a small disk can have. The FAT
  is an array of entries; `FatByte` packs them as the disk does (external) and
  `GetNextCluster` takes them out again as the code does. A cluster's contents
  are named by its number, the segment is an array of cluster-sized slots whose
  index wraps as the 16-bit offset does. What `Floppy` shows of reads is used
  here: a cluster that starts in the last sector of a track brings junk.
  **`Fat12Proofs`** - the proofs.
* **`Files`** - the kernel's `fd_list` and the running process's `files_table`.
  `open`, `close` and `lseek` of a program use the latter; `Read` uses the former,
  except that it seeks the parent of a descriptor in the caller's table, so the
  kernel's reads of descriptor 5 start where they should and a program's read
  starts where the drive was left.
* **`Directory`** - extends `Files`: the loops of `get_root_files` and
  `list_root_files`, one step per entry, and programs' calls on the directory and
  the drive in between. Of an entry it keeps what `get_entry_type` looks at.
  **`DirectoryProofs`** - the proofs. `ListingCorrect` says "the first `ROOM` files
  in the directory's order" by what is in the listing and what may be missing
  from it, not by filtering the directory, so that the provers can reason about it.
* **`CString`** - `strncpy` byte by byte, as `extract_file_name` uses it, with its
  extra byte and its padding loop that does not advance.
* **`Stdio`** - `vfprintf`'s index into the template and the arguments it takes;
  the loop of `itoa`, `ultoa` and `uitoa` over a buffer filled from its end. What
  is to be printed for a place of the template is counted (`Places`,
  `Conversions`), and the value of digits is a recursive function (`ValueOf`).
* **`UserCalls`** - what the wrappers of a program leave in `sysparam`. It is zero
  at first: in the build it lies behind the image, in the unused rest of the last
  4 KB cluster that is loaded with it.
* **`CLib`** - composes these three for TLC: a behaviour is a call of one function
  with any input, or a program making calls for ever. **`CLibProofs`** - the proofs.
* **`Clock`** - the real time clock with its decimal registers (external) and
  `time()`'s two reads.
* **`Shell`** - extends `Clock`: the line editor with the teletype (external) on
  the other side, the shell's commands, `run_program`, exit and reboot, and the way
  back through `startk` and `init`, with a drive that may fail at every load. The
  teletype obeys bell (Ctrl-G) and line feed (Ctrl-J), which the shell echoes and
  stores like any other key (`shell.c:34-36`): a bell takes a byte of `buf` and no
  column, a line feed leaves the row. A line with one of them is executed with a
  byte that was never shown, and backspaces in it may erase the prompt; the
  history variable `plain` says that the line at hand has none.
  **`ShellProofs`** - the proofs about both.
* **`Induction`** - lemmas for the proofs: induction over sets of numbers, the
  existence of a function defined by iteration, the least of a set of numbers.
* **`MCKernel`** - constants for TLC. The other specifications need no such
  module.

Definitions marked "Mutant" are deliberately wrong variants of the definition
that follows, used to show that the properties can fail; no specification uses
them.

## Runs

| Run | Question | Result |
|---|---|---|
| `kernel` | are segments, slots, stacks, context and IF consistent under arbitrary nested programs and descriptors; does the kernel implement `ProgramCalls`; do system calls come back, does init? | holds, 381,319 states in two minutes; the process table until a stray descriptor is used |
| `segments_full` | one program more than segments | `SegmentsExclusive` fails |
| `sti` | are interrupts on after a call, as `dispatch.asm:172` says? | fails: `iret` restores the caller's flag |
| `floppy` | does `read` deliver the right bytes, at addresses that exist, inside the buffer, and does it end? | holds for reads that start inside a track and do not straddle; past the end of the disk every sector fails, until the cylinder wraps; every read ends |
| `floppy_map` | does every read follow the sector map? | fails for reads that start in the last sector of a track |
| `floppy_entry` | are two-byte FAT entries read correctly? | fails for an entry that straddles sectors |
| `fat12` | is a file whose chain is proper loaded, complete and in order if it fits a segment, and does loading end? | holds where no cluster starts in the last sector of a track; a cyclic chain never ends and is excluded |
| `directory` | do listings and searches end, and are they right wherever others left the kernel's descriptors? | holds; a file is any entry of that kind, also behind an entry that begins with 0 (see `directory_end`) |
| `directory_end` | is nothing behind the end mark listed? | fails: the `break` is never reached |
| `directory_lseek` | does a program's `lseek` move what it reads next, as `io.c:238` says? | fails: `read` goes by the kernel's descriptors |
| `shell` | does the screen show what is in `buf`, is what it showed executed, is the date never ahead of the clock, does the prompt come back? | holds; screen and command for lines without bell and line feed; the prompt unless a program or `ccc` keeps it or the processor has stopped |
| `clib` | are names, output and digits right, inside their arrays, do the functions return, does `myopen` open its path? | holds; `extract_file_name` returns only for entries padded with blanks, and `myopen` is right only while no earlier call filled more of `sysparam` than the path |

**Bounds.** `MaxNest` bounds the nesting: in `kernel` a program in init, the least in
which one activation of the kernel is suspended while another uses `params`,
`dsuser`, `ssbak:spbak` and `running_proc`; deeper nesting, where a caller has a
caller, is covered by the theorems, which hold for every depth. `segments_full`
and `sti` keep their own bounds. `NUM_SEG` and `NUM_PROCESSES` are chosen to just
fit (the code: 10 and 9 for at most 8 programs), and one too small in
`segments_full`. Two stack offsets tell a saved SP from a fresh one. `Fds` has the
two descriptors `open` answers that lie outside the table, 5 and -1, and two it
never answers, -2 and -14, which hit a live `pid`; `Offsets`, what `lseek` stores
there, is 0 and 1. The theorems are about any set of descriptors that has the
first two. A missing name beside init's makes a wrong name show. The diskettes have
3 sectors a track, 2 heads, 2 cylinders, cylinder numbers below 3 (`BYTE`) and
sectors of 4 (2) bytes; reads of up to 9 (2) bytes span three (two) sectors and so
a track or cylinder change at either end of a sector. `MaxPos` bounds the position: in
`floppy` it passes the end of the disk (48) and the place where the cylinder wraps
(72); `SectorNumberFits` keeps it below where the sector number outgrows 16 bits.
`fat12`: four data clusters, odd and even, with every entry free, bad, an end
mark (the first and the last of the eight) or any cluster; a segment of two
slots, so that a file is shorter than, exactly as long as, or longer than it; the
data section at sector 17, where `mkfs.fat -s 8 -f 1` puts it, which makes the
first cluster one that is misread. `STALE` are the next clusters a failed read
of the FAT may yield: one on the disk, one end mark. `directory`: three entries
of nine kinds, room for two files in an answer (the code: 18), programs' reads up
to the directory's end (`MAX_POS`), seeks to 0 (`Offsets`; any other place
that is not where the kernel stands would do; 1 in `directory_lseek`), the directory one entry behind the
start of the disk (`ROOT_START`), so that the drive's positions and the
directory's differ. `shell`: a line of five bytes, with commands of two letters, so
that lines are shorter and longer than commands and leave their rests behind;
`LINE` also bounds what is typed (see below). `ccc` reads two keys (the code:
10). `DAY` is 24 as for hours, and `FIRST` to `LAST` are the last hours of the
year 1999 and the first of the next, where every digit of the date changes (a
date is counted like a year). `clib`: names of four and extensions of two bytes of
letters, blanks and zeros, shorter than, as long as and longer than what
`strncpy` copies; templates of up to five characters, the least with two
conversions and a stray `%`; numbers up to four digits of either sign for a buffer
of two; four bytes of `sysparam`, and paths that are beginnings of each other.

**Fairness.** `Kernel`: weak fairness of `KernelStep`, the steps the processor
takes by itself; nothing is assumed of programs (they may compute for ever), of
keys, or of the disk failing. `KernelReturns` allows the wait for a key;
`InitComesBack` allows the disk to fail again and again. `Floppy`: weak fairness
of the drive answering, with a failure where there is no such sector. `Fat12` and
`Directory`: weak fairness of the kernel's loops; the drive may fail at any turn,
which halts the processor inside a system call. `Shell`: weak fairness of the
shell's, init's and the kernel's steps; keys need not be pressed, programs need not
return, and the drive may fail at every load. Inside a system call or the boot that
is the end, with interrupts off; in `startk`'s loop the processor goes on, init is
not found, and the loop tries again: `PromptComesBack` allows the first as a halt
and the second if it happens for ever. `CLib`: weak fairness of the function that was called.

**Deadlock** is checked in every run; a machine halted with interrupts off is an
explicit step (`Stopped`, `Halted`), and so is a function that has returned.

## Proofs

Every invariant, every action property and the refinement checked by a run that
passes is a theorem, for all values of the constants that satisfy the named
assumptions of the modules. What the theorems add to the runs is size: tables,
disks, directories, lines, templates and numbers of any size instead of the
smallest interesting ones. None of the properties is inductive by itself; the
table names the invariant that is, and the text below says why it is needed.

| Module | Inductive invariant | Theorems: the properties of run |
|---|---|---|
| `KernelProofs` | `KInv` (`KernelInvariant`) | `kernel`: `TypeCorrect`, `SegmentsAreExclusive`, `NothingLeaks`, `ProcessTreeHolds`, `RunningIsTop`, `StacksStayBalanced`, `ContextIsRestored`, `ServedMasked` |
| `CallsProofs` | `KInv`, `LoadedInv` | `kernel`: `KernelImplementsCalls`, the refinement |
| `FloppyProofs` | `FloppyInv` (`FloppyInvariant`) | `floppy`: `FloppyTypeCorrect`, `AddressesFollowMap`, `AddressesExist`, `ReadsAreCorrect`, `WritesStayInBuffer`; also `LbaToChsInsideTrack`, `LbaToChsLastSector`, `WholeSectorsEnd` |
| `Fat12Proofs` | `TypeOK`, `FileInv` | `fat12`: `Fat12TypeCorrect`, `LoadStaysOnChain`, `LoadsAreCorrect`; also `NextClusterDecodes` |
| `DirectoryProofs` | `DirInv` (`DirectoryInvariant`) | `directory`: `DirectoryTypeCorrect`, `ListingsAreCorrect`, `SearchesAreCorrect` |
| `ShellProofs` | `ShellInv` (`ShellInvariant`) | `shell`: `ShellTypeCorrect`, `ScreenShowsLine`, `CommandsAreLines`, `TimeIsNeverAhead` |
| `CLibProofs` | `CLibInv` (`CLibInvariant`) | `clib`: `CLibTypeCorrect`, `ExtractIsRight`, `ExtractStaysInArrays`, `PrintfPrintsTemplate`, `PrintfStaysInTemplate`, `ItoaWritesNumber`, `MyopenOpensPath` |

**Kernel.** The theorems assume `Fits`, the condition the code meets for up to 8
nested programs: a segment and a slot for each, the last slot unused. They hold
for every number of segments and slots, every set of files and names, every
nesting that fits. `SysExit` is right only if `spbak`, `suserp` and the frame on
the kernel's stack agree, `Return` only if the frame names the right segment and
pid, `RegisterProc` only if the first free slot is the next level. `KInv` says all
of it with one observation: allocation is first fit and programs end in the
reverse order of their start, so *everything is where the nesting depth says* -
program `i` has pid `i`, segment `i + 1`, frames `2i - 1` and `2i` of the kernel's
stack, entry `i` of the saved stacks, and only program 1 runs with interrupts on.
What it says of the process table is conditional on `~stray`: `CloseFd` and `LseekFd`
with 5 or -1 are shown, by the layout, to miss every live `pid` and `cs`, and
`init_processes` makes the condition true again. The rest is not conditional, and
must do without the table: a frame's `pid` after a stray write is any pid, and the
segments and stacks are right all the same.

**The refinement.** Given `KInv`, the abstract stack of `KernelCalls` is a function
of the nesting depth (`StackIs`). `LoadedInv` adds that between `load` and
`farcall` the new slot and segment are those of the call being served. Each
action of `Kernel` is then a step of `ProgramCalls` or changes neither stack,
phase nor word: `SysExit` is the only one that changes the top program's memory,
and it changes only that. A stray descriptor is a `PowerOff` of the abstract
machine, the next `init_processes` a `PowerOn`.

**Floppy reads.** The theorems assume 18 sectors and 2 heads, as `lba_to_chs` does
by its constants (`kernio.c`); they hold for every number of cylinders, sector
size, position and length, also past the end of the disk (`AddressesExist`: the
address is one the drive has exactly as long as the sector whose turn it is is on
the disk) and up to where the cylinder wraps. `RangeInv` follows the address turn by turn, with the
wrong head of a read that starts in a track's last sector as the other case;
`OffsetInv` relates where the next bytes go to how many sectors were read;
`CopiedInv` says that the buffer is right behind `new_buf`. `WholeSectorsEnd` shows
which reads `ReadsAreCorrect` is about: those from a sector boundary (clusters)
and those within a sector (directory entries).

**FAT12.** `NextClusterDecodes` is about the packed entries of every FAT;
`ChainUnfolds` shows that the recursive `Chain` exists. `OnChain` says where on the
file's chain the loop is after `turns` turns, and that the segment has what lies
before it; a chain longer than the segment or with clusters that cannot be read
is followed all the same.

**Directory.** The parents of the kernel's descriptors never change, so a program's
own position never gets into a listing. `CopyInv`: the loader's copy
is the directory up to the position, and the position is where the copy ends,
wherever others left the descriptor. `ListInv`: a listing so far has just the
files before the position, in order.

**Shell and clock.** `ShellInv` has two parts. `Base` holds whatever is typed: types,
room in `buf`, a terminator in what is executed, the clock. `Lines` holds while
`plain` does; a step that leaves a line plain began with a plain one or is the
prompt, which establishes it afresh (`PromptLines`), whatever the last line had on
the screen. `EchoInv` keeps the cursor two places behind the index and
blanks behind the cursor, which is what makes a backspace right. `LineInv` keeps
the command equal to the line shown from Enter to the answer, although `ccc`
reads keys into the same `buf`; `LineIsCommand` shows that the terminator written
at Enter cuts off whatever longer lines left there. `ClockInv`: the date is read
first, so around midnight it may be a day old, which `NeverAhead` accepts, but
never ahead; `BcdDigits` and `CenturyAndYear` decode
the registers for all their values.

**Library.** One invariant for each function, composed in `CLibInv`. `StringInv`:
while `strncpy` runs an array is the beginning of its field without zeros, and
behind its call the whole field and NUL (`CopyTurn`); `UnblankRight` turns this
into the text of the field. `PrintfInv`: the index is at a place, and the places
before it have been printed, each with the argument counted by the conversions
up to it (`PlaceIsPrinted`). `ItoaInv`: Horner's rule over the digits written,
started from what is left of the number, gives the number (`DigitInFront`), and
what is left has no more digits than there is room for (`TurnFits`).
`ZeroBehind`: behind what calls have filled `sysparam` is still zero.

**Recursive definitions.** `Chain`, `ValueOf` and `TooLong` are recursive functions.
The library's induction theorems take a predicate as a parameter, which the
provers at hand cannot instantiate; `Induction` states induction about sets
(`SetInduction`) and the existence of iterated functions (`Iteration`) instead,
derived from the well-foundedness of the numbers' order.

Only model-checked: liveness (`KernelReturns`, `InitComesBack`, `ReadEnds`,
`LoadEnds`, `DirectoryEnds`, `PromptComesBack`, `LibraryReturns`). The prover
handles neither fairness nor `ENABLED`. The runs that end in a violation are
counterexamples and need no proof; `LbaToChsLastSector` is the arithmetic behind
one of them.

## What is abstracted or left out

* Memory beyond the reset state is zero at power on, as in the emulator the
  repository is run with: `fd_list` entries that were never opened have `pfd` 0.
* The BIOS preserves the interrupt flag across its calls.
* In `Kernel` the disk holds a fixed set of programs; loading one either finds it
  or not, and ends (`Directory` and `Fat12` have when it does).
* `Fat12` is about clusters up to 340, whose entries lie in the FAT's first
  sector; `floppy_entry` shows what happens to cluster 341. Sizes of files are
  not used by the code. `Directory` has names padded as on disk and at most 256
  entries; names are compared without extension, as in the code. The fields of
  an answer other than which file it is (dates, sizes) are left out.
* `read` of a descriptor other than 0 to 5 follows whatever lies around `fd_list`;
  programs do not make it. A read of the keyboard asks for at least one character.
* Service 13 reads no more than the parameter buffer holds. `kernel.c:155` passes the
  size on unchecked; more than 576 bytes would run over `service`, `spbak`, `ssbak`,
  `spuser`, `ssuser`, `suserp` and `dsuser`, which follow `params`
  (`dispatch.asm:291-298`), and nothing the kernel's properties say would be left.
* Stray descriptors: writes in front of `processes` and behind `running_proc` hit
  what the linker put there, and are left out, as are the fields of a descriptor
  the model does not keep. Once a stray write has cleared `running_proc`, `close`
  and `lseek` act on the kernel's own `fd_list`; they are not followed from there
  (the guard of `Syscall`).
* The kernel's own `open("/")` writes one entry past `fd_list`; what lies there
  depends on the linker.
* The calling convention between `dispatch.asm` and C, the offsets of the entry
  points (`boot.asm` jumps to `0x1000:0x0002`) and the number of sectors the boot
  loader copies.
* `fd_list[5]`, one entry past the kernel's table, keeps what is stored there.
* `Shell`: lines that do not fit into `buf` and the character `%` are not typed: the
  code checks neither (`shell.c:35`, `shell.c:81`), and what follows depends on the
  stack. Lines do not reach the end of a row of the screen. The row a line feed
  comes to is empty.
* `Clock`: the carry flag of `int 1Ah`, which the code does not test.
* `UserCalls`: the metadata other than `fd`, which every call that needs it sets.
  That `sysparam` is zero when a program starts is an assumption about the build
  (see the module's entry above): it is uninitialised data, and nothing in the
  code clears it. `OpenRight` rests on it.
* Text: what services and commands print, the columns of `ls` and `ps`. `ls`, `ps`
  and `demo` have no state of their own beyond their output.
* `set_scheduler` is commented out in `startk`, so the timer's `sched` entry
  never runs; `load_program`, `uname`, `outb` are never called.

## Plan

1. Done: the models of all parts the inventory names a module for; every
   invariant, every action property and the refinement that the runs check is
   also a theorem.
2. Next: bounds on the number of steps as invariants or action properties, which
   is the part of liveness that needs no fairness - a turn of `read` uses up a
   sector, a turn of `load_file_content` a place on the chain, a turn of
   `vfprintf` or `itoa` a character or a digit; the conditions under which
   `Kernel` leaves `Fits`.
3. Not worth a model: the layout of `ls`, `ps` and `demo`, the empty drivers, code
   that is never called.
