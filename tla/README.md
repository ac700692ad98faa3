# IgnisOS in TLA+

IgnisOS is a small x86-64 kernel: a boot sequence, a physical and a virtual
memory manager, a kernel heap, a tmpfs behind a tiny VFS, a round-robin
scheduler, an ELF loader that reads an initrd, a console and a few drivers, and
two user programs.  This directory holds its specification: modules translated
from the C and assembly sources, TLC configurations that check them on small
instances, and proofs checked by TLAPS.  Paths below are relative to
`src/sys/src/` unless they begin with `src/`.

## 1. Inventory

| component (source) | state | operations | works with | what is hard | what makes it correct |
|---|---|---|---|---|---|
| physical memory manager (`mm/pmm.c`) | bitmap, its place, the memory map | `pmm_init`, `pmm_alloc_frame`, `pmm_alloc_heap_base`, `pmm_free_frame` | everybody that needs a frame | rounding, the bitmap living in the memory it manages, n + 1 frames taken for n | no frame owned twice, none lost, the bitmap survives |
| kernel heap (`mm/heap.c`) | chain of blocks, `heap_head`, `heap_tail`, `bytes_allocated` | `create_heap`, `kmalloc`, `kfree`, `krealloc` | processes, file system, loader, TSS | pointer arithmetic, a free list that is never used, exhaustion | allocations are disjoint, the corruption check is right |
| virtual memory (`mm/vmm.c`, `mm/mmap.c`) | four levels of page tables | map, unmap, translate, change flags; `mmap`, `munmap` | pmm for tables and frames, CR3 | queries that allocate, out of memory half way, tables reached through the map they define | a mapping is what was asked for, others are untouched |
| processes and scheduler (`proc/proc.c`, `intr/trap.c`, `*.asm`) | queue, `running_process`, TSS rsp0, CR3, registers | `proc_init`, `launch_exec`, `task_sched` | heap, vmm, loader; timer interrupt, syscalls | interrupts between any two user instructions, launches from inside a syscall, a refused allocation half way | the CPU, the TSS and the queue agree |
| VFS and tmpfs (`fs/vfs.c`, `fs/tmpfs.c`) | mounted roots, children, slots of the pool | mount, open, create, read, write, seek, close | heap, mmap | slots and children that are never advanced, offsets | what is read is what was written |
| boot, descriptor tables, traps, PIT (`kmain.c`, `arch/x64`, `arch/x86/gdt.c`, `proc/tss.*`, `intr/`, `drivers/pit.c`) | IDT, GDT, TSS and its descriptor, PIT, the interrupt flag | the fifteen steps of `_start`, exception handlers, trap return | everything | order; a fault or an interrupt where nothing can serve it yet; handlers that can be interrupted | programs start on a machine that finds its way back to the kernel |
| ACPI and interrupt controllers (`firmware/acpi/acpi.c`, `arch/x86/apic`) | table addresses, redirection table, local APIC | checksum, find and walk the MADT, remap an IRQ, EOI | boot, timer | what the firmware wrote: overrides, several I/O APICs, lengths | the timer's input is open, no other is |
| console, framebuffer, log, serial (`tty/console.c`, `drivers/video/framebuffer.c`, `lib/log.c`, `lib/panic.c`, `drivers/serial.c`) | pixels, cursor, panic latch, UART | printk, console write, clear, pixels, ioctls, busy wait | everybody; syscalls 0 and 1 | a cursor that leaves the screen, wrapping coordinates, a slow UART, programs that draw | nothing outside the screen is written, a panic can be read |
| system calls (`intr/syscall.c`) | none of its own | console output, ioctl, launch | console, framebuffer, processes | range check against `running_process`, arguments in registers | the caller's own strings are accepted |
| ELF loader, initrd (`lib/elf.c`, `fs/initrd.c`, `lib/module.c`) | the archive's address, the image's range | find a member, check the header, map and copy segments | heap, mmap, boot modules | walking data of a given length, pages counted in bytes, frames running out | finds exactly the members, the image is whole |
| PCI (`arch/bus/pci/pci.c`) | none | locate a device, read its base registers | nobody yet | words that are halves of doublewords | the first device of the class, registers whole |
| kernel string library (`lib/string.c`) | static buffers | numbers to text and back, comparison | log, loader | the edges of integers | numbers read back |
| user programs (`src/usr`) | none | init launches kesswm; kesswm draws a desktop and a window | syscalls | one system call for each pixel | see console |
| keyboard, mouse; locks, shared memory ports | one slot; one flag per lock | - | nobody: see section 7 | | |

The boot calls the parts in a fixed order with interrupts off.  After that kernel
code runs only inside a trap, on one CPU.  Interrupts are off in the handlers of
the timer and of system calls (interrupt gates), but on at the entry of exception
handlers (trap gates) until their `cli`.  So the interleavings are those of user
programs, the timer, system calls and faults, the timer inside a fault handler,
and the UART beside the CPU.

## 2. Modules

**`FrameAllocator`** is what a frame allocator promises, with two sets and the
last answer: a grant takes an available frame, a refusal happens only when
nothing is available and changes nothing, a release gives a held frame back.

**`Pmm`** is `pmm.c`.  A frame is its number, the bitmap the set of its 1 bits.
`pmm_init` keeps the order of the code: the size of the bitmap with both
divisions rounding down, the first entry long enough, the entry moved and
shortened, the bits of usable frames cleared, including those that lie beyond
the bitmap (`stray`).  If no entry fits, the pointer stays NULL (`BitmapNull`) and
the model stops, since what a write through NULL does is not defined.
`pmm_alloc_heap_base` is the call of `kmain.c` with the window of direct-map
addresses that `create_heap` remaps.  `held`, `heap` and `window` are history
variables.  `MCPmm` gives the boot maps: one entry, several, entries that are
not usable, a last frame beyond the bitmap, an entry as long as the bitmap, none
long enough.

**`KHeap`** is the data structure of `heap.c` as operators on a record (chain,
`heap_tail`, `bytes_allocated`), so that `KernelHeap`, `Proc` and `Vfs` use the
same heap.  `heap_head` is the last block, as in the code; the address of the
next block is computed with the code's pointer arithmetic; `kfree` keeps its
loop, whose condition is false at the first block.  **`KernelHeap`** adds the
callers: they allocate, fill what they own, free, resize; a write that meets a
header smashes its magic number, and the ASSERTs and `kfree` look at it.  **`Arena`** is
what the callers expect, with no chain in sight: a budget, and for each pointer the
bytes it stands for; a grant is of as many bytes as were asked for, in memory never
granted before and outside what the heap keeps for itself; a refusal happens
exactly when the budget does not suffice and changes nothing.
**`MCBootHeap`** replays the requests of the boot with the sizes of the x86-64
build (`TSSEntry` 104, `fsnode_t` 304, `process_t` 248 bytes, headers 24).

**`Proc`** is `proc.c` with the trap path, on a `KHeap` of its own.  A process is
named by its number.  `cr3` names the page map loaded, `tss0` the kernel stack,
`regs` whose computation the registers hold, `ip` whose program executes in user
mode.  Because `vmm_make_pml4` copies the root's 512 entries, the tables of the
user addresses are shared: `stackAt` and `textAt` are single variables.
`make_process` makes its two requests in the code's order and ignores a NULL from
the second; `next` is what the memory held.  `task_sched` saves, moves on, loads,
updates rsp0 and CR3; RIP and RSP are not in the trapframe, so `ip` stays.  A
trap with rsp0 = 0 + KSTACK_SIZE/2, a fault of a program and a NULL that is
written through all end in a handler that halts (or in a triple fault, which ends
the machine as well): `halted`.  `lost` is the scheduler following a pointer
nobody set.

**`VfsPath`** is `parse_path` as operators on sequences of characters: the folder
ends at the first slash or at the last character, the rest is the file's name,
`MaxName` stands for the buffer of the name.  Its answer says how far the function
got, since only a file's path assigns `*file_out`.  **`PathNames`** spells paths
character by character and says which are file names, without scanning.

**`Vfs`** is `vfs.c` with `tmpfs.c` on a `KHeap`: `fs_init`, `fopen`, `fclose`,
`fseek`, `fcreate`, `fwrite`, `fread`.  A node is named by its place in the order
of creation.  The pool's index and the folder's child count never advance, so
there is one slot (`slot`, with the bytes it leads to) and one child (the newest
node), while handles to older nodes live on.  `text` and `tidy` are history
variables: what a node was asked to hold, and whether the newest file was only
ever appended to.  A NULL from the heap is followed and halts the machine; a
result that was never assigned may lead anywhere (`lost`).

**`AddressSpace`** is `vmm.c` and `mmap.c`.  Memory is an array of frames, tables
lie in frames, and `Mmu` is the processor's walk.  The kernel reads and writes a
table at its physical address used as a virtual one (`Same`), hence through the
page map that is loaded (`Via`); an access that finds nothing halts the machine.
A walk is a record of memory, free frames, the table reached and whether an
access faulted, because the four-level walk of a query allocates as it goes and
keeps what it made when it gives up.  `mmap` is one action per round of its loop
only to keep each step small: interrupts are off, and no other action happens
while pages are left in `todo`.  The allocator is the lowest free frame, as `Pmm`
shows.  `MCAddressSpace` has tables of four entries, the bootloader's map with
both small and large pages, an area in a region without tables, and one in the
region whose tables every page map shares.

**`Boot`** is `_start` and what meets the CPU afterwards.  `Order` names the steps
of `kmain.c`; each is an action that leaves its tables behind: the IDT's gates
with their type, selector and privilege (`set_desc`), the redirection table, the
local APIC, the TSS and the four fields of its descriptor, the GDT, the PIT's
counter.  `parse_madt` is one action per entry.  A step that goes through NULL
ends in `lost`: before there is a running process the fault handlers go through
NULL as well.  After the boot the CPU decides from these tables alone what
becomes of a fault, an interrupt of the PIT, or the local APIC's spurious
interrupt (`Gate`, `Delivered`): a vector without a gate becomes exception 13.  A
handler can be interrupted before its `cli`, and the report names whichever
process runs then.  Numbers are those of the machine (selectors, access bytes,
flags, the divisor), so that bits are what is tested.

**`Screen`** is the framebuffer with its driver, the console, `printk`, the
serial line, and the programs that write.  Pixels are a function on indices into
the framebuffer, so a write outside it shows as a larger domain.  Coordinates
wrap at `Word`.  Console writes and ioctls are one step each, since the kernel
writes with interrupts off; the serial line is one step per character, with the
UART's holding register between `put_char` and `transmit`.  `serial_log` formats
with the arguments `console_write` left over, as the shared `va_list` makes it.
`kesswm` is the list of its system calls through libgfx, each passing through the
registers that `syscall` of libc fills and `sys_ioctl` reads.

**`KString`**, **`Loader`** and **`Pci`** are pure functions as operators: number
conversion and comparison of `lib/string.c`; `get_module`, `initrd_open` on an
archive of blocks and `elf_load` on memory and a number of frames; and the search
of `pci.c`.  Their loops are recursive functions on the number of the round, so that
they can be reasoned about.  Each has a machine that makes its inputs, and a
statement of what its callers rely on: **`Numbers`** counts every int up;
**`Programs`** appends files to an archive, each with its header and blocks of any
contents, and program headers to an image; `Pci` plugs devices into a bus.
**`MCLibrary`** composes these machines with that of `PathNames`; `what` says
which of them moves.

`KHeapProofs`, `PmmProofs`, `KernelHeapProofs`, `AddressSpaceProofs`,
`ProcProofs`, `VfsProofs`, `BootProofs` and `ScreenProofs` hold lemmas, theorems
and proofs.

Small operators named `<definition>_<what>` and introduced as "Slip" are
variants with one mistake.  They are used by no specification: substituted for
the definition they show that a property notices the mistake.

## 3. Runs

| run | shows | bounds and why they suffice |
|---|---|---|
| `pmm` | all properties of `Pmm` and the refinement of `FrameAllocator` | pages of 4 bytes and 2 bits per byte give 8 bits per bitmap page, so maps of a dozen frames have every rounding case; allocation runs to exhaustion |
| `kernel_heap` | allocations never meet, the ASSERTs never fire, the refinement of `Arena` | a heap of 6 bytes and requests of 0, 1, 2, 3, 7: empty, fitting, exhausting and oversized requests; the model is finite because bytes are never given back |
| `boot_heap` | violated: the first kernel stack is outside the mapped heap | the real sizes |
| `proc` | all properties of `Proc`, with liveness | a heap that grants three processes with stacks, one process without, and refuses the rest; the third process lies beyond the heap's end, so its `next` may be anything |
| `proc_switch` | violated: after a launch the scheduler names one process and the CPU executes another | the real sizes |
| `vfs` | no write leaves its buffer, buffers are private, what was appended is read back | a heap that takes two files and a few writes, or runs out in the middle of a creation; writes of one and two bytes; every offset inside a file, whose length fits the heap |
| `vfs_append` | violated: a write at an offset overwrites and still makes the file longer | as above |
| `vfs_second` | violated: the second file created in a folder takes the place of the first | as above |
| `address_space` | all properties of `AddressSpace` | six free frames: two pages in a fresh region take five, the shared page two, a page map one, so that every walk runs out at each of its levels in some behaviour; two page maps, with either loaded |
| `boot` | what the boot leaves is fit for programs; faults are reported; the boot ends; the timer goes on | twenty firmwares, nine of them with a MADT, under a good and a bad checksum each: no MADT, empty, without an I/O APIC, overrides before and after, of IRQ 0 and of others, a second I/O APIC, an entry of length 0; descriptor fields of 4, 2 and 2 values, with addresses that need all of them; every mixture of masked and open inputs the firmware may leave |
| `screen` | only pixels of the screen are written, a panic can be read, the line is complete, the kernel never waits for ever | a screen of 6 by 8 pixels with a padded row and 2 by 2 characters has three lines, so that a few newlines leave it, and a word of 64 lets the cursor's coordinates wrap; three messages in any order with all system calls of kesswm between them |
| `library` | paths, numbers, archives, images and buses, each against its reference | paths up to 8 characters with names up to 3: empty, full and overlong names, slashes anywhere; every number of 8 bits, the smallest included; archives of three files of 0, 1 and 3 blocks whose contents look like headers, under names of one and two letters where one is the longest that can be opened, with sizes on either side of an octal digit's limit; images of three segments that touch, share pages or exceed the frames; two devices on eight places |

`CHECK_DEADLOCK FALSE` is set where the system really stops: a heap that
panicked or faulted, a machine that halted, a pmm without memory to free, a pure
function that has been computed.  `Boot` has a step for the machine that stands
still, so deadlock is checked there.

What the properties are for, component by component:

- `Screen!PanicIsReadable` is about the whole history of cursor and pixels: the
  row never returns to 0 but by a wrap, `newline` may clear between two lines,
  programs draw where they like, and still the first line of a panic is at the
  top of an otherwise empty screen.  `WritesStayInside` (in `ScreenSafe`) is
  about loops that go four times too far and coordinates that wrap.
- `Boot!BootSafe` relates every table of the boot to what the CPU later asks of
  it; `FaultsAreReported` follows a fault through an interrupt of its handler.
- `Programs!LoadedProgramWorks` relates `elf_load`'s order of mapping and
  copying, its excess of pages and the running out of frames to the bytes a
  program finds.
- `AddressSpace!OthersUntouched` and `TablesArePrivate` are about tables shared by
  page maps while walks create more.

Fairness.  `Proc!Spec` assumes weak fairness of the timer trap only.  `init_pit`
programs the PIT in periodic mode (0x36) and nobody stops it, the handler sends
the EOI before anything else, and `enter_ring3` sets IF in the flags it returns
with, which ring 3 code cannot clear.  Nothing is assumed about programs: they may
compute for ever, or never.  `Boot!Spec` assumes that the CPU executes (boot steps,
the return from an interrupt), that the PIT's interrupt arrives while it is let
through, and strong fairness of `report`: the handler's first instruction is
`cli`, so interrupts that keep arriving cannot keep it from being executed for
ever; the model lets the timer come any number of times before.  `Screen!Spec`
assumes that the CPU executes its wait loop and that the UART sends what it is
given.

## 4. Proofs

Every theorem holds for all values of the constants under the named assumptions of
the modules.  The proof about a component has one inductive invariant,
`IInv`; the machines that make inputs have theirs (`ArchiveInv`, `ImageInv`).

`PmmProofs` proves every safety property of `Pmm` and the refinement, for every
page size, bits per byte, number of heap pages and set of boot maps; also, with no
run of its own, that answers are fresh (`AnswersAreFresh`).  Assumed of a map
(`MapAssumption`): entries do not overlap, some memory is usable, and frame 0 is
not, as the Limine protocol guarantees; without the last, 0 would be both an
answer and a failure.  `OwnedAreMarked` and `BitmapSurvives` are not inductive on
their own: `IInv` adds that before the heap is taken nothing is owned, that the
clear bits are inside the usable frames of the map as `pmm_init` left it, that the
storage is disjoint from them, and that window frames which are usable are the
heap's.  The step that carries the weight is that the heap's window, as far as it
consists of clear frames, is inside the n + 1 lowest clear frames.

`KHeapProofs` has the lemmas on the data structure that three proofs share: a heap
stays well formed (blocks spaced so that each starts at or after the end of the
previous one's data, none ever FREE, at most `HeapSize` bytes granted), and a
request only appends.  `KernelHeapProofs` proves type correctness, disjointness, the
absence of false alarms, and the refinement of `Arena`, for every header size, heap size and set of
requests that do not wrap (`RequestAssumption`: the kernel's requests are constants
or file sizes, far below 2^64).  Under the mapping a pointer stands for its
block's data, the heap keeps the headers, and what is left is `HeapSize` less the
bytes granted.  A grant refines `Grant` because the new block's header and data lie
behind everything the chain has; `kfree`, whose loop does nothing, refines
`Release` because an arena does not grant returned memory again.  With no run of
their own: pointers are fresh, and a refusal is final.

`AddressSpaceProofs` proves every property of `AddressSpace`, invariants and action
properties, for any set of frames, any index size, any areas and any tables the
bootloader left that are well shaped: each table has one level and one way into
it, large pages are entries of level 2, rights are withheld only in the last level
(`TablesAssumption`).  Every frame is mapped at its own address (`WindowAssumption`).
Callers keep off these addresses and off large pages, what they find mapped is
not free, and their protections allow reading (`CallerAssumption`, `SetsAssumption`).
The invariant `Sound` says that an assignment of levels to frames exists that
makes memory such a forest of tables, with the page maps at level 4, free frames,
data and frame 0 at level 0, and the identity window in every page map; `Calm`,
that callers' pages lead to no free frame and that a frame mmap gave away is
behind one entry of one table.  It is stated of a memory, a set of free frames and
a level function, not of the state, because it must hold in the middle of a call,
after each of the four levels a walk may have to create.  `TablesArePrivate` and
`OthersUntouched` need it: that a new table disturbs no translation depends on
every other way through the same entry having been absent too.

`ProcProofs` proves all safety properties of `Proc`.  The invariant adds to them
the well-formed heap, an empty queue before the first launch, saved contexts that
belong to processes, and `Stackless`: a process without a kernel stack is the
newest and is running.  The last is why one refused allocation cannot spoil
another process: no trap gets into the kernel any more, so nobody is scheduled or
launched after it.

`ProcProofs` also proves what the launch of a program takes for granted.
Recursive functions are reasoned about with a lemma on sets of numbers
(`CountingUp`: a set that has 0 and with every number the next one has all of them,
as there would be a smallest one missing); the set is that of the rounds after
which a loop's invariant holds.

- `NumbersReadBack`, for every width of an int.  After k rounds of `dec2str` the
  digits written and the rest make up the number; reading goes through the same
  digits from the other end.  The smallest int is left out, since the code negates it.
- `InitrdFinds`, for every archive.  The invariant says that each header is followed
  by exactly the blocks of its file and then by the next header (`Chained`), so
  that the walk visits the headers and nothing else, and contents that look like a
  header are never looked at.  Assumed of tar (`ArchiveAssumption`): names are not
  empty, and a size fits its field.
- `LoadedProgramWorks`, for every image.  A round of `elf_load` maps over what lies
  behind its segment and nothing before it, so a segment that is complete stays
  complete while later ones ascend; the frames that are left are the first ones less
  what was asked for.  `prog_end` only grows, which gives the range that system
  calls check.  Assumed of images (`ImageAssumption`): they end below the end of
  memory; and of a page, that it has more than two bytes (`PagesAreLarge`).

`VfsProofs` proves all invariants of `Vfs`.  `NoOverrun` needs that offsets lie
inside files (`FilesFit`), and that no file is longer than the bytes the heap ever
granted, since otherwise the size asked of `krealloc` could wrap.
`BufferIsPrivate` needs that the freed buffers of `krealloc` are never handed out
again.  `AppendedReadsBack` rests on `Whole`: the buffer begins with the text and
the EOF, wherever it was reallocated to.  About `parse_path` it proves that a
file's path is read back for all paths, however long and with slashes anywhere: the
answer is this folder and this name exactly if the path is a slash, the folder, a
slash and the name, the folder is mounted and both fit the buffer
(`FilesAreFound`).  The path of a folder with a slash at its end is read as that
folder's (`FoldersAreNamed`).  Both together give `PathsAreFound`, which the
`library` run checks on short paths, for every path that can be spelt
(`EveryPathIsRead`); assumed are short folder names without slashes
(`FoldersAssumption`), as `fs_init` mounts them.

`BootProofs` proves `BootSafe` for every firmware, every address of the TSS, and
every number of I/O APIC inputs.  The invariant `Progress` says for each step of
`_start` what the steps before it have achieved.  Assumed of the firmware
(`OverrideAssumption`): what a MADT tells of IRQ 0 is true.  The address in the
TSS's descriptor is put together again from its fields for every width
(`BaseIsAddress`), gates and selectors are computed from their bytes.  Of the PCI
search it proves that it finds the first device of a class, with its six base
registers, whatever devices are plugged in and whatever their configuration spaces
hold (`PciFinds`): words are halves of doublewords, and the register at an offset
is put together from both.

`ScreenProofs` proves the safety properties of `Screen`, for every set of messages
and every list of calls of the program.  `LineIsComplete` needs that what the line
has, the character in the UART and the rest of the message make up the text
(`OnTheLine`).  `ScreenSafe` needs the cursor and the
picture to keep their types through every character of a text (`OnTheScreen`), and
holds for all sizes of screen, font and word that `SizeAssumption` admits: rows are
at least as long as the screen is wide, and the word is larger than the
framebuffer's height and a character together, as with 64 bits.  `PanicIsReadable`
is kept by every later step, since nothing but the panic is under way then
(`OfAPanic`); that a panic establishes it is the work.  `FirstLine` says of the
cursor and the picture after k characters of the text that the characters before
the first newline are in their cells of the first line, that the cursor is in the
k-th cell or below the line, by as many rows as there were newlines, and that
nothing has a program's colour; each character keeps it.  Assumed of the texts of panics
(`PanicAssumption`): their newlines fit on the screen, their characters do not make
the column wrap, and no program puts a text with the prefix of a panic, as is true
of `lib/panic.c` and of kesswm.  `Written`, which goes through a text character by
character, is a recursive function and treated as those of the launch are.

Only model-checked: liveness (`EverybodyScheduled`, `FaultsAreReported`,
`BootEnds`, `TimerKeepsComing`, `LoggingEnds`), which is out of the prover's reach.
Every safety property, action property and refinement that a passing run checks is
also stated by a theorem.

## 5. Limits of the models

`Word` stands for 2^64 in the heap and is any number larger than the heap and a
request together; `MCBootHeap` and `MCProcReal` use 10^6 for it, as TLC's integers
have 32 bits.  The contents of memory are modelled only where they decide
something.  One CPU: the kernel starts no other.  `AddressSpace` leaves out the
TLB (every change of an entry is followed by `invlpg`, every change of map by a
load of CR3) and mappings over the identity addresses of tables.  `Vfs` has
callers that seek inside a file, since an offset behind the end writes outside its
buffer.  `Loader` takes low memory to be mapped whether or not `mmap` succeeded,
as the bootloader leaves it.  `Boot` leaves out `serial_init`,
`framebuffer_init` and messages (they are `Screen`), and takes the memory managers
and file systems as steps that succeed or stop the machine (they have modules of
their own).  In `Screen` a glyph is a rectangle that bears its character, so two
characters differ as they do in the font, and the test of the serial chip may end
either way.  Its panics are a line or a few, as the kernel's are: one with more
newlines than the screen has rows would clear the screen over its own beginning.

## 6. Deviations met while modelling

With a run: the kernel stack outside the heap (`mm/heap.c:71`), a task switch that
does not switch the program (`proc/proc.c:142`), a write that is not an append
(`fs/tmpfs.c:58`), a second file that replaces the first (`fs/tmpfs.c:100`).

Without a run of their own:

- `pmm_alloc_heap_base` returns the first of frames that need not be consecutive,
  and `create_heap` maps the pages after it: if the lowest run of usable frames is
  shorter than the heap, the direct-map addresses behind it are lost, those of the
  bitmap too if it lies there (`kmain.c:29`, `mm/pmm.c:84`); where the direct map
  has large pages, `_get_next_level` takes one for a table (`mm/vmm.c:33`);
- `mmap` returns 0 although `vmm_map_page` had no frame for a table and mapped
  nothing (`mm/vmm.c:64`, `include/mm/mmap.h:16`): hence the condition in `MmapMaps`;
- the user stack of every process is the same page, since `vmm_make_pml4` shares
  the lower tables (`proc/proc.c:42`, `mm/vmm.c:23`);
- `make_process` ignores a NULL for the kernel stack (`proc/proc.c:64`) and never
  assigns `next` (`proc/proc.c:97`);
- a path that ends without a slash after a folder loses its last character and
  leaves `file_out` unassigned (`fs/vfs.c:62`); creating an existing file replaces
  it (`fs/vfs.c:101`);
- all files of a folder share one slot (`fs/tmpfs.c:70`), reads ignore the offset
  (`fs/tmpfs.c:40`), and the pool's macro allocates twice (`fs/tmpfs.c:11`);
- a query for a page without tables makes them (`mm/vmm.c:41`); new tables are
  never user accessible (`mm/vmm.c:50`); `munmap` of an unmapped page frees frame 0
  (`mm/mmap.c:64`); `mmap` that gives up leaves the pages before (`mm/mmap.c:51`);
- `n_pages` of the loader counts bytes (`lib/elf.c:100`), so each segment maps
  thousands of pages over what lies behind it, and the result of `mmap` is ignored
  (`lib/elf.c:105`);
- the message on the serial line has other arguments than the one on the screen
  (`lib/log.c:45`);
- the row of the console's cursor is never reset at the bottom, so that nothing is
  visible until it wraps or a message clears the screen (`tty/console.c:20`);
- overflow is reported as a bound-range fault (`intr/exceptions.c:106`), the last
  of several I/O APICs is the one that is used (`firmware/acpi/acpi.c:42`), and the
  spurious vector has no gate (`arch/x86/apic/lapic.c:83`).

## 7. Not modelled

- `drivers/ps2/keyboard.c`, `drivers/ps2/mouse.c`: no handler is registered for
  IRQ 1, nothing reads the keystroke slot, and the mouse is commented out.  A model
  would be of code that never runs.
- `sync/mutex.c`, `ipc/shmem.c`: nothing calls them and the kernel has no second
  thread.  A model would have to invent their callers.
- `mmap_at`, which nobody calls; `FRAMEBUFFER_GET_PIXEL`, which no program uses;
  the string functions without a caller that depends on their details.
- the programming of devices beyond the registers whose values matter later
  (`arch/x86/io.c`, line parameters of the UART), the font's bitmaps, and the
  vendored headers of Limine and ELF beyond the constants that are used.

## 8. What is left

A plain mapping that `AddressSpace` implements on top of `FrameAllocator`, and the
composition of `Proc` with `AddressSpace`, so that the sharing of lower tables is
derived and not stated.
