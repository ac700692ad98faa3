--------------------------------- MODULE Loader ---------------------------------
(***************************************************************************)
(* From a name to a program in memory: lib/module.c, fs/initrd.c and       *)
(* lib/elf.c.                                                              *)
(*                                                                         *)
(* The initrd is a tar archive, here a sequence of blocks.  Memory is a    *)
(* function from addresses to bytes; `s' is memory, the frames left, and   *)
(* what elf_load tells of the image.                                       *)
(***************************************************************************)
EXTENDS KString

CONSTANTS BlockSize,  \* 512
          PathMax,    \* 99
          PageSize    \* 0x1000

ASSUME LoaderAssumption == {BlockSize, PathMax, PageSize} \subseteq Nat \ {0}

ASSUME PagesAreLarge == PageSize > 2

None == -1        \* NULL
Beyond == -2      \* the walk left the archive
-----------------------------------------------------------------------------
(* module.c and initrd.c                                                   *)

\* The first module of that path; None if there is none.
get_module(modules, path) ==
    LET hits == {i \in DOMAIN modules : kstrcmp(modules[i].path, path) = 0}
    IN  IF hits = {} THEN None ELSE Min(hits)

\* Slip: the most significant digit is left out.
_getsize_short(digits) == Value(8, Tail(digits))

\* Octal digits, the most significant first.
_getsize(digits) == Value(8, digits)

\* A header and the blocks of its contents.
Step(h) == ((_getsize(h.size) + BlockSize - 1) \div BlockSize) + 1

Advance(archive, at) == IF at > Len(archive) THEN at ELSE at + Step(archive[at])

\* Where the walk is in each round; the first block is passed over.
Walk(archive) ==
    LET at[k \in 0 .. Len(archive)] == IF k = 0 THEN 2 ELSE Advance(archive, at[k - 1])
    IN  at

\* It ends at the file, at a header without a name, or outside the archive.
LastRound(archive, path) ==
    LET at == Walk(archive)
    IN  Min({k \in DOMAIN at : \/ at[k] > Len(archive)
                               \/ kstrcmp(archive[at[k]].name, path) = 0
                               \/ archive[at[k]].name = <<>>})

\* Names, the empty one too, are compared first, but for an archive that begins
\* with the empty one there is no round.
initrd_open(archive, path) ==
    LET at == Walk(archive)[LastRound(archive, path)]
    IN  IF Len(path) > PathMax THEN None
        ELSE IF at > Len(archive) THEN Beyond
        ELSE IF archive[2].name # <<>> /\ kstrcmp(archive[at].name, path) = 0 THEN at + 1
        ELSE None
-----------------------------------------------------------------------------
(* elf.c.  What identifies a program the kernel can run.                   *)

Ident == [EI_MAG0 |-> 127, EI_MAG1 |-> 69, EI_MAG2 |-> 76, EI_MAG3 |-> 70]
Kind == [EI_CLASS |-> 2, EI_DATA |-> 1, e_machine |-> 62, e_version |-> 1, e_type |-> 2]
PT_LOAD == 1

is_valid(hdr) == \A f \in DOMAIN Ident : hdr[f] = Ident[f]
is_supported(hdr) == \A f \in DOMAIN Kind : hdr[f] = Kind[f]

PAGE_ALIGN(a) == a - (a % PageSize)

\* What an int keeps of a product.
AsInt(n) == ((n + IntMax + 1) % (2 * (IntMax + 1))) - IntMax - 1

\* Slip: the division that the rounding up is for, but rounded down.
n_pages_down(phdr) == phdr.p_memsz \div PageSize

\* Meant as a rounding up to pages, it counts bytes.
n_pages(phdr) == phdr.p_memsz + PageSize - 1

\* mmap: fresh zeroed pages replace what was mapped, until frames run out.
Mapped(s, phdr) ==
    LET got == IF s.frames < n_pages(phdr) THEN s.frames ELSE n_pages(phdr)
        first == PAGE_ALIGN(phdr.p_paddr)
    IN  [s EXCEPT !.mem = [a \in DOMAIN @ |-> IF a \in first .. first + (got * PageSize) - 1
                                              THEN 0 ELSE @[a]],
                  !.frames = @ - got]

\* The file's bytes go to p_paddr, mapped or not: low memory is always there.
Loaded(s, phdr, file) ==
    [Mapped(s, phdr) EXCEPT
        !.mem = [a \in DOMAIN @ |-> IF a \in phdr.p_paddr .. phdr.p_paddr + phdr.p_filesz - 1
                                    THEN file[phdr.p_offset + a - phdr.p_paddr] ELSE @[a]],
        !.end = @ + AsInt(n_pages(phdr) * PageSize)]

\* After each of the program headers in order.
Passed(s, elf) ==
    LET after[i \in 0 .. Len(elf.phdrs)] ==
            IF i = 0 THEN [s EXCEPT !.entry = elf.e_entry, !.start = elf.e_entry, !.end = elf.e_entry]
            ELSE IF elf.phdrs[i].p_type = PT_LOAD THEN Loaded(after[i - 1], elf.phdrs[i], elf.file)
            ELSE after[i - 1]
    IN  after

\* An image that is not for this machine changes nothing.
elf_load(s, elf) ==
    IF ~ is_valid(elf.header) \/ ~ is_supported(elf.header) THEN [s EXCEPT !.entry = None]
    ELSE Passed(s, elf)[Len(elf.phdrs)]

\* sys_conout refuses strings that are not the program's own.
Denied(image, str) == str < image.start \/ str > image.end
=============================================================================
