------------------------------- MODULE Programs -------------------------------
(***************************************************************************)
(* What init and user programs rely on when they are found in the initrd   *)
(* and loaded: for every archive, a file after the other, and every image, *)
(* a program header after the other.                                       *)
(***************************************************************************)
EXTENDS Loader

CONSTANTS Characters,  \* characters of names
          Named,       \* names of files
          FileSizes,   \* their sizes in bytes
          SizeDigits,  \* octal digits of a size: 11
          Fillers,     \* blocks of contents, which may look like headers
          MaxFiles     \* bound on files

\* tar names every file, and a size fits its field.
ASSUME ArchiveAssumption ==
    /\ SizeDigits \in Nat
    /\ Named \subseteq Seq(Characters) \ {<<>>}
    /\ \A n \in FileSizes : n \in Nat /\ Rest(n, 8, SizeDigits)[SizeDigits] = 0
    /\ Fillers \subseteq [name : Seq(Characters), size : Seq(0 .. 7)]

CONSTANTS Top,         \* the addresses of memory are below
          Headers,     \* what an ELF header may say
          Entries,     \* entry points
          Segments,    \* program headers
          File,        \* the bytes of an image
          FrameCounts, \* how many frames may be left
          MaxPhdrs     \* bound on program headers

Good == [f \in DOMAIN Ident \cup DOMAIN Kind |-> IF f \in DOMAIN Ident THEN Ident[f] ELSE Kind[f]]

LastByte(p) == p.p_paddr + p.p_memsz - 1

ASSUME ImageAssumption ==
    /\ Top \in Nat /\ Entries \subseteq Nat /\ FrameCounts \subseteq Nat
    /\ Headers \subseteq [DOMAIN Good -> Nat]
    /\ Segments \subseteq [p_type : Nat, p_paddr : Nat, p_offset : Nat, p_filesz : Nat, p_memsz : Nat]
    /\ \A p \in Segments : LastByte(p) < Top

VARIABLES archive,   \* its files, with the place of each header, and its blocks
          image      \* an ELF file, and how many frames there are for it
-----------------------------------------------------------------------------
(* Archives                                                                *)

Octal(n) == Reverse([k \in 1 .. SizeDigits |-> Rest(n, 8, SizeDigits)[k - 1] % 8])

Header(name, n) == [name |-> name, size |-> Octal(n)]

\* The blocks of n bytes, the last one filled up.
Contents(n) == UNION {[1 .. m -> Fillers] : m \in {k \in 0 .. n : k * BlockSize \in n .. n + BlockSize - 1}}

\* The archive begins with a header nobody looks at, meta/initrd/dmmy, and ends
\* with two blocks of zeros.
NoFiles == \E d \in Fillers : archive = [files |-> <<>>, blocks |-> <<d>>]

Ended == archive.blocks \o <<Header(<<>>, 0), Header(<<>>, 0)>>

LongerArchive ==
    /\ Len(archive.files) < MaxFiles
    /\ \E name \in Named, n \in FileSizes : \E c \in Contents(n) :
           archive' = [files  |-> Append(archive.files, [name |-> name, at |-> Len(archive.blocks) + 1]),
                       blocks |-> Append(archive.blocks, Header(name, n)) \o c]

ArchiveSpec == NoFiles /\ [][LongerArchive]_archive

\* A file is found behind its header, whatever the contents of the files before
\* it look like; of two files with a name the first; and a name that is not there
\* is not found.
InitrdFinds ==
    \A name \in Named :
        LET hits == {i \in DOMAIN archive.files : archive.files[i].name = name}
        IN  initrd_open(Ended, name) =
                IF hits = {} \/ Len(name) > PathMax THEN None ELSE archive.files[Min(hits)].at + 1
-----------------------------------------------------------------------------
(* Images                                                                  *)

NoSegments == \E h \in Headers, e \in Entries, n \in FrameCounts :
                  image = [header |-> h, e_entry |-> e, file |-> File, phdrs |-> <<>>, frames |-> n]

LongerImage == /\ Len(image.phdrs) < MaxPhdrs
               /\ \E p \in Segments : image' = [image EXCEPT !.phdrs = Append(@, p)]

ImageSpec == NoSegments /\ [][LongerImage]_image

\* What elf_load leaves of an image; memory holds something else before.
Old == 99
Memory == [mem |-> [a \in 0 .. Top - 1 |-> Old], frames |-> image.frames,
           entry |-> None, start |-> 0, end |-> 0]
After == elf_load(Memory, image)

ToLoad == {i \in DOMAIN image.phdrs : image.phdrs[i].p_type = PT_LOAD}

\* How many frames the first so many headers ask for.
Needed == LET n[i \in 0 .. Len(image.phdrs)] ==
                  IF i = 0 THEN 0
                  ELSE IF i \in ToLoad THEN n[i - 1] + n_pages(image.phdrs[i]) ELSE n[i - 1]
          IN  n

\* An image whose segments ascend and share no page is complete in memory when
\* its program starts: every byte of the file at its address, and zeros behind if
\* the frames sufficed.  (elf_load maps thousands of pages too many, over whatever
\* lies there; only what it loads later is safe.)  An image for another machine
\* changes nothing.
ImageIntact ==
    LET ascending == \A i, j \in ToLoad :
            i < j => LastByte(image.phdrs[i]) < PAGE_ALIGN(image.phdrs[j].p_paddr)
        file(p) == p.p_paddr .. p.p_paddr + p.p_filesz - 1
        mem == After.mem
        enough == Needed[Len(image.phdrs)] <= image.frames
    IN  IF image.header # Good THEN After = Memory
        ELSE ascending =>
            \A i \in ToLoad : LET p == image.phdrs[i] IN
                \A a \in p.p_paddr .. LastByte(p) :
                    /\ a \in file(p) => mem[a] = File[p.p_offset + a - p.p_paddr]
                    /\ a \notin file(p) /\ enough => mem[a] = 0

\* A program can print what its image holds: no string of it is refused, if each
\* segment begins at the entry or at most two pages behind an earlier one and is
\* small enough for an int.
OwnStringsAccepted ==
    LET loaded == After
        follow == \A j \in ToLoad : LET p == image.phdrs[j] IN
            /\ p.p_paddr >= image.e_entry /\ n_pages(p) * PageSize <= IntMax
            /\ \/ p.p_paddr = image.e_entry
               \/ \E i \in ToLoad : i < j /\ p.p_paddr <= LastByte(image.phdrs[i]) + (2 * PageSize)
    IN  image.header = Good /\ follow =>
            \A i \in ToLoad : \A str \in image.phdrs[i].p_paddr .. LastByte(image.phdrs[i]) :
                ~ Denied(loaded, str)

\* What a program may expect of the loader.
LoadedProgramWorks == ImageIntact /\ OwnStringsAccepted
=============================================================================
