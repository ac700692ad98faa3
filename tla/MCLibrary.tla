------------------------------- MODULE MCLibrary -------------------------------
(* The kernel's pure functions against what their callers rely on.  An input *)
(* is grown step by step: a path by a character, an archive by a file, an    *)
(* image by a program header, a bus by a device; a number counts up.         *)
EXTENDS PathNames, Numbers, Programs, Pci

VARIABLE what

vars == <<what, spelt, number, archive, image, bus>>
-----------------------------------------------------------------------------
\* One mounted folder.
NameLetters == {"t", "a"}
MountedFolders == {<<"t", "a">>}
Spell == what = "path" /\ LongerPath /\ UNCHANGED <<what, number, archive, image, bus>>

Count == what = "number" /\ NextNumber /\ UNCHANGED <<what, spelt, archive, image, bus>>

\* Sizes about a block's and about a digit's limit.
FileLetters == {"a", "b"}
FileNamed == {<<"a">>, <<"b">>, <<"b", "a">>}
AboutABlock == {0, 4, 9}
LikeHeaders == {[name |-> <<"a">>, size |-> <<0, 4>>], [name |-> <<"b", "a">>, size |-> <<1, 1>>]}
AddFile == what = "archive" /\ LongerArchive /\ UNCHANGED <<what, spelt, number, image, bus>>

Loadable == [p_type : {PT_LOAD, 2}, p_paddr : {4, 9, 12, 22}, p_offset : {0},
             p_filesz : {2}, p_memsz : {2, 3, 6}]
                \cup [p_type : {PT_LOAD}, p_paddr : {4}, p_offset : {3}, p_filesz : {0, 5}, p_memsz : {5, 30}]
OneFieldWrong == {Good} \cup {[Good EXCEPT ![f] = 0] : f \in DOMAIN Good}
Numbered == [o \in 0 .. 20 |-> o]
\* One segment is enough for an image with a wrong field.
AddSegment == /\ what = "image" /\ LongerImage
              /\ image.header = Good \/ image.phdrs = <<>>
              /\ UNCHANGED <<what, spelt, number, archive, bus>>

\* Devices of four classes, told apart by their registers.
DeviceSpaces == {[d \in 0 .. 9 |-> IF d = 2 THEN (WordSize * ((ByteSize * base) + sub)) + 1 ELSE (7 * d) + tag] :
                    base \in 0 .. 1, sub \in 0 .. 1, tag \in 0 .. 1}
PlugIn == what = "bus" /\ NewDevice /\ UNCHANGED <<what, spelt, number, archive, image>>

Init == /\ what \in {"path", "number", "archive", "image", "bus"}
        /\ NoPath /\ Smallest /\ NoFiles /\ NoSegments /\ NoDevices
        /\ what # "image" => image.header = Good /\ image.frames = 12

Next == Spell \/ Count \/ AddFile \/ AddSegment \/ PlugIn

Spec == Init /\ [][Next]_vars
=============================================================================
