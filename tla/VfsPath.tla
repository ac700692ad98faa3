------------------------------- MODULE VfsPath -------------------------------
(***************************************************************************)
(* How fs/vfs.c takes a path apart (parse_path).  A path is a sequence of  *)
(* characters.  The answer says how far the function got: it failed; it    *)
(* looked for a folder and left *file_out unassigned ("folder"); it looked *)
(* for a file in a folder ("file"); or it used a name it never filled in   *)
(* ("unset").                                                              *)
(***************************************************************************)
EXTENDS Integers, Sequences, FiniteSetsExt

CONSTANT MaxName     \* the 194 characters that fname can hold

ASSUME NameAssumption == MaxName \in Nat \ {0}

Slash == "/"

\* The first loop ends at the first slash, or at the last character.
Stop(p) == Min({k \in 1 .. Len(p) : p[k] = Slash} \cup {Len(p)})

\* Slip: the second loop starts at the slash.
FileName_slash(p) == SubSeq(p, Stop(p), Len(p))

FolderName(p) == SubSeq(p, 1, Stop(p) - 1)

FileName(p) == SubSeq(p, Stop(p) + 1, Len(p))

Failure == [kind |-> "failure"]

\* `mounted' holds the names of the roots; the path goes on after its first
\* slash.  "No subdirectories yet."
parse_path(path, mounted) ==
    IF path = <<>> \/ Head(path) # Slash THEN Failure
    ELSE LET p == Tail(path)
         IN  CASE p = <<>> -> [kind |-> "unset"]
               [] p # <<>> /\ Stop(p) > MaxName -> Failure
               [] p # <<>> /\ Stop(p) <= MaxName /\ Stop(p) >= Len(p) ->
                     [kind |-> "folder", folder |-> FolderName(p)]
               [] OTHER ->
                     IF \/ FolderName(p) \notin mounted
                        \/ Slash \in {FileName(p)[k] : k \in 1 .. Len(FileName(p))}
                        \/ Len(FileName(p)) > MaxName
                     THEN Failure
                     ELSE [kind |-> "file", folder |-> FolderName(p), file |-> FileName(p)]
=============================================================================
