------------------------------ MODULE PathNames ------------------------------
(***************************************************************************)
(* What the callers of fs/vfs.c rely on when they name a file, for every   *)
(* path there is: one is spelt out character by character.                 *)
(***************************************************************************)
EXTENDS VfsPath

CONSTANTS Letters,     \* characters of names
          Folders,     \* names of folders that are mounted beside the root
          MaxPath      \* the longest path

\* What fs_init mounts has short names without slashes.
ASSUME FoldersAssumption ==
    /\ Slash \notin Letters
    /\ \A f \in Folders : f \in Seq(Letters) /\ Len(f) < MaxName

VARIABLE spelt         \* the path so far

Root == <<Slash>>

NoPath == spelt = <<>>

LongerPath == /\ Len(spelt) < MaxPath
              /\ \E c \in Letters \cup {Slash} : spelt' = Append(spelt, c)

PathSpec == NoPath /\ [][LongerPath]_spelt
-----------------------------------------------------------------------------
\* The reference: a file's path is a slash, the folder, a slash, the name.
FilePath(folder, file) == ((<<Slash>> \o folder) \o <<Slash>>) \o file

FileNames == UNION {[1 .. n -> Letters] : n \in 1 .. MaxName}

\* A file in a mounted folder is found under its full path, and nothing else is
\* taken for one: no empty name, no subdirectory, no overlong name.  The path of
\* a folder names it if it ends in a slash.  (Without one the last character of
\* the name is lost before the folder is looked up.)
PathsAreFound ==
    LET r == parse_path(spelt, Folders \cup {Root})
    IN  /\ r.kind = "file" => spelt = FilePath(r.folder, r.file)
        /\ r.kind = "file" <=> \E f \in Folders, n \in FileNames : spelt = FilePath(f, n)
        /\ \A f \in Folders : spelt = FilePath(f, <<>>) => r = [kind |-> "folder", folder |-> f]
=============================================================================
