--------------------------- MODULE MakeDirectory ---------------------------
(***************************************************************************)
(* appb/make-directory.c: makes a directory, removing one that is in the   *)
(* way, writes a file in it and reads it back, removes the file and        *)
(* renames the directory.  mkdir, rmdir, open, write, read, unlink and     *)
(* rename may fail, whatever is at the path, and another process may       *)
(* change what is there.  The text of the file is left out.                *)
(***************************************************************************)
EXTENDS Naturals

CONSTANT Meddles  \* bound: how often another process changes the path

VARIABLES main,     \* the call that main() makes next; "exit" or "failed" at its end
          errno,
          path,     \* what is there: "absent", "file" or "directory"
          entries,  \* what is in the directory: "filename" and "other" files
          fd,       \* is a descriptor open?
          meddled

vars == <<main, errno, path, entries, fd, meddled>>

There(p, e) == (p = "directory" \/ e = {}) /\ e \subseteq {"filename", "other"}

Init == /\ main = "mkdir" /\ errno = "unset" /\ fd = FALSE /\ meddled = 0
        /\ path \in {"absent", "file", "directory"}
        /\ entries \in {e \in SUBSET {"filename", "other"} : There(path, e)}

Goto(from, to) == main = from /\ main' = to

-----------------------------------------------------------------------------
(* while (mkdir(path, mode) < 0) *)

MkDir == \/ /\ Goto("mkdir", "create") /\ path = "absent"
            /\ path' = "directory"
            /\ UNCHANGED <<errno, entries, fd, meddled>>
         \/ /\ Goto("mkdir", "perror")
            /\ errno' \in IF path = "absent" THEN {"other"} ELSE {"EEXIST", "other"}
            /\ UNCHANGED <<path, entries, fd, meddled>>

\* perror() writes to stderr, and sets errno if it cannot.
Perror == /\ Goto("perror", "switch")
          /\ errno' \in {errno, "other"}
          /\ UNCHANGED <<path, entries, fd, meddled>>

\* case EEXIST: rmdir(), whose result nobody looks at.  It removes nothing but an empty
\* directory, and not each of these: ".", a mount point, or one whose parent is protected.
Exists == /\ errno = "EEXIST" /\ Goto("switch", "rmdir")
          /\ UNCHANGED <<errno, path, entries, fd, meddled>>

Removable == path = "directory" /\ entries = {}
RmDir == /\ Goto("rmdir", "mkdir")
         /\ \/ Removable /\ path' = "absent"
            \/ UNCHANGED path
         /\ UNCHANGED <<errno, entries, fd, meddled>>

\* Fault: exit(1) is forgotten, and the switch falls back into the loop.
Unexpected_Retries == /\ errno # "EEXIST" /\ Goto("switch", "mkdir")
                      /\ UNCHANGED <<errno, path, entries, fd, meddled>>

\* default: give up
Unexpected == /\ errno # "EEXIST" /\ Goto("switch", "failed")
              /\ UNCHANGED <<errno, path, entries, fd, meddled>>

-----------------------------------------------------------------------------
(* The file *)

\* open(concat, O_CREAT | O_EXCL | O_WRONLY, mode)
CreateFile ==
  \/ /\ Goto("create", "write") /\ path = "directory" /\ "filename" \notin entries
     /\ entries' = entries \cup {"filename"} /\ fd' = TRUE
     /\ UNCHANGED <<errno, path, meddled>>
  \/ Goto("create", "failed") /\ UNCHANGED <<errno, path, entries, fd, meddled>>

\* write() and close(), which nobody looks at
Write == /\ Goto("write", "open") /\ fd' = FALSE
         /\ UNCHANGED <<errno, path, entries, meddled>>

Open == \/ /\ Goto("open", "read") /\ "filename" \in entries /\ fd' = TRUE
           /\ UNCHANGED <<errno, path, entries, meddled>>
        \/ Goto("open", "failed") /\ UNCHANGED <<errno, path, entries, fd, meddled>>

\* Fault: the descriptor is not closed when read() fails.
Read_KeepsOpen == /\ \/ Goto("read", "unlink") /\ fd' = FALSE
                     \/ Goto("read", "failed") /\ UNCHANGED fd
                  /\ UNCHANGED <<errno, path, entries, meddled>>

\* read() and close()
Read == /\ Goto("read", "unlink") \/ Goto("read", "failed")
        /\ fd' = FALSE
        /\ UNCHANGED <<errno, path, entries, meddled>>

Unlink == /\ Goto("unlink", "rename")
          /\ entries' \in {entries, entries \ {"filename"}}
          /\ UNCHANGED <<errno, path, fd, meddled>>

\* rename(path, "lombra.d")
Rename == /\ Goto("rename", "exit")
          /\ \/ UNCHANGED <<path, entries>>
             \/ path' = "absent" /\ entries' = {}
          /\ UNCHANGED <<errno, fd, meddled>>

Main == MkDir \/ Perror \/ Exists \/ RmDir \/ Unexpected \/ CreateFile \/ Write \/ Open
        \/ Read \/ Unlink \/ Rename

Meddle == /\ meddled < Meddles /\ meddled' = meddled + 1
          /\ path' \in {"absent", "file", "directory"}
          /\ entries' \in {e \in SUBSET {"filename", "other"} : There(path', e)}
          /\ UNCHANGED <<main, errno, fd>>

Ended == main \in {"exit", "failed"} /\ UNCHANGED vars

Next == Main \/ Meddle \/ Ended

-----------------------------------------------------------------------------
(* Properties *)

\* The types; and no way out leaves the descriptor open.
TypeOK == /\ main \in {"mkdir", "perror", "switch", "rmdir", "create", "write", "open", "read",
                      "unlink", "rename", "exit", "failed"}
          /\ errno \in {"unset", "EEXIST", "other"}
          /\ path \in {"absent", "file", "directory"} /\ There(path, entries)
          /\ fd \in BOOLEAN /\ meddled \in 0 .. Meddles
          /\ main \in {"exit", "failed"} => ~fd

\* Line 31, "Deleting the existing directory and trying again": an attempt that fails for
\* another reason ends the program, and one that finds the path taken is never made again
\* without a rmdir() in between.  So the loop goes on for ever only where something is at the
\* path for good that rmdir(), called over and over, does not remove.
EndsOrSpins == \/ <>(main \in {"exit", "failed"})
               \/ <>[](path # "absent") /\ []<>(main = "rmdir")
=============================================================================
