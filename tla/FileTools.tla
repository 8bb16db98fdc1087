----------------------------- MODULE FileTools -----------------------------
(***************************************************************************)
(* appb/write-all.c, ch02/temp_file.c, ch02/readfile.c, appb/read-file.c   *)
(* and appb/hexdump.c: five programs that take a buffer to a file or back; *)
(* program says which of them runs.                                        *)
(* Each has one process, one file and one buffer, and what is hard in each *)
(* is that every call but lseek and close may fail, and that write and     *)
(* read may transfer less than they were asked to.                         *)
(*                                                                         *)
(* A byte is a pair: <<"data", x>>, <<"size", j>> for the j-th byte of the *)
(* length that temp_file writes before its data, or <<"stray", j>> for the *)
(* j-th byte of memory from hexdump's buffer on, whatever it holds.  A     *)
(* write of some bytes that does not fail writes at least one.  What the   *)
(* programs print is left out, but for the bytes of hexdump.               *)
(***************************************************************************)
EXTENDS Integers, Sequences, SequencesExt

CONSTANTS Programs,  \* the programs that may be the one that runs
          Inputs,    \* what may be written, or in the file that is read
          Lengths,   \* the lengths that readfile may be asked for
          SizeOf,    \* sizeof (length), in bytes
          Chunk,     \* sizeof (buffer) in hexdump
          Overrun,   \* bound: how much hexdump may print of the memory from there on
          Garbage    \* what memory nobody has written may hold, read as a length

ASSUME FileToolsAssumption ==
  /\ Programs \subseteq {"write_all", "temp_file", "readfile", "read_file", "hexdump"}
  /\ \A s \in Inputs : s \in Seq({"data"} \X Nat)
  /\ Lengths \subseteq Nat /\ Garbage \subseteq Nat /\ Garbage # {}
  /\ {SizeOf, Chunk, Overrun} \subseteq Nat \ {0}

VARIABLES program,
          pc,
          input,    \* the bytes to write
          file,     \* the bytes in the file
          offset,   \* of the file descriptor
          fd,       \* "closed", "open", or "bad" when the file could not be made
          left,     \* write_all's left_to_write
          length,   \* the length that temp_file reads, that fstat tells read_file, or
                    \*   that readfile is asked for
          buffer,   \* the memory that is read into: "none", "allocated" or "freed",
          output,   \* and the bytes of the file it holds, from its start; for
                    \*   hexdump, the bytes that have been printed
          result,   \* what the function returns: "none" till then
          cut       \* has a call failed, or given less than there was?

vars == <<program, pc, input, file, offset, fd, left, length, buffer, output, result, cut>>

Init == /\ program \in Programs
        /\ pc = CASE program = "write_all" -> "open"
                  [] program = "temp_file" -> "mkstemp"
                  [] program = "readfile" -> "malloc"
                  [] OTHER -> "open_it"
        /\ input \in Inputs
        /\ file = IF program \in {"write_all", "temp_file"} THEN <<>> ELSE input
        /\ length \in CASE program \in {"write_all", "hexdump"} -> {0}
                       [] program \in {"temp_file", "read_file"} -> Garbage
                       [] program = "readfile" -> Lengths
        /\ offset = 0 /\ fd = "closed" /\ left = 0
        /\ buffer = "none" /\ output = <<>> /\ result = "none" /\ cut = FALSE

At(p, from) == program = p /\ pc = from
Goto(to) == pc' = to /\ UNCHANGED <<program, input>>

-----------------------------------------------------------------------------
(* write-all *)

\* open(filename, O_CREAT | O_EXCL | O_WRONLY), and the call of write_all
OpenNew == /\ At("write_all", "open")
           /\ \/ Goto("write") /\ fd' = "open" /\ left' = Len(input) /\ UNCHANGED <<result, cut>>
              \/ Goto("done") /\ result' = "error" /\ cut' = TRUE /\ UNCHANGED <<fd, left>>
           /\ UNCHANGED <<file, offset, length, buffer, output>>

\* Fault: buffer += written is forgotten.
WriteSome_SameBytes ==
  /\ At("write_all", "write") /\ left > 0
  /\ \E k \in 1 .. left : file' = file \o SubSeq(input, 1, k) /\ left' = left - k
  /\ Goto("write")
  /\ UNCHANGED <<offset, fd, length, buffer, output, result, cut>>

WriteSome ==
  /\ At("write_all", "write") /\ left > 0
  /\ \E k \in 1 .. left :
        LET written == Len(input) - left IN
        /\ file' = file \o SubSeq(input, written + 1, written + k)
        /\ left' = left - k
  /\ Goto("write")
  /\ UNCHANGED <<offset, fd, length, buffer, output, result, cut>>

\* Fault: the error is taken for a count, -1, and subtracted.
WriteFails_Unnoticed ==
  /\ At("write_all", "write") /\ left > 0
  /\ Goto("write") /\ left' = left + 1 /\ cut' = TRUE
  /\ UNCHANGED <<file, offset, fd, length, buffer, output, result>>

\* An error occurred; bail.  The program ends without closing the file.
WriteFails ==
  /\ At("write_all", "write") /\ left > 0
  /\ Goto("done") /\ result' = "error" /\ cut' = TRUE
  /\ UNCHANGED <<file, offset, fd, left, length, buffer, output>>

\* return count, and main() closes the file
WriteDone ==
  /\ At("write_all", "write") /\ left = 0
  /\ Goto("done") /\ result' = "count" /\ fd' = "closed"
  /\ UNCHANGED <<file, offset, left, length, buffer, output, cut>>

write_all == OpenNew \/ WriteSome \/ WriteFails \/ WriteDone

-----------------------------------------------------------------------------
(* temp_file: no call is checked *)

MakeTemp == /\ At("temp_file", "mkstemp") /\ Goto("write_length")
            /\ fd' \in {"open", "bad"}
            /\ cut' = (fd' = "bad")
            /\ UNCHANGED <<file, offset, left, length, buffer, output, result>>

\* One call that writes bytes, or the first k of them, at the end of the file.
Write(bytes) == \E k \in 0 .. (IF fd = "open" THEN Len(bytes) ELSE 0) :
                   /\ file' = file \o SubSeq(bytes, 1, k)
                   /\ offset' = offset + k
                   /\ cut' = (cut \/ k < Len(bytes))

\* How many bytes there are for a read of n, one call that gets the first k of them, and
\* what it gets.
Readable(n) == IF fd # "open" THEN 0
               ELSE IF n <= Len(file) - offset THEN n ELSE Len(file) - offset
Read(n, k) == offset' = offset + k /\ cut' = (cut \/ k < Readable(n))
Got(k) == SubSeq(file, offset + 1, offset + k)

Size == [j \in 1 .. SizeOf |-> <<"size", j>>]

WriteLength == /\ At("temp_file", "write_length") /\ Goto("write_data")
               /\ Write(Size)
               /\ UNCHANGED <<fd, left, length, buffer, output, result>>

WriteData == /\ At("temp_file", "write_data") /\ Goto("rewind")
             /\ Write(input)
             /\ UNCHANGED <<fd, left, length, buffer, output, result>>

\* Fault: lseek is forgotten.
Rewind_Forgotten == /\ At("temp_file", "rewind") /\ Goto("read_length")
                    /\ UNCHANGED <<file, offset, fd, left, length, buffer, output, result, cut>>

\* lseek(fd, 0, SEEK_SET)
Rewind == /\ At("temp_file", "rewind") /\ Goto("read_length")
          /\ offset' = 0
          /\ UNCHANGED <<file, fd, left, length, buffer, output, result, cut>>

\* *length is what was written when all its bytes come back, stays what it was when none
\* does, and else may be anything.
ReadLength ==
  /\ At("temp_file", "read_length") /\ Goto("allocate")
  /\ \E k \in 0 .. Readable(SizeOf) :
        /\ Read(SizeOf, k)
        /\ length' \in CASE Got(k) = Size -> {Len(input)}
                       [] Got(k) = <<>> -> {length}
                       [] OTHER -> Garbage
  /\ UNCHANGED <<file, fd, left, buffer, output, result>>

\* The last three calls are those of read_file too.
AllocateTemp == /\ pc = "allocate" /\ Goto("read_data")
                /\ \/ buffer' = "allocated" /\ UNCHANGED cut
                   \/ buffer' = "none" /\ cut' = TRUE
                /\ UNCHANGED <<file, offset, fd, left, length, output, result>>

\* A read into a buffer that is not there fails.
ReadData == /\ pc = "read_data" /\ Goto("close")
            /\ LET n == IF buffer = "allocated" THEN length ELSE 0 IN
               \E k \in 0 .. Readable(n) : Read(n, k) /\ output' = Got(k)
            /\ UNCHANGED <<file, fd, left, length, buffer, result>>

CloseTemp == /\ pc = "close" /\ Goto("done")
             /\ fd' = "closed"
             /\ result' = IF buffer = "allocated" THEN "buffer" ELSE "null"
             /\ UNCHANGED <<file, offset, left, length, buffer, output, cut>>

temp_file == \/ MakeTemp \/ WriteLength \/ WriteData \/ Rewind \/ ReadLength
             \/ AllocateTemp \/ ReadData \/ CloseTemp

-----------------------------------------------------------------------------
(* readfile *)

Allocate == /\ At("readfile", "malloc")
            /\ \/ Goto("open") /\ buffer' = "allocated" /\ UNCHANGED <<result, cut>>
               \/ Goto("done") /\ result' = "null" /\ cut' = TRUE /\ UNCHANGED buffer
            /\ UNCHANGED <<file, offset, fd, left, length, output>>

Open == /\ At("readfile", "open")
        /\ \/ Goto("read") /\ fd' = "open" /\ UNCHANGED <<buffer, result, cut>>
           \/ /\ Goto("done") /\ result' = "null" /\ cut' = TRUE
              /\ buffer' = "freed" /\ UNCHANGED fd
        /\ UNCHANGED <<file, offset, left, length, output>>

\* read(), and bytes_read != length: a length of 0 tells a read that fails from an empty one.
ReadBuffer ==
  /\ At("readfile", "read")
  /\ \/ \E k \in 0 .. Readable(length) :
           /\ Read(length, k) /\ output' = Got(k)
           /\ Goto(IF k = length THEN "keep" ELSE "release")
     \/ Goto("release") /\ cut' = TRUE /\ UNCHANGED <<offset, output>>
  /\ UNCHANGED <<file, fd, left, length, buffer, result>>

\* Fault: the descriptor of a file that is too short is not closed.
Release_KeepsOpen ==
  /\ At("readfile", "release") /\ Goto("done")
  /\ result' = "null" /\ buffer' = "freed"
  /\ UNCHANGED <<file, offset, fd, left, length, output, cut>>

\* Read failed.  Deallocate buffer and close fd before returning.
Release == /\ At("readfile", "release") /\ Goto("done")
           /\ result' = "null" /\ buffer' = "freed" /\ fd' = "closed"
           /\ UNCHANGED <<file, offset, left, length, output, cut>>

\* Everything's fine.  Close the file and return the buffer.
Keep == /\ At("readfile", "keep") /\ Goto("done")
        /\ result' = "buffer" /\ fd' = "closed"
        /\ UNCHANGED <<file, offset, left, length, buffer, output, cut>>

readfile == Allocate \/ Open \/ ReadBuffer \/ Release \/ Keep

-----------------------------------------------------------------------------
(* read_file, of which only the last calls differ from temp_file's, and hexdump *)

\* open(), whose result is used whatever it is
OpenAnyway == /\ pc = "open_it" /\ Goto(IF program = "hexdump" THEN "dump" ELSE "fstat")
              /\ fd' \in {"open", "bad"}
              /\ cut' = (fd' = "bad")
              /\ UNCHANGED <<file, offset, left, length, buffer, output, result>>

\* S_ISREG(file_info.st_mode) of an fstat() that worked; one that fails leaves the kind of
\* file and its length as they were: anything.
Stat == /\ At("read_file", "fstat")
        /\ \/ fd = "open" /\ Goto("allocate") /\ length' = Len(file) /\ UNCHANGED cut
           \/ fd = "open" /\ Goto("refuse") /\ length' \in Garbage /\ UNCHANGED cut
           \/ /\ Goto("allocate") \/ Goto("refuse")
              /\ length' \in Garbage /\ cut' = TRUE
        /\ UNCHANGED <<file, offset, fd, left, buffer, output, result>>

\* It's not regular, so give up.
Refuse == /\ At("read_file", "refuse") /\ Goto("done")
          /\ fd' = "closed" /\ result' = "null"
          /\ UNCHANGED <<file, offset, left, length, buffer, output, cut>>

\* Fault: the loop goes on while reads come up short.
DumpChunk_WhileShort ==
  /\ At("hexdump", "dump") /\ fd = "open"
  /\ \E k \in 0 .. Readable(Chunk) :
        /\ Read(Chunk, k) /\ output' = output \o Got(k)
        /\ IF k < Chunk THEN Goto("dump") /\ UNCHANGED result
                        ELSE Goto("done") /\ result' = "dumped"
  /\ UNCHANGED <<file, fd, left, length, buffer>>

\* do { ... } while (bytes_read == sizeof (buffer))
DumpChunk ==
  /\ At("hexdump", "dump") /\ fd = "open"
  /\ \E k \in 0 .. Readable(Chunk) :
        /\ Read(Chunk, k) /\ output' = output \o Got(k)
        /\ IF k = Chunk THEN Goto("dump") /\ UNCHANGED result
                        ELSE Goto("done") /\ result' = "dumped"
  /\ UNCHANGED <<file, fd, left, length, buffer>>

\* The -1 of a read that fails becomes the largest size_t: the printing loop goes through
\* the buffer and the memory behind it until the process is killed.  What was printed last
\* may be lost with it, in the memory of the C library.
DumpFails ==
  /\ At("hexdump", "dump") /\ Goto("done")
  /\ LET printed == output \o [j \in 1 .. Overrun |-> <<"stray", j>>]
     IN  \E k \in 0 .. Len(printed) : output' = SubSeq(printed, 1, k)
  /\ result' = "crashed" /\ cut' = TRUE
  /\ UNCHANGED <<file, offset, fd, left, length, buffer>>

read_file == OpenAnyway \/ Stat \/ Refuse
hexdump == DumpChunk \/ DumpFails

-----------------------------------------------------------------------------

Ended == pc = "done" /\ UNCHANGED vars

Next == write_all \/ temp_file \/ readfile \/ read_file \/ hexdump \/ Ended

Spec == Init /\ [][Next]_vars

-----------------------------------------------------------------------------
(* Properties *)

Bytes == ({"data"} \X Nat) \cup ({"size"} \X (1 .. SizeOf)) \cup ({"stray"} \X (1 .. Overrun))

\* The types of the variables; nothing is read from beyond the end of the file, and a
\* result is returned exactly at the end.
TypeOK ==
  /\ program \in Programs /\ input \in Inputs
  /\ pc \in {"open", "write", "mkstemp", "write_length", "write_data", "rewind",
             "read_length", "allocate", "read_data", "close", "malloc", "read", "keep", "release",
             "open_it", "fstat", "refuse", "dump", "done"}
  /\ file \in Seq(Bytes) /\ output \in Seq(Bytes)
  /\ offset \in 0 .. Len(file)
  /\ fd \in {"closed", "open", "bad"}
  /\ left \in 0 .. Len(input) /\ length \in Nat
  /\ buffer \in {"none", "allocated", "freed"}
  /\ result \in {"none", "error", "count", "null", "buffer", "dumped", "crashed"}
  /\ cut \in BOOLEAN
  /\ (pc = "done") <=> (result # "none")

\* Lines 26-28 of write-all.c, "We should have written no more than COUNT bytes": however
\* the writes are cut, the file holds the bytes of the buffer that are no longer left to
\* write, in order and once each; it holds them all when COUNT is returned.
WriteAllWritesOnce ==
  program = "write_all" =>
    /\ fd = "open" => file = SubSeq(input, 1, Len(input) - left)
    /\ result = "count" => file = input

\* What temp_file's caller can rely on, though no call is checked: the buffer holds bytes
\* of the data alone, in order from the first, and the length is theirs, once the length
\* itself has been written and read whole; and both are complete if no call failed.
TempFileRoundTrip ==
  program = "temp_file" /\ result = "buffer" =>
    /\ IsPrefix(Size, file) /\ offset = SizeOf + Len(output) =>
         length = Len(input) /\ IsPrefix(output, input)
    /\ ~cut => length = Len(input) /\ output = input

\* Each way out of readfile releases what it took: the descriptor is closed, and the
\* buffer freed unless it is returned, which it is only when it holds all that was asked.
ReadFileReleases ==
  program = "readfile" /\ pc = "done" =>
    /\ fd = "closed"
    /\ (buffer = "allocated") <=> (result = "buffer")
    /\ result = "buffer" => Len(output) = length /\ IsPrefix(output, file)

\* What a caller of read_file, which checks no call, and a reader of hexdump's output can
\* rely on: where no read of hexdump fails no byte is out of place, and all the bytes of the
\* file are there, with their number, if no call failed or came up short.  So a short read
\* "indicates that we've hit the end of the file" (hexdump.c:17-19) only where none is cut,
\* and "NULL" is returned for what is not a regular file (read-file.c:9-12) only where open()
\* and fstat() worked.  A descriptor that was opened for read_file is closed.
ReadersGetFile ==
  /\ program = "hexdump" /\ result # "crashed" => IsPrefix(output, file)
  /\ program = "read_file" /\ pc = "done" => IsPrefix(output, file) /\ fd = "closed"
  /\ ~cut => /\ program = "hexdump" /\ pc = "done" => result = "dumped" /\ output = file
             /\ program = "read_file" /\ result = "buffer" => output = file /\ length = Len(file)
=============================================================================
