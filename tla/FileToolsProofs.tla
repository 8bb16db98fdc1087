--------------------------- MODULE FileToolsProofs ---------------------------
(***************************************************************************)
(* Theorems about FileTools, for any contents, lengths and sizes of the    *)
(* buffers.  A sequence that a loop has written or read so far is a prefix *)
(* of the one it comes from, and the calls of each program keep that.      *)
(***************************************************************************)
EXTENDS FileTools, SequenceTheorems, TLAPS

-----------------------------------------------------------------------------
(* Facts without a state *)

LEMMA Inputted == ASSUME NEW s \in Inputs PROVE s \in Seq({"data"} \X Nat) /\ s \in Seq(Bytes)
<1>1. s \in Seq({"data"} \X Nat) /\ {"data"} \X Nat \subseteq Bytes
  BY FileToolsAssumption DEF Bytes
<1> QED
  BY <1>1, SeqMonotonic

\* A part of a sequence, and a prefix of one.
LEMMA Part ==
  ASSUME NEW S, NEW s \in Seq(S), NEW i \in Nat, NEW k \in Nat, i + k <= Len(s)
  PROVE  /\ SubSeq(s, i + 1, i + k) \in Seq(S) /\ Len(SubSeq(s, i + 1, i + k)) = k
         /\ \A j \in 1 .. k : SubSeq(s, i + 1, i + k)[j] = s[i + j]
<1>1. \A j \in i + 1 .. i + k : s[j] \in S
  BY LenProperties, ElementOfSeq
<1>2. /\ SubSeq(s, i + 1, i + k) \in Seq(S)
      /\ Len(SubSeq(s, i + 1, i + k)) = IF i + 1 <= i + k THEN (i + k) - (i + 1) + 1 ELSE 0
      /\ \A j \in 1 .. (i + k) - (i + 1) + 1 : SubSeq(s, i + 1, i + k)[j] = s[(i + 1) + j - 1]
  BY <1>1, SubSeqProperties
<1> QED
  BY <1>2

LEMMA First ==
  ASSUME NEW S, NEW s \in Seq(S), NEW k \in Nat, k <= Len(s)
  PROVE  /\ SubSeq(s, 1, k) \in Seq(S) /\ Len(SubSeq(s, 1, k)) = k
         /\ \A j \in 1 .. k : SubSeq(s, 1, k)[j] = s[j]
<1>1. Len(s) \in Nat
  BY LenProperties
<1>2. 0 + 1 = 1 /\ 0 + k = k /\ \A j \in 1 .. k : 0 + j = j
  OBVIOUS
<1>3. /\ SubSeq(s, 0 + 1, 0 + k) \in Seq(S) /\ Len(SubSeq(s, 0 + 1, 0 + k)) = k
      /\ \A j \in 1 .. k : SubSeq(s, 0 + 1, 0 + k)[j] = s[0 + j]
  BY Part
<1> QED
  BY <1>2, <1>3

\* A sequence whose elements are the first ones of another is a prefix of it.
LEMMA AgreeingPrefix ==
  ASSUME NEW S, NEW s \in Seq(S), NEW t \in Seq(S), Len(s) <= Len(t),
         \A i \in 1 .. Len(s) : s[i] = t[i]
  PROVE  IsPrefix(s, t) /\ (Len(s) = Len(t) => s = t)
<1>1. Len(s) \in Nat /\ Len(t) \in Nat
  BY LenProperties
<1>2. SubSeq(s, 1, Len(s)) = s
  BY SubSeqFull
<1>3. /\ SubSeq(t, 1, Len(s)) \in Seq(S) /\ Len(SubSeq(t, 1, Len(s))) = Len(s)
      /\ \A j \in 1 .. Len(s) : SubSeq(t, 1, Len(s))[j] = t[j]
  BY <1>1, First
<1>4. s = SubSeq(t, 1, Len(s))
  BY <1>3, SeqEqual
<1>5. Len(s) = Len(t) => s = t
  BY SeqEqual
<1>6. SubSeq(s, 1, Len(s)) = SubSeq(t, 1, Len(s))
  BY ONLY <1>2, <1>4, Zenon
<1>7. IsPrefix(s, t)
  BY <1>6, Zenon DEF IsPrefix
<1> QED
  BY <1>5, <1>7

LEMMA PrefixElements ==
  ASSUME NEW S, NEW s \in Seq(S), NEW t \in Seq(S), IsPrefix(s, t)
  PROVE  Len(s) <= Len(t) /\ \A i \in 1 .. Len(s) : s[i] = t[i]
<1>1. Len(s) \in Nat /\ Len(t) \in Nat
  BY LenProperties
<1>2. Len(s) <= Len(t) /\ SubSeq(s, 1, Len(s)) = SubSeq(t, 1, Len(s))
  BY DEF IsPrefix
<1>3. \A j \in 1 .. Len(s) : SubSeq(t, 1, Len(s))[j] = t[j]
  BY <1>1, <1>2, First
<1>4. SubSeq(s, 1, Len(s)) = s
  BY SubSeqFull
<1> QED
  BY <1>2, <1>3, <1>4

\* What one read gets.
LEMMA Reads ==
  ASSUME TypeOK, NEW n \in Nat, NEW k \in 0 .. Readable(n)
  PROVE  /\ k \in Nat /\ k <= n /\ offset + k \in 0 .. Len(file)
         /\ Got(k) \in Seq(Bytes) /\ Len(Got(k)) = k
         /\ \A i \in 1 .. k : Got(k)[i] = file[offset + i]
<1>1. file \in Seq(Bytes) /\ Len(file) \in Nat /\ offset \in Nat /\ offset <= Len(file)
  BY LenProperties DEF TypeOK
<1>2. k \in Nat /\ k <= n /\ offset + k <= Len(file)
  BY <1>1 DEF Readable
<1> QED
  BY <1>1, <1>2, Part DEF Got

\* What one write appends.
LEMMA Writes ==
  ASSUME TypeOK, NEW s \in Seq(Bytes), NEW i \in Nat, NEW k \in Nat, i + k <= Len(s)
  PROVE  LET f == file \o SubSeq(s, i + 1, i + k) IN
         /\ f \in Seq(Bytes) /\ Len(f) = Len(file) + k
         /\ \A j \in 1 .. Len(file) : f[j] = file[j]
         /\ \A j \in 1 .. k : f[Len(file) + j] = s[i + j]
<1> DEFINE g == SubSeq(s, i + 1, i + k)
<1>1. g \in Seq(Bytes) /\ Len(g) = k /\ \A j \in 1 .. k : g[j] = s[i + j]
  BY Part
<1>2. file \in Seq(Bytes) /\ Len(file) \in Nat
  BY LenProperties DEF TypeOK
<1> HIDE DEF g
<1>3. /\ file \o g \in Seq(Bytes) /\ Len(file \o g) = Len(file) + Len(g)
      /\ \A j \in 1 .. Len(file) + Len(g) :
           (file \o g)[j] = IF j <= Len(file) THEN file[j] ELSE g[j - Len(file)]
  BY <1>1, <1>2, ConcatProperties
<1>4. \A j \in 1 .. k : (file \o g)[Len(file) + j] = g[j]
  <2> TAKE j \in 1 .. k
  <2>1. Len(file) + j \in 1 .. Len(file) + Len(g) /\ ~(Len(file) + j <= Len(file))
        /\ (Len(file) + j) - Len(file) = j
    BY <1>1, <1>2
  <2> QED
    BY <1>3, <2>1
<1>5. \A j \in 1 .. Len(file) : (file \o g)[j] = file[j]
  <2> TAKE j \in 1 .. Len(file)
  <2>1. j \in 1 .. Len(file) + Len(g) /\ j <= Len(file)
    BY <1>1, <1>2
  <2> QED
    BY <1>3, <2>1
<1> QED
  BY <1>1, <1>2, <1>3, <1>4, <1>5 DEF g

LEMMA Sized == Size \in Seq(Bytes) /\ Len(Size) = SizeOf /\ \A j \in 1 .. SizeOf : Size[j] = <<"size", j>>
<1>1. SizeOf \in Nat
  BY FileToolsAssumption
<1>2. \A j \in 1 .. SizeOf : <<"size", j>> \in Bytes
  BY DEF Bytes
<1>3. Size \in [1 .. SizeOf -> Bytes]
  BY <1>2 DEF Size
<1>4. Size \in Seq(Bytes) /\ Len(Size) = SizeOf
  BY <1>1, <1>3
<1> QED
  BY <1>4 DEF Size

-----------------------------------------------------------------------------
(* The types *)

LEMMA TypesInit == Init => TypeOK
<1> SUFFICES ASSUME Init PROVE TypeOK
  OBVIOUS
<1>1. program \in Programs /\ input \in Inputs /\ offset = 0 /\ fd = "closed" /\ left = 0
      /\ buffer = "none" /\ output = <<>> /\ result = "none" /\ cut = FALSE
  BY DEF Init
<1>2. program \in {"write_all", "temp_file", "readfile", "read_file", "hexdump"}
  BY <1>1, FileToolsAssumption
<1>3. file \in Seq(Bytes) /\ output \in Seq(Bytes) /\ input \in Seq(Bytes)
  BY <1>1, Inputted, EmptySeq DEF Init
<1>4. Len(file) \in Nat /\ Len(input) \in Nat
  BY <1>3, LenProperties
<1>5. pc \in {"open", "mkstemp", "malloc", "open_it"}
  BY <1>2 DEF Init
<1>6. length \in Nat
  BY <1>2, FileToolsAssumption DEF Init
<1>7. left \in 0 .. Len(input) /\ offset \in 0 .. Len(file)
  BY <1>1, <1>4
<1>8. pc # "done" /\ fd \in {"closed", "open", "bad"} /\ cut \in BOOLEAN
  BY <1>1, <1>5
<1> QED
  BY ONLY <1>1, <1>3, <1>5, <1>6, <1>7, <1>8 DEF TypeOK

\* The steps that only move on, and those that only the fields named in the first line
\* of their conclusion may change.
LEMMA TypesOfCalls ==
  ASSUME TypeOK,
         OpenNew \/ WriteFails \/ WriteDone \/ MakeTemp \/ Rewind \/ AllocateTemp
         \/ CloseTemp \/ Allocate \/ Open \/ Release \/ Keep \/ OpenAnyway \/ Stat
         \/ Refuse
  PROVE  TypeOK'
<1>types. /\ input \in Seq(Bytes) /\ Len(input) \in Nat /\ file \in Seq(Bytes)
          /\ Len(file) \in Nat /\ left \in 0 .. Len(input) /\ 0 \in 0 .. Len(file)
  BY Inputted, LenProperties DEF TypeOK
<1>1. /\ UNCHANGED <<program, input, file, output>>
      /\ offset' \in {offset, 0} /\ cut' \in BOOLEAN
      /\ fd' \in {"closed", "open", "bad"}
      /\ buffer' \in {"none", "allocated", "freed"}
  BY DEF OpenNew, WriteFails, WriteDone, MakeTemp, Rewind, AllocateTemp, CloseTemp, Allocate,
         Open, Release, Keep, OpenAnyway, Stat, Refuse, At, Goto, TypeOK
<1>2. left' \in 0 .. Len(input)
  BY <1>types DEF OpenNew, WriteFails, WriteDone, MakeTemp, Rewind, AllocateTemp, CloseTemp,
         Allocate, Open, Release, Keep, OpenAnyway, Stat, Refuse
<1>3. length' \in Nat
  BY <1>types, FileToolsAssumption DEF OpenNew, WriteFails, WriteDone, MakeTemp, Rewind,
         AllocateTemp, CloseTemp, Allocate, Open, Release, Keep, OpenAnyway, Stat, Refuse,
         TypeOK
<1>4. /\ pc' \in {"open", "write", "mkstemp", "write_length", "write_data", "rewind",
                  "read_length", "allocate", "read_data", "close", "malloc", "read", "keep",
                  "release", "open_it", "fstat", "refuse", "dump", "done"}
      /\ result' \in {"none", "error", "count", "null", "buffer", "dumped", "crashed"}
      /\ (pc' = "done") <=> (result' # "none")
  BY DEF OpenNew, WriteFails, WriteDone, MakeTemp, Rewind, AllocateTemp, CloseTemp, Allocate,
         Open, Release, Keep, OpenAnyway, Stat, Refuse, At, Goto, TypeOK
<1> QED
  BY <1>types, <1>1, <1>2, <1>3, <1>4 DEF TypeOK

\* What is printed is cut from the bytes of the file and what lies behind the buffer.
LEMMA TypesOfDumpFails == ASSUME TypeOK, DumpFails PROVE TypeOK'
<1> DEFINE stray == [j \in 1 .. Overrun |-> <<"stray", j>>]
<1>1. stray \in Seq(Bytes)
  <2>1. Overrun \in Nat /\ \A j \in 1 .. Overrun : <<"stray", j>> \in Bytes
    BY FileToolsAssumption DEF Bytes
  <2>2. stray \in [1 .. Overrun -> Bytes]
    BY <2>1
  <2> QED
    BY <2>1, <2>2
<1>2. PICK k \in 0 .. Len(output \o stray) : output' = SubSeq(output \o stray, 1, k)
  BY DEF DumpFails
<1> HIDE DEF stray
<1>3. output \o stray \in Seq(Bytes)
  BY <1>1, ConcatProperties DEF TypeOK
<1>4. k \in Nat /\ k <= Len(output \o stray)
  BY <1>3, LenProperties
<1>5. output' \in Seq(Bytes)
  BY <1>2, <1>3, <1>4, First
<1>6. /\ UNCHANGED <<program, input, file, offset, fd, left, length, buffer>>
      /\ pc' = "done" /\ result' = "crashed" /\ cut' = TRUE
  BY DEF DumpFails, Goto
<1> QED
  BY <1>5, <1>6 DEF TypeOK

\* The writes of write_all and of temp_file.
LEMMA TypesOfWrites ==
  ASSUME TypeOK, WriteSome \/ WriteLength \/ WriteData
  PROVE  TypeOK'
<1>types. /\ input \in Seq(Bytes) /\ Len(input) \in Nat /\ file \in Seq(Bytes)
          /\ Len(file) \in Nat /\ left \in 0 .. Len(input) /\ offset \in 0 .. Len(file)
  BY Inputted, LenProperties DEF TypeOK
<1>1. /\ UNCHANGED <<program, input, fd, length, buffer, output, result>>
      /\ pc # "done" /\ cut' \in BOOLEAN
      /\ pc' \in {"write", "write_data", "rewind"}
  BY DEF WriteSome, WriteLength, WriteData, Write, At, Goto, TypeOK
<1>2. /\ file' \in Seq(Bytes) /\ left' \in 0 .. Len(input)
      /\ offset' \in 0 .. Len(file')
  <2>1. CASE WriteSome
    <3>1. PICK k \in 1 .. left :
            /\ file' = file \o SubSeq(input, Len(input) - left + 1, Len(input) - left + k)
            /\ left' = left - k /\ offset' = offset
      BY <2>1 DEF WriteSome
    <3>2. Len(input) - left \in Nat /\ k \in Nat /\ Len(input) - left + k <= Len(input)
      BY <1>types
    <3>3. file' \in Seq(Bytes) /\ Len(file') = Len(file) + k
      BY <1>types, <3>1, <3>2, Writes
    <3> QED
      BY <1>types, <3>1, <3>3
  <2>2. ASSUME NEW s \in Seq(Bytes), Write(s), left' = left
        PROVE  file' \in Seq(Bytes) /\ offset' \in 0 .. Len(file')
    <3>1. Len(s) \in Nat
      BY LenProperties
    <3>2. PICK k \in 0 .. (IF fd = "open" THEN Len(s) ELSE 0) :
            file' = file \o SubSeq(s, 1, k) /\ offset' = offset + k
      BY <2>2 DEF Write
    <3>3. k \in Nat /\ 0 + k <= Len(s) /\ 0 + 1 = 1 /\ 0 + k = k
      BY <3>1
    <3>4. file \o SubSeq(s, 0 + 1, 0 + k) \in Seq(Bytes)
          /\ Len(file \o SubSeq(s, 0 + 1, 0 + k)) = Len(file) + k
      BY <3>3, Writes
    <3> QED
      BY <1>types, <3>2, <3>3, <3>4
  <2>3. CASE WriteLength
    BY <1>types, <2>2, <2>3, Sized DEF WriteLength
  <2>4. CASE WriteData
    BY <1>types, <2>2, <2>4 DEF WriteData
  <2> QED
    BY <2>1, <2>3, <2>4
<1> QED
  BY <1>1, <1>2 DEF TypeOK

\* The reads.
LEMMA TypesOfReads ==
  ASSUME TypeOK, ReadLength \/ ReadData \/ ReadBuffer \/ DumpChunk
  PROVE  TypeOK'
<1>types. /\ input \in Seq(Bytes) /\ Len(input) \in Nat /\ output \in Seq(Bytes)
          /\ {SizeOf, Chunk, length} \subseteq Nat
  BY Inputted, LenProperties, FileToolsAssumption DEF TypeOK
<1>1. /\ UNCHANGED <<program, input, file, left, fd, buffer>>
      /\ pc # "done" /\ cut' \in BOOLEAN
      /\ pc' \in {"allocate", "close", "keep", "release", "dump", "done"}
      /\ result' = (IF pc' = "done" THEN "dumped" ELSE result)
  BY DEF ReadLength, ReadData, ReadBuffer, DumpChunk, Read, At, Goto, TypeOK
<1>2. PICK n \in Nat : \E k \in 0 .. Readable(n) :
        /\ offset' = offset + k /\ output' \in {output, Got(k), output \o Got(k)}
        /\ length' \in {length, Len(input)} \cup Garbage
  <2>1. CASE ReadLength
    BY <1>types, <2>1 DEF ReadLength, Read
  <2>2. CASE ReadData
    <3>1. (IF buffer = "allocated" THEN length ELSE 0) \in Nat
      BY <1>types
    <3> QED
      BY <2>2, <3>1 DEF ReadData, Read
  <2>3. CASE ReadBuffer
    <3>1. CASE \E k \in 0 .. Readable(length) : Read(length, k) /\ output' = Got(k)
      BY <1>types, <2>3, <3>1 DEF ReadBuffer, Read
    <3>2. CASE UNCHANGED <<offset, output>>
      <4>1. 0 \in 0 .. Readable(0) /\ offset' = offset + 0
        BY <1>types, <3>2, LenProperties DEF Readable, TypeOK
      <4> QED
        BY <2>3, <3>2, <4>1 DEF ReadBuffer
    <3> QED
      BY <2>3, <3>1, <3>2 DEF ReadBuffer
  <2>4. CASE DumpChunk
    BY <1>types, <2>4 DEF DumpChunk, Read
  <2> QED
    BY <2>1, <2>2, <2>3, <2>4
<1>3. PICK k \in 0 .. Readable(n) :
        /\ offset' = offset + k /\ output' \in {output, Got(k), output \o Got(k)}
        /\ length' \in {length, Len(input)} \cup Garbage
  BY <1>2
<1>4. offset' \in 0 .. Len(file) /\ Got(k) \in Seq(Bytes)
  BY <1>3, Reads
<1>5. output' \in Seq(Bytes)
  BY <1>types, <1>3, <1>4, ConcatProperties
<1>6. length' \in Nat
  BY <1>types, <1>3, FileToolsAssumption
<1> QED
  BY <1>1, <1>4, <1>5, <1>6 DEF TypeOK

LEMMA TypesStep == TypeOK /\ [Next]_vars => TypeOK'
<1> SUFFICES ASSUME TypeOK, [Next]_vars PROVE TypeOK'
  OBVIOUS
<1>1. CASE UNCHANGED vars
  BY <1>1 DEF vars, TypeOK
<1>2. CASE Next /\ ~UNCHANGED vars
  BY <1>2, TypesOfCalls, TypesOfDumpFails, TypesOfWrites, TypesOfReads
     DEF Next, write_all, temp_file, readfile, read_file, hexdump, Ended
<1> QED
  BY <1>1, <1>2

\* The types of the variables, whatever the file, the lengths and the sizes are; nothing
\* is read from beyond the end of the file.
THEOREM Types == Spec => []TypeOK
  BY TypesInit, TypesStep, PTL DEF Spec

-----------------------------------------------------------------------------
(* What each program has done so far *)

\* s has the elements of t, from the first.
Agrees(s, t) == Len(s) <= Len(t) /\ \A i \in 1 .. Len(s) : s[i] = t[i]

InWriteAll ==
  program = "write_all" =>
    /\ pc \in {"open", "write", "done"}
    /\ pc = "open" => fd = "closed" /\ file = <<>>
    /\ pc = "write" => fd = "open"
    /\ fd = "open" => Len(file) = Len(input) - left /\ Agrees(file, input)
    /\ result = "count" => Len(file) = Len(input) /\ Agrees(file, input)

InReadfile ==
  program = "readfile" =>
    /\ pc \in {"malloc", "open", "read", "keep", "release", "done"}
    /\ pc = "malloc" => fd = "closed" /\ buffer = "none" /\ offset = 0
    /\ pc = "open" => fd = "closed" /\ buffer = "allocated" /\ offset = 0
    /\ pc = "read" => buffer = "allocated" /\ offset = 0
    /\ pc = "release" => buffer = "allocated"
    /\ pc = "keep" => buffer = "allocated" /\ Len(output) = length /\ Agrees(output, file)
    /\ pc = "done" => /\ fd = "closed"
                      /\ (buffer = "allocated") <=> (result = "buffer")
                      /\ result = "buffer" => Len(output) = length /\ Agrees(output, file)

InRead_file ==
  program = "read_file" =>
    /\ pc \in {"open_it", "fstat", "refuse", "allocate", "read_data", "close", "done"}
    /\ pc \in {"open_it", "fstat", "refuse", "allocate", "read_data"} =>
         output = <<>> /\ offset = 0
    /\ pc \in {"fstat", "allocate", "read_data"} /\ ~cut => fd = "open"
    /\ pc = "read_data" /\ ~cut => buffer = "allocated"
    /\ pc \in {"allocate", "read_data", "close"} /\ ~cut => length = Len(file)
    /\ pc = "close" /\ ~cut => Len(output) = Len(file)
    /\ pc \in {"close", "done"} => Agrees(output, file)
    /\ pc = "done" =>
         /\ fd = "closed"
         /\ ~cut /\ result = "buffer" => Len(output) = Len(file) /\ length = Len(file)

InHexdump ==
  program = "hexdump" =>
    /\ pc \in {"open_it", "dump", "done"}
    /\ pc # "done" => Len(output) = offset
    /\ result # "crashed" => Agrees(output, file)
    /\ pc = "done" /\ ~cut => result = "dumped" /\ Len(output) = Len(file)

\* temp_file's file, once both writes have been called.
Whole == /\ IsPrefix(Size, file) =>
              /\ Len(file) - SizeOf \in 0 .. Len(input)
              /\ \A i \in 1 .. Len(file) - SizeOf : file[SizeOf + i] = input[i]
         /\ ~cut => IsPrefix(Size, file) /\ Len(file) = SizeOf + Len(input)

\* What it knows of the length, when the data are read from offset o.
LengthRead(o) == /\ o = SizeOf /\ IsPrefix(Size, file) => length = Len(input)
                 /\ ~cut => o = SizeOf

InTempFile ==
  program = "temp_file" =>
    /\ pc \in {"mkstemp", "write_length", "write_data", "rewind", "read_length", "allocate",
               "read_data", "close", "done"}
    /\ pc \in {"mkstemp", "write_length"} => file = <<>> /\ offset = 0
    /\ pc \notin {"mkstemp", "done"} /\ ~cut => fd = "open"
    /\ pc = "write_data" => Agrees(file, Size) /\ (~cut => Len(file) = SizeOf)
    /\ pc \in {"rewind", "read_length", "allocate", "read_data", "close", "done"} => Whole
    /\ pc = "read_length" => offset = 0
    /\ pc \in {"allocate", "read_data"} => LengthRead(offset)
    /\ pc = "read_data" /\ ~cut => buffer = "allocated"
    /\ pc \in {"close", "done"} =>
         /\ LengthRead(offset - Len(output))
         /\ offset - Len(output) \in Nat
         /\ \A i \in 1 .. Len(output) : output[i] = file[offset - Len(output) + i]
         /\ ~cut => Len(output) = Len(input)

Progress == InWriteAll /\ InReadfile /\ InRead_file /\ InHexdump /\ InTempFile

LEMMA ProgressInit == Init => Progress
<1> SUFFICES ASSUME Init PROVE Progress
  OBVIOUS
<1>1. TypeOK
  BY TypesInit
<1>2. Len(file) \in Nat /\ Len(input) \in Nat /\ Len(<<>>) = 0
  BY <1>1, Inputted, LenProperties DEF TypeOK
<1>3. Agrees(<<>>, file)
  BY <1>2 DEF Agrees
<1> QED
  BY <1>2, <1>3 DEF Init, Progress, InWriteAll, InReadfile, InRead_file, InHexdump, InTempFile

\* The steps that program p may take.
Calls(p) == CASE p = "write_all" -> write_all
              [] p = "temp_file" -> temp_file
              [] p = "readfile" -> readfile
              [] p = "read_file" -> read_file \/ AllocateTemp \/ ReadData \/ CloseTemp
              [] p = "hexdump" -> OpenAnyway \/ hexdump

LEMMA WriteAllSteps ==
  ASSUME TypeOK, InWriteAll, program = "write_all", write_all
  PROVE  InWriteAll'
<1>types. /\ input \in Seq(Bytes) /\ Len(input) \in Nat /\ file \in Seq(Bytes)
          /\ Len(file) \in Nat /\ left \in 0 .. Len(input)
          /\ (pc = "done") <=> (result # "none")
  BY Inputted, LenProperties DEF TypeOK
<1>1. CASE WriteSome
  <2>1. PICK k \in 1 .. left :
          /\ file' = file \o SubSeq(input, Len(input) - left + 1, Len(input) - left + k)
          /\ left' = left - k
    BY <1>1 DEF WriteSome
  <2>2. /\ pc = "write" /\ pc' = "write" /\ UNCHANGED <<program, input, fd, result>>
    BY <1>1 DEF WriteSome, At, Goto
  <2>3. Len(file) = Len(input) - left /\ Agrees(file, input) /\ fd = "open"
    BY <2>2 DEF InWriteAll
  <2>4. Len(input) - left \in Nat /\ k \in Nat /\ Len(input) - left + k <= Len(input)
    BY <1>types
  <2>i. PICK i \in Nat : i = Len(input) - left
    BY <2>4
  <2>part. i + k <= Len(input) /\ file' = file \o SubSeq(input, i + 1, i + k)
    BY <2>1, <2>4, <2>i
  <2>grown. /\ Len(file') = Len(file) + k
            /\ \A j \in 1 .. Len(file) : file'[j] = file[j]
            /\ \A j \in 1 .. k : file'[Len(file) + j] = input[i + j]
    BY <1>types, <2>4, <2>part, Writes
  <2>5. /\ Len(file') = Len(file) + k
        /\ \A j \in 1 .. Len(file) : file'[j] = file[j]
        /\ \A j \in 1 .. k : file'[Len(file) + j] = input[Len(input) - left + j]
    BY <2>i, <2>grown
  <2>6. \A j \in 1 .. Len(file') : file'[j] = input[j]
    <3> TAKE j \in 1 .. Len(file')
    <3>1. CASE j <= Len(file)
      BY <1>types, <2>3, <2>5, <3>1 DEF Agrees
    <3>2. CASE ~(j <= Len(file))
      <4>1. j - Len(file) \in 1 .. k /\ Len(file) + (j - Len(file)) = j
        BY <1>types, <2>4, <2>5, <3>2
      <4> QED
        BY <2>3, <2>5, <4>1
    <3> QED
      BY <3>1, <3>2
  <2>7. Len(file') = Len(input') - left' /\ Len(file') <= Len(input')
    BY <1>types, <2>1, <2>2, <2>3, <2>5
  <2> QED
    BY <1>types, <2>2, <2>3, <2>6, <2>7 DEF InWriteAll, Agrees
<1>2. CASE OpenNew \/ WriteFails \/ WriteDone
  <2>1. UNCHANGED <<program, input, file>> /\ Len(<<>>) = 0
    BY <1>2 DEF OpenNew, WriteFails, WriteDone, Goto
  <2>2. pc # "done" /\ result = "none"
    BY <1>types, <1>2 DEF OpenNew, WriteFails, WriteDone, At
  <2>3. CASE OpenNew
    BY <1>types, <2>1, <2>2, <2>3 DEF OpenNew, At, Goto, InWriteAll, Agrees
  <2>4. CASE WriteFails
    BY <1>types, <2>1, <2>2, <2>4 DEF WriteFails, At, Goto, InWriteAll, Agrees
  <2>5. CASE WriteDone
    BY <1>types, <2>1, <2>2, <2>5 DEF WriteDone, At, Goto, InWriteAll, Agrees
  <2> QED
    BY <1>2, <2>3, <2>4, <2>5
<1> QED
  BY <1>1, <1>2 DEF write_all

LEMMA ReadfileSteps ==
  ASSUME TypeOK, InReadfile, program = "readfile", readfile
  PROVE  InReadfile'
<1>types. length \in Nat /\ ((pc = "done") <=> (result # "none"))
  BY DEF TypeOK
<1>1. UNCHANGED <<program, file, length>>
  BY DEF readfile, Allocate, Open, ReadBuffer, Release, Keep, Goto
<1>2. CASE Allocate
  BY <1>types, <1>1, <1>2 DEF Allocate, At, Goto, InReadfile
<1>3. CASE Open
  BY <1>types, <1>1, <1>3 DEF Open, At, Goto, InReadfile
<1>4. CASE ReadBuffer
  <2>1. pc = "read" /\ UNCHANGED <<buffer, result>>
    BY <1>4 DEF ReadBuffer, At
  <2>2. offset = 0 /\ buffer = "allocated"
    BY <2>1 DEF InReadfile
  <2>3. CASE pc' = "release"
    BY <1>1, <2>1, <2>2, <2>3 DEF InReadfile
  <2>4. CASE pc' # "release"
    <3>1. PICK k \in 0 .. Readable(length) :
            output' = Got(k) /\ pc' = "keep" /\ k = length
      BY <1>4, <2>4 DEF ReadBuffer, Goto
    <3>2. /\ offset + k \in 0 .. Len(file) /\ Len(Got(k)) = k
          /\ \A i \in 1 .. k : Got(k)[i] = file[offset + i]
      BY <1>types, <3>1, Reads
    <3>3. k \in Nat /\ k <= Len(file) /\ Len(output') = k
          /\ \A i \in 1 .. k : output'[i] = file[i]
      BY <1>types, <2>2, <3>1, <3>2
    <3> QED
      BY <1>1, <2>1, <2>2, <3>1, <3>3 DEF InReadfile, Agrees
  <2> QED
    BY <2>3, <2>4
<1>5. CASE Release
  BY <1>types, <1>1, <1>5 DEF Release, At, Goto, InReadfile
<1>6. CASE Keep
  BY <1>types, <1>1, <1>6 DEF Keep, At, Goto, InReadfile, Agrees
<1> QED
  BY <1>2, <1>3, <1>4, <1>5, <1>6 DEF readfile

LEMMA Read_fileSteps ==
  ASSUME TypeOK, InRead_file, program = "read_file",
         read_file \/ AllocateTemp \/ ReadData \/ CloseTemp
  PROVE  InRead_file'
<1>types. /\ length \in Nat /\ ((pc = "done") <=> (result # "none"))
          /\ Len(file) \in Nat /\ Len(<<>>) = 0
  BY LenProperties DEF TypeOK
<1>1. UNCHANGED <<program, input, file>>
  BY DEF read_file, OpenAnyway, Stat, Refuse, AllocateTemp, ReadData, CloseTemp, Goto
<1>2. CASE OpenAnyway
  BY <1>types, <1>1, <1>2 DEF OpenAnyway, At, Goto, InRead_file
<1>3. CASE Stat
  BY <1>types, <1>1, <1>3 DEF Stat, At, Goto, InRead_file
<1>4. CASE Refuse
  BY <1>types, <1>1, <1>4 DEF Refuse, At, Goto, InRead_file, Agrees
<1>5. CASE AllocateTemp
  BY <1>types, <1>1, <1>5 DEF AllocateTemp, Goto, InRead_file
<1>6. CASE ReadData
  <2>1. PICK n \in Nat : /\ n = (IF buffer = "allocated" THEN length ELSE 0)
                         /\ \E k \in 0 .. Readable(n) : Read(n, k) /\ output' = Got(k)
    BY <1>types, <1>6 DEF ReadData
  <2>2. PICK k \in 0 .. Readable(n) : Read(n, k) /\ output' = Got(k)
    BY <2>1
  <2>3. pc = "read_data" /\ pc' = "close" /\ UNCHANGED <<length, result>>
    BY <1>6 DEF ReadData, Goto
  <2>4. offset = 0 /\ (~cut => fd = "open" /\ length = Len(file) /\ buffer = "allocated")
    BY <2>3 DEF InRead_file
  <2>got. /\ k \in Nat /\ offset + k \in 0 .. Len(file) /\ Len(Got(k)) = k
          /\ \A i \in 1 .. k : Got(k)[i] = file[offset + i]
    BY <2>2, Reads
  <2>5. Len(output') = k /\ k <= Len(file) /\ \A i \in 1 .. k : output'[i] = file[i]
    BY <2>2, <2>4, <2>got
  <2>6. ~cut' => ~cut /\ k = Len(file)
    <3>1. SUFFICES ASSUME ~cut, ~(k < Readable(n)) PROVE k = Len(file)
      BY <2>2 DEF Read
    <3>2. Readable(n) = Len(file)
      BY <1>types, <2>1, <2>4, <3>1 DEF Readable
    <3> QED
      BY <1>types, <2>got, <2>5, <3>1, <3>2
  <2> QED
    BY <1>types, <1>1, <2>3, <2>5, <2>6 DEF InRead_file, Agrees
<1>7. CASE CloseTemp
  <2>1. pc = "close" /\ pc' = "done" /\ fd' = "closed" /\ UNCHANGED <<length, output, cut>>
    BY <1>7 DEF CloseTemp, Goto
  <2> QED
    BY <1>1, <2>1 DEF InRead_file, Agrees
<1> QED
  BY <1>2, <1>3, <1>4, <1>5, <1>6, <1>7 DEF read_file

LEMMA HexdumpSteps ==
  ASSUME TypeOK, InHexdump, program = "hexdump", OpenAnyway \/ hexdump
  PROVE  InHexdump'
<1>types. /\ Chunk \in Nat /\ Len(file) \in Nat
          /\ output \in Seq(Bytes) /\ Len(output) \in Nat
          /\ ((pc = "done") <=> (result # "none"))
  BY LenProperties, FileToolsAssumption DEF TypeOK
<1>1. UNCHANGED <<program, file>>
  BY DEF hexdump, OpenAnyway, DumpChunk, DumpFails, Goto
<1>2. CASE OpenAnyway
  <2>1. UNCHANGED <<output, offset, result>> /\ pc = "open_it" /\ pc' = "dump"
    BY <1>2 DEF OpenAnyway, Goto
  <2> QED
    BY <1>types, <1>1, <2>1 DEF InHexdump, Agrees
<1>3. CASE DumpFails
  <2>1. pc' = "done" /\ result' = "crashed" /\ cut' = TRUE
    BY <1>3 DEF DumpFails, Goto
  <2> QED
    BY <2>1 DEF InHexdump
<1>4. CASE DumpChunk
  <2>1. PICK k \in 0 .. Readable(Chunk) :
          /\ Read(Chunk, k) /\ output' = output \o Got(k)
          /\ pc' = (IF k = Chunk THEN "dump" ELSE "done")
          /\ result' = (IF k = Chunk THEN result ELSE "dumped")
    BY <1>4 DEF DumpChunk, Goto
  <2>2. pc = "dump" /\ fd = "open" /\ result = "none"
    BY <1>types, <1>4 DEF DumpChunk, At
  <2>3. Len(output) = offset /\ Agrees(output, file)
    BY <2>2 DEF InHexdump
  <2>got. /\ k \in Nat /\ k <= Chunk /\ offset + k \in 0 .. Len(file)
          /\ Got(k) \in Seq(Bytes) /\ Len(Got(k)) = k
          /\ \A i \in 1 .. k : Got(k)[i] = file[offset + i]
    BY <1>types, <2>1, Reads
  <2>4. /\ Len(output') = offset + k
        /\ \A i \in 1 .. offset + k :
             output'[i] = IF i <= offset THEN output[i] ELSE Got(k)[i - offset]
    <3>1. PICK got \in Seq(Bytes) : got = Got(k)
      BY <2>got
    <3>2. /\ Len(output \o got) = Len(output) + Len(got)
          /\ \A i \in 1 .. Len(output) + Len(got) :
               (output \o got)[i] = IF i <= Len(output) THEN output[i] ELSE got[i - Len(output)]
      BY <1>types, ConcatProperties
    <3>3. output' = output \o got /\ Len(got) = k
      BY <2>1, <2>got, <3>1
    <3> QED
      BY <2>3, <3>1, <3>2, <3>3
  <2>5. \A i \in 1 .. offset + k : output'[i] = file[i]
    <3> TAKE i \in 1 .. offset + k
    <3>1. CASE i <= offset
      BY <1>types, <2>3, <2>4, <3>1 DEF Agrees
    <3>2. CASE ~(i <= offset)
      <4>1. i - offset \in 1 .. k /\ offset + (i - offset) = i
        BY <1>types, <2>3, <2>got, <3>2
      <4> QED
        BY <2>4, <2>got, <3>2, <4>1
    <3> QED
      BY <3>1, <3>2
  <2>6. pc' = "done" /\ ~cut' => offset + k = Len(file)
    <3>1. SUFFICES ASSUME k # Chunk, ~(k < Readable(Chunk)) PROVE offset + k = Len(file)
      BY <2>1 DEF Read
    <3> QED
      BY <1>types, <2>2, <2>3, <2>got, <3>1 DEF Readable
  <2>7. offset' = offset + k /\ (pc' = "done" => result' = "dumped")
    BY <2>1 DEF Read
  <2>8. Agrees(output', file')
    BY <1>1, <2>4, <2>5, <2>got DEF Agrees
  <2>9. Len(output') = offset' /\ pc' \in {"dump", "done"}
        /\ (pc' = "done" /\ ~cut' => result' = "dumped" /\ Len(output') = Len(file'))
    BY <1>1, <2>1, <2>4, <2>6, <2>7
  <2> QED
    BY <2>8, <2>9 DEF InHexdump
<1> QED
  BY <1>2, <1>3, <1>4 DEF hexdump

\* After both writes: the data, if any, follow a length that is whole.
LEMMA WriteDataStep ==
  ASSUME TypeOK, InTempFile, program = "temp_file", WriteData
  PROVE  Whole' /\ pc' = "rewind" /\ UNCHANGED <<program, fd>> /\ (~cut' => ~cut)
         /\ pc = "write_data"
<1>types. /\ input \in Seq({"data"} \X Nat) /\ input \in Seq(Bytes) /\ Len(input) \in Nat
          /\ file \in Seq(Bytes) /\ Len(file) \in Nat /\ SizeOf \in Nat /\ SizeOf >= 1
          /\ Size \in Seq(Bytes) /\ Len(Size) = SizeOf /\ offset \in Nat
  BY Inputted, LenProperties, FileToolsAssumption, Sized DEF TypeOK
<1>1. PICK k \in 0 .. (IF fd = "open" THEN Len(input) ELSE 0) :
        /\ file' = file \o SubSeq(input, 1, k) /\ cut' = (cut \/ k < Len(input))
  BY DEF WriteData, Write
<1>2. pc = "write_data" /\ pc' = "rewind" /\ UNCHANGED <<program, input, fd, length>>
  BY DEF WriteData, At, Goto
<1>3. Agrees(file, Size) /\ (~cut => Len(file) = SizeOf)
  BY <1>2 DEF InTempFile
<1>4. k \in Nat /\ k <= Len(input)
  BY <1>types
<1>5. /\ file' \in Seq(Bytes) /\ Len(file') = Len(file) + k
      /\ \A j \in 1 .. Len(file) : file'[j] = file[j]
      /\ \A j \in 1 .. k : file'[Len(file) + j] = input[j]
  <2>1. PICK i \in Nat : i = 0
    OBVIOUS
  <2>2. i + k <= Len(input) /\ i + 1 = 1 /\ i + k = k /\ \A j \in 1 .. k : i + j = j
    BY <1>types, <1>4, <2>1
  <2>3. file' = file \o SubSeq(input, i + 1, i + k)
    BY <1>1, <2>2
  <2>4. /\ file' \in Seq(Bytes) /\ Len(file') = Len(file) + k
        /\ \A j \in 1 .. Len(file) : file'[j] = file[j]
        /\ \A j \in 1 .. k : file'[Len(file) + j] = input[i + j]
    BY <1>types, <1>4, <2>2, <2>3, Writes
  <2> QED
    BY <2>2, <2>4
<1>6. ASSUME IsPrefix(Size, file') PROVE Len(file) = SizeOf
  <2>1. SizeOf <= Len(file') /\ \A i \in 1 .. SizeOf : Size[i] = file'[i]
    <3>1. PICK f \in Seq(Bytes) : f = file'
      BY <1>5
    <3>2. IsPrefix(Size, f)
      BY <1>6, <3>1
    <3>3. Len(Size) <= Len(f) /\ \A i \in 1 .. Len(Size) : Size[i] = f[i]
      BY <1>types, <3>2, PrefixElements
    <3> QED
      BY <1>types, <3>1, <3>3
  <2>2. file'[SizeOf] = <<"size", SizeOf>>
    BY <1>types, <2>1, Sized
  <2>3. Len(file) <= SizeOf
    BY <1>types, <1>3 DEF Agrees
  <2>4. SUFFICES ASSUME Len(file) < SizeOf PROVE FALSE
    BY <1>types, <2>3
  <2>5. PICK j \in 1 .. k : Len(file) + j = SizeOf
    <3>1. SizeOf - Len(file) \in 1 .. k /\ Len(file) + (SizeOf - Len(file)) = SizeOf
      BY <1>types, <1>4, <1>5, <2>1, <2>4
    <3> QED
      BY <3>1
  <2>6. j \in 1 .. Len(input) /\ file'[SizeOf] = input[j]
    BY <1>types, <1>4, <1>5, <2>5
  <2>7. input[j] \in {"data"} \X Nat
    BY <1>types, <2>6, ElementOfSeq
  <2> QED
    BY <2>2, <2>6, <2>7
<1>7. ASSUME Len(file) = SizeOf PROVE IsPrefix(Size, file')
  <2>1. Len(Size) <= Len(file') /\ \A i \in 1 .. Len(Size) : Size[i] = file'[i]
    BY <1>types, <1>3, <1>4, <1>5, <1>7 DEF Agrees
  <2> QED
    BY <1>types, <1>5, <2>1, AgreeingPrefix
<1>8. ~cut' => ~cut /\ k = Len(input)
  <2> SUFFICES ASSUME ~cut, ~(k < Len(input)) PROVE k = Len(input)
    BY <1>1
  <2> QED
    BY <1>types, <1>4
<1>9. Whole'
  <2>1. ASSUME IsPrefix(Size, file')
        PROVE  /\ Len(file') - SizeOf \in 0 .. Len(input)
               /\ \A i \in 1 .. Len(file') - SizeOf : file'[SizeOf + i] = input[i]
    <3>1. Len(file) = SizeOf
      BY <1>6, <2>1
    <3>2. Len(file') - SizeOf = k
      BY <1>types, <1>4, <1>5, <3>1
    <3> QED
      BY <1>types, <1>4, <1>5, <3>1, <3>2
  <2>2. ~cut' => IsPrefix(Size, file') /\ Len(file') = SizeOf + Len(input)
    BY <1>3, <1>5, <1>7, <1>8
  <2>3. Size' = Size
    BY DEF Size
  <2> QED
    BY <1>2, <2>1, <2>2, <2>3 DEF Whole
<1> QED
  BY <1>2, <1>8, <1>9

\* The length is known when it was read whole from a file in which it is whole.
LEMMA ReadLengthStep ==
  ASSUME TypeOK, InTempFile, program = "temp_file", ReadLength
  PROVE  LengthRead(offset)' /\ pc = "read_length" /\ (~cut' => ~cut)
<1>types. /\ file \in Seq(Bytes) /\ Len(file) \in Nat /\ Len(input) \in Nat
          /\ SizeOf \in Nat /\ SizeOf >= 1 /\ Size \in Seq(Bytes) /\ Len(Size) = SizeOf
  BY Inputted, LenProperties, FileToolsAssumption, Sized DEF TypeOK
<1>1. PICK k \in 0 .. Readable(SizeOf) :
        /\ offset' = offset + k /\ cut' = (cut \/ k < Readable(SizeOf))
        /\ (Got(k) = Size => length' = Len(input))
  <2>1. PICK k \in 0 .. Readable(SizeOf) :
          /\ Read(SizeOf, k)
          /\ length' \in CASE Got(k) = Size -> {Len(input)}
                         [] Got(k) = <<>> -> {length}
                         [] OTHER -> Garbage
    BY DEF ReadLength
  <2>2. Size # <<>>
    BY <1>types, EmptySeq
  <2>3. Got(k) = Size => length' = Len(input)
    BY <2>1, <2>2
  <2> QED
    BY <2>1, <2>3 DEF Read
<1>2. pc = "read_length" /\ UNCHANGED <<program, input, file, fd>>
  BY DEF ReadLength, At, Goto
<1>3. offset = 0 /\ Whole /\ (~cut => fd = "open")
  BY <1>2 DEF InTempFile
<1>got. /\ k \in Nat /\ k <= SizeOf /\ Got(k) \in Seq(Bytes) /\ Len(Got(k)) = k
        /\ \A i \in 1 .. k : Got(k)[i] = file[offset + i]
  BY <1>types, Reads
<1>4. k = SizeOf /\ IsPrefix(Size, file) => length' = Len(input)
  <2> SUFFICES ASSUME k = SizeOf, IsPrefix(Size, file) PROVE Got(k) = Size
    BY <1>1
  <2>1. \A i \in 1 .. SizeOf : Size[i] = file[i]
    BY <1>types, PrefixElements
  <2>2. \A i \in 1 .. SizeOf : Got(k)[i] = Size[i]
    BY <1>3, <1>got, <2>1
  <2>3. PICK got \in Seq(Bytes) : got = Got(k)
    BY <1>got
  <2>4. Len(got) = Len(Size) /\ \A i \in 1 .. Len(got) : got[i] = Size[i]
    BY <1>types, <1>got, <2>2, <2>3
  <2>5. got = Size
    BY <1>types, <2>4, SeqEqual
  <2> QED
    BY <2>3, <2>5
<1>5. ~cut' => ~cut /\ k = SizeOf
  <2> SUFFICES ASSUME ~cut, ~(k < Readable(SizeOf)) PROVE k = SizeOf
    BY <1>1
  <2>1. Len(file) = SizeOf + Len(input)
    BY <1>3 DEF Whole
  <2>2. Readable(SizeOf) = SizeOf
    BY <1>types, <1>3, <2>1 DEF Readable
  <2> QED
    BY <1>types, <1>got, <2>2
<1>6. Size' = Size /\ offset' = k
  BY <1>1, <1>3, <1>got DEF Size
<1> QED
  BY <1>2, <1>4, <1>5, <1>6 DEF LengthRead

LEMMA ReadDataStep ==
  ASSUME TypeOK, InTempFile, program = "temp_file", ReadData
  PROVE  /\ pc = "read_data" /\ pc' = "close" /\ (~cut' => ~cut) /\ Whole'
         /\ LengthRead(offset - Len(output))' /\ (offset - Len(output))' \in Nat
         /\ \A i \in 1 .. Len(output)' : output'[i] = file'[(offset - Len(output))' + i]
         /\ ~cut' => Len(output)' = Len(input)
<1>types. /\ file \in Seq(Bytes) /\ Len(file) \in Nat /\ SizeOf \in Nat /\ Len(input) \in Nat
          /\ length \in Nat /\ offset \in Nat
  BY Inputted, LenProperties, FileToolsAssumption DEF TypeOK
<1>1. PICK n \in Nat : /\ n = (IF buffer = "allocated" THEN length ELSE 0)
                       /\ \E k \in 0 .. Readable(n) : Read(n, k) /\ output' = Got(k)
  BY <1>types DEF ReadData
<1>2. PICK k \in 0 .. Readable(n) :
        offset' = offset + k /\ cut' = (cut \/ k < Readable(n)) /\ output' = Got(k)
  BY <1>1 DEF Read
<1>3. /\ pc = "read_data" /\ pc' = "close"
      /\ UNCHANGED <<program, input, file, fd, length, buffer>>
  BY DEF ReadData, Goto
<1>4. Whole /\ LengthRead(offset) /\ (~cut => fd = "open" /\ buffer = "allocated")
  BY <1>3 DEF InTempFile
<1>got. /\ k \in Nat /\ offset + k <= Len(file) /\ Len(Got(k)) = k
        /\ \A i \in 1 .. k : Got(k)[i] = file[offset + i]
  BY <1>2, Reads
<1>5. Len(output') = k /\ offset' - Len(output') = offset
  BY <1>types, <1>2, <1>got
<1>6. \A i \in 1 .. k : output'[i] = file[offset + i]
  BY <1>2, <1>got
<1>7. ~cut' => ~cut /\ k = Len(input)
  <2> SUFFICES ASSUME ~cut, ~(k < Readable(n)) PROVE k = Len(input)
    BY <1>2
  <2>1. /\ Len(file) = SizeOf + Len(input) /\ offset = SizeOf /\ length = Len(input)
        /\ fd = "open" /\ n = length
    BY <1>1, <1>4 DEF Whole, LengthRead
  <2>2. Readable(n) = Len(input)
    BY <1>types, <2>1 DEF Readable
  <2> QED
    BY <1>types, <1>got, <2>1, <2>2
<1>8. Size' = Size
  BY DEF Size
<1>9. Whole' /\ LengthRead(offset - Len(output))'
  BY <1>3, <1>4, <1>5, <1>7, <1>8 DEF Whole, LengthRead
<1> QED
  BY <1>types, <1>3, <1>5, <1>6, <1>7, <1>9

LEMMA TempFileSteps ==
  ASSUME TypeOK, InTempFile, program = "temp_file", temp_file
  PROVE  InTempFile'
<1>types. /\ file \in Seq(Bytes) /\ Len(file) \in Nat /\ SizeOf \in Nat /\ SizeOf >= 1
          /\ Size \in Seq(Bytes) /\ Len(Size) = SizeOf /\ Size' = Size
  BY LenProperties, FileToolsAssumption, Sized DEF TypeOK, Size
<1>1. UNCHANGED <<program, input>>
  BY DEF temp_file, MakeTemp, WriteLength, WriteData, Rewind, ReadLength, AllocateTemp,
         ReadData, CloseTemp, Goto
<1>2. CASE MakeTemp
  BY <1>1, <1>2 DEF MakeTemp, At, Goto, InTempFile
<1>3. CASE WriteLength
  <2>1. PICK k \in 0 .. (IF fd = "open" THEN Len(Size) ELSE 0) :
          /\ file' = file \o SubSeq(Size, 1, k) /\ cut' = (cut \/ k < Len(Size))
    BY <1>3 DEF WriteLength, Write
  <2>2. pc = "write_length" /\ pc' = "write_data" /\ UNCHANGED fd
    BY <1>3 DEF WriteLength, At, Goto
  <2>3. file = <<>> /\ (~cut => fd = "open")
    BY <2>2 DEF InTempFile
  <2>4. k \in Nat /\ k <= Len(Size)
    BY <1>types
  <2>5. /\ SubSeq(Size, 1, k) \in Seq(Bytes) /\ Len(SubSeq(Size, 1, k)) = k
        /\ \A j \in 1 .. k : SubSeq(Size, 1, k)[j] = Size[j]
    BY <1>types, <2>4, First
  <2>6. file' = SubSeq(Size, 1, k)
    BY <2>1, <2>3, <2>5, ConcatEmptySeq
  <2>7. Agrees(file', Size) /\ Len(file') = k
    BY <1>types, <2>4, <2>5, <2>6 DEF Agrees
  <2>8. ~cut' => ~cut /\ k = SizeOf
    <3> SUFFICES ASSUME ~cut, ~(k < Len(Size)) PROVE k = SizeOf
      BY <2>1
    <3> QED
      BY <1>types, <2>4
  <2> QED
    BY <1>1, <1>types, <2>2, <2>3, <2>7, <2>8 DEF InTempFile
<1>4. CASE WriteData
  BY <1>1, <1>4, WriteDataStep DEF InTempFile
<1>5. CASE Rewind
  BY <1>1, <1>5, <1>types DEF Rewind, At, Goto, InTempFile, Whole
<1>6. CASE ReadLength
  <2>1. pc' = "allocate" /\ UNCHANGED <<file, fd>>
    BY <1>6 DEF ReadLength, Goto
  <2>2. LengthRead(offset)' /\ pc = "read_length" /\ (~cut' => ~cut)
    BY <1>6, ReadLengthStep
  <2> QED
    BY <1>1, <1>types, <2>1, <2>2 DEF InTempFile, Whole
<1>7. CASE AllocateTemp
  BY <1>1, <1>7, <1>types DEF AllocateTemp, Goto, InTempFile, Whole, LengthRead
<1>8. CASE ReadData
  <2>1. UNCHANGED fd
    BY <1>8 DEF ReadData
  <2> QED
    BY <1>1, <1>8, <2>1, ReadDataStep DEF InTempFile
<1>9. CASE CloseTemp
  <2>1. /\ pc = "close" /\ pc' = "done"
        /\ UNCHANGED <<file, offset, length, output, cut>>
    BY <1>9 DEF CloseTemp, Goto
  <2> QED
    BY <1>1, <1>types, <2>1 DEF InTempFile, Whole, LengthRead
<1> QED
  BY <1>2, <1>3, <1>4, <1>5, <1>6, <1>7, <1>8, <1>9 DEF temp_file

LEMMA ProgressStep == TypeOK /\ Progress /\ [Next]_vars => Progress'
<1> SUFFICES ASSUME TypeOK, Progress, [Next]_vars PROVE Progress'
  OBVIOUS
<1> USE DEF Progress
<1>1. CASE UNCHANGED vars
  <2>1. UNCHANGED <<program, pc, input, file, offset, fd, left, length, buffer, output, result, cut>>
    BY <1>1 DEF vars
  <2>2. InWriteAll' /\ InReadfile'
    BY <2>1 DEF InWriteAll, InReadfile, Agrees
  <2>3. InRead_file' /\ InHexdump'
    BY <2>1 DEF InRead_file, InHexdump, Agrees
  <2>4. InTempFile'
    <3>1. Size' = Size
      BY DEF Size
    <3>2. (Whole => Whole') /\ (LengthRead(offset) => LengthRead(offset)')
          /\ (LengthRead(offset - Len(output)) => LengthRead(offset - Len(output))')
      BY <2>1, <3>1 DEF Whole, LengthRead
    <3> QED
      BY <2>1, <3>1, <3>2 DEF InTempFile, Agrees
  <2> QED
    BY <2>2, <2>3, <2>4
<1>2. CASE Next /\ ~UNCHANGED vars
  <2>1. program' = program
    BY <1>2 DEF Next, write_all, temp_file, readfile, read_file, hexdump, Ended, OpenNew,
           WriteSome, WriteFails, WriteDone, MakeTemp, WriteLength, WriteData, Rewind,
           ReadLength, AllocateTemp, ReadData, CloseTemp, Allocate, Open, ReadBuffer, Release, Keep,
           OpenAnyway, Stat, Refuse, DumpChunk, DumpFails, Goto
  <2>2. CASE program = "write_all"
    <3>1. write_all
      BY <1>2, <2>2 DEF Next, temp_file, readfile, read_file, hexdump, Ended, MakeTemp,
             WriteLength, WriteData, Rewind, ReadLength, AllocateTemp, ReadData, CloseTemp,
             Allocate, Open, ReadBuffer, Release, Keep, OpenAnyway, Stat, Refuse, DumpChunk,
             DumpFails, At, InWriteAll
    <3> QED
      BY <2>1, <2>2, <3>1, WriteAllSteps DEF InReadfile, InRead_file, InHexdump, InTempFile
  <2>3. CASE program = "readfile"
    <3>1. readfile
      BY <1>2, <2>3 DEF Next, write_all, temp_file, read_file, hexdump, Ended, OpenNew,
             WriteSome, WriteFails, WriteDone, MakeTemp, WriteLength, WriteData, Rewind,
             ReadLength, AllocateTemp, ReadData, CloseTemp, OpenAnyway, Stat, Refuse,
             DumpChunk, DumpFails, At, InReadfile
    <3> QED
      BY <2>1, <2>3, <3>1, ReadfileSteps DEF InWriteAll, InRead_file, InHexdump, InTempFile
  <2>4. CASE program = "read_file"
    <3>1. read_file \/ AllocateTemp \/ ReadData \/ CloseTemp
      BY <1>2, <2>4 DEF Next, write_all, temp_file, readfile, hexdump, Ended, OpenNew,
             WriteSome, WriteFails, WriteDone, MakeTemp, WriteLength, WriteData, Rewind,
             ReadLength, Allocate, Open, ReadBuffer, Release, Keep, DumpChunk, DumpFails, At
    <3> QED
      BY <2>1, <2>4, <3>1, Read_fileSteps DEF InWriteAll, InReadfile, InHexdump, InTempFile
  <2>5. CASE program = "hexdump"
    <3>1. OpenAnyway \/ hexdump
      BY <1>2, <2>5 DEF Next, write_all, temp_file, readfile, read_file, Ended, OpenNew,
             WriteSome, WriteFails, WriteDone, MakeTemp, WriteLength, WriteData, Rewind,
             ReadLength, AllocateTemp, ReadData, CloseTemp, Allocate, Open, ReadBuffer,
             Release, Keep, Stat, Refuse, At, InHexdump
    <3> QED
      BY <2>1, <2>5, <3>1, HexdumpSteps DEF InWriteAll, InReadfile, InRead_file, InTempFile
  <2>6. CASE program = "temp_file"
    <3>1. temp_file
      BY <1>2, <2>6 DEF Next, write_all, readfile, read_file, hexdump, Ended, OpenNew,
             WriteSome, WriteFails, WriteDone, Allocate, Open, ReadBuffer, Release, Keep,
             OpenAnyway, Stat, Refuse, DumpChunk, DumpFails, At, InTempFile
    <3> QED
      BY <2>1, <2>6, <3>1, TempFileSteps DEF InWriteAll, InReadfile, InRead_file, InHexdump
  <2>7. program \in {"write_all", "temp_file", "readfile", "read_file", "hexdump"}
    BY FileToolsAssumption DEF TypeOK
  <2> QED
    BY <2>2, <2>3, <2>4, <2>5, <2>6, <2>7
<1> QED
  BY <1>1, <1>2

LEMMA Invariant == Spec => [](TypeOK /\ Progress)
  BY TypesInit, TypesStep, ProgressInit, ProgressStep, PTL DEF Spec

-----------------------------------------------------------------------------
(* The theorems *)

\* However the writes are cut, write_all's file holds the bytes of the buffer that are no
\* longer left to write, in order and once each; it holds them all when COUNT is returned.
THEOREM WriteAll == Spec => []WriteAllWritesOnce
<1>1. TypeOK /\ Progress => WriteAllWritesOnce
  <2> SUFFICES ASSUME TypeOK, Progress, program = "write_all" PROVE WriteAllWritesOnce
    BY DEF WriteAllWritesOnce
  <2>1. /\ input \in Seq(Bytes) /\ Len(input) \in Nat
        /\ file \in Seq(Bytes) /\ Len(file) \in Nat
    BY Inputted, LenProperties DEF TypeOK
  <2>2. InWriteAll
    BY DEF Progress
  <2>3. fd = "open" => file = SubSeq(input, 1, Len(input) - left)
    <3> SUFFICES ASSUME fd = "open" PROVE file = SubSeq(input, 1, Len(file))
      BY <2>2 DEF InWriteAll
    <3>1. Agrees(file, input)
      BY <2>2 DEF InWriteAll
    <3>2. IsPrefix(file, input)
      BY <2>1, <3>1, AgreeingPrefix DEF Agrees
    <3>3. SubSeq(file, 1, Len(file)) = SubSeq(input, 1, Len(file))
      BY <3>2, Zenon DEF IsPrefix
    <3>4. SubSeq(file, 1, Len(file)) = file
      BY <2>1, SubSeqFull
    <3> QED
      BY <3>3, <3>4
  <2>4. result = "count" => file = input
    BY <2>1, <2>2, SeqEqual DEF InWriteAll, Agrees
  <2> QED
    BY <2>3, <2>4 DEF WriteAllWritesOnce
<1> QED
  BY Invariant, <1>1, PTL

\* Each way out of readfile releases what it took, and the buffer it returns holds all
\* that was asked for.
THEOREM ReadFile == Spec => []ReadFileReleases
<1>1. TypeOK /\ Progress => ReadFileReleases
  <2> SUFFICES ASSUME TypeOK, Progress, program = "readfile", pc = "done"
               PROVE  ReadFileReleases
    BY DEF ReadFileReleases
  <2>1. /\ fd = "closed" /\ ((buffer = "allocated") <=> (result = "buffer"))
        /\ (result = "buffer" => Len(output) = length /\ Agrees(output, file))
    BY DEF Progress, InReadfile
  <2>2. file \in Seq(Bytes) /\ output \in Seq(Bytes)
    BY DEF TypeOK
  <2>3. Agrees(output, file) => IsPrefix(output, file)
    BY <2>2, AgreeingPrefix DEF Agrees
  <2> QED
    BY <2>1, <2>3 DEF ReadFileReleases
<1> QED
  BY Invariant, <1>1, PTL

\* No byte that read_file returns is out of place, and none that hexdump prints if no read
\* of it fails; all the bytes of the file are there, with the length that read_file gives,
\* if no call failed or came up short.
THEOREM Readers == Spec => []ReadersGetFile
<1>1. TypeOK /\ Progress => ReadersGetFile
  <2> SUFFICES ASSUME TypeOK, Progress PROVE ReadersGetFile
    OBVIOUS
  <2>1. file \in Seq(Bytes) /\ output \in Seq(Bytes) /\ (result # "none" => pc = "done")
    BY DEF TypeOK
  <2>2. Agrees(output, file) =>
          IsPrefix(output, file) /\ (Len(output) = Len(file) => output = file)
    BY <2>1, AgreeingPrefix DEF Agrees
  <2>3. program = "hexdump" =>
          /\ result # "crashed" => Agrees(output, file)
          /\ pc = "done" /\ ~cut => result = "dumped" /\ Len(output) = Len(file)
    BY DEF Progress, InHexdump
  <2>4. program = "read_file" /\ pc = "done" =>
          /\ Agrees(output, file) /\ fd = "closed"
          /\ result = "buffer" /\ ~cut => Len(output) = Len(file) /\ length = Len(file)
    BY DEF Progress, InRead_file
  <2> QED
    BY <2>1, <2>2, <2>3, <2>4, Zenon DEF ReadersGetFile
<1> QED
  BY Invariant, <1>1, PTL

\* What temp_file's caller can rely on, though no call is checked: bytes of the data alone,
\* in order from the first, with their number, if the length itself was written and read
\* whole; all of them if no call failed or was cut.  Of other runs it says nothing.
THEOREM TempFile == Spec => []TempFileRoundTrip
<1>1. TypeOK /\ Progress => TempFileRoundTrip
  <2> SUFFICES ASSUME TypeOK, Progress, program = "temp_file", result = "buffer"
               PROVE  TempFileRoundTrip
    BY DEF TempFileRoundTrip
  <2>1. /\ input \in Seq(Bytes) /\ Len(input) \in Nat /\ output \in Seq(Bytes)
        /\ Len(output) \in Nat /\ SizeOf \in Nat /\ offset \in Nat /\ offset <= Len(file)
        /\ Len(file) \in Nat /\ pc = "done"
    BY Inputted, LenProperties, FileToolsAssumption DEF TypeOK
  <2>2. /\ Whole /\ LengthRead(offset - Len(output))
        /\ \A i \in 1 .. Len(output) : output[i] = file[offset - Len(output) + i]
        /\ ~cut => Len(output) = Len(input)
    BY <2>1 DEF Progress, InTempFile
  <2>3. ASSUME IsPrefix(Size, file), offset = SizeOf + Len(output)
        PROVE  /\ length = Len(input) /\ IsPrefix(output, input)
               /\ Len(output) = Len(input) => output = input
    <3>1. offset - Len(output) = SizeOf
      BY <2>1, <2>3
    <3>2. length = Len(input)
      BY <2>2, <2>3, <3>1 DEF LengthRead
    <3>3. /\ Len(file) - SizeOf \in 0 .. Len(input)
          /\ \A i \in 1 .. Len(file) - SizeOf : file[SizeOf + i] = input[i]
      BY <2>2, <2>3 DEF Whole
    <3>4. \A i \in 1 .. Len(output) : output[i] = file[SizeOf + i]
      BY <2>2, <3>1
    <3>5. Len(output) <= Len(file) - SizeOf
      BY <2>1, <2>3
    <3>6. Len(output) <= Len(input) /\ \A i \in 1 .. Len(output) : output[i] = input[i]
      BY <2>1, <3>3, <3>4, <3>5
    <3>7. IsPrefix(output, input) /\ (Len(output) = Len(input) => output = input)
      BY <2>1, <3>6, AgreeingPrefix
    <3> QED
      BY <3>2, <3>7
  <2>4. ~cut => /\ IsPrefix(Size, file) /\ Len(output) = Len(input)
                /\ offset - Len(output) = SizeOf
    BY <2>2 DEF Whole, LengthRead
  <2>5. ~cut => offset = SizeOf + Len(output)
    BY <2>1, <2>4
  <2> QED
    BY <2>3, <2>4, <2>5 DEF TempFileRoundTrip
<1> QED
  BY Invariant, <1>1, PTL
=============================================================================
