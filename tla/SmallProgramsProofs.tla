------------------------- MODULE SmallProgramsProofs -------------------------
(***************************************************************************)
(* Theorems about the small programs, whatever the bounds of the run are.  *)
(* Each program has an invariant of its own, which its steps keep; the     *)
(* steps of the others are steps of other behaviours.                      *)
(***************************************************************************)
EXTENDS MCSmallPrograms, FiniteSetTheorems, TLAPS

-----------------------------------------------------------------------------
(* sigusr1, sigint *)

\* The signals sent, by what has become of them.
Balanced ==
  /\ sent \in 0 .. Kills /\ merged \in 0 .. Kills /\ count \in 0 .. Kills /\ seen \in 0 .. count
  /\ sent - merged = count + (IF pending THEN 1 ELSE 0) + (IF handling THEN 1 ELSE 0)

CountingInv ==
  /\ program \in {"sigusr1", "sigint"}
  /\ main \in {"install", "load", "test", "compare", "announce", "exit", "killed"}
  /\ pending \in BOOLEAN /\ handling \in BOOLEAN
  /\ num_times \in Int /\ main_count \in -1 .. count
  /\ main = "exit" => count >= num_times
  /\ Balanced

LEMMA CountingInit == ASSUME Counting!Init PROVE CountingInv
<1>1. Balanced
  BY SmallProgramsAssumption DEF Counting!Init, Balanced
<1>2. num_times \in Int /\ main_count \in -1 .. count
  BY SmallProgramsAssumption DEF Counting!Init
<1> QED
  BY <1>1, <1>2 DEF Counting!Init, CountingInv

LEMMA CountingStep ==
  ASSUME CountingInv, Counting!Next \/ UNCHANGED Counting!vars
  PROVE  CountingInv' /\ program' = program
<1> USE SmallProgramsAssumption DEF CountingInv, Counting!built
<1>1. CASE Counting!Kill
  <2>1. CASE UNCHANGED <<sent, merged, pending, count>>
    BY <1>1, <2>1 DEF Counting!Kill, Counting!signal, Balanced
  <2>2. CASE sent < Kills /\ sent' = sent + 1 /\ pending' = TRUE
    <3>1. sent' # sent
      BY <2>2 DEF Balanced
    <3>2. /\ UNCHANGED <<program, num_times, main, handling, count, seen, main_count>>
          /\ merged' = IF pending THEN merged + 1 ELSE merged
      BY <1>1, <3>1 DEF Counting!Kill, Counting!signal
    <3>3. Balanced'
      <4>1. CASE pending
        BY <2>2, <3>2, <4>1 DEF Balanced
      <4>2. CASE ~pending
        BY <2>2, <3>2, <4>2 DEF Balanced
      <4> QED
        BY <4>1, <4>2
    <3> QED
      BY <2>2, <3>2, <3>3
  <2> QED
    BY <1>1, <2>1, <2>2 DEF Counting!Kill, Counting!signal
<1>2. CASE Counting!Deliver
  <2>1. /\ UNCHANGED <<program, num_times, main, sent, merged, count, seen, main_count>>
        /\ pending /\ pending' = FALSE /\ ~handling /\ handling' = TRUE
    BY <1>2 DEF Counting!Deliver
  <2>2. Balanced'
    BY <2>1 DEF Balanced
  <2> QED
    BY <2>1, <2>2
<1>3. CASE Counting!handler
  <2>1. /\ UNCHANGED <<program, num_times, main, sent, merged, pending, seen, main_count>>
        /\ handling /\ handling' = FALSE /\ count' = count + 1
    BY <1>3 DEF Counting!handler
  <2>2. Balanced'
    <3>1. CASE pending
      BY <2>1, <3>1 DEF Balanced
    <3>2. CASE ~pending
      BY <2>1, <3>2 DEF Balanced
    <3> QED
      BY <3>1, <3>2
  <2>3. main_count' \in -1 .. count' /\ (main' = "exit" => count' >= num_times')
    BY <2>1 DEF Balanced
  <2> QED
    BY <2>1, <2>2, <2>3
<1>4. CASE Counting!Main
  <2>1. /\ UNCHANGED <<program, num_times, sent, merged, pending, handling, count>>
        /\ main' \in {"load", "test", "compare", "announce", "exit"}
        /\ seen' \in {seen, count} /\ main_count' \in {main_count, Counting!Value}
        /\ main' = "exit" => Counting!Value >= num_times
    BY <1>4 DEF Counting!Main, Counting!Install, Counting!Load, Counting!Test, Counting!Compare,
                Counting!Announce, Counting!At, Counting!signal
  <2>2. Counting!Value \in 0 .. count
    BY DEF Counting!Value, Balanced
  <2>3. Balanced'
    BY <2>1 DEF Balanced
  <2>4. main_count' \in -1 .. count' /\ (main' = "exit" => count' >= num_times')
    BY <2>1, <2>2 DEF Balanced
  <2> QED
    BY <2>1, <2>3, <2>4
<1>5. CASE Counting!Ended \/ UNCHANGED Counting!vars
  BY <1>5 DEF Counting!Ended, Counting!vars, Balanced
<1> QED
  BY <1>1, <1>2, <1>3, <1>4, <1>5 DEF Counting!Next

LEMMA CountingTypes == ASSUME CountingInv PROVE Counting!TypeOK
<1>1. {sent, merged, count, seen} \subseteq 0 .. Kills /\ seen <= count
  BY SmallProgramsAssumption DEF CountingInv, Balanced
<1> QED
  BY <1>1 DEF CountingInv, Balanced, Counting!TypeOK

-----------------------------------------------------------------------------
(* fork-exec, sigchld *)

\* fork-exec handles no signal; its wait takes the child and writes the status.
ForkExec ==
  program = "fork-exec" =>
    /\ parent \in {"fork", "wait", "exit"} /\ handler = "none" /\ ~raised
    /\ parent # "exit" => child # "reaped" /\ status = Unwritten

\* In sigchld a handler that is about to run has a zombie to take, unless the child was
\* stopped; its local is unwritten until its wait is over, and then the child is gone.
Sigchld ==
  program = "sigchld" =>
    /\ parent \in {"fork", "sleep", "exit"}
    /\ parent = "exit" => ~raised /\ handler = "none" /\ child # "zombie"
    /\ child = "stopped" => stops > 0
    /\ child = "none" => ~raised /\ handler = "none"
    /\ handler = "wait" => status = Unwritten
    /\ handler = "store" => child = "reaped"
    /\ stops = 0 => /\ raised => handler = "none"
                    /\ raised \/ handler = "wait" => child = "zombie"

ProcessesInv ==
  /\ program \in {"fork-exec", "sigchld"}
  /\ Processes!TypeOK /\ Processes!StatusOfChild
  /\ parent = "fork" => child = "none"
  /\ ForkExec /\ Sigchld

LEMMA ProcessesInit == ASSUME Processes!Init PROVE ProcessesInv
<1>1. stops \in 0 .. Stops
  BY SmallProgramsAssumption DEF Processes!Init
<1>2. Processes!TypeOK
  BY <1>1 DEF Processes!Init, Processes!TypeOK, Processes!Statuses
<1>3. Processes!StatusOfChild /\ ForkExec /\ Sigchld
  BY DEF Processes!Init, Processes!StatusOfChild, ForkExec, Sigchld
<1> QED
  BY <1>2, <1>3 DEF Processes!Init, ProcessesInv

LEMMA Raising ==
  ASSUME Processes!RaiseSigchld
  PROVE  raised' \in BOOLEAN /\ (raised' <=> program = "sigchld" /\ parent # "exit")
BY DEF Processes!RaiseSigchld

LEMMA ProcessesStep ==
  ASSUME ProcessesInv, Processes!Next \/ UNCHANGED Processes!vars
  PROVE  ProcessesInv' /\ program' = program
<1> USE SmallProgramsAssumption
    DEF ProcessesInv, Processes!TypeOK, Processes!StatusOfChild, Processes!Statuses,
        ForkExec, Sigchld
<1>1. CASE Processes!Exec
  BY <1>1 DEF Processes!Exec
<1>2. CASE Processes!Abort \/ Processes!Exit
  <2>1. PICK code \in Processes!Statuses : child \in {"fork", "running"} /\ Processes!Exits(code)
    BY <1>2 DEF Processes!Abort, Processes!Exit
  <2> QED
    BY <2>1, Raising DEF Processes!Exits
<1>3. CASE Processes!Stop \/ Processes!Continue
  BY <1>3, Raising DEF Processes!Stop, Processes!Continue
<1>4. CASE Processes!Fork
  BY <1>4 DEF Processes!Fork
<1>5. CASE Processes!WaitForChild \/ Processes!WaitInHandler
  <2>1. CASE Processes!WaitForChild
    BY <2>1 DEF Processes!WaitForChild, Processes!Wait
  <2>2. CASE Processes!WaitInHandler
    <3>1. /\ UNCHANGED <<program, parent, raised, ended, stops, child_exit_status>>
          /\ handler = "wait" /\ handler' = "store"
          /\ \/ child = "zombie" /\ child' = "reaped" /\ status' = ended
             \/ child \in {"none", "reaped"} /\ UNCHANGED <<child, status>>
      BY <2>2 DEF Processes!WaitInHandler, Processes!Wait
    <3>2. program = "sigchld" /\ (child # "zombie" => stops > 0)
      BY <3>1
    <3>3. Processes!TypeOK'
      BY <3>1
    <3>4. Processes!StatusOfChild'
      BY <3>1, <3>2
    <3>5. ForkExec'
      BY <3>1, <3>2
    <3>6. Sigchld'
      <4>1. parent \in {"fork", "sleep"} /\ child' = "reaped" /\ handler' = "store"
        BY <3>1, <3>2
      <4>2. stops = 0 => child = "zombie" /\ child' = "reaped" /\ ~raised'
        BY <3>1, <3>2
      <4>3. /\ program' = "sigchld" /\ parent' \in {"fork", "sleep"}
            /\ child' = "reaped" /\ handler' = "store" /\ stops' = stops
        BY <3>1, <3>2, <4>1
      <4> QED
        BY <4>2, <4>3
    <3> QED
      BY <3>1, <3>3, <3>4, <3>5, <3>6
  <2> QED
    BY <1>5, <2>1, <2>2
<1>6. CASE Processes!Deliver
  BY <1>6 DEF Processes!Deliver
<1>7. CASE Processes!Store
  BY <1>7 DEF Processes!Store
<1>8. CASE Processes!Wake
  BY <1>8 DEF Processes!Wake
<1>9. CASE Processes!Ended \/ UNCHANGED Processes!vars
  BY <1>9 DEF Processes!Ended, Processes!vars
<1> QED
  BY <1>1, <1>2, <1>3, <1>4, <1>5, <1>6, <1>7, <1>8, <1>9
     DEF Processes!Next, Processes!Child, Processes!Parent

-----------------------------------------------------------------------------
(* cleanup *)

\* What has become of the buffer, by where the thread is.
BufferAt ==
  /\ thread \in {"unborn", "start"} => buffer = "none"
  /\ thread \in {"push", "sleep", "pop", "unwinding"} => buffer # "freed"
  /\ thread = "returned" => buffer # "allocated"
  /\ thread = "cancelled" /\ buffer = "allocated" => stopped_at \in {"push", "pop"}

CancellingInv ==
  /\ Cancelling!TypeOK /\ Cancelling!FreedOnce /\ BufferAt
  /\ main = "exit" => thread \in {"returned", "cancelled"}

LEMMA CancellingInit == ASSUME Cancelling!Init PROVE CancellingInv
BY DEF Cancelling!Init, CancellingInv, Cancelling!TypeOK, Cancelling!FreedOnce, BufferAt

LEMMA CancellingStep ==
  ASSUME CancellingInv, Cancelling!Next \/ UNCHANGED Cancelling!vars
  PROVE  CancellingInv'
<1> USE DEF CancellingInv, Cancelling!TypeOK, Cancelling!FreedOnce, BufferAt, Cancelling!Goto
<1>1. CASE Cancelling!Main
  BY <1>1 DEF Cancelling!Main, Cancelling!Create, Cancelling!Cancel, Cancelling!Join
<1>2. CASE Cancelling!Allocate \/ Cancelling!Push \/ Cancelling!Pop
  BY <1>2 DEF Cancelling!Allocate, Cancelling!Push, Cancelling!Pop
<1>3. CASE Cancelling!Free("pop", "returned") \/ Cancelling!Free("unwinding", "cancelled")
  BY <1>3 DEF Cancelling!Free
<1>4. CASE Cancelling!Die
  BY <1>4 DEF Cancelling!Die
<1>5. CASE Cancelling!Ended \/ UNCHANGED Cancelling!vars
  BY <1>5 DEF Cancelling!Ended, Cancelling!vars
<1> QED
  BY <1>1, <1>2, <1>3, <1>4, <1>5 DEF Cancelling!Next, Cancelling!do_some_work

-----------------------------------------------------------------------------
(* trylock-example *)

LEMMA PollingInit == ASSUME Polling!Init PROVE Polling!TypeOK
BY SmallProgramsAssumption DEF Polling!Init, Polling!TypeOK

LEMMA PollingStep ==
  ASSUME Polling!TypeOK, Polling!Next \/ UNCHANGED Polling!vars
  PROVE  Polling!TypeOK'
<1> USE SmallProgramsAssumption DEF Polling!TypeOK, Polling!Goto
<1>1. CASE Polling!Main
  BY <1>1 DEF Polling!Main, Polling!Destroy, Polling!Create
<1>2. ASSUME NEW t \in Workers, Polling!task(t) PROVE Polling!TypeOK'
  BY <1>2 DEF Polling!task, Polling!TryLocks, Polling!TryFails, Polling!WakesUp, Polling!Unlock
<1>3. CASE Polling!Ended \/ UNCHANGED Polling!vars
  BY <1>3 DEF Polling!Ended, Polling!vars
<1> QED
  BY <1>1, <1>2, <1>3 DEF Polling!Next

-----------------------------------------------------------------------------
(* make-directory *)

\* There says what may be in the directory: it matters where the path or its contents change.
DirectoryInv == Directory!TypeOK /\ (fd => main \in {"write", "read"})

LEMMA DirectoryInit == ASSUME Directory!Init PROVE DirectoryInv
<1>1. path \in {"absent", "file", "directory"} /\ Directory!There(path, entries)
  BY DEF Directory!Init
<1>2. meddled \in 0 .. Meddles
  BY SmallProgramsAssumption DEF Directory!Init
<1> QED
  BY <1>1, <1>2 DEF Directory!Init, DirectoryInv, Directory!TypeOK

\* The steps of main() keep path and entries together.
LEMMA DirectoryTogether ==
  ASSUME DirectoryInv, Directory!Main
  PROVE  path' \in {"absent", "file", "directory"} /\ Directory!There(path', entries')
<1> USE DEF DirectoryInv, Directory!TypeOK, Directory!There
<1>1. CASE Directory!MkDir \/ Directory!RmDir \/ Directory!Rename
  BY <1>1 DEF Directory!MkDir, Directory!RmDir, Directory!Removable, Directory!Rename
<1>2. CASE Directory!CreateFile \/ Directory!Unlink
  BY <1>2 DEF Directory!CreateFile, Directory!Unlink
<1>3. CASE \/ Directory!Perror \/ Directory!Exists \/ Directory!Unexpected
            \/ Directory!Write \/ Directory!Open \/ Directory!Read
  BY <1>3 DEF Directory!Perror, Directory!Exists, Directory!Unexpected, Directory!Write,
              Directory!Open, Directory!Read
<1> QED
  BY <1>1, <1>2, <1>3 DEF Directory!Main

LEMMA DirectoryStep ==
  ASSUME DirectoryInv, Directory!Next \/ UNCHANGED Directory!vars
  PROVE  DirectoryInv'
<1> USE DEF DirectoryInv, Directory!TypeOK
<1>1. CASE Directory!Main
  <2>1. path' \in {"absent", "file", "directory"} /\ Directory!There(path', entries')
    BY <1>1, DirectoryTogether
  <2>2. /\ main' \in {"mkdir", "perror", "switch", "rmdir", "create", "write", "open", "read",
                      "unlink", "rename", "exit", "failed"}
        /\ errno' \in {"unset", "EEXIST", "other"} /\ meddled' = meddled
        /\ fd' \in BOOLEAN /\ (fd' => main' \in {"write", "read"})
    <3>1. CASE \/ Directory!MkDir \/ Directory!Perror \/ Directory!Exists \/ Directory!RmDir
                \/ Directory!Unexpected
      BY <3>1 DEF Directory!MkDir, Directory!Perror, Directory!Exists, Directory!RmDir,
                  Directory!Unexpected, Directory!Goto
    <3>2. CASE Directory!CreateFile \/ Directory!Open
      <4>1. /\ \/ main' \in {"write", "read"} /\ fd' = TRUE
               \/ main \in {"create", "open"} /\ main' = "failed" /\ fd' = fd
            /\ UNCHANGED <<errno, meddled>>
        BY <3>2 DEF Directory!CreateFile, Directory!Open, Directory!Goto
      <4>2. CASE main' = "failed" /\ fd' = fd /\ ~fd
        BY <4>1, <4>2
      <4>3. CASE main' \in {"write", "read"} /\ fd' = TRUE
        BY <4>1, <4>3
      <4> QED
        BY <4>1, <4>2, <4>3
    <3>3. CASE Directory!Write \/ Directory!Read
      BY <3>3 DEF Directory!Write, Directory!Read, Directory!Goto
    <3>4. CASE Directory!Unlink \/ Directory!Rename
      BY <3>4 DEF Directory!Unlink, Directory!Rename, Directory!Goto
    <3> QED
      BY <1>1, <3>1, <3>2, <3>3, <3>4 DEF Directory!Main
  <2> QED
    BY <2>1, <2>2
<1>2. CASE Directory!Meddle
  <2>1. path' \in {"absent", "file", "directory"} /\ Directory!There(path', entries')
    BY <1>2 DEF Directory!Meddle
  <2>2. meddled' \in 0 .. Meddles
    BY <1>2, SmallProgramsAssumption DEF Directory!Meddle
  <2> QED
    BY <1>2, <2>1, <2>2 DEF Directory!Meddle
<1>3. CASE Directory!Ended \/ UNCHANGED Directory!vars
  BY <1>3 DEF Directory!Ended, Directory!vars
<1> QED
  BY <1>1, <1>2, <1>3 DEF Directory!Next

-----------------------------------------------------------------------------
(* thread-signal *)

Pending == IF shared THEN 1 ELSE 0

\* Each ^C is pending or has taken one thread at most; the second thread's SIGINT, which
\* it sends once, takes the first thread.
SignalsAdd ==
  /\ Cardinality(Signals!Hit \ {"first"}) + Pending <= interrupts
  /\ Cardinality(Signals!Hit) + Cardinality(directed) + Pending <= interrupts + 1
  /\ place["second"] \in {"unborn", "sleep"} =>
       directed = {} /\ Cardinality(Signals!Hit) + Pending <= interrupts

SignalsPlace ==
  /\ ~handled => Signals!Hit = {}
  /\ place["main"] = "create" => place["second"] = "unborn"
  /\ process = "exited" => place["main"] \in {"dead", "failed"}
  /\ process = "killed" => ~handled

SignalsInv == Signals!TypeOK /\ SignalsAdd /\ SignalsPlace

\* The threads hit are few, and can be counted.
LEMMA HitFinite ==
  /\ IsFiniteSet(Signals!Threads) /\ IsFiniteSet(Signals!Hit)
  /\ IsFiniteSet(Signals!Hit \ {"first"})
  /\ Cardinality(Signals!Hit) \in Nat /\ Cardinality(Signals!Hit \ {"first"}) \in Nat
<1>1. IsFiniteSet({}) /\ IsFiniteSet({"main"}) /\ IsFiniteSet({"main", "first"})
      /\ IsFiniteSet(Signals!Threads)
  <2>1. /\ {"main"} = {} \cup {"main"} /\ {"main", "first"} = {"main"} \cup {"first"}
        /\ Signals!Threads = {"main", "first"} \cup {"second"}
    BY DEF Signals!Threads
  <2> QED
    BY <2>1, FS_EmptySet, FS_AddElement
<1>2. Signals!Hit \subseteq Signals!Threads /\ Signals!Hit \ {"first"} \subseteq Signals!Threads
  BY DEF Signals!Hit
<1> QED
  BY <1>1, <1>2, FS_Subset, FS_CardinalityType

LEMMA SignalsInit == ASSUME Signals!Init PROVE SignalsInv
<1>1. Signals!Hit = {} /\ Signals!Hit \ {"first"} = {}
  BY DEF Signals!Init, Signals!Hit
<1>2. Cardinality({}) = 0
  BY FS_EmptySet
<1>3. Signals!TypeOK
  <2>1. interrupts \in 0 .. Interrupts
    BY SmallProgramsAssumption DEF Signals!Init
  <2> QED
    BY <2>1 DEF Signals!Init, Signals!TypeOK, Signals!Threads
<1>4. SignalsAdd
  BY <1>1, <1>2 DEF Signals!Init, SignalsAdd, Pending
<1>5. SignalsPlace
  BY <1>1 DEF Signals!Init, SignalsPlace, Signals!Threads
<1> QED
  BY <1>3, <1>4, <1>5 DEF SignalsInv

\* A step by which no thread is hit.
LEMMA NobodyHit ==
  ASSUME Signals!TypeOK, NEW t \in Signals!Threads, NEW where,
         place' = [place EXCEPT ![t] = where],
         place[t] \in {"handler", "dead"} <=> where \in {"handler", "dead"}
  PROVE  Signals!Hit' = Signals!Hit
BY DEF Signals!TypeOK, Signals!Hit

\* A thread is hit by a signal.
LEMMA OneHit ==
  ASSUME Signals!TypeOK, NEW t \in Signals!Threads, t \notin Signals!Hit,
         place' = [place EXCEPT ![t] = "handler"]
  PROVE  /\ Cardinality(Signals!Hit') = Cardinality(Signals!Hit) + 1
         /\ t = "first" => Signals!Hit' \ {"first"} = Signals!Hit \ {"first"}
         /\ t # "first" => Cardinality(Signals!Hit' \ {"first"}) =
                             Cardinality(Signals!Hit \ {"first"}) + 1
<1>1. Signals!Hit' = Signals!Hit \cup {t}
  BY DEF Signals!TypeOK, Signals!Hit
<1>2. Cardinality(Signals!Hit') = Cardinality(Signals!Hit) + 1
  BY <1>1, HitFinite, FS_AddElement
<1>3. CASE t = "first"
  <2>1. Signals!Hit' \ {"first"} = Signals!Hit \ {"first"}
    BY <1>1, <1>3
  <2> QED
    BY <1>2, <1>3, <2>1
<1>4. CASE t # "first"
  <2>1. /\ Signals!Hit' \ {"first"} = (Signals!Hit \ {"first"}) \cup {t}
        /\ t \notin Signals!Hit \ {"first"}
    BY <1>1, <1>4
  <2>2. Cardinality((Signals!Hit \ {"first"}) \cup {t}) = Cardinality(Signals!Hit \ {"first"}) + 1
    BY <2>1, HitFinite, FS_AddElement
  <2> QED
    BY <1>2, <1>4, <2>1, <2>2
<1> QED
  BY <1>2, <1>3, <1>4

\* One thread can have a signal of its own.
LEMMA Directed ==
  ASSUME NEW d, d \subseteq {"first"}
  PROVE  \/ d = {} /\ Cardinality(d) = 0
         \/ d = {"first"} /\ Cardinality(d) = 1
<1>1. IsFiniteSet({}) /\ Cardinality({}) = 0 /\ {"first"} = {} \cup {"first"}
  BY FS_EmptySet
<1>2. Cardinality({} \cup {"first"}) = 1
  BY <1>1, FS_AddElement
<1>3. d = {} \/ d = {"first"}
  OBVIOUS
<1>4. CASE d = {}
  BY <1>1, <1>4, Zenon
<1>5. CASE d = {"first"}
  BY <1>1, <1>2, <1>5, Zenon
<1> QED
  BY <1>3, <1>4, <1>5

LEMMA SignalsStep ==
  ASSUME SignalsInv, Signals!Next \/ UNCHANGED Signals!vars
  PROVE  SignalsInv'
<1> DEFINE hit == Cardinality(Signals!Hit)
           others == Cardinality(Signals!Hit \ {"first"})
<1>types. /\ process \in {"running", "exited", "killed"} /\ handled \in BOOLEAN
          /\ directed \subseteq {"first"} /\ shared \in BOOLEAN
          /\ interrupts \in Int /\ hit \in Int /\ others \in Int /\ Signals!TypeOK
          /\ Cardinality(directed) \in Int
  <2>1. hit \in Int /\ others \in Int
    BY HitFinite
  <2>2. Signals!TypeOK /\ directed \subseteq {"first"}
    BY DEF SignalsInv, Signals!TypeOK
  <2>3. Cardinality(directed) = 0 \/ Cardinality(directed) = 1
    BY <2>2, Directed, Zenon
  <2> QED
    BY <2>1, <2>2, <2>3, SmallProgramsAssumption DEF Signals!TypeOK
<1>quiet. ASSUME NEW t \in Signals!Threads, NEW where,
                 place' = [place EXCEPT ![t] = where],
                 place[t] \in {"handler", "dead"} <=> where \in {"handler", "dead"}
          PROVE  /\ Signals!Hit' = Signals!Hit
                 /\ \A u \in Signals!Threads : place'[u] = IF u = t THEN where ELSE place[u]
  <2>1. Signals!Hit' = Signals!Hit
    BY ONLY <1>types, <1>quiet, NobodyHit
  <2> QED
    BY <1>types, <1>quiet, <2>1 DEF Signals!TypeOK
<1> USE DEF Signals!Threads
<1>1. CASE Signals!CreateFirst
  <2>1. /\ place' = [place EXCEPT !["first"] = "loop"] /\ place["first"] = "unborn"
        /\ UNCHANGED <<process, handled, directed, shared, interrupts>>
    BY <1>1 DEF Signals!CreateFirst
  <2>2. Signals!Hit' = Signals!Hit /\ place'["main"] = place["main"]
        /\ place'["second"] = place["second"]
    BY <1>quiet, <2>1
  <2>3. Signals!TypeOK'
    BY <1>types, <2>1 DEF Signals!TypeOK
  <2> QED
    BY <2>1, <2>2, <2>3 DEF SignalsInv, SignalsAdd, SignalsPlace, Pending
<1>2. CASE Signals!CreateSecond
  <2>1. /\ place' = [place EXCEPT !["main"] = "install", !["second"] = "sleep"]
        /\ place["main"] = "create" /\ process = "running"
        /\ UNCHANGED <<process, handled, directed, shared, interrupts>>
    BY <1>2 DEF Signals!CreateSecond
  <2>2. place["second"] = "unborn"
    BY <2>1 DEF SignalsInv, SignalsPlace
  <2>3. /\ Signals!Hit' = Signals!Hit /\ place'["main"] = "install"
        /\ place'["second"] = "sleep"
    BY <1>types, <2>1, <2>2 DEF Signals!TypeOK, Signals!Hit
  <2>4. Signals!TypeOK'
    BY <1>types, <2>1 DEF Signals!TypeOK
  <2> QED
    BY <2>1, <2>2, <2>3, <2>4 DEF SignalsInv, SignalsAdd, SignalsPlace, Pending
<1>3. CASE Signals!Install
  <2>1. /\ place["main"] = "install" /\ UNCHANGED <<directed, shared, interrupts>>
        /\ process = "running"
        /\ \/ place' = [place EXCEPT !["main"] = "loop"] /\ handled' = TRUE /\ process' = process
           \/ /\ place' = [place EXCEPT !["main"] = "failed"] /\ handled' = handled
              /\ process' = "exited"
    BY <1>3 DEF Signals!Install, Signals!Goto
  <2>2. /\ Signals!Hit' = Signals!Hit /\ place'["second"] = place["second"]
        /\ place'["main"] \in {"loop", "failed"}
        /\ process' = "exited" => place'["main"] = "failed"
    BY <1>types, <2>1 DEF Signals!TypeOK, Signals!Hit
  <2>3. Signals!TypeOK'
    BY <1>types, <2>1 DEF Signals!TypeOK
  <2>4. SignalsAdd'
    BY <2>1, <2>2 DEF SignalsInv, SignalsAdd, Pending
  <2>5. SignalsPlace'
    BY <2>1, <2>2 DEF SignalsInv, SignalsPlace
  <2> QED
    BY <2>3, <2>4, <2>5 DEF SignalsInv
<1>4. CASE Signals!KillOther
  <2>1. /\ place["second"] = "sleep" /\ place' = [place EXCEPT !["second"] = "loop"]
        /\ directed' \in {directed, directed \cup {"first"}}
        /\ UNCHANGED <<process, handled, shared, interrupts>>
    BY <1>4 DEF Signals!KillOther, Signals!Goto
  <2>2. Signals!Hit' = Signals!Hit /\ place'["main"] = place["main"]
        /\ place'["second"] = "loop"
    BY <1>quiet, <2>1
  <2>3. directed = {} /\ hit + Pending <= interrupts /\ others + Pending <= interrupts
    BY <2>1 DEF SignalsInv, SignalsAdd
  <2>4. directed' \in {{}, {"first"}} /\ Cardinality(directed') \in {0, 1}
    BY <2>1, <2>3, Directed
  <2>5. Signals!TypeOK'
    BY <1>types, <2>1, <2>4 DEF Signals!TypeOK
  <2>6. SignalsAdd'
    BY <1>types, <2>1, <2>2, <2>3, <2>4 DEF SignalsAdd, Pending
  <2> QED
    BY <2>1, <2>2, <2>5, <2>6 DEF SignalsInv, SignalsPlace
<1>5. CASE Signals!Interrupt
  <2>1. /\ interrupts < Interrupts /\ interrupts' = interrupts + 1 /\ shared' = TRUE
        /\ UNCHANGED <<process, place, handled, directed>>
    BY <1>5 DEF Signals!Interrupt
  <2>2. Signals!Hit' = Signals!Hit
    BY <2>1 DEF Signals!Hit
  <2>3. Signals!TypeOK'
    BY <1>types, <2>1, SmallProgramsAssumption DEF Signals!TypeOK
  <2>4. Pending' <= Pending + 1 /\ Pending' \in Int /\ Pending \in Int
    BY <2>1 DEF Pending
  <2>5. SignalsAdd'
    BY <1>types, <2>1, <2>2, <2>4 DEF SignalsInv, SignalsAdd
  <2> QED
    BY <2>1, <2>2, <2>3, <2>5 DEF SignalsInv, SignalsPlace
<1>6. ASSUME NEW t \in Signals!Threads, Signals!Deliver(t) PROVE SignalsInv'
  <2>1. /\ process = "running" /\ place[t] \notin {"unborn", "dead", "handler"}
        /\ UNCHANGED <<handled, interrupts>>
        /\ \/ t \in directed /\ directed' = directed \ {t} /\ shared' = shared
           \/ shared /\ shared' = FALSE /\ directed' = directed
    BY <1>6 DEF Signals!Deliver, Signals!Alive
  <2>2. directed' \subseteq directed /\ shared' \in BOOLEAN
    BY <1>types, <2>1
  <2>signal. \/ t = "first" /\ directed = {"first"} /\ directed' = {} /\ Pending' = Pending
             \/ directed' = directed /\ Pending = 1 /\ Pending' = 0
    <3>1. CASE t \in directed /\ directed' = directed \ {t} /\ shared' = shared
      <4>1. t = "first" /\ directed = {"first"} /\ directed' = {}
        BY <1>types, <3>1
      <4> QED
        BY <3>1, <4>1 DEF Pending
    <3>2. CASE shared /\ shared' = FALSE /\ directed' = directed
      BY <3>2 DEF Pending
    <3> QED
      BY <2>1, <3>1, <3>2
  <2>3. CASE handled
    <3>1. process' = process /\ place' = [place EXCEPT ![t] = "handler"]
      BY <1>6, <2>3 DEF Signals!Deliver
    <3>2. t \notin Signals!Hit
      BY <2>1 DEF Signals!Hit
    <3>3. /\ Cardinality(Signals!Hit') = hit + 1
          /\ t = "first" => Cardinality(Signals!Hit' \ {"first"}) = others
          /\ t # "first" => Cardinality(Signals!Hit' \ {"first"}) = others + 1
      BY <1>types, <3>1, <3>2, OneHit
    <3>4. \A u \in Signals!Threads : place'[u] = IF u = t THEN "handler" ELSE place[u]
      BY <1>types, <3>1 DEF Signals!TypeOK
    <3>5. Signals!TypeOK'
      BY <1>types, <2>1, <2>2, <3>1 DEF Signals!TypeOK
    <3>6. place'["second"] \in {"unborn", "sleep"} =>
            t # "second" /\ place["second"] \in {"unborn", "sleep"}
      BY <3>4
    <3>7. SignalsAdd'
      <4>1. CASE t = "first" /\ directed = {"first"} /\ directed' = {} /\ Pending' = Pending
        BY <1>types, <2>1, <3>3, <3>6, <4>1, Directed DEF SignalsInv, SignalsAdd, Pending
      <4>2. CASE directed' = directed /\ Pending = 1 /\ Pending' = 0
        BY <1>types, <2>1, <3>3, <3>6, <4>2 DEF SignalsInv, SignalsAdd
      <4> QED
        BY <2>signal, <4>1, <4>2
    <3>8. SignalsPlace'
      BY <2>1, <2>3, <3>1, <3>4 DEF SignalsInv, SignalsPlace
    <3> QED
      BY <3>5, <3>7, <3>8 DEF SignalsInv
  <2>4. CASE ~handled
    <3>1. process' = "killed" /\ place' = place
      BY <1>6, <2>4 DEF Signals!Deliver
    <3>2. Signals!Hit' = Signals!Hit
      BY <3>1 DEF Signals!Hit
    <3>3. Signals!TypeOK'
      BY <1>types, <2>1, <2>2, <3>1 DEF Signals!TypeOK
    <3>4. SignalsAdd'
      <4>1. CASE t = "first" /\ directed = {"first"} /\ directed' = {} /\ Pending' = Pending
        BY <1>types, <2>1, <3>1, <3>2, <4>1, Directed DEF SignalsInv, SignalsAdd, Pending
      <4>2. CASE directed' = directed /\ Pending = 1 /\ Pending' = 0
        BY <1>types, <2>1, <3>1, <3>2, <4>2 DEF SignalsInv, SignalsAdd
      <4> QED
        BY <2>signal, <4>1, <4>2
    <3> QED
      BY <2>1, <2>4, <3>1, <3>2, <3>3, <3>4 DEF SignalsInv, SignalsPlace
  <2> QED
    BY <1>types, <2>3, <2>4
<1>7. ASSUME NEW t \in Signals!Threads, Signals!handler(t) PROVE SignalsInv'
  <2>1. /\ process = "running" /\ place[t] = "handler" /\ place' = [place EXCEPT ![t] = "dead"]
        /\ process' = (IF t = "main" THEN "exited" ELSE process)
        /\ directed' \subseteq directed /\ UNCHANGED <<handled, shared, interrupts>>
    BY <1>7 DEF Signals!handler, Signals!Goto
  <2>2. /\ Signals!Hit' = Signals!Hit
        /\ \A u \in Signals!Threads : place'[u] = IF u = t THEN "dead" ELSE place[u]
    BY <1>quiet, <2>1
  <2>3. Signals!TypeOK'
    BY <1>types, <2>1 DEF Signals!TypeOK
  <2>4. Cardinality(directed') <= Cardinality(directed) /\ Cardinality(directed') \in Int
    <3>1. \/ directed = {} /\ Cardinality(directed) = 0
          \/ directed = {"first"} /\ Cardinality(directed) = 1
      BY <1>types, Directed
    <3>2. directed' \subseteq {"first"}
      BY <1>types, <2>1
    <3>3. \/ directed' = {} /\ Cardinality(directed') = 0
          \/ directed' = {"first"} /\ Cardinality(directed') = 1
      BY <3>2, Directed
    <3> QED
      BY <2>1, <3>1, <3>3
  <2>5. SignalsAdd'
    BY <1>types, <2>1, <2>2, <2>4 DEF SignalsInv, SignalsAdd, Pending
  <2> QED
    BY <2>1, <2>2, <2>3, <2>5 DEF SignalsInv, SignalsPlace
<1>8. CASE Signals!Ended \/ UNCHANGED Signals!vars \/ \E t \in Signals!Threads : Signals!Loop(t)
  <2>1. UNCHANGED Signals!vars
    BY <1>8 DEF Signals!Ended, Signals!Loop
  <2> QED
    BY <2>1 DEF Signals!vars, SignalsInv, SignalsAdd, SignalsPlace, Signals!TypeOK, Signals!Hit,
                Pending
<1> QED
  BY <1>1, <1>2, <1>3, <1>4, <1>5, <1>6, <1>7, <1>8
     DEF Signals!Next, Signals!Main, Signals!Signal

\* The instance counts with the Cardinality of its own FiniteSets.
LEMMA SignalsCount == \A S : Signals!Cardinality(S) = Cardinality(S)
BY DEF Cardinality, Signals!Cardinality

LEMMA SignalsSafe == ASSUME SignalsInv PROVE Signals!OnlyTheTargetDies
<1>1. /\ Cardinality(Signals!Hit) \in Nat /\ Cardinality(Signals!Hit \ {"first"}) \in Nat
      /\ IsFiniteSet(Signals!Hit)
  BY HitFinite
<1>2. directed \subseteq {"first"} /\ interrupts \in Int
  BY SmallProgramsAssumption DEF SignalsInv, Signals!TypeOK
<1>3. Cardinality(directed) = 0 \/ Cardinality(directed) = 1
  BY <1>2, Directed, Zenon
<1>4. Pending \in Nat
  BY DEF Pending
<1>5. /\ Cardinality(Signals!Hit \ {"first"}) <= interrupts
      /\ Cardinality(Signals!Hit) + Cardinality(directed) <= interrupts + 1
      /\ place["second"] = "sleep" => Cardinality(Signals!Hit) <= interrupts /\ directed = {}
  BY <1>1, <1>2, <1>3, <1>4 DEF SignalsInv, SignalsAdd
<1>6. process = "killed" => Signals!Hit = {} /\ ~handled
  BY DEF SignalsInv, SignalsPlace
<1>7. process = "exited" => place["main"] \in {"dead", "failed"}
  BY DEF SignalsInv, SignalsPlace
<1> QED
  BY <1>5, <1>6, <1>7, SignalsCount, Zenon DEF Signals!OnlyTheTargetDies

-----------------------------------------------------------------------------
(* prime: the inner loop decides whether the candidate is prime (Tested), and the primes  *)
(* below the candidate are those already counted (Counted).                               *)

LEMMA SearchCount == \A S : Search!Cardinality(S) = Cardinality(S)
BY DEF Cardinality, Search!Cardinality

Below == Cardinality(Search!PrimesUpTo(candidate - 1))

\* What the inner loop knows of the candidate.
Tested == /\ is_prime = 1 => \A d \in 2 .. factor - 1 : candidate % d # 0
          /\ is_prime = 0 => factor < candidate /\ candidate % factor = 0

Counted == returned = 0 => n >= 1 /\ Below = which_prime - n /\ main = "join"

Found == /\ returned # 0 => /\ Search!IsPrime(returned)
                            /\ Cardinality(Search!PrimesUpTo(returned)) = which_prime
         /\ main = "exit" => prime = returned /\ returned # 0

SearchInv == Search!TypeOK /\ Tested /\ Counted /\ Found

LEMMA PrimesFinite == ASSUME NEW m \in Int PROVE IsFiniteSet(Search!PrimesUpTo(m))
<1>1. IsFiniteSet(2 .. m)
  BY FS_Interval
<1>2. Search!PrimesUpTo(m) \subseteq 2 .. m
  BY DEF Search!PrimesUpTo
<1> QED
  BY <1>1, <1>2, FS_Subset

\* The next number adds itself to the primes, or nothing.
LEMMA OneMore ==
  ASSUME NEW m \in Nat, m >= 2
  PROVE  Cardinality(Search!PrimesUpTo(m)) = Cardinality(Search!PrimesUpTo(m - 1))
                                        + (IF Search!IsPrime(m) THEN 1 ELSE 0)
<1>1. IsFiniteSet(Search!PrimesUpTo(m - 1)) /\ Cardinality(Search!PrimesUpTo(m - 1)) \in Nat
  BY PrimesFinite, FS_CardinalityType
<1>2. 2 .. m = (2 .. m - 1) \cup {m} /\ m \notin 2 .. m - 1
  OBVIOUS
<1>3. CASE Search!IsPrime(m)
  <2>1. /\ Search!PrimesUpTo(m) = Search!PrimesUpTo(m - 1) \cup {m}
        /\ m \notin Search!PrimesUpTo(m - 1)
    BY <1>2, <1>3 DEF Search!PrimesUpTo
  <2> QED
    BY <1>1, <1>3, <2>1, FS_AddElement
<1>4. CASE ~Search!IsPrime(m)
  <2>1. Search!PrimesUpTo(m) = Search!PrimesUpTo(m - 1)
    BY <1>2, <1>4 DEF Search!PrimesUpTo
  <2> QED
    BY <1>1, <1>4, <2>1
<1> QED
  BY <1>3, <1>4

\* When the inner loop is over, is_prime tells whether the candidate is prime.
LEMMA Decision ==
  ASSUME Search!TypeOK, Tested, Search!Decided
  PROVE  is_prime = 1 <=> Search!IsPrime(candidate)
<1>1. candidate \in Nat /\ candidate >= 2 /\ factor \in 2 .. candidate /\ is_prime \in {0, 1}
  BY DEF Search!TypeOK
<1>2. CASE is_prime = 1
  <2>1. factor = candidate
    BY <1>1, <1>2 DEF Search!Decided, Search!Searching
  <2> QED
    BY <1>1, <1>2, <2>1 DEF Tested, Search!IsPrime
<1>3. CASE is_prime = 0
  <2>1. factor \in 2 .. candidate - 1 /\ candidate % factor = 0
    BY <1>1, <1>3 DEF Tested
  <2> QED
    BY <1>3, <2>1 DEF Search!IsPrime
<1> QED
  BY <1>1, <1>2, <1>3

LEMMA SearchInit == ASSUME Search!Init PROVE SearchInv
<1>1. Search!TypeOK /\ Tested /\ Found
  BY SmallProgramsAssumption DEF Search!Init, Search!TypeOK, Tested, Found
<1>2. Search!PrimesUpTo(1) = {}
  BY DEF Search!PrimesUpTo
<1>3. Below = 0
  <2>1. candidate - 1 = 1
    BY DEF Search!Init
  <2> QED
    BY <1>2, <2>1, FS_EmptySet, Zenon DEF Below
<1> QED
  BY <1>1, <1>3, SmallProgramsAssumption DEF Search!Init, SearchInv, Counted

LEMMA SearchStep ==
  ASSUME SearchInv, Search!Next \/ UNCHANGED Search!vars
  PROVE  SearchInv'
<1>types. /\ candidate \in Nat /\ candidate >= 2 /\ factor \in 2 .. candidate
          /\ is_prime \in {0, 1} /\ n \in Nat /\ returned \in Nat /\ prime \in Nat
          /\ main \in {"join", "exit"}
  BY DEF SearchInv, Search!TypeOK
<1>1. CASE Search!Divides
  <2>1. UNCHANGED <<main, candidate, factor, n, returned, prime>> /\ is_prime' = 0
        /\ factor < candidate /\ candidate % factor = 0
    BY <1>1 DEF Search!Divides, Search!Searching
  <2> QED
    BY <1>types, <2>1 DEF SearchInv, Search!TypeOK, Tested, Counted, Found, Below
<1>2. CASE Search!NextFactor
  <2>1. UNCHANGED <<main, candidate, is_prime, n, returned, prime>> /\ factor' = factor + 1
        /\ factor < candidate /\ candidate % factor # 0 /\ is_prime = 1
    BY <1>2 DEF Search!NextFactor, Search!Searching
  <2>2. \A d \in 2 .. factor' - 1 : candidate % d # 0
    <3>1. \A d \in 2 .. factor - 1 : candidate % d # 0
      BY <2>1 DEF SearchInv, Tested
    <3>2. \A d \in 2 .. factor' - 1 : d \in 2 .. factor - 1 \/ d = factor
      BY <1>types, <2>1
    <3> QED
      BY <2>1, <3>1, <3>2, Zenon
  <2>3. Search!TypeOK' /\ Tested'
    BY <1>types, <2>1, <2>2 DEF Search!TypeOK, Tested
  <2> QED
    BY <2>1, <2>3 DEF SearchInv, Counted, Found, Below
<1>3. CASE Search!Return
  <2>1. UNCHANGED <<main, candidate, factor, is_prime, prime>> /\ n' = 0 /\ n = 1
        /\ returned = 0 /\ returned' = candidate /\ is_prime = 1 /\ Search!Decided
    BY <1>3 DEF Search!Return, Search!Decided
  <2>2. Search!IsPrime(candidate)
    BY <2>1, Decision DEF SearchInv
  <2>3. Below = which_prime - 1 /\ main = "join"
    BY <2>1 DEF SearchInv, Counted
  <2>counts. Cardinality(Search!PrimesUpTo(candidate)) =
               Below + (IF Search!IsPrime(candidate) THEN 1 ELSE 0)
    BY <1>types, OneMore, Zenon DEF Below
  <2>4. Cardinality(Search!PrimesUpTo(candidate)) = which_prime
    BY <2>2, <2>3, <2>counts, SmallProgramsAssumption
  <2>5. Search!TypeOK' /\ Tested'
    BY <1>types, <2>1 DEF SearchInv, Search!TypeOK, Tested
  <2> QED
    BY <1>types, <2>1, <2>2, <2>3, <2>4, <2>5 DEF SearchInv, Counted, Found
<1>4. CASE Search!NextCandidate
  <2>1. UNCHANGED <<main, returned, prime>> /\ returned = 0 /\ Search!Decided
        /\ candidate' = candidate + 1 /\ factor' = 2 /\ is_prime' = 1
        /\ n' = (IF is_prime = 1 THEN n - 1 ELSE n) /\ ~(is_prime = 1 /\ n = 1)
    BY <1>4 DEF Search!NextCandidate, Search!Decided
  <2>2. n >= 1 /\ Below = which_prime - n /\ main = "join"
    BY <2>1 DEF SearchInv, Counted
  <2>3. n' \in Nat /\ n' >= 1
    BY <1>types, <2>1, <2>2
  <2>counts. Cardinality(Search!PrimesUpTo(candidate)) =
               Below + (IF Search!IsPrime(candidate) THEN 1 ELSE 0)
    BY <1>types, OneMore, Zenon DEF Below
  <2>4. Below' = Cardinality(Search!PrimesUpTo(candidate))
    <3>1. candidate' - 1 = candidate
      BY <1>types, <2>1
    <3> QED
      BY <3>1 DEF Below
  <2>5. Below' = Below + (IF is_prime = 1 THEN 1 ELSE 0)
    <3>1. is_prime = 1 <=> Search!IsPrime(candidate)
      BY <2>1, Decision DEF SearchInv
    <3>2. Below' = Below + (IF Search!IsPrime(candidate) THEN 1 ELSE 0)
      BY <2>4, <2>counts, Zenon
    <3>3. CASE is_prime = 1
      <4>1. (IF Search!IsPrime(candidate) THEN 1 ELSE 0) = 1
        BY <3>1, <3>3
      <4> QED
        BY <3>2, <3>3, <4>1
    <3>4. CASE is_prime # 1
      <4>1. (IF Search!IsPrime(candidate) THEN 1 ELSE 0) = 0
        BY <3>1, <3>4
      <4> QED
        BY <3>2, <3>4, <4>1
    <3> QED
      BY <3>3, <3>4
  <2>6. Below' = which_prime - n'
    BY <1>types, <2>1, <2>2, <2>5, SmallProgramsAssumption
  <2>7. Search!TypeOK' /\ Tested'
    BY <1>types, <2>1, <2>3 DEF Search!TypeOK, Tested
  <2> QED
    BY <2>1, <2>2, <2>3, <2>6, <2>7 DEF SearchInv, Counted, Found
<1>5. CASE Search!Join
  BY <1>types, <1>5 DEF Search!Join, SearchInv, Search!TypeOK, Tested, Counted, Found, Below
<1>6. CASE Search!Ended \/ UNCHANGED Search!vars
  BY <1>6 DEF Search!Ended, Search!vars, SearchInv, Search!TypeOK, Tested, Counted, Found, Below
<1> QED
  BY <1>1, <1>2, <1>3, <1>4, <1>5, <1>6 DEF Search!Next, Search!compute_prime

LEMMA SearchSafe == ASSUME SearchInv PROVE Search!ReturnsNthPrime
BY SearchCount DEF SearchInv, Found, Search!ReturnsNthPrime

-----------------------------------------------------------------------------
(* The program that runs. *)

Inv == /\ program \in {"sigusr1", "sigint", "thread-signal", "fork-exec", "sigchld", "cleanup",
                       "trylock-example", "make-directory", "prime"}
       /\ program \in {"sigusr1", "sigint"} => CountingInv
       /\ program = "thread-signal" => SignalsInv
       /\ program \in {"fork-exec", "sigchld"} => ProcessesInv
       /\ program = "cleanup" => CancellingInv
       /\ program = "trylock-example" => Polling!TypeOK
       /\ program = "make-directory" => DirectoryInv
       /\ program = "prime" => SearchInv

LEMMA Initially == ASSUME Init PROVE Inv
<1>1. CASE Counting!Init
  BY <1>1, CountingInit DEF Inv, CountingInv
<1>2. CASE program = "thread-signal" /\ Signals!Init
  BY <1>2, SignalsInit DEF Inv
<1>3. CASE Processes!Init
  BY <1>3, ProcessesInit DEF Inv, ProcessesInv
<1>4. CASE program = "cleanup" /\ Cancelling!Init
  BY <1>4, CancellingInit DEF Inv
<1>5. CASE program = "trylock-example" /\ Polling!Init
  BY <1>5, PollingInit DEF Inv
<1>6. CASE program = "make-directory" /\ Directory!Init
  BY <1>6, DirectoryInit DEF Inv
<1>7. CASE program = "prime" /\ Search!Init
  BY <1>7, SearchInit DEF Inv
<1> QED
  BY <1>1, <1>2, <1>3, <1>4, <1>5, <1>6, <1>7 DEF Init

\* A step of the specification that runs, or of none.
LEMMA Steps == ASSUME Inv, [Next]_vars PROVE Inv'
<1>names. program \in {"sigusr1", "sigint", "thread-signal", "fork-exec", "sigchld", "cleanup",
                       "trylock-example", "make-directory", "prime"}
  BY DEF Inv
<1>1. CASE program \in {"sigusr1", "sigint"}
  <2>1. Counting!Next \/ UNCHANGED Counting!vars
    BY <1>1 DEF Next, vars, signals, Counting!vars, InCounting, InSignals, InProcesses,
                InCancelling, InPolling, InDirectory, InSearch
  <2> QED
    BY <1>1, <2>1, CountingStep DEF Inv
<1>2. CASE program = "thread-signal"
  <2>1. (Signals!Next \/ UNCHANGED Signals!vars) /\ program' = program
    BY <1>2 DEF Next, vars, threads, Signals!vars, InCounting, InSignals, InProcesses,
                InCancelling, InPolling, InDirectory, InSearch
  <2> QED
    BY <1>2, <2>1, SignalsStep DEF Inv
<1>3. CASE program \in {"fork-exec", "sigchld"}
  <2>1. Processes!Next \/ UNCHANGED Processes!vars
    BY <1>3 DEF Next, vars, children, Processes!vars, InCounting, InSignals, InProcesses,
                InCancelling, InPolling, InDirectory, InSearch
  <2> QED
    BY <1>3, <2>1, ProcessesStep DEF Inv
<1>4. CASE program = "cleanup"
  <2>1. (Cancelling!Next \/ UNCHANGED Cancelling!vars) /\ program' = program
    BY <1>4 DEF Next, vars, cleaning, Cancelling!vars, InCounting, InSignals, InProcesses,
                InCancelling, InPolling, InDirectory, InSearch
  <2> QED
    BY <1>4, <2>1, CancellingStep DEF Inv
<1>5. CASE program = "trylock-example"
  <2>1. (Polling!Next \/ UNCHANGED Polling!vars) /\ program' = program
    BY <1>5 DEF Next, vars, polling, Polling!vars, InCounting, InSignals, InProcesses,
                InCancelling, InPolling, InDirectory, InSearch
  <2> QED
    BY <1>5, <2>1, PollingStep DEF Inv
<1>6. CASE program = "make-directory"
  <2>1. (Directory!Next \/ UNCHANGED Directory!vars) /\ program' = program
    BY <1>6 DEF Next, vars, directory, Directory!vars, InCounting, InSignals, InProcesses,
                InCancelling, InPolling, InDirectory, InSearch
  <2> QED
    BY <1>6, <2>1, DirectoryStep DEF Inv
<1>7. CASE program = "prime"
  <2>1. (Search!Next \/ UNCHANGED Search!vars) /\ program' = program
    BY <1>7 DEF Next, vars, search, Search!vars, InCounting, InSignals, InProcesses,
                InCancelling, InPolling, InDirectory, InSearch
  <2> QED
    BY <1>7, <2>1, SearchStep DEF Inv
<1> QED
  BY <1>names, <1>1, <1>2, <1>3, <1>4, <1>5, <1>6, <1>7

LEMMA Invariant == Spec => []Inv
BY Initially, Steps, PTL DEF Spec

-----------------------------------------------------------------------------
(* The theorems *)

\* In every program each variable has a value of its type, however many signals, ^Cs, stops
\* and meddlings there are, and however many threads wait for the mutex.
THEOREM Types == Spec => []TypeOK
<1>1. Inv => TypeOK
  BY CountingTypes DEF Inv, TypeOK, SignalsInv, ProcessesInv, CancellingInv, DirectoryInv,
                       SearchInv
<1> QED
  BY <1>1, Invariant, PTL

SignalsAccountedFor ==
  program \in {"sigusr1", "sigint"} =>
    /\ sent - merged = count + (IF pending THEN 1 ELSE 0) + (IF handling THEN 1 ELSE 0)
    /\ main = "exit" => count >= num_times

\* sigusr1.c and sigint.c: a signal that is sent is merged, pending, in its handler, or
\* counted, and counted once; so main() returns only after as many as it waits for.
THEOREM CountsSignals == Spec => []SignalsAccountedFor
<1>1. Inv => SignalsAccountedFor
  BY DEF Inv, SignalsAccountedFor, CountingInv, Balanced
<1> QED
  BY <1>1, Invariant, PTL

\* thread-signal.c: the SIGINT of pthread_kill() takes the first thread and no other, and
\* each ^C takes one thread, whenever they come.
THEOREM Target == Spec => []OnlyTheTargetDies
<1>1. Inv => OnlyTheTargetDies
  BY SignalsSafe DEF Inv, OnlyTheTargetDies
<1> QED
  BY <1>1, Invariant, PTL

\* fork-exec.c and sigchld.c: the status a program takes is the one its child ended with, or
\* what the stack held: in fork-exec only after a fork() that failed, in sigchld only when
\* the child was stopped.  A child that ends is waited for, or about to be.
THEOREM ChildStatus == Spec => []StatusOfChild
<1>1. Inv => StatusOfChild
  BY DEF Inv, StatusOfChild, ProcessesInv
<1> QED
  BY <1>1, Invariant, PTL

\* cleanup.c: a cancelled thread's buffer is freed once, by the handler or by the thread; it
\* is lost only if the cancellation hits before the push of the handler, or in the handler
\* that the thread itself calls.
THEOREM Once == Spec => []FreedOnce
<1>1. Inv => FreedOnce
  BY DEF Inv, FreedOnce, CancellingInv
<1> QED
  BY <1>1, Invariant, PTL

\* prime.c, lines 4-5, "Return the Nth prime number", whatever N is asked for (5000 in the
\* code).
THEOREM NthPrime == Spec => []ReturnsNthPrime
<1>1. Inv => ReturnsNthPrime
  BY SearchSafe DEF Inv, ReturnsNthPrime
<1> QED
  BY <1>1, Invariant, PTL
=============================================================================
