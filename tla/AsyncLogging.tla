---------------------------- MODULE AsyncLogging ----------------------------
(***************************************************************************)
(* AsyncLogging (src/log/asynclogging.{h,cc}): the double-buffered log     *)
(* that every LOG_* statement of every thread appends to, and the log      *)
(* thread that swaps the buffers out under mutex_ and writes them to the   *)
(* file without it.  Append and each critical section of ThreadFunc is one *)
(* action; WaitForFewSeconds, which lets go of mutex_, separates two.      *)
(* Which lines there are is Logger's.                                      *)
(* Stop is not modelled: nothing calls it before the process ends.         *)
(***************************************************************************)
EXTENDS Naturals, Sequences, FiniteSets, Functions, SequencesExt

CONSTANTS
    Bytes,          \* what lines consist of, each in one place of one line
    Capacity,       \* the size of a FixedBuffer<kLargeSize>
    Null            \* a unique_ptr that has been moved from

ASSUME AsyncLoggingAssumption ==
    /\ Capacity \in Nat
    /\ Null \notin Seq(Bytes)

VARIABLES
    current_, next_,            \* the buffer appended to, and its spare
    buffers_to_write_,          \* full buffers, oldest first
    newbuffer_current, newbuffer_next,  \* ThreadFunc's own spares
    buffers,                    \* what ThreadFunc has swapped out
    pc,                         \* where ThreadFunc is
    file,                       \* what has been written, over all log files
    lost                        \* history: the lines Append did not keep

vars == <<current_, next_, buffers_to_write_, newbuffer_current,
          newbuffer_next, buffers, pc, file, lost>>

sharedVars == <<current_, next_, buffers_to_write_>>
threadVars == <<newbuffer_current, newbuffer_next, buffers>>

Init ==
    /\ current_ = <<>> /\ next_ = <<>>
    /\ buffers_to_write_ = <<>>
    /\ newbuffer_current = <<>> /\ newbuffer_next = <<>>
    /\ buffers = <<>>
    /\ pc = "test"
    /\ file = <<>>
    /\ lost = {}

-----------------------------------------------------------------------------
(* The threads that log.                                                   *)

\* Wrong variant: the spare is taken, whether there is one or not.
SpareUntested == next_

\* The next buffer to append to.
Spare == IF next_ # Null THEN next_ ELSE <<>>

\* Append: a line that does not fit makes room for the next one, and is not
\* appended itself.
AppendLine(line) ==
    /\ pc # "crashed"
    /\ IF Len(current_) + Len(line) <= Capacity
       THEN /\ current_' = current_ \o line
            /\ UNCHANGED <<next_, buffers_to_write_, lost>>
       ELSE /\ buffers_to_write_' = Append(buffers_to_write_, current_)
            /\ current_' = Spare
            /\ next_' = Null
            /\ lost' = lost \cup {line}
    /\ UNCHANGED <<threadVars, pc, file>>

-----------------------------------------------------------------------------
(* ThreadFunc.                                                             *)

\* With no full buffer the thread waits, mutex_ released.
WaitForFewSeconds ==
    /\ pc = "test"
    /\ buffers_to_write_ = <<>>
    /\ pc' = "waited"
    /\ UNCHANGED <<sharedVars, threadVars, file, lost>>

\* Wrong variant: the thread waits until it is notified.
WaitEndsNotified == buffers_to_write_ # <<>>

\* The deadline is in the past (it is read off another clock than the one the
\* condition variable goes by): the wait ends by itself, notified or not.
WaitEnds == TRUE

\* Wrong variant: current_ is put before the buffers filled earlier.
TakenCurrentFirst == <<current_>> \o buffers_to_write_

Taken == Append(buffers_to_write_, current_)

\* Wrong variant: the spare is given away although there is one already.
NextMissingAlways == TRUE

NextMissing == next_ = Null

\* The rest of the critical section: everything kept so far is taken, and the
\* thread's spares take its place.
SwapBuffers ==
    /\ \/ pc = "waited" /\ WaitEnds
       \/ pc = "test" /\ buffers_to_write_ # <<>>
    /\ buffers' = Taken
    /\ buffers_to_write_' = <<>>
    /\ current_' = newbuffer_current
    /\ newbuffer_current' = Null
    /\ next_' = IF NextMissing THEN newbuffer_next ELSE next_
    /\ newbuffer_next' = IF NextMissing THEN Null ELSE newbuffer_next
    /\ pc' = "write"
    /\ UNCHANGED <<file, lost>>

\* LogFile::Write of each buffer, and a new log file when this one is full.
WriteBuffers ==
    /\ pc = "write"
    /\ file' = file \o FlattenSeq(buffers)
    /\ pc' = "recycle"
    /\ UNCHANGED <<sharedVars, threadVars, lost>>

Least(a, b) == IF a < b THEN a ELSE b

\* The buffers written become spares, two at most are kept for that.  Both
\* tests assign newbuffer_current: a missing newbuffer_next costs a buffer
\* and stays missing, and the second back() of a vector that had only one
\* buffer is undefined; it reads the word before the vector's array, and the
\* process dies using it as a pointer.
Recycle ==
    /\ pc = "recycle"
    /\ LET spare == Least(Len(buffers), 2)
           taken == (IF newbuffer_current = Null THEN 1 ELSE 0)
                    + (IF newbuffer_next = Null THEN 1 ELSE 0)
       IN pc' = IF taken > spare THEN "crashed" ELSE "test"
    /\ newbuffer_current' = <<>>
    /\ buffers' = <<>>
    /\ UNCHANGED <<sharedVars, newbuffer_next, file, lost>>

ThreadFunc == WaitForFewSeconds \/ SwapBuffers \/ WriteBuffers \/ Recycle

\* Whatever lines are logged.
SafeSpec == Init /\ [][(\E line \in Seq(Bytes) : AppendLine(line)) \/ ThreadFunc]_vars

-----------------------------------------------------------------------------
(* Properties.                                                             *)

Buffer == {b \in Seq(Bytes) : Len(b) <= Capacity}

\* The shape of the buffers.  current_ is one whenever mutex_ is free, so
\* Append never dereferences a pointer the log thread has moved from.
BuffersOK ==
    /\ current_ \in Buffer
    /\ next_ \in Buffer \cup {Null}
    /\ newbuffer_current \in Buffer \cup {Null}
    /\ newbuffer_next \in Buffer \cup {Null}
    /\ buffers_to_write_ \in Seq(Buffer) /\ buffers \in Seq(Buffer)

\* The shape of the state.
TypeOK ==
    /\ BuffersOK
    /\ pc \in {"test", "waited", "write", "recycle", "crashed"}
    /\ file \in Seq(Bytes)
    /\ lost \subseteq Seq(Bytes)

\* What is kept and not written yet, oldest first.
Waiting == (IF pc = "write" THEN FlattenSeq(buffers) ELSE <<>>)
           \o FlattenSeq(buffers_to_write_) \o current_

\* Whatever the log thread and the logging threads do to the buffers, the
\* lines that Append keeps are written whole, once each and in the order of
\* the Appends, through both lists, the swap and the recycling of the buffers.
Sink == INSTANCE LogSink WITH kept <- Waiting, written <- file, dropped <- lost

ImplementsLogSink == Sink!SafeSpec

\* A line that is kept is in the file in the end, unless the process dies.
KeptIsWritten ==
    \A b \in Bytes : b \in Range(Waiting) ~> b \in Range(file) \/ pc = "crashed"

\* The missing newbuffer_next, and the crash it ends in, take a buffer that
\* has run full, and the line that was lost at that moment: a server that has
\* logged less than one buffer in one swap never gets there.
CrashTakesFullBuffer ==
    pc = "crashed" \/ newbuffer_next = Null => lost # {}
=============================================================================
