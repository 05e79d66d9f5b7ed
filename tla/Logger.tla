------------------------------- MODULE Logger -------------------------------
(***************************************************************************)
(* The log from the statement to the file: each Logger's line (LogStream)  *)
(* goes to AsyncLogging::Append by way of g_Output, which main.cc sets to  *)
(* AsyncOutputFunc.  A line is made on the stack of the thread that logs   *)
(* it, so lines made at the same time are made here one after the other,   *)
(* in the order of their Appends.                                          *)
(***************************************************************************)
EXTENDS AsyncLogging, LogStream

CONSTANT MaxLines       \* bound: how many lines are logged

ASSUME LoggerAssumption == MaxLines \in Nat

allVars == <<vars, streamVars>>

LoggerInit == Init /\ StreamInit

\* A thread makes a line.
MakeLine ==
    /\ pc # "crashed"
    /\ \/ count < MaxLines /\ \E statement \in Statements : Begin(statement)
       \/ Put
    /\ UNCHANGED vars

\* Its Logger is destroyed: AsyncOutputFunc.
AsyncOutputFunc == Output /\ AppendLine(buf_)

\* The log thread runs; nothing is assumed of the threads that log.
LoggerNext ==
    \/ MakeLine
    \/ AsyncOutputFunc
    \/ ThreadFunc /\ UNCHANGED streamVars

LoggerSpec == LoggerInit /\ [][LoggerNext]_allVars /\ WF_vars(ThreadFunc)
=============================================================================
