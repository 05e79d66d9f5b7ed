------------------------------ MODULE Acceptor ------------------------------
(***************************************************************************)
(* The process's table of file descriptors when it is nearly full: what    *)
(* Acceptor::NewConn (src/util/acceptor.cc) does with its reserve fd when  *)
(* accept4 fails with EMFILE, one system call after the other, while       *)
(* connections of other threads give theirs back and the log thread opens  *)
(* its next file (LogFile, src/log/logfile.cc) before it closes the last.  *)
(* Nothing else opens an fd once the server has started.                   *)
(***************************************************************************)
EXTENDS FiniteSets

CONSTANTS
    Fds,            \* the fds the process may have besides those it always has
    Clients,        \* each connects once
    None            \* -1, and a FILE* or a slot that is none

ASSUME AcceptorAssumption ==
    /\ None \notin Fds
    /\ Clients \cap {"free", "reserve", "log"} = {}

VARIABLES
    table,          \* fd -> who has it: "free", "reserve" (the Acceptor, for
                    \* idlefd_), "log", or the client of a TcpConnection
    backlog,        \* clients in the listening socket's backlog
    answered,       \* clients that have been accepted, whether served or not
    idlefd_,
    newconn,        \* NewConn's last system call: "wait" (for the next), "full"
                    \* (EMFILE), "closed", "accepted", "dropped"
    fp_, old,       \* the LogFile's fd, that of the one it is to replace
    crashed,        \* the process has died writing to a null FILE*
    taken           \* history: the log took the last fd that was free after
                    \* NewConn had closed its reserve

acceptorVars == <<table, backlog, answered, idlefd_, newconn, fp_, old, crashed, taken>>

clientVars == <<backlog, answered>>
logVars    == <<fp_, old, crashed>>

Free == {f \in Fds : table[f] = "free"}

AcceptorInit ==
    /\ idlefd_ \in Fds /\ fp_ \in Fds \ {idlefd_}
    /\ table = [f \in Fds |-> IF f = idlefd_ THEN "reserve"
                              ELSE IF f = fp_ THEN "log" ELSE "free"]
    /\ backlog = {} /\ answered = {}
    /\ newconn = "wait"
    /\ old = None /\ crashed = FALSE /\ taken = FALSE

\* close(fd): nothing happens to a -1, which is EBADF.
Close(fd) == table' = [f \in Fds |-> IF f = fd THEN "free" ELSE table[f]]

\* fd is given to owner; if none is free, fd is -1 (EMFILE).
Open(fd, owner) ==
    /\ fd \in Free \/ (fd = None /\ Free = {})
    /\ table' = [f \in Fds |-> IF f = fd THEN owner ELSE table[f]]

-----------------------------------------------------------------------------
(* The clients, and the connections they have.                             *)

Connect(c) ==
    /\ c \notin backlog \cup answered
    /\ backlog' = backlog \cup {c}
    /\ UNCHANGED <<table, answered, idlefd_, newconn, logVars, taken>>

\* ~TcpConnection, in any thread.
CloseConnection(f) ==
    /\ table[f] \in Clients
    /\ Close(f)
    /\ UNCHANGED <<clientVars, idlefd_, newconn, logVars, taken>>

-----------------------------------------------------------------------------
(* NewConn.                                                                *)

Accept(c) ==
    /\ backlog' = backlog \ {c}
    /\ answered' = answered \cup {c}

\* accept4 finds an fd; the TcpConnection will have it, unless a setsockopt
\* fails and it is closed.
NewConn(c) ==
    /\ newconn = "wait" /\ c \in backlog /\ Free # {}
    /\ \/ \E f \in Free : Open(f, c)
       \/ UNCHANGED table
    /\ Accept(c)
    /\ UNCHANGED <<idlefd_, newconn, logVars, taken>>

\* accept4 fails with EMFILE.
NewConnFull ==
    /\ newconn = "wait" /\ backlog # {} /\ Free = {}
    /\ newconn' = "full"
    /\ UNCHANGED <<table, clientVars, idlefd_, logVars, taken>>

CloseReserve ==
    /\ newconn = "full"
    /\ Close(idlefd_)
    /\ newconn' = "closed"
    /\ UNCHANGED <<clientVars, idlefd_, logVars, taken>>

\* Wrong variant: the fd is kept as it was if accept fails.
AcceptedKept(fd) == IF fd = None THEN idlefd_ ELSE fd

\* idlefd_ is whatever accept returned.
Accepted(fd) == fd

AcceptReserve ==
    /\ newconn = "closed"
    /\ \E fd \in Free \cup {None} :
          /\ Open(fd, "reserve")
          /\ idlefd_' = Accepted(fd)
          /\ IF fd = None THEN UNCHANGED clientVars
             ELSE \E c \in backlog : Accept(c)
    /\ newconn' = "accepted"
    /\ UNCHANGED <<logVars, taken>>

\* Wrong variant: the client is left hanging.
TurnedAwayNever == None

TurnedAway == idlefd_

\* The client that was accepted is turned away.
Drop ==
    /\ newconn = "accepted"
    /\ Close(TurnedAway)
    /\ newconn' = "dropped"
    /\ UNCHANGED <<clientVars, idlefd_, logVars, taken>>

Reopen ==
    /\ newconn = "dropped"
    /\ \E fd \in Free \cup {None} : Open(fd, "reserve") /\ idlefd_' = fd
    /\ newconn' = "wait"
    /\ UNCHANGED <<clientVars, logVars, taken>>

-----------------------------------------------------------------------------
(* The log thread.                                                         *)

\* log.reset(new LogFile(filepath_)): the new file is opened first; its name
\* is the second that LogFile tries, filepath_ being null.
OpenLog ==
    /\ old = None /\ fp_ # None
    /\ \E fd \in Free \cup {None} :
          /\ Open(fd, "log")
          /\ fp_' = fd
          /\ taken' = (taken \/ (newconn \in {"closed", "accepted", "dropped"} /\ Free = {fd}))
    /\ old' = fp_
    /\ UNCHANGED <<clientVars, idlefd_, newconn, crashed>>

CloseLog ==
    /\ old # None
    /\ Close(old)
    /\ old' = None
    /\ UNCHANGED <<clientVars, idlefd_, newconn, fp_, crashed, taken>>

\* LogFile::Write does not ask whether its file could be opened.
WriteLog ==
    /\ old = None /\ fp_ = None
    /\ crashed' = TRUE
    /\ UNCHANGED <<table, clientVars, idlefd_, newconn, fp_, old, taken>>

-----------------------------------------------------------------------------

AcceptLoop ==
    \/ \E c \in Clients : NewConn(c)
    \/ NewConnFull \/ CloseReserve \/ AcceptReserve \/ Drop \/ Reopen

LogThread == OpenLog \/ CloseLog \/ WriteLog

AcceptorNext ==
    /\ ~crashed
    /\ \/ AcceptLoop
       \/ LogThread
       \/ \E c \in Clients : Connect(c)
       \/ \E f \in Fds : CloseConnection(f)

AcceptorSafeSpec == AcceptorInit /\ [][AcceptorNext]_acceptorVars

\* The base loop goes on; nothing is assumed of the clients or the log.
AcceptorSpec == AcceptorSafeSpec /\ WF_acceptorVars(~crashed /\ AcceptLoop)

-----------------------------------------------------------------------------
(* Properties.                                                             *)

\* The shape of the state.
AcceptorTypeOK ==
    /\ table \in [Fds -> Clients \cup {"free", "reserve", "log"}]
    /\ backlog \subseteq Clients /\ answered \subseteq Clients
    /\ idlefd_ \in Fds \cup {None} /\ fp_ \in Fds \cup {None} /\ old \in Fds \cup {None}
    /\ newconn \in {"wait", "full", "closed", "accepted", "dropped"}
    /\ crashed \in BOOLEAN /\ taken \in BOOLEAN

\* The fds NewConn is about to close or keeps for later are its own, and no
\* other is: idlefd_ is never the number of an fd that a connection or the log
\* has been given since.  So is the LogFile's.
ClosesItsOwn ==
    \A f \in Fds :
        /\ table[f] = "reserve" <=> f = idlefd_ /\ newconn \in {"wait", "full", "accepted"}
        /\ table[f] = "log" <=> f \in {fp_, old}

\* The server keeps its reserve for the next time it is full, unless the log
\* took the last free fd in the middle of NewConn: connections that come and
\* go do not cost it.
ReserveLostOnlyToLog == newconn = "wait" /\ idlefd_ = None => taken

\* A client in the backlog is accepted, be it only to be turned away, however
\* full the table is.  (Once the log has taken the reserve, the base loop spins
\* on its readable listening socket until a connection ends.)
BacklogAccepted ==
    \A c \in Clients : c \in backlog ~> c \in answered \/ taken \/ crashed
=============================================================================
