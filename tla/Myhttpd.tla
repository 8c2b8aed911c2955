------------------------------- MODULE Myhttpd -------------------------------
(***************************************************************************)
(* The whole of myhttpd: the serving process of module Server and its      *)
(* parent, which answers STATS and SHUTDOWN on the command port            *)
(* (myhttpd.c).  The two share the Queue structure by mmap, but not the    *)
(* mutex: the parent reads the statistics without it.  On SHUTDOWN it      *)
(* sends SIGTERM to the serving process and waits for its end.             *)
(***************************************************************************)
EXTENDS Server

CONSTANTS
  MaxCommands   \* a bound on the commands that are followed

ASSUME MaxCommandsAssumption == MaxCommands \in Nat

VARIABLES
  cpc,         \* where the parent is
  command,     \* the command of the connection it serves
  read,        \* the statistics it has read so far, Unread for the rest
  reports,     \* the statistics it has answered, oldest first
  commands     \* how many commands it has accepted

parentVars == <<cpc, command, read, reports, commands>>
myhttpdVars == <<vars, parentVars>>

Unread == -1
NothingRead == [pages |-> Unread, bytes |-> Unread]

Commands == {"STATS", "SHUTDOWN", "other", "hangup"}

ParentLabels == {"boot", "accept", "read", "stats", "bye", "kill", "wait", "done", "failed"}

MyhttpdTypeOK ==
  /\ TypeOK
  /\ cpc \in ParentLabels
  /\ command \in Commands \cup {"none"}
  /\ read \in [pages : Nat \cup {Unread}, bytes : Nat \cup {Unread}]
  /\ reports \in Seq([pages : Nat, bytes : Nat])
  /\ commands \in 0 .. MaxCommands

MyhttpdInit ==
  /\ Init
  /\ cpc = "boot"
  /\ command = "none"
  /\ read = NothingRead
  /\ reports = <<>>
  /\ commands = 0

------------------------------------------------------------------------------
(* The parent.  A socket call that fails, and a client of the command port *)
(* that is gone when it is written to, end the parent and leave the        *)
(* serving process alone.                                                  *)

MoveParent(from, to) == cpc = from /\ cpc' = to

ParentBoot ==
  /\ MoveParent("boot", "accept")
  /\ UNCHANGED <<vars, command, read, reports, commands>>

ParentFails ==
  /\ \E from \in {"boot", "accept", "stats", "bye"} : MoveParent(from, "failed")
  /\ UNCHANGED <<vars, command, read, reports, commands>>

AcceptCommand(c) ==
  /\ MoveParent("accept", "read")
  /\ commands < MaxCommands
  /\ commands' = commands + 1
  /\ command' = c
  /\ UNCHANGED <<vars, read, reports>>

\* inputStringFd: it never returns when the client hangs up before the end of
\* its line, since it reads on after the end of file.
ReadCommand ==
  /\ \/ command = "STATS" /\ MoveParent("read", "stats")
     \/ command = "SHUTDOWN" /\ MoveParent("read", "bye")
     \/ command = "other" /\ MoveParent("read", "accept")
  /\ command' = IF cpc' = "accept" THEN "none" ELSE command
  /\ UNCHANGED <<vars, read, reports, commands>>

\* Mutant of ReadPages: the count starts again at every answer.
ReadPagesAndReset ==
  /\ cpc = "stats"
  /\ read.pages = Unread
  /\ read' = [read EXCEPT !.pages = pagesServed]
  /\ pagesServed' = 0
  /\ UNCHANGED <<queueVars, lock, destroyed, bytesReturned, mainVars, threadVars, signalVars,
                 worldVars, cpc, command, reports, commands>>

\* Mutant of ReadPages: the parent waits for the mutex to be free.
ReadPagesUnlocked ==
  /\ cpc = "stats"
  /\ lock = Nobody
  /\ read.pages = Unread
  /\ read' = [read EXCEPT !.pages = pagesServed]
  /\ UNCHANGED <<vars, cpc, command, reports, commands>>

\* Queue_getPages and Queue_getBytes, which C evaluates in either order.
ReadPages ==
  /\ cpc = "stats"
  /\ read.pages = Unread
  /\ read' = [read EXCEPT !.pages = pagesServed]
  /\ UNCHANGED <<vars, cpc, command, reports, commands>>

ReadBytes ==
  /\ cpc = "stats"
  /\ read.bytes = Unread
  /\ read' = [read EXCEPT !.bytes = bytesReturned]
  /\ UNCHANGED <<vars, cpc, command, reports, commands>>

\* Mutant of AnswerStats: the answer is made before both numbers are read.
AnswerStatsEarly ==
  /\ MoveParent("stats", "accept")
  /\ reports' = Append(reports, read)
  /\ read' = NothingRead
  /\ command' = "none"
  /\ UNCHANGED <<vars, commands>>

AnswerStats ==
  /\ MoveParent("stats", "accept")
  /\ Unread \notin {read.pages, read.bytes}
  /\ reports' = Append(reports, read)
  /\ read' = NothingRead
  /\ command' = "none"
  /\ UNCHANGED <<vars, commands>>

\* SHUTDOWN: the answer is written, then the loop is left.
AnswerShutdown ==
  /\ MoveParent("bye", "kill")
  /\ UNCHANGED <<vars, command, read, reports, commands>>

\* Mutant of Kill: the signal is not sent.
NoKill ==
  /\ MoveParent("kill", "wait")
  /\ UNCHANGED <<vars, command, read, reports, commands>>

\* kill(returnValue, SIGTERM): it finds the process, or its zombie.
Kill ==
  /\ MoveParent("kill", "wait")
  /\ IF status = "running" THEN RaiseSigterm ELSE UNCHANGED vars
  /\ UNCHANGED <<command, read, reports, commands>>

\* Mutant of Wait: the parent does not wait.
NoWait ==
  /\ MoveParent("wait", "done")
  /\ UNCHANGED <<vars, command, read, reports, commands>>

\* wait(NULL), munmap and the end of main.
Wait ==
  /\ MoveParent("wait", "done")
  /\ status # "running"
  /\ UNCHANGED <<vars, command, read, reports, commands>>

ParentStep ==
  \/ ParentBoot \/ ReadCommand \/ ReadPages \/ ReadBytes \/ AnswerStats
  \/ AnswerShutdown \/ Kill \/ Wait

MyhttpdNext ==
  \/ (ServerStep \/ ClientStep) /\ UNCHANGED parentVars
  \/ ParentStep \/ ParentFails
  \/ \E c \in Commands : AcceptCommand(c)

MyhttpdSpec == MyhttpdInit /\ [][MyhttpdNext]_myhttpdVars

(* The parent is a process of its own, which the kernel runs; nothing is   *)
(* assumed of the clients of the command port.                             *)
MyhttpdFairSpec == MyhttpdSpec /\ Fairness /\ WF_myhttpdVars(ParentStep)

------------------------------------------------------------------------------
(* Properties.                                                             *)

(* The answers to STATS never go down: every answer is at least the one    *)
(* before in both numbers, although neither is read under the mutex and    *)
(* the serving process resets both when it starts (myhttpd.c:113-118,      *)
(* queue.c:9-31).                                                          *)
ReportsGrow ==
  \A i, j \in 1 .. Len(reports) : i < j =>
    reports[i].pages <= reports[j].pages /\ reports[i].bytes <= reports[j].bytes

\* What makes ReportsGrow inductive: what has been read or answered is at most
\* what the counters have come to.
ReportInv ==
  /\ mpc = "boot" => pagesServed = 0 /\ bytesReturned = 0
  /\ read.pages <= pagesServed /\ read.bytes <= bytesReturned
  /\ \A i \in 1 .. Len(reports) :
       /\ reports[i].pages <= pagesServed /\ reports[i].bytes <= bytesReturned
       /\ read.pages # Unread => reports[i].pages <= read.pages
       /\ read.bytes # Unread => reports[i].bytes <= read.bytes
  /\ ReportsGrow

(* The parent ends after the serving process has, and the serving process *)
(* ends with success only on SHUTDOWN, when every serving thread has been  *)
(* cancelled (myhttpd.c:119-135, server.c:34-63).                          *)
ShutdownOrder ==
  /\ cpc = "done" => status # "running"
  /\ status = "success" => cpc \in {"wait", "done"} /\ cancelled = Threads

\* What makes ShutdownOrder inductive: sig_handler runs on SIGTERM only, and
\* SIGTERM comes from the parent only.
OrderInv ==
  /\ cpc = "done" => status # "running"
  /\ sigterm # "none" => cpc \in {"wait", "done"}
  /\ hpc # "none" => sigterm # "none"
  /\ status = "success" => hpc = "cancel" /\ cancelled = Threads

\* sig_handler waits for the mutex that its own thread holds.
SelfDeadlock == hpc = "lock" /\ lock = Main

(* A SHUTDOWN ends both processes, whatever the serving threads do, but    *)
(* when SIGTERM finds the main thread between its lock and its unlock      *)
(* (myhttpd.c:119-135, server.c:34-63, 111-123).                           *)
ShutdownEnds == cpc = "kill" ~> (cpc = "done" \/ SelfDeadlock)

(* The same without the exception, as the documentation has it             *)
(* (README.md:44).                                                         *)
ShutdownAlwaysEnds == cpc = "kill" ~> cpc = "done"

(* The parent is back for the next command, whatever became of this one    *)
(* and of the serving process, unless its client hung up before the end of *)
(* its line (myhttpd.c:103-130).                                           *)
CommandsAnswered ==
  cpc = "read" /\ command # "hangup" ~> cpc \in {"accept", "kill", "failed"}
==============================================================================
