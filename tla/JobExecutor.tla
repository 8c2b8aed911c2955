----------------------------- MODULE JobExecutor -----------------------------
(***************************************************************************)
(* The search engine as the crawler starts it: main of jobExecutor.c and   *)
(* its worker processes (worker.c).  Path k is the k-th line of the file   *)
(* of paths.  Worker w reads the FIFO /tmp/pipe<w+1>, which is FIFOS[w] of *)
(* the parent, whose loops count workers from 0: its i is w - 1.  The      *)
(* indexing of the paths is commented out in worker.c, and no one sends    *)
(* SIGIO any more: a worker reads paths and drops them.                    *)
(*                                                                         *)
(* The engine's input and output are the two pipes to the crawler          *)
(* (mycrawler.c:149-161); what the crawler does is in module SearchEngine.  *)
(* The engine never sees the end of its input, since it inherits the       *)
(* writing end of the pipe it reads.                                       *)
(***************************************************************************)
EXTENDS Integers, Sequences

CONSTANTS
  NumWorkers,   \* -w
  MaxPaths,     \* a bound on the lines of the file of paths
  Capacity,     \* how many messages a FIFO holds
  Fit           \* how many messages, taken to be of one length, fill `str'

ASSUME EngineAssumption ==
  /\ NumWorkers \in Nat \ {0}
  /\ MaxPaths \in Nat
  /\ Capacity \in Nat \ {0}
  /\ Fit \in Nat \ {0}

VARIABLES
  pathsfile,  \* how many lines the file of paths has
  numOfPaths,
  jpc,        \* where the parent is
  i, j,       \* the counters of its loops
  P,          \* the path its list pointer is at
  fifo,       \* the FIFO of each worker, the oldest message first
  sent,       \* what the parent has tried to write to each worker, in order
  wpc,        \* where each worker is
  got,        \* the messages each worker has looked at
  terminated, \* the workers to which SIGTERM has been sent
  input, output \* the lines in the pipes to the engine and from it

pipes == <<input, output>>
parentVars == <<numOfPaths, jpc, i, j, P>>
workerVars == <<wpc, got>>
engineVars == <<pathsfile, parentVars, fifo, sent, workerVars, terminated, pipes>>

Workers == 1 .. NumWorkers
Stop == 0      \* the message "stop"
Messages == 0 .. MaxPaths
Lines == {"/search", "/exit", "text"}

JobTypeOK ==
  /\ {pathsfile, numOfPaths} \subseteq 0 .. MaxPaths
  /\ jpc \in {"none", "load", "fork", "share", "stop", "command", "kill", "done", "crashed", "failed"}
  /\ i \in 0 .. NumWorkers - 1
  /\ j \in 0 .. MaxPaths + NumWorkers
  /\ P \in 1 .. MaxPaths + 1
  /\ fifo \in [Workers -> Seq(Messages)]
  /\ sent \in [Workers -> Seq(Messages)]
  /\ wpc \in [Workers -> {"none", "paths", "handlers", "pause", "killed", "crashed"}]
  /\ got \in [Workers -> SUBSET Messages]
  /\ terminated \subseteq Workers
  /\ input \in Seq(Lines) /\ output \in Seq({"answer"})

EngineInit ==
  /\ pathsfile = MaxPaths /\ numOfPaths = 0   \* the file of an earlier crawl
  /\ jpc = "none" /\ i = 0 /\ j = 0 /\ P = 1
  /\ fifo = [w \in Workers |-> <<>>]
  /\ sent = fifo
  /\ wpc = [w \in Workers |-> "none"]
  /\ got = [w \in Workers |-> {}]
  /\ terminated = {}
  /\ input = <<>> /\ output = <<>>

------------------------------------------------------------------------------
(* The parent.                                                             *)

\* One turn of a loop over the workers, and where the parent goes after it.
EachWorker(at, next) ==
  /\ jpc = at
  /\ i' = IF i + 1 = NumWorkers THEN 0 ELSE i + 1
  /\ jpc' = IF i + 1 = NumWorkers THEN next ELSE at

\* getFileOfPaths: a file that is not there has no paths.
LoadPaths ==
  /\ jpc = "load" /\ jpc' = "fork"
  /\ numOfPaths' = pathsfile
  /\ UNCHANGED <<pathsfile, i, j, P, fifo, sent, workerVars, terminated, pipes>>

Fork ==
  /\ EachWorker("fork", "share")
  /\ wpc' = [wpc EXCEPT ![i + 1] = "paths"]
  /\ UNCHANGED <<pathsfile, numOfPaths, j, P, fifo, sent, got, terminated, pipes>>

\* The workers that are there already are left behind.
ForkFails ==
  /\ jpc = "fork" /\ jpc' = "failed"
  /\ UNCHANGED <<pathsfile, numOfPaths, i, j, P, fifo, sent, workerVars, terminated, pipes>>

\* A write that does not block: it fails if the FIFO is full, and that is all.
\* What is sent is followed up to MaxPaths + 1 messages.
Write(w, message) ==
  LET to(f) == [f EXCEPT ![w] = Append(@, message)]
  IN  /\ sent' = IF w \in Workers /\ Len(sent[w]) <= MaxPaths THEN to(sent) ELSE sent
      /\ fifo' = IF w \in Workers /\ Len(fifo[w]) < Capacity THEN to(fifo) ELSE fifo

\* Mutant of Advance: `j = j + i' for `j = j + i - 1'.
AdvanceTooFar ==
  LET last  == P = numOfPaths
      round == last \/ i + 1 = NumWorkers
  IN  /\ P' = IF last THEN P ELSE P + 1
      /\ i' = IF round THEN 0 ELSE i + 1
      /\ j' = IF round THEN j + NumWorkers + 1 ELSE j

\* Mutant of Advance: the i that `j = j + i - 1' adds is the inner loop's.
AdvanceByInner ==
  LET last  == P = numOfPaths
      turns == IF last THEN i ELSE i + 1
      round == last \/ turns = NumWorkers
  IN  /\ P' = IF last THEN P ELSE P + 1
      /\ i' = IF round THEN 0 ELSE turns
      /\ j' = IF round THEN j + turns ELSE j

\* One turn of the inner loop, which ends with the last worker, or with break
\* at the last path, where P stays.  The i of `j = j + i - 1' is the outer
\* one, which the loop of the forks has left at numWorkers; then `j++'.
Advance ==
  LET last  == P = numOfPaths
      round == last \/ i + 1 = NumWorkers
  IN  /\ P' = IF last THEN P ELSE P + 1
      /\ i' = IF round THEN 0 ELSE i + 1
      /\ j' = IF round THEN j + NumWorkers ELSE j

\* Mutant of Share: FIFOS[i] for FIFOS[i + 1].
ShareBesides ==
  /\ jpc = "share"
  /\ j < numOfPaths
  /\ Write(i, P)
  /\ Advance
  /\ UNCHANGED <<pathsfile, numOfPaths, jpc, workerVars, terminated, pipes>>

Share ==
  /\ jpc = "share"
  /\ j < numOfPaths
  /\ Write(i + 1, P)
  /\ Advance
  /\ UNCHANGED <<pathsfile, numOfPaths, jpc, workerVars, terminated, pipes>>

ShareEnds ==
  /\ jpc = "share" /\ jpc' = "stop"
  /\ j >= numOfPaths
  /\ UNCHANGED <<pathsfile, numOfPaths, i, j, P, fifo, sent, workerVars, terminated, pipes>>

\* Mutant of SendStop: `i <= numWorkers' ends the loop.
SendStopTooFar ==
  /\ jpc = "stop"
  /\ i' = i + 1
  /\ jpc' = IF i = NumWorkers THEN "command" ELSE "stop"
  /\ Write(i + 1, Stop)
  /\ UNCHANGED <<pathsfile, numOfPaths, j, P, workerVars, terminated, pipes>>

SendStop ==
  /\ EachWorker("stop", "command")
  /\ Write(i + 1, Stop)
  /\ UNCHANGED <<pathsfile, numOfPaths, j, P, workerVars, terminated, pipes>>

\* A search is answered "Search not implemented", other lines are dropped.
Command ==
  /\ jpc = "command"
  /\ input # <<>> /\ input' = Tail(input)
  /\ output' = IF Head(input) = "/search" THEN Append(output, "answer") ELSE output
  /\ jpc' = IF Head(input) = "/exit" THEN "kill" ELSE "command"
  /\ UNCHANGED <<pathsfile, numOfPaths, i, j, P, fifo, sent, workerVars, terminated>>

\* Mutant of KillWorker: the last worker is left out.
KillAllButLast ==
  /\ EachWorker("kill", "done")
  /\ terminated' = IF i + 1 = NumWorkers THEN terminated ELSE terminated \cup {i + 1}
  /\ UNCHANGED <<pathsfile, numOfPaths, j, P, fifo, sent, workerVars, pipes>>

\* With the last worker the FIFOs are unlinked and the paths freed: where
\* the file had no line, the pointer to them was never set.
KillWorker ==
  /\ \/ EachWorker("kill", "done")
     \/ numOfPaths = 0 /\ i + 1 = NumWorkers /\ EachWorker("kill", "crashed")
  /\ terminated' = terminated \cup {i + 1}
  /\ UNCHANGED <<pathsfile, numOfPaths, j, P, fifo, sent, workerVars, pipes>>

ParentStep == LoadPaths \/ Fork \/ Share \/ ShareEnds \/ SendStop \/ Command \/ KillWorker

------------------------------------------------------------------------------
(* The workers.                                                            *)

MoveWorker(w, from, to) == wpc[w] = from /\ wpc' = [wpc EXCEPT ![w] = to]

\* One read takes all that is there and fits; only the first string in it is
\* looked at.
ReadPaths(w) ==
  /\ fifo[w] # <<>>
  /\ LET taken == IF Len(fifo[w]) < Fit THEN Len(fifo[w]) ELSE Fit
     IN  fifo' = [fifo EXCEPT ![w] = SubSeq(@, taken + 1, Len(@))]
  /\ got' = [got EXCEPT ![w] = @ \cup {Head(fifo[w])}]
  /\ MoveWorker(w, "paths", IF Head(fifo[w]) = Stop THEN "handlers" ELSE "paths")
  /\ UNCHANGED <<pathsfile, parentVars, sent, terminated, pipes>>

\* signal(SIGIO), signal(SIGTERM); from here on the worker pauses.
InstallHandlers(w) ==
  /\ MoveWorker(w, "handlers", "pause")
  /\ UNCHANGED <<pathsfile, parentVars, fifo, sent, got, terminated, pipes>>

\* SIGTERM: before the handler is there it kills the worker; the handler
\* calls freeTrie with the null pointer that trieRoot still is.
Terminate(w) ==
  /\ w \in terminated
  /\ \/ MoveWorker(w, "pause", "crashed")
     \/ \E at \in {"paths", "handlers"} : MoveWorker(w, at, "killed")
  /\ UNCHANGED <<pathsfile, parentVars, fifo, sent, got, terminated, pipes>>

WorkerStep(w) == ReadPaths(w) \/ InstallHandlers(w)

EngineNext ==
  \/ ParentStep \/ ForkFails
  \/ \E w \in Workers : WorkerStep(w) \/ Terminate(w)

(* The kernel runs every process and delivers the signals.                 *)
EngineFairness ==
  /\ WF_engineVars(ParentStep)
  /\ \A w \in Workers : WF_engineVars(WorkerStep(w)) /\ WF_engineVars(Terminate(w))

------------------------------------------------------------------------------
(* Properties.                                                             *)

\* The worker whose turn a path is.
TurnOf(p) == ((p - 1) % NumWorkers) + 1

Among(message, s) == \E k \in 1 .. Len(s) : s[k] = message

(* Round robin, although two variables count the paths and the one makes a *)
(* leap for each round of the other: the k-th path a worker is sent is the *)
(* one of its k-th turn, nothing follows "stop", and when sharing is over  *)
(* every path has been sent (jobExecutor.c:177-204).                       *)
SharedInTurn ==
  /\ \A w \in Workers : \A k \in 1 .. Len(sent[w]) :
       IF sent[w][k] = Stop THEN k = Len(sent[w])
                            ELSE sent[w][k] = w + (k - 1) * NumWorkers
  /\ jpc \in {"stop", "command", "kill", "done", "crashed"} =>
       \A p \in 1 .. numOfPaths : Among(p, sent[TurnOf(p)])

\* What makes JobTypeOK inductive.
JobInv ==
  /\ JobTypeOK
  /\ jpc \in {"none", "load", "fork"} => j = 0 /\ P = 1 /\ \A w \in Workers : sent[w] = <<>>
  /\ P = 1 \/ P <= numOfPaths

\* How often it has been every worker's turn: only the last worker's turn ends
\* a round.
Rounds == Len(sent[NumWorkers])

\* What makes SharedInTurn inductive: where the two counters of the loop are.
TurnInv ==
  /\ jpc = "share" =>
       /\ \A w \in Workers : ~Among(Stop, sent[w])
       /\ j < numOfPaths =>
            /\ j = Rounds * NumWorkers /\ P = j + i + 1
            /\ \A w \in Workers : Len(sent[w]) = IF w <= i THEN Rounds + 1 ELSE Rounds
       /\ \A p \in 1 .. numOfPaths : p < P \/ j >= numOfPaths => Among(p, sent[TurnOf(p)])
  /\ jpc = "stop" => \A w \in Workers : w > i => ~Among(Stop, sent[w])
  /\ SharedInTurn

(* As many workers as there are paths look at one, though a worker that is *)
(* slow loses what comes in one read with another message, unless /exit    *)
(* comes first (jobExecutor.c:177-195, worker.c:287-299).                  *)
FirstPathArrives ==
  \A w \in Workers :
    jpc = "share" /\ w <= numOfPaths ~> w \in got[w] \/ wpc[w] = "killed"
==============================================================================
