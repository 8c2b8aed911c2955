----------------------------- MODULE SearchEngine -----------------------------
(***************************************************************************)
(* Both sides of a search: the crawler's main thread from the first SEARCH *)
(* that finds the crawl finished (mycrawler.c:118-194), the script bashls  *)
(* that lists what has been saved, and the engine it then starts, with its *)
(* workers.  The crawl itself is module Crawler; here it ends at some      *)
(* point.  No process closes its copies of both ends of the pipes, so that *)
(* none sees another's end.                                                *)
(***************************************************************************)
EXTENDS JobExecutor

CONSTANTS
  MaxCommands,  \* a bound on the commands the crawler is sent
  MaxText       \* how many lines of text the crawl leaves in its stdout

ASSUME SearchAssumption == MaxCommands \in Nat /\ MaxText \in Nat

VARIABLES
  saved,     \* how many directories the crawl has saved
  crawled,   \* whether the end-of-crawl test succeeds
  xpc,       \* where the crawler's main thread is
  lpc,       \* where bashls is
  ready,
  buffered,  \* the lines in the buffer of its stdout
  commands   \* how many commands have come

crawlerVars == <<xpc, ready, buffered, commands>>
vars == <<engineVars, saved, crawled, lpc, crawlerVars>>

Init ==
  /\ EngineInit
  /\ saved \in 0 .. MaxPaths /\ crawled = FALSE
  /\ xpc = "accept" /\ lpc = "none"
  /\ ready = FALSE /\ commands = 0
  /\ buffered = [k \in 1 .. MaxText |-> "text"]

------------------------------------------------------------------------------
(* The crawler's main thread.                                              *)

MoveCrawler(from, to) == xpc = from /\ xpc' = to

\* The last page has been processed: `workers' is 0 and pagesToAdd empty.
CrawlFinishes ==
  /\ ~crawled /\ crawled' = TRUE
  /\ UNCHANGED <<engineVars, saved, lpc, crawlerVars>>

Comes ==
  /\ commands < MaxCommands
  /\ commands' = commands + 1
  /\ UNCHANGED <<engineVars, saved, crawled>>

\* STATS, a command there is not, or a SEARCH while the crawl goes on.
OtherCommand ==
  /\ Comes
  /\ MoveCrawler("accept", "accept")
  /\ UNCHANGED <<lpc, ready, buffered>>

\* The first SEARCH after the end of the crawl, and the fork of bashls, which
\* may fail.
FirstSearch ==
  /\ Comes
  /\ crawled /\ ~ready /\ ready' = TRUE
  /\ buffered' = Append(buffered, "text")
  /\ MoveCrawler("accept", "wait")
  /\ lpc' \in {"remove", "failed"}

\* Mutant of Wait: there is no wait.
NoWait ==
  /\ MoveCrawler("wait", "fork")
  /\ UNCHANGED <<engineVars, saved, crawled, lpc, ready, buffered, commands>>

\* wait(NULL); if there is no child it returns at once.
Wait ==
  /\ lpc \in {"done", "failed"}
  /\ MoveCrawler("wait", "fork")
  /\ UNCHANGED <<engineVars, saved, crawled, lpc, ready, buffered, commands>>

\* The engine is forked; if that fails the pipes are set up all the same.
ForkEngine ==
  /\ MoveCrawler("fork", "ask")
  /\ jpc' \in {"load", "failed"}
  /\ UNCHANGED <<pathsfile, numOfPaths, i, j, P, fifo, sent, workerVars, terminated,
                 pipes, saved, crawled, lpc, ready, buffered, commands>>

LaterSearch ==
  /\ Comes
  /\ ready
  /\ MoveCrawler("accept", "ask")
  /\ UNCHANGED <<lpc, ready, buffered>>

\* printf of a line and fflush: what stdout held goes first.
Printf(line) ==
  /\ input' = input \o buffered \o <<line>>
  /\ buffered' = <<>>
  /\ UNCHANGED <<pathsfile, parentVars, fifo, sent, workerVars, terminated, output,
                 saved, crawled, lpc, ready, commands>>

AskEngine == MoveCrawler("ask", "answer") /\ Printf("/search")

\* Mutant of ReadAnswer: nobody waits for the answer.
ReadNoAnswer ==
  /\ MoveCrawler("answer", "accept")
  /\ UNCHANGED <<engineVars, saved, crawled, lpc, ready, buffered, commands>>

\* One line is read and sent to the client.
ReadAnswer ==
  /\ MoveCrawler("answer", "accept")
  /\ output # <<>> /\ output' = Tail(output)
  /\ UNCHANGED <<pathsfile, parentVars, fifo, sent, workerVars, terminated, input,
                 saved, crawled, lpc, ready, buffered, commands>>

\* SHUTDOWN, which is answered before the engine is told.
Shutdown ==
  /\ Comes
  /\ MoveCrawler("accept", IF ready THEN "exit" ELSE "ended")
  /\ UNCHANGED <<lpc, ready, buffered>>

TellExit == MoveCrawler("exit", "ended") /\ Printf("/exit")

\* The process is killed, for example by SIGPIPE when a client has gone.
CrawlerDies ==
  /\ xpc \notin {"ended", "died"} /\ xpc' = "died"
  /\ UNCHANGED <<engineVars, saved, crawled, lpc, ready, buffered, commands>>

CrawlerStep == Wait \/ ForkEngine \/ AskEngine \/ ReadAnswer \/ TellExit

------------------------------------------------------------------------------
(* bashls: the old file is removed, then there is a line for each entry.   *)

RemoveOld ==
  /\ lpc = "remove" /\ lpc' = "list"
  /\ pathsfile' = 0
  /\ UNCHANGED <<parentVars, fifo, sent, workerVars, terminated, pipes, saved, crawled, crawlerVars>>

ListOne ==
  /\ lpc = "list"
  /\ IF pathsfile < saved THEN pathsfile' = pathsfile + 1 /\ lpc' = lpc
                          ELSE lpc' = "done" /\ UNCHANGED pathsfile
  /\ UNCHANGED <<parentVars, fifo, sent, workerVars, terminated, pipes, saved, crawled, crawlerVars>>

------------------------------------------------------------------------------
Next ==
  \/ CrawlFinishes \/ OtherCommand \/ FirstSearch \/ LaterSearch \/ Shutdown
  \/ CrawlerStep \/ CrawlerDies
  \/ RemoveOld \/ ListOne
  \/ EngineNext /\ UNCHANGED <<saved, crawled, lpc, crawlerVars>>

Spec == Init /\ [][Next]_vars

(* The processes run.  Nothing is assumed of the commands, of the end of   *)
(* the crawl, or of failures.                                              *)
FairSpec ==
  /\ Spec
  /\ EngineFairness
  /\ WF_vars(CrawlerStep) /\ WF_vars(RemoveOld \/ ListOne)

------------------------------------------------------------------------------
(* Properties.                                                             *)

SearchTypeOK ==
  /\ JobTypeOK
  /\ saved \in 0 .. MaxPaths /\ {crawled, ready} \subseteq BOOLEAN
  /\ xpc \in {"accept", "wait", "fork", "ask", "answer", "exit", "ended", "died"}
  /\ lpc \in {"none", "remove", "list", "done", "failed"}
  /\ buffered \in Seq({"text"}) /\ Len(buffered) <= MaxText + 1
  /\ commands \in 0 .. MaxCommands

\* What makes SearchTypeOK inductive.
SearchInv ==
  /\ SearchTypeOK /\ JobInv
  /\ ~ready => Len(buffered) <= MaxText

Searches == {k \in 1 .. Len(input) : input[k] = "/search"}

(* An answer is to the search that waits for it: between the pipes there   *)
(* is one search or answer while the crawler waits, and none else, though  *)
(* other text precedes the first search and the engine may be slow or end  *)
(* (mycrawler.c:149-173, jobExecutor.c:216-230).                           *)
AnswersPaired ==
  xpc # "died" =>
    \/ xpc = "answer" /\ \/ output = <<>> /\ \E k \in Searches : Searches = {k}
                         \/ output = <<"answer">> /\ Searches = {}
    \/ xpc # "answer" /\ output = <<>> /\ Searches = {}

(* The engine shares what the crawl has saved, not a part of the list that *)
(* bashls still writes nor the list of an earlier crawl, unless bashls     *)
(* could not be forked (mycrawler.c:144-155, paths.c:16-79).               *)
ListIsFresh ==
  jpc \notin {"none", "load", "failed"} /\ lpc # "failed" => numOfPaths = saved

\* What makes ListIsFresh inductive: bashls is run once, before the engine.
FreshInv ==
  /\ ~ready => lpc = "none" /\ jpc = "none" /\ xpc \in {"accept", "ended", "died"}
  /\ xpc \in {"wait", "fork"} => jpc = "none"
  /\ xpc = "fork" \/ jpc # "none" => lpc \in {"done", "failed"}
  /\ lpc = "list" => pathsfile <= saved
  /\ lpc = "done" => pathsfile = saved
  /\ ListIsFresh

(* A SEARCH that finds the crawl finished is answered in the end: bashls   *)
(* is reaped, sharing ends, the command loop is reached, whatever is in    *)
(* the buffer and whatever the workers do; it waits for ever when a        *)
(* process could not be forked, as nobody closes the pipe                  *)
(* (mycrawler.c:136-174, jobExecutor.c:177-230).                           *)
SearchReplied ==
  xpc \in {"wait", "ask"} ~> xpc \in {"accept", "exit", "ended", "died"} \/ jpc = "failed"

(* SHUTDOWN ends the engine and all of its workers, wherever SIGTERM finds *)
(* them, although nobody waits for them, unless the answer to it ends the  *)
(* crawler first (mycrawler.c:178-187, jobExecutor.c:230-243,              *)
(* worker.c:70-97).                                                        *)
ShutdownEndsEngine ==
  xpc = "exit" ~> \/ xpc = "died" \/ jpc = "failed"
                  \/ jpc \in {"done", "crashed"} /\ \A w \in Workers : wpc[w] \in {"killed", "crashed"}
==============================================================================
