------------------------------- MODULE Crawler -------------------------------
(***************************************************************************)
(* The crawler: main of mycrawler.c, with its command port, and the        *)
(* crawling threads of crawlThread.c, which share two lists of pages       *)
(* (list.c) under listToAddLock and two counters under statsLock.          *)
(*                                                                         *)
(* A list is a sequence with its newest page first.  The web server, and   *)
(* the search engine that SEARCH starts (ergasia2), are the environment:   *)
(* the server answers a request with the page or with 404 or 403, the      *)
(* connection fails, or the rest of the answer never comes; the engine may *)
(* answer a search or never do.                                            *)
(***************************************************************************)
EXTENDS Integers, Sequences, FiniteSets

CONSTANTS
  Threads,      \* the crawling threads
  Main,         \* the main thread
  Nobody,       \* the owner of a free mutex
  Pages,        \* the addresses that occur in links
  NoPage,       \* the page of a thread that has none
  Start,        \* starting_URL
  Found,        \* the pages the server answers with 200
  Links,        \* Links[p]: the links of page p, in the order of its lines
  Bytes,        \* Bytes[p]: the size of page p
  MaxCommands   \* a bound on the commands that are followed

ASSUME CrawlerThreads ==
  /\ IsFiniteSet(Threads)
  /\ Main \notin Threads
  /\ Nobody \notin Threads \cup {Main}

ASSUME WebAssumption ==
  /\ IsFiniteSet(Pages)
  /\ NoPage \notin Pages
  /\ Start \in Pages
  /\ Found \subseteq Pages
  /\ Links \in [Pages -> Seq(Pages)]
  /\ Bytes \in [Pages -> Nat]

ASSUME MaxCommandsAssumption == MaxCommands \in Nat

VARIABLES
  pagesToAdd,        \* the pages to fetch
  pagesAdded,        \* the pages some thread has taken
  workers,           \* how many threads are at work on a page
  listLock,          \* the owner of listToAddLock
  pagesDownloaded,
  bytesDownloaded,
  tpc,               \* where each thread is
  page,              \* the page it is at work on
  todo,              \* the links of that page it has not looked at yet
  saved,             \* the pages written under save_dir
  mpc,               \* where the main thread is
  command,           \* the command it serves
  commands,          \* how many commands it has accepted
  ready,             \* has it found the crawl finished?
  engine,            \* the search engine: none, started, or told to exit
  cancelled,         \* the threads for which pthread_cancel has been called
  status             \* the process: running, or how it ended

lists == <<pagesToAdd, pagesAdded>>
stats == <<pagesDownloaded, bytesDownloaded>>
threadVars == <<tpc, page, todo>>
mainVars == <<mpc, command, commands, ready, engine, cancelled>>
vars == <<lists, workers, listLock, stats, threadVars, saved, mainVars, status>>

Commands == {"STATS", "SEARCH", "SHUTDOWN", "other", "hangup"}

MainLabels == {"boot", "sockets", "accept", "read", "searchlock", "searchcheck", "ask",
               "bye", "cancel", "free", "freeadded"}

ThreadLabels == {"unborn", "lock", "check", "waiting", "take", "unlock", "get", "hung",
                 "count", "save", "link", "linkadd", "done", "died", "diedholding"}

CrawlerTypeOK ==
  /\ pagesToAdd \in Seq(Pages)
  /\ pagesAdded \in Seq(Pages)
  /\ workers \in Nat
  /\ listLock \in Threads \cup {Main, Nobody}
  /\ pagesDownloaded \in Nat
  /\ bytesDownloaded \in Nat
  /\ tpc \in [Threads -> ThreadLabels]
  /\ page \in [Threads -> Pages \cup {NoPage}]
  /\ todo \in [Threads -> Seq(Pages)]
  /\ saved \subseteq Pages
  /\ mpc \in MainLabels
  /\ command \in Commands \cup {"none"}
  /\ commands \in 0 .. MaxCommands
  /\ ready \in BOOLEAN
  /\ engine \in {"none", "started", "told"}
  /\ cancelled \subseteq Threads
  /\ status \in {"running", "success", "failure", "crashed", "unsaved"}

Init ==
  /\ pagesToAdd = <<>>
  /\ pagesAdded = <<>>
  /\ workers = 0
  /\ listLock = Nobody
  /\ pagesDownloaded = 0
  /\ bytesDownloaded = 0
  /\ tpc = [t \in Threads |-> "unborn"]
  /\ page = [t \in Threads |-> NoPage]
  /\ todo = [t \in Threads |-> <<>>]
  /\ saved = {}
  /\ mpc = "boot"
  /\ command = "none"
  /\ commands = 0
  /\ ready = FALSE
  /\ engine = "none"
  /\ cancelled = {}
  /\ status = "running"

------------------------------------------------------------------------------
(* list.c                                                                  *)

list_add(l, p) == <<p>> \o l

list_empty(l) == l = <<>>

list_check(l, p) == \E i \in 1 .. Len(l) : l[i] = p

------------------------------------------------------------------------------
(* The crawling threads: threadFun, get, readAnswerFromServer and          *)
(* contentProcessing.                                                      *)

Move(t, from, to) ==
  /\ status = "running"
  /\ tpc[t] = from
  /\ tpc' = [tpc EXCEPT ![t] = to]

AcquireList(p) == listLock = Nobody /\ listLock' = p
ReleaseList == listLock' = Nobody

Exit(how) ==
  /\ status' = how
  /\ UNCHANGED <<lists, workers, listLock, stats, threadVars, saved, mainVars>>

\* Also the end of a pthread_cond_wait.
ThreadLock(t) ==
  /\ Move(t, "lock", "check")
  /\ AcquireList(t)
  /\ UNCHANGED <<lists, workers, stats, page, todo, saved, mainVars, status>>

ThreadWait(t) ==
  /\ Move(t, "check", "waiting")
  /\ list_empty(pagesToAdd)
  /\ ReleaseList
  /\ UNCHANGED <<lists, workers, stats, page, todo, saved, mainVars, status>>

\* Mutant of ThreadSees: the list is not looked at.
ThreadSeesNothing(t) ==
  /\ Move(t, "check", "take")
  /\ UNCHANGED <<lists, workers, listLock, stats, page, todo, saved, mainVars, status>>

ThreadSees(t) ==
  /\ Move(t, "check", "take")
  /\ ~list_empty(pagesToAdd)
  /\ UNCHANGED <<lists, workers, listLock, stats, page, todo, saved, mainVars, status>>

\* Mutant of ThreadTake: the worker is not counted.
ThreadTakeUncounted(t) ==
  /\ Move(t, "take", "unlock")
  /\ ~list_empty(pagesToAdd)
  /\ page' = [page EXCEPT ![t] = Head(pagesToAdd)]
  /\ pagesToAdd' = Tail(pagesToAdd)
  /\ pagesAdded' = list_add(pagesAdded, Head(pagesToAdd))
  /\ UNCHANGED <<workers, listLock, stats, todo, saved, mainVars, status>>

\* list_rem, list_add, workers++.
ThreadTake(t) ==
  /\ Move(t, "take", "unlock")
  /\ ~list_empty(pagesToAdd)
  /\ page' = [page EXCEPT ![t] = Head(pagesToAdd)]
  /\ pagesToAdd' = Tail(pagesToAdd)
  /\ pagesAdded' = list_add(pagesAdded, Head(pagesToAdd))
  /\ workers' = workers + 1
  /\ UNCHANGED <<listLock, stats, todo, saved, mainVars, status>>

\* list_rem follows a null pointer if the list has been emptied in between.
TakeCrashes(t) ==
  /\ status = "running"
  /\ tpc[t] = "take"
  /\ list_empty(pagesToAdd)
  /\ Exit("crashed")

\* Mutant of ThreadUnlock: the mutex stays locked.
ThreadNoUnlock(t) ==
  /\ Move(t, "unlock", "get")
  /\ UNCHANGED <<lists, workers, listLock, stats, page, todo, saved, mainVars, status>>

ThreadUnlock(t) ==
  /\ Move(t, "unlock", "get")
  /\ ReleaseList
  /\ UNCHANGED <<lists, workers, stats, page, todo, saved, mainVars, status>>

\* The answer is 200, and the whole page has come.
GetFound(t) ==
  /\ Move(t, "get", "count")
  /\ t \notin cancelled
  /\ page[t] \in Found
  /\ UNCHANGED <<lists, workers, listLock, stats, page, todo, saved, mainVars, status>>

\* Mutant of GetNotFound: the worker is not counted off.
GetNotFoundAndForget(t) ==
  /\ Move(t, "get", "lock")
  /\ t \notin cancelled
  /\ page[t] \notin Found
  /\ page' = [page EXCEPT ![t] = NoPage]
  /\ UNCHANGED <<lists, workers, listLock, stats, todo, saved, mainVars, status>>

\* The answer is 404 or 403: its text is printed.
GetNotFound(t) ==
  /\ Move(t, "get", "done")
  /\ t \notin cancelled
  /\ page[t] \notin Found
  /\ UNCHANGED <<lists, workers, listLock, stats, page, todo, saved, mainVars, status>>

\* A failure to connect or to write, a reset while the page is read, and an
\* answer that is too short or has another status end the crawler.
GetFails(t) ==
  /\ status = "running"
  /\ tpc[t] = "get"
  /\ t \notin cancelled
  /\ Exit("failure")

\* The server says no more, or closes or dies in its answer: inputStringFd and
\* socket_read take the end of file for nothing yet, and read again for ever.
\* inputStringFd does so after an error too.
GetHangs(t) ==
  /\ Move(t, "get", "hung")
  /\ t \notin cancelled
  /\ UNCHANGED <<lists, workers, listLock, stats, page, todo, saved, mainVars, status>>

\* Both counters, under statsLock, which is held for nothing else.
Count(t) ==
  /\ Move(t, "count", "save")
  /\ pagesDownloaded' = pagesDownloaded + 1
  /\ bytesDownloaded' = bytesDownloaded + Bytes[page[t]]
  /\ UNCHANGED <<lists, workers, listLock, page, todo, saved, mainVars, status>>

\* Mutant of Save: the last link is missed.
SaveDropsLast(t) ==
  /\ Move(t, "save", "link")
  /\ saved' = saved \cup {page[t]}
  /\ todo' = [todo EXCEPT ![t] = SubSeq(Links[page[t]], 1, Len(Links[page[t]]) - 1)]
  /\ UNCHANGED <<lists, workers, listLock, stats, page, mainVars, status>>

\* contentProcessing: the file is written, then its lines are searched.
Save(t) ==
  /\ Move(t, "save", "link")
  /\ saved' = saved \cup {page[t]}
  /\ todo' = [todo EXCEPT ![t] = Links[page[t]]]
  /\ UNCHANGED <<lists, workers, listLock, stats, page, mainVars, status>>

\* fopen fails, and fprintf follows its null pointer.
SaveFails(t) ==
  /\ status = "running"
  /\ tpc[t] = "save"
  /\ Exit("unsaved")

LinkLock(t) ==
  /\ Move(t, "link", "linkadd")
  /\ todo[t] # <<>>
  /\ AcquireList(t)
  /\ UNCHANGED <<lists, workers, stats, page, todo, saved, mainVars, status>>

\* The last line has been looked at, and get closes the connection.
LastLink(t) ==
  /\ Move(t, "link", "done")
  /\ todo[t] = <<>>
  /\ UNCHANGED <<lists, workers, listLock, stats, page, todo, saved, mainVars, status>>

Waiters == {t \in Threads : tpc[t] = "waiting"}

\* Mutant of Known: the list of pages to fetch is not looked through.
KnownIfAdded(p) == list_check(pagesAdded, p)

Known(p) == list_check(pagesAdded, p) \/ list_check(pagesToAdd, p)

\* Mutant of Signal: nobody is woken.
NoSignal(there) == tpc' = there

\* pthread_cond_signal(&cond_listnonempty), by a thread whose move is `there'.
Signal(there) ==
  \/ Waiters = {} /\ tpc' = there
  \/ \E u \in Waiters : tpc' = [there EXCEPT ![u] = "lock"]

\* Up to the unlock.
AddLink(t) ==
  /\ status = "running"
  /\ tpc[t] = "linkadd"
  /\ LET link == Head(todo[t])
         there == [tpc EXCEPT ![t] = "link"]
     IN  \/ /\ Known(link)
            /\ tpc' = there
            /\ UNCHANGED pagesToAdd
         \/ /\ ~Known(link)
            /\ pagesToAdd' = list_add(pagesToAdd, link)
            /\ Signal(there)
  /\ todo' = [todo EXCEPT ![t] = Tail(@)]
  /\ ReleaseList
  /\ UNCHANGED <<pagesAdded, workers, stats, page, saved, mainVars, status>>

\* The main thread is freeing the lists without the lock.
Freeing == mpc \in {"free", "freeadded"}

\* A thread walks an element that is being freed, takes one at the same time
\* as the main thread, or uses the address of its page, which is freed too:
\* where that does not end the process it is not followed.
UseAfterFree(t) ==
  /\ status = "running"
  /\ Freeing
  /\ tpc[t] \in {"check", "take", "unlock", "get", "save", "linkadd"}
  /\ Exit("crashed")

\* workers--, under the lock.
Done(t) ==
  /\ Move(t, "done", "lock")
  /\ listLock = Nobody
  /\ workers' = workers - 1
  /\ page' = [page EXCEPT ![t] = NoPage]
  /\ UNCHANGED <<lists, listLock, stats, todo, saved, mainVars, status>>

SpuriousWake(t) ==
  /\ Move(t, "waiting", "lock")
  /\ UNCHANGED <<lists, workers, listLock, stats, page, todo, saved, mainVars, status>>

\* Cancellation is deferred to the calls that may block: the reads of get,
\* beyond which a cancelled thread does not come, those on the file that is
\* saved, close, and the printf inside the critical section,
Cancelled(t) ==
  /\ t \in cancelled
  /\ \/ \E at \in {"get", "hung", "save", "done"} : Move(t, at, "died")
     \/ Move(t, "unlock", "diedholding")
  /\ UNCHANGED <<lists, workers, listLock, stats, page, todo, saved, mainVars, status>>

\* and pthread_cond_wait, which takes the mutex before the thread ends.
CancelledInWait(t) ==
  /\ t \in cancelled
  /\ Move(t, "waiting", "diedholding")
  /\ AcquireList(t)
  /\ UNCHANGED <<lists, workers, stats, page, todo, saved, mainVars, status>>

ThreadStep(t) ==
  \/ ThreadLock(t) \/ ThreadWait(t) \/ ThreadSees(t) \/ ThreadTake(t) \/ TakeCrashes(t)
  \/ ThreadUnlock(t) \/ GetFound(t) \/ GetNotFound(t)
  \/ Count(t) \/ Save(t) \/ LinkLock(t) \/ AddLink(t) \/ LastLink(t) \/ Done(t)

ThreadFails(t) == GetFails(t) \/ GetHangs(t) \/ SaveFails(t)

------------------------------------------------------------------------------
(* The main thread.                                                        *)

MoveMain(from, to) ==
  /\ status = "running"
  /\ mpc = from
  /\ mpc' = to

\* The starting URL is listed and the threads are created,
Boot ==
  /\ MoveMain("boot", "sockets")
  /\ pagesToAdd' = list_add(pagesToAdd, Start)
  /\ tpc' = [t \in Threads |-> "lock"]
  /\ UNCHANGED <<pagesAdded, workers, listLock, stats, page, todo, saved, command, commands,
                 ready, engine, cancelled, status>>

\* before the command port is opened.
OpenPort ==
  /\ MoveMain("sockets", "accept")
  /\ UNCHANGED <<lists, workers, listLock, stats, threadVars, saved, command, commands,
                 ready, engine, cancelled, status>>

\* A call on the command port fails, or the client that is answered has gone
\* and the write ends the process (SIGPIPE).  In `accept' the answer to the
\* command before may still be on its way; SHUTDOWN is answered in `bye'.
MainFails ==
  /\ status = "running"
  /\ mpc \in {"sockets", "accept", "bye"}
  /\ Exit("failure")

AcceptCommand(c) ==
  /\ MoveMain("accept", "read")
  /\ commands < MaxCommands
  /\ command' = c
  /\ commands' = commands + 1
  /\ UNCHANGED <<lists, workers, listLock, stats, threadVars, saved, ready, engine,
                 cancelled, status>>

\* The whole line has come: with a hangup it never does.  The answers to
\* STATS and to an unknown command change nothing here.
ReadCommand ==
  /\ \/ command \in {"STATS", "other"} /\ MoveMain("read", "accept")
     \/ command = "SEARCH" /\ MoveMain("read", IF ready THEN "ask" ELSE "searchlock")
     \/ command = "SHUTDOWN" /\ MoveMain("read", "bye")
  /\ UNCHANGED <<lists, workers, listLock, stats, threadVars, saved, command, commands,
                 ready, engine, cancelled, status>>

SearchLock ==
  /\ MoveMain("searchlock", "searchcheck")
  /\ AcquireList(Main)
  /\ UNCHANGED <<lists, workers, stats, threadVars, saved, command, commands, ready, engine,
                 cancelled, status>>

\* Mutant of SearchFinished: the pages being fetched are not asked about.
SearchFinishedNoWorkers ==
  /\ MoveMain("searchcheck", "ask")
  /\ list_empty(pagesToAdd)
  /\ ready' = TRUE
  /\ engine' = "started"
  /\ ReleaseList
  /\ UNCHANGED <<lists, workers, stats, threadVars, saved, command, commands, cancelled,
                 status>>

\* bashls is run to its end and jobExecutor is started, up to the unlock.
SearchFinished ==
  /\ MoveMain("searchcheck", "ask")
  /\ workers = 0 /\ list_empty(pagesToAdd)
  /\ ready' = TRUE
  /\ engine' = "started"
  /\ ReleaseList
  /\ UNCHANGED <<lists, workers, stats, threadVars, saved, command, commands, cancelled,
                 status>>

SearchInProgress ==
  /\ MoveMain("searchcheck", "accept")
  /\ ~(workers = 0 /\ list_empty(pagesToAdd))
  /\ ReleaseList
  /\ UNCHANGED <<lists, workers, stats, threadVars, saved, command, commands, ready, engine,
                 cancelled, status>>

\* The engine's answer is read from the pipe and passed on.
Answered ==
  /\ MoveMain("ask", "accept")
  /\ UNCHANGED <<lists, workers, listLock, stats, threadVars, saved, command, commands,
                 ready, engine, cancelled, status>>

Bye ==
  /\ MoveMain("bye", "cancel")
  /\ engine' = IF ready THEN "told" ELSE engine
  /\ UNCHANGED <<lists, workers, listLock, stats, threadVars, saved, command, commands,
                 ready, cancelled, status>>

Cancel(t) ==
  /\ MoveMain("cancel", "cancel")
  /\ t \notin cancelled
  /\ cancelled' = cancelled \cup {t}
  /\ UNCHANGED <<lists, workers, listLock, stats, threadVars, saved, command, commands,
                 ready, engine, status>>

\* Mutant of AllCancelled: the threads are joined first.
AllJoined ==
  /\ MoveMain("cancel", "free")
  /\ cancelled = Threads
  /\ \A t \in Threads : tpc[t] \in {"died", "diedholding"}
  /\ UNCHANGED <<lists, workers, listLock, stats, threadVars, saved, command, commands,
                 ready, engine, cancelled, status>>

AllCancelled ==
  /\ MoveMain("cancel", "free")
  /\ cancelled = Threads
  /\ UNCHANGED <<lists, workers, listLock, stats, threadVars, saved, command, commands,
                 ready, engine, cancelled, status>>

\* pagesToAdd is emptied first; what is added to it later stays.
FreeToAdd ==
  /\ IF list_empty(pagesToAdd)
     THEN MoveMain("free", "freeadded") /\ UNCHANGED pagesToAdd
     ELSE MoveMain("free", "free") /\ pagesToAdd' = Tail(pagesToAdd)
  /\ UNCHANGED <<pagesAdded, workers, listLock, stats, threadVars, saved, command, commands,
                 ready, engine, cancelled, status>>

FreeAdded ==
  /\ MoveMain("freeadded", "freeadded")
  /\ ~list_empty(pagesAdded)
  /\ pagesAdded' = Tail(pagesAdded)
  /\ UNCHANGED <<pagesToAdd, workers, listLock, stats, threadVars, saved, command, commands,
                 ready, engine, cancelled, status>>

End ==
  /\ status = "running"
  /\ mpc = "freeadded"
  /\ list_empty(pagesAdded)
  /\ Exit("success")

MainStep ==
  \/ Boot \/ OpenPort \/ ReadCommand
  \/ SearchLock \/ SearchFinished \/ SearchInProgress
  \/ Bye \/ (\E t \in Threads : Cancel(t)) \/ AllCancelled
  \/ FreeToAdd \/ FreeAdded \/ End

------------------------------------------------------------------------------
Next ==
  \/ MainStep \/ MainFails \/ Answered
  \/ \E c \in Commands : AcceptCommand(c)
  \/ \E t \in Threads :
       \/ ThreadStep(t) \/ ThreadFails(t) \/ UseAfterFree(t)
       \/ SpuriousWake(t) \/ Cancelled(t) \/ CancelledInWait(t)

Spec == Init /\ [][Next]_vars

(* The kernel runs the threads, so that a request is answered, fails or    *)
(* hangs.  Spurious wakeups do not go on for ever.  Nothing is assumed of  *)
(* the web server, of failures, of the command port's clients or of the    *)
(* search engine.                                                          *)
Fairness ==
  /\ <>[][\A t \in Threads : ~SpuriousWake(t)]_vars
  /\ WF_vars(MainStep)
  /\ \A t \in Threads : WF_vars(ThreadStep(t))

FairSpec == Spec /\ Fairness

------------------------------------------------------------------------------
(* Properties.                                                             *)

\* From here on the lists are being freed, or the process has ended.
Up == status = "running" /\ ~Freeing

\* The crawl has come to its end.
Finished == workers = 0 /\ list_empty(pagesToAdd)

\* The threads that wait for ever for the rest of an answer.
Hung == {t \in Threads : tpc[t] = "hung"}

\* The crawl has come to its end but for their pages.
FinishedButHung == workers = Cardinality(Hung) /\ list_empty(pagesToAdd)

\* The threads that are on their way to look at the list.
Heading == {t \in Threads : tpc[t] \in {"lock", "check", "take"}}

\* The threads that have taken a page and are not done with it.
AtWork == {t \in Threads : page[t] # NoPage}

\* What a served page links to, and the pages that can be reached.
Targets == [p \in Pages |-> IF p \in Found THEN {Links[p][i] : i \in DOMAIN Links[p]} ELSE {}]

Reachable ==
  {p \in Pages :
     \A S \in SUBSET Pages : Start \in S /\ (\A q \in S : Targets[q] \subseteq S) => p \in S}

(* A page is listed once and taken once, whatever several threads find on  *)
(* different pages at the same time: looking through both lists and adding *)
(* are one critical section (crawlThread.c:73-86, 189-204).                *)
ListedOnce ==
  Up => LET all == pagesToAdd \o pagesAdded
        IN  \A i, j \in 1 .. Len(all) : all[i] = all[j] => i = j

(* `workers' is the number of pages that are being worked on, for those    *)
(* which the list does not tell of (crawlThread.c:197-213,                 *)
(* mycrawler.c:141).                                                       *)
WorkersCounted == workers = Cardinality(AtWork)

\* The parts of a thread's loop in which it has no page, and has one.
Looking == {"unborn", "lock", "check", "waiting", "take"}
Working == {"unlock", "get", "hung", "count", "save", "link", "linkadd", "done"}

\* What makes CrawlerTypeOK and WorkersCounted inductive.
WorkInv ==
  /\ CrawlerTypeOK
  /\ WorkersCounted
  /\ \A t \in Threads :
       /\ tpc[t] \in Looking => page[t] = NoPage
       /\ tpc[t] \in Working => page[t] # NoPage
       /\ tpc[t] = "linkadd" => todo[t] # <<>>
  /\ mpc = "boot" => \A t \in Threads : tpc[t] = "unborn"

\* Where a thread is between its lock and its unlock of listToAddLock.
Inside == {"check", "take", "unlock", "linkadd", "diedholding"}

\* Mutual exclusion on listToAddLock, before the lists are freed without it:
\* an invariant by itself, on which the other invariants rest.
LockInv ==
  /\ \A t \in Threads : listLock = t <=> tpc[t] \in Inside
  /\ listLock = Main <=> mpc = "searchcheck"

\* What makes ListedOnce inductive.
Distinct(l) == \A i, j \in 1 .. Len(l) : l[i] = l[j] => i = j

ListInv ==
  Up => /\ Distinct(pagesToAdd) /\ Distinct(pagesAdded)
        /\ \A p \in Pages : ~(list_check(pagesAdded, p) /\ list_check(pagesToAdd, p))
        /\ mpc = "boot" => pagesToAdd = <<>> /\ pagesAdded = <<>>

(* While a thread sleeps there are threads on their way for all the listed *)
(* pages: no wakeup is lost though several links are found between two     *)
(* looks at the list (crawlThread.c:80-81, 193-197).                       *)
NoLostWakeup == Up /\ Waiters # {} => Len(pagesToAdd) <= Cardinality(Heading)

(* No thread takes from an empty list while the crawl goes on: a thread    *)
(* that is woken looks again (crawlThread.c:193-197, list.c:13-19).        *)
NoCrashWhileCrawling == status = "crashed" => Freeing

\* What makes NoCrashWhileCrawling inductive.
TakeInv == Up => \A t \in Threads : tpc[t] = "take" => pagesToAdd # <<>>

\* The threads and the lists agree: a thread has a page of its own, that has
\* been taken; what it has still to look at, and what it has looked at, are
\* the links of its page.
PageInv ==
  /\ \A t \in Threads : page[t] # NoPage => list_check(pagesAdded, page[t])
  /\ \A t, u \in Threads : page[t] = page[u] /\ page[t] # NoPage => t = u

LinkInv ==
  \A t \in Threads :
    /\ tpc[t] \in {"count", "save", "link", "linkadd"} => page[t] \in Found
    /\ tpc[t] \in {"link", "linkadd"} =>
         /\ \A i \in 1 .. Len(todo[t]) : todo[t][i] \in Targets[page[t]]
         /\ \A q \in Targets[page[t]] : Known(q) \/ list_check(todo[t], q)
    /\ tpc[t] = "done" => \A q \in Targets[page[t]] : Known(q)

\* What makes ImplementsCrawl provable.
CrawlInv == Up => PageInv /\ LinkInv

\* The pages that have been taken are those that can be reached, but for the
\* links of the pages at work,
ReachInv ==
  /\ mpc # "boot" => Known(Start)
  /\ \A p \in Pages : Known(p) => p \in Reachable
  /\ \A p \in Pages :
       list_check(pagesAdded, p) =>
         (\E t \in Threads : page[t] = p) \/ (\A q \in Targets[p] : Known(q))

\* and those among them that exist are saved, but for the pages at work.
SavedInv ==
  /\ \A p \in saved : p \in Found /\ list_check(pagesAdded, p)
  /\ \A t \in Threads :
       page[t] \in saved => tpc[t] \notin {"unlock", "get", "hung", "count", "save"}
  /\ \A p \in Found :
       list_check(pagesAdded, p) =>
         \/ p \in saved
         \/ \E t \in Threads : page[t] = p /\ tpc[t] \notin {"link", "linkadd", "done"}

\* The threads whose page is counted and not saved.
Saving == {t \in Threads : tpc[t] = "save"}

Counted == pagesDownloaded = Cardinality(saved) + Cardinality(Saving)

CountInv ==
  /\ ready => Finished /\ mpc # "boot"
  /\ cancelled # {} => mpc = "cancel"
  /\ cancelled = {} \/ ready => Counted

\* What makes ReadyMeansFinished inductive.
ReadyInv == Up => ReachInv /\ SavedInv /\ CountInv

(* When the main thread finds the crawl finished, it is: every page that   *)
(* can be reached has been taken, those that exist are saved and counted,  *)
(* and no others are (mycrawler.c:141-143, crawlThread.c:50-143).          *)
ReadyMeansFinished ==
  ready /\ Up =>
    /\ {pagesAdded[i] : i \in 1 .. Len(pagesAdded)} = Reachable
    /\ saved = Reachable \cap Found
    /\ pagesDownloaded = Cardinality(saved)

PageState(p) ==
  IF ~Up THEN "unknown"
  ELSE IF \E t \in Threads : page[t] = p THEN "taken"
  ELSE IF list_check(pagesAdded, p) THEN "done"
  ELSE IF list_check(pagesToAdd, p) THEN "listed"
  ELSE "unknown"

CrawlState == [p \in Pages |-> PageState(p)]

Crawl == INSTANCE Crawl WITH up <- Up, state <- CrawlState

(* Page by page, the crawl is as module Crawl has it: listed when a page   *)
(* being fetched links to it, taken once, done when all its links are      *)
(* known (crawlThread.c:50-91, 185-217).                                   *)
ImplementsCrawl == Crawl!Spec

\* The main thread is ending the process, or it has ended.
Stopping == mpc \in {"bye", "cancel"} \/ Freeing \/ status # "running"

(* The crawl ends, whatever commands come in the meantime, and a thread    *)
(* whose answer never comes holds up no page but its own: the others go on *)
(* to the end, unless every thread is stuck in that way                    *)
(* (crawlThread.c:185-217, mycrawler.c:134-167, auxFun.c:38, 94-102).      *)
CrawlEnds == mpc = "sockets" ~> FinishedButHung \/ Hung = Threads \/ Stopping

(* SHUTDOWN ends the process, though its threads go on while the lists are *)
(* freed (mycrawler.c:178-210).                                            *)
ShutdownEnds == mpc = "bye" ~> status # "running"

(* The lists are freed when the threads have ended: `join threads'         *)
(* (mycrawler.c:197).                                                      *)
FreedWhenUnused ==
  Freeing => \A t \in Threads : tpc[t] \in {"died", "diedholding"}
==============================================================================
