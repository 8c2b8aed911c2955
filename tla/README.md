# Verification of myhttpd and mycrawler

A TLA+ model of the web server `myhttpd`, of the crawler `mycrawler`, of its search engine, and of what passes between
them, with TLC runs on small instances and TLAPS proofs for all values of the
constants.
Line references are to the sources of the repository.

## 1. The system

| component | state it keeps | operations | interacts with |
|---|---|---|---|
| socket queue (`queue.c`) | ring buffer `embros`, `piso`, `buffer`; `pagesServed`, `bytesReturned` | `Queue_create`, `_push`, `_pop`, `_full`, `_empty`, `_serve`, `_bytes`, `_destroy` | shared by acceptor, serving threads and signal handler under `queueLock`; by the command process through `mmap`, without the lock |
| acceptor and SIGTERM handler (`server.c`) | accepted socket, the threads | `serverProc`, `sig_handler` | pushes on the queue; waits on `cond_nonfull`, signals `cond_nonempty`; the handler runs on the same thread |
| serving threads (`serverThread.c`) | socket and answer being built | `serverThread`, `recv_get`, `getRequest` | pop from the queue; wait on `cond_nonempty`, signal `cond_nonfull`; update the statistics |
| command process (`myhttpd.c`) | the command connection | STATS, SHUTDOWN | reads the statistics; SIGTERM to the serving process, `wait` |
| crawling threads (`crawlThread.c`, `list.c`) | `pagesToAdd`, `pagesAdded`, `workers`, counters | `threadFun`, `get`, `readAnswerFromServer`, `contentProcessing` | lists under `listToAddLock`, counters under `statsLock`; TCP to the server |
| crawler's main thread (`mycrawler.c`) | `ready`, pipes | STATS, SEARCH, SHUTDOWN | reads the lists and `workers`; starts `bashls` and the search engine; cancels the threads |
| input/output helpers (`auxFun.c`) | the line being read | `inputStringFd`, `consumeLines`, `socket_read`, `socket_write` | the two ends of every connection; loops that may not end |
| path list script (`bashls`) | the file of paths | `rm`, one line for each entry | started by the first SEARCH that finds the crawl finished, and waited for |
| search engine, processes (`ergasia2/jobExecutor.c`, `paths.c`, `worker.c`) | paths, counters of the sharing loops, FIFOs to the workers | path sharing, `/search`, `/exit`, SIGTERM | started by SEARCH, through two pipes; one FIFO to each worker |
| search engine, index (`trie.c`, `postinglist.c`, `textmap.c`) | trie, posting lists, lines of a file, counts of each file | reading a file, insertion, search, maxcount, mincount | the loop of `worker.c` that builds it stands in a comment (301-353), the commands that read it are not sent at this commit |
| web creator (`webcreator.sh`), `test.c`, build files | files | sequential scripts, a test program | none at run time |

What is hard here: two condition variables whose signals come after the unlock;
a ring of `num_of_threads` slots that has one place less; a signal handler that
takes a mutex, frees the buffer and cancels threads it does not join; a second
process that reads shared counters without the mutex; deferred cancellation,
also inside a critical section and inside `pthread_cond_wait`; read loops that
never end at end of file; an end-of-crawl test on two pieces of state that
change at different moments; an HTTP exchange that is framed by counting lines,
and closed with a byte unread; a pipe that is made of a stdout with text in its
buffer; messages on FIFOs without framing, and a SIGTERM that may come before
its handler; a trie that is built with flags kept from letter to letter. `PROJECT.json` lists each of these at its line.

What makes each part correct: the queue is FIFO and loses nothing; the server
holds the mutex exactly where the code says, hands every accepted socket to one
thread, loses no wakeup and counts what it sends; a shutdown ends both
processes; the crawler fetches every reachable page once, wakes the threads it
needs and finds the end of the crawl when, and only when, it has come; a page
arrives whole or not at all, and both ends count the same lines and bytes; the
search engine reads the whole list of pages, deals every path to one worker,
gives every search its own answer, and ends with all its workers; a search in
the index finds the lines that have the word, and no others.

## 2. The modules

| module | models | kind |
|---|---|---|
| `BoundedFifo` | what a bounded queue promises | abstract |
| `Queue` | `queue.c` | detailed, implements `BoundedFifo` |
| `ConnectionService` | accepted connections are taken up in order, each once | abstract |
| `Server` | `server.c`, `serverThread.c`; extends `Queue` | detailed, implements `ConnectionService` |
| `Myhttpd` | `myhttpd.c`; extends `Server`, so both processes together | composition |
| `Crawl` | the life of a page: unknown, listed, taken, done | abstract |
| `Crawler` | `mycrawler.c`, `crawlThread.c`, `list.c` | detailed, implements `Crawl` |
| `RequestReply` | a request is answered once, whole or not at all | abstract |
| `HttpExchange` | `crawlThread.c:93-183`, `serverThread.c:32-142`, `auxFun.c`: one exchange, byte by byte | detailed, implements `RequestReply` |
| `JobExecutor` | `jobExecutor.c`, `paths.c`, `worker.c` | detailed, a component without a specification of its own |
| `SearchEngine` | `mycrawler.c:118-194`, `bashls`; extends `JobExecutor` | composition |
| `TrieIndex` | `trie.c`, `postinglist.c`, `textmap.c`, `worker.c:132-227, 301-353` | algorithm, step by step, against a reference |
| `MCServer`, `MCMyhttpd`, `MCCrawler`, `MCHttpExchange`, `MCTrieIndex` | instances for TLC | |
| `ServerProofs`, `ServiceProofs` | theorems about `Queue` and `Server`: the ring buffer, types, locks and wakeups; sockets, statistics and the refinement | proofs |
| `MyhttpdProofs` | theorems about `Myhttpd` | proofs |
| `CrawlerProofs` | theorems about `Crawler`: types, lists, locks and wakeups; the crawl as a whole | proofs |
| `SearchProofs` | theorems about `JobExecutor` and `SearchEngine` | proofs |
| `HttpProofs` | theorems about `HttpExchange` | proofs |
| `TrieProofs`, `IndexProofs` | theorems about `TrieIndex`: the shape of the trie; counts, searches, maxcount and mincount | proofs |

Definitions whose comment says "Mutant of X" are faulty forms of X that the
properties must be able to tell from X; no specification uses them.

### Granularity

An action is what one thread does between two points at which another thread
can act on what it touches. What is done with a mutex held is one step with its
unlock, but where somebody looks without the mutex: the command process may
read the statistics between `Queue_serve` and `Queue_bytes` (hence `Serve` and
`Bytes`), the signal handler may interrupt the main thread between its lock and
its unlock (hence `MainLock` and `MainPush`), and the crawler's main thread
frees the lists without the lock (hence `ThreadSees` and `ThreadTake`). A signal that is given
after the unlock is a step of its own.

### Server

* `mpc` is where the main thread is: `boot` (67-96), `sigset` (102), `accept`
  (104), `lock` (111), `check` (115-126, with the mutex), `waiting` (in
  `pthread_cond_wait`), `signal` (127). `hpc` is where `sig_handler` is; while
  it is not `none` the main thread's own code stands still, since the handler
  runs on that thread. The kernel delivers the signal there: the serving
  threads do not block it, but the main thread, which does not either, is the one Linux
  picks first.
* `tpc[t]` is where thread `t` is: `lock`, `check`, `waiting`, `signal` (the
  queue), `recv`, `serve`, `bytes`, `reply`, `close` (`getRequest`). `died` and
  `diedholding` are threads that cancellation has ended: deferred cancellation
  acts in `read`, `write`, `sleep` and `close`, and in `pthread_cond_wait`, which
  takes the mutex again before the thread ends and leaves it locked, as no
  cleanup handler is pushed.
* `Exit` ends the process from any thread; every failing call of the code that
  calls `exit`, and SIGPIPE, are such steps.
* Once `destroyed`, what a pop returns is what the slot held, or no connection
  (`Popped`): the outcomes of a read of freed memory that are followed. Writes
  to it are not followed further.
* A file is a size out of `PageSizes`; 404 and 403 are one answer without a
  page. A request is whole, or has a first line too short, or never comes
  (`Silent`).

### Myhttpd

`cpc` is where the parent is; `read` is what it has read of the statistics for
the answer it is making, the two numbers in either order since C does not order
the arguments of `sprintf`. `RaiseSigterm` of `Server` happens only when the
parent calls `kill`. A client that hangs up before the end of its line is the
command `hangup`, which `ReadCommand` never gets past.

### Crawler

A list is a sequence with its newest page first, so `list_add` is at the head
and the crawl is depth first. `todo[t]` are the links of the page that are still
to be looked at. A page is a model value, `Links` and `Found` are the web
site; the answer of the server is the page, 404/403, or none. A failed
connection or write, a reset while the page is read and an answer of another form end the crawler
(`GetFails`). A server that says no more, or closes or dies in its answer, leaves
the thread in the loops of auxFun.c:38 or 94-102 (`GetHangs`): it is `hung` from then on,
and still counted in `workers`, so that SEARCH is told for ever that the crawl
goes on. What one end sees of the other is in `HttpExchange`; here both are
possible at any time. `SaveFails` is the null pointer of crawlThread.c:55-56, `MainFails` also the
SIGPIPE of a client that does not wait for its answer. `AddLink` is the critical section of
`contentProcessing` with its signal, which is given before the unlock.
`Cancelled` covers `printf` within the critical section of `threadFun`
(crawlThread.c:200): the thread dies with the mutex held. Once the main thread
frees the lists (`Freeing`), a thread that touches them or the address of its
page may crash; the other effects of touching freed memory are not followed,
and the safety properties speak of the time before.

### HttpExchange

`up` and `down` are the two streams of bytes of one connection, `cpc` and `spc`
where the crawling thread and the serving thread are. A reader is the state of
the lines read by `inputStringFd`: a line ends at LF, or at CR with the one byte
behind it, whatever that is, and is cut at its first NUL. Words of fixed text
are one byte each. `Request` ends with the NUL that `get` sends
(crawlThread.c:174), `Header` has the lines of serverThread.c:125, `RequestLines`
and `AnswerLines` are the numbers of lines the two sides count. A file is a
sequence of bytes that may hold line ends and NULs of its own; the text that is
sent ends at a NUL, the count of the server does not.

When one side closes with bytes unread, which the server always does because of
the NUL, the kernel sends a reset: `ResetToClient` drops any suffix of what the
client has not received and notes in `lost` that it did; the next read fails
once. Then, and at end of file, `inputStringFd` and `socket_read` read again for
ever, so that these actions have no step there, but for the one read after a CR,
whose result is not looked at. A write to a closed connection is answered by a
reset and the one after it by SIGPIPE.

### JobExecutor and SearchEngine

Path `k` is the `k`-th line of the file of paths, and a message is a path or
`Stop`. `jpc` is where the engine's parent is: `load` (`getFileOfPaths`), `fork`
(117-139), `share` (177-195), `stop` (197-204), `command` (214-230), `kill`
(234-260), each a loop with the counter `i`; `j` and `P` are the other counter
and the list pointer of the sharing loops. `fork` leaves the outer `i` at
`numWorkers`, and that is the `i` of `j = j + i - 1` (194), after loops with an
`i` of their own. `sent` is history: what the parent has tried to write to each
FIFO. Writes do not block, so a full FIFO (`Capacity`) drops the message. A
worker reads what is there, at most 80 bytes, here `Fit` messages of one length,
and looks at the first string only: `ReadPaths`. The loss of whole messages is in
the model, their splitting is not. The `sleep(1)` between writes and between
reads is not a promise about order. Until `InstallHandlers` SIGTERM kills a
worker; then its handler runs, and crashes on the null `trieRoot`. A file of
paths without a line leaves the pointer that is freed at the end unset:
`KillWorker` has both outcomes.

In `SearchEngine`, `input` and `output` are the lines in the two pipes, `buffered`
what the crawler's stdout holds when it becomes the pipe (mycrawler.c:159), which
goes out before the first search and is dropped by the engine's command loop.
`xpc` is where the crawler's main thread is, `lpc` where `bashls` is. The old file
of paths is there when the crawl ends; `bashls` removes it and writes a line at a
time. A `fork` may fail in each place; no process closes its copies of the
pipe's ends, so that nobody ever sees the end of a pipe. The crawling threads
are the one step `CrawlFinishes` here; `Crawler` has them, and has the engine as
something that may answer. SHUTDOWN ends the crawler after it has told the
engine, without waiting for it, and its answer comes first (179): `CrawlerDies`
includes the SIGPIPE of a client that has gone.

### TrieIndex

`phase` says whether a file is read (`addFileToMaps`) or its words are inserted
(`createTrieFromTextMap`, one character a step). A pointer is a position in
`trie.nodes`, so that `cont` (the letters below a node) and `next` (its
alternatives) are numbers; `newContFlag`, `resultFlag` and `counter` are the
code's flags. A blank, and the end of a line, post the word to the list of the
node that is reached. The number of a line is compared with the one due through
a `table` without a terminating NUL (textmap.c:62-66), so that a rejection of
the file is possible at any line. `RejectFile`, and `OpenFails` for a file that
cannot be opened, are the worker's way to the end: an entry with the bytes so far and an unset
number of lines (`Unset`) goes into the counts, and `freeTexts` follows its null pointer
(worker.c:320-345, textmap.c:108), so that `phase` is `crash` and nothing is read any more. The properties of
searches and counts speak of a worker that is still reading. The first
letter of every further file is taken for the letter of the root without a
comparison (trie.c:95-106): such a file is followed as the code has it, and
`TrieShape` and `CountsRight` hold of it, while `SearchIsRight` and `MaxMinRight`
speak of files that `Sound` allows, those whose first word is the one letter of
the root. What a search finds after any other file is not stated. The reference,
`Occurrences` in the lines, makes no use of a trie. In the run, searches are for all words
of up to three letters; the theorems are about words of any length.

## 3. The runs

Every pass run is exhaustive. `CHECK_DEADLOCK FALSE` is set where the system
may stop: processes end, and the number of clients and commands is bounded. (`Queue.cfg`
checks deadlock.)

| run | instance | shows |
|---|---|---|
| `queue` | 4 slots, 3 sockets | FIFO; 4 slots let the contents wrap in every position |
| `server_safety` | 3 threads, 3 slots, 3 connections, 1 silent | mutual exclusion, sockets conserved, no lost wakeup on either condition variable, pages and bytes in the statistics, no client answered twice; implements `ConnectionService`: order of accept, each served once |
| `myhttpd` | 2 threads, 2 connections, 1 silent, 2 commands | answers to STATS never go down; order of a shutdown; commands are dealt with; a client that sends its request is answered; SHUTDOWN ends both processes, but for the self-deadlock below |
| `crawler_safety` | 3 threads, 4 pages, 2 commands | pages listed once, `workers` right, no lost wakeup, no crash before the lists are freed, the end of the crawl found rightly, implements `Crawl` |
| `crawler_liveness` | 2 threads, 4 pages, 1 command | the crawl ends, but for the pages of threads that hang; SHUTDOWN ends the process, whoever hangs |
| `search_engine` | 3 workers, 0 to 4 paths, FIFOs of 2, reads of 2, 3 commands, 1 line in stdout | the whole list of this crawl is read; round robin, complete and without repetition; every worker that has a path looks at one; every search gets its own answer; SHUTDOWN ends all processes |
| `http_exchange` | 4 files of up to 3 bytes, 403 and 404; streams of 24 bytes | both ends count the same lines and bytes; the answer is whole or none; implements `RequestReply`; who is answered does no harm; the exchange ends |
| `trie_index` | 3 letters, 7 characters, line ends and file ends in all | the trie keeps its shape; searches, maxcount, mincount and counts agree with the files |

The bounds: with 3 threads and a ring of 3 slots, two sockets wait in the queue
while a third is in the main thread's hand, so that both condition variables
are slept on, with several threads at a time on the one, and threads race for
the sockets; with 2 threads and 2 slots a second connection meets a full queue. The crawler's
site has a cycle, a link to the page itself, a link that is there
twice and a dead link; two of its pages are found by several threads. Two
commands are enough for a SEARCH that finds the crawl going on, or finished,
and a SHUTDOWN after it. Symmetry under permutations of threads (and of
sockets that are not silent, and of letters) is used in runs of safety properties only. One
page size is enough: no guard looks at it. Four paths for three workers make a
full round and one that breaks off; with fewer paths there are workers without
any, with three the paths fill the round, and the empty file is there; three
messages for one worker fill a FIFO of two. Three commands are two searches and
a SHUTDOWN, so that an answer could be taken for that of the search before. A stream
of 24 bytes holds the whole request, and is full in the middle of an answer with a
file of two bytes or more. It matters that it is not smaller: the server never reads the last byte of
the request, and only where a stream holds a whole answer (23 bytes and the page) can it
have closed while the client has that byte still to write, so that everything is said of that case too.
With streams of three bytes, which are full and empty at every point of an exchange,
the same properties hold; the files are the empty one, one that begins and one that ends with a line end, and
one that a NUL cuts. Seven characters are enough for three alternatives
at the root and two below a letter, for a word that begins another, for two words on a line, one word twice,
and for two files of which the second extends the first.

What does not hold (expected violations, each a finding in `PROJECT.json`):

| run | what happens | against |
|---|---|---|
| `server_one_thread` | with `-t 1` the ring is full and empty at once: nobody is ever served | README.md:22, 31 |
| `server_use_after_destroy` | a thread pops from the buffer that the handler has freed | README.md:32 |
| `myhttpd_self_deadlock` | SIGTERM between the main thread's lock and unlock: the handler waits for its own thread, the parent for the child | README.md:44 |
| `crawler_not_joined` | the lists are freed while threads run | mycrawler.c:197, README.md:89 |

### Fairness

Weak fairness of each thread's steps, of the handler, of the parent and of the
clients that send: the kernel runs every thread that can run. Weak fairness of a step that takes a
mutex says that a thread gets it when it stays free, which pthread gives; a thread
that finds it taken again and again is not promised it. Spurious wakeups do not
go on for ever (`<>[][~SpuriousWake]_vars`): POSIX allows them, but a
`pthread_cond_wait` that only ever returned spuriously would make no program
live. Nothing is assumed of failures (`AcceptFails`, `ReplyFails`, `GetFails`
...), of the web server as the crawler sees it, of cancellation taking effect, of clients that connect, of the command
port's clients or of the search engine as the crawler sees it; a liveness property that a failure may
end excepts it by name (`Stopping`), and `CrawlEnds` excepts the pages of the threads
that hang (`FinishedButHung`), and the crawl in which all of them do. Weak fairness of a crawling
thread's steps says that a request ends in one way or in another, `GetHangs` included, which
disables the others for good. The server's files are answered at once;
the one-second `sleep` is a step. In `HttpExchange` each end is weakly fair: a
read that can return does, a write that has room does; that a process ends is
not fair. In `SearchEngine` the crawler's main thread, `bashls`, the engine's
parent, each worker and the delivery of SIGTERM are weakly fair; commands, the
end of the crawl, a `fork` that fails and the death of the crawler are not.

## 4. What is proved

Each theorem is about the specification of its module, for all values of the
constants that the named assumptions allow. Where an invariant that a run
checks is not inductive, the strengthening stands next to it in the module
("What makes X inductive"), so that TLC can be given it as well (but for `IndexInv`, which
speaks of all words and stands in `IndexProofs`); the last step of every
theorem is `Init => I`, `I /\ [Next]_vars => I'` and `I => X`.

**The queue and the server**, for every number of threads, every ring size and
every set of sockets:

* `QueueTypeCorrect`, `QueueIsFifo` (`ServerProofs`): the ring buffer implements
  `BoundedFifo`. The refinement mapping is `Contents`, the slots from `embros`
  to `piso` on the ring. `SuccStep` and `SlotType` replace the modulus by a
  comparison, which the solver can handle; `PushAppends` and `PopTakesHead`
  then say what an operation does to `Contents`.
* `ServerTypeCorrect`: type correctness of `Server`.
* `ServerLockDiscipline`: mutual exclusion on `queueLock`. `LockDiscipline` is
  not inductive: `Boot` moves all threads at once, and only `ThreadsUnborn`
  tells that none is in a critical section then. `LockInv` is their
  conjunction.
* `ServerNoLostWakeup`: while a thread sleeps, `Length` is at most the number of
  threads on their way to the queue, plus one while the main thread owes a
  signal. It is inductive relative to type correctness; `QuietStep` settles every
  step that leaves the queue alone and turns nobody away, and one lemma each
  treats push, signal, going to sleep, pop and the return of a thread. The argument is on
  cardinalities of finite sets of threads: `ThreadsAssumption` makes them finite.
* `ServerAcceptorWakeup`: while the acceptor sleeps and the queue has room,
  some thread has yet to signal `cond_nonfull`.
* `ServerSocketsConserved` (`ServiceProofs`): every open descriptor is in one
  place. `SocketInv` speaks of `Pending`, the sequence of the sockets in the
  queue with the one in the main thread's hand behind them: an accept appends
  to it, a pop takes its head, and every other step, the push included, leaves it
  alone. It needs `HandsInv` (who holds a socket in which part of its
  loop) and `BacklogInv` (a connection waits in the backlog once).
* `ServerImplementsService`: the refinement of `ConnectionService`, by one lemma
  for each of its actions and one for the steps that stutter; `Pending` is the
  abstract queue.
* `ServerStatsAccounted`: both statistics agree with what the clients have got and
  threads are about to send, and no client is answered twice.
  `StatsInv` adds that a thread between its pop and its reply has a connection
  nobody has answered (`AnswerInv`, `UnansweredInv`), which rests on `SocketInv`. A sum of
  bytes is the number of elements of a set that has each byte with whom it belongs to
  (`BytesOf`), so that the facts on finite sets apply (`MoreBytes`, `FewerBytes`).
  The increments themselves are single steps: that no update is lost rests on the mutex being held
  from `Serve` to `Bytes`, which is `ServerLockDiscipline`.

**Both processes of myhttpd**: `MyhttpdIsServer` says that a behaviour of `Myhttpd` is
one of `Server`, so that all of the above holds of it. `MyhttpdTypeCorrect`;
`MyhttpdReportsGrow`, by `ReportInv`: what the parent has read of the counters,
or reported, is at most what they are by now, and the counters only grow, but for the reset in
`boot`, before which they are zero; `MyhttpdShutdownOrder`, by `OrderInv`:
the handler runs on SIGTERM only, and that comes from the parent only.

**The crawler**, for every number of threads and every web site:

* `CrawlerTypeCorrect` and `CrawlerWorkersCounted`, together by `WorkInv`:
  `workers` is decremented by a thread that was counted, so it stays
  a natural number.
* `CrawlerLockInv`: mutual exclusion on `listToAddLock`, the main thread's
  look at the list and threads cancelled with the mutex held included.
* `CrawlerListedOnce`, by `ListInv`; `CrawlerNoCrash`, by `TakeInv`: who is to take a
  page has the lock and a list that is not empty; `CrawlerNoLostWakeup`, which is
  inductive relative to `WorkInv` and `LockInv`.
* `CrawlerImplementsCrawl`: the refinement of `Crawl`. `CrawlInv`
  says that a thread has a page of its own which was taken, and that what it has
  looked at and what it still has to look at are together the links of its page.
* `CrawlerReadyMeansFinished`: when the main thread finds the crawl finished,
  the pages taken are the reachable ones. By `ReadyInv`: the
  pages known are reachable and closed under links but for those of pages
  at work (`ReachInv`), the files saved are those that exist but for pages at work
  (`SavedInv`), and `pagesDownloaded` counts the saved and those about to be
  (`CountInv`). With nobody at work, the exceptions are void.

**The search engine**, for every number of workers, paths and commands:
`SearchTypeCorrect` (by `SearchInv`: the counters of the two sharing loops stay in range);
`SearchListIsFresh` (by `FreshInv`: `bashls` runs once and is
reaped before the engine is forked); `SearchAnswersPaired`, inductive relative to the types;
`SearchSharedInTurn`, by `TurnInv`: within the sharing loop `j` is the number of
workers times the rounds that are complete and `P` the path behind `j + i`, the
workers up to `i` have had one turn more than the others, and all paths before
`P` are on their FIFOs. That is what the leap `j = j + i - 1` of jobExecutor.c:194, with the outer `i`,
and the `j++` of the loop come to.

**The exchange of a page**, for any contents of the file and any capacity of the
streams: `ExchangeFramesMatch`, `ExchangeIsRequestReply`, `ExchangeHarmless`
(`HttpProofs`), all from `ExchangeInv`:

* `RequestInv`, `AnswerInv`: what a reader has, what is in the stream and what is
  still to be written are consecutive parts of one message. `Position` is the number of
  bytes a reader has had, and `Reads` says that its lines are what stands between the line
  ends of the message, at `RequestEnds` and `HeaderEnds`. These are fixed: the only
  words of the header that vary are one byte each here.
* `PhaseInv`, `DecidedInv`: how far the two sides can be from each other.

The lemmas go from sequences (`Part`, `PartGrows`, `PartShrinks`) over lines
(`TakeReads`: a reader that is given the next byte of a message still reads that
message) and messages (`RequestFramed`, `HeaderFramed`) to the streams (`WriteByte`, `ReadByte`,
`CutStream`) and one lemma for each action.
The first form of `FramesMatch` said that `up \o cOut` is the NUL once the
server has decided, also after its close; the attempt to prove it showed that this
held by the bound of three bytes only: with streams that hold the whole answer, the
server closes before the client writes the NUL, and the write is to nobody. It
now speaks of the server until its close, and the run has streams of 24 bytes.

**The index**, for any letters and any files: `TrieKeepsShape` (`TrieProofs`),
from `TrieInv`, which adds the types and where the flags may stand: `newContFlag`
0 is at the root, and 3 at a node with a `cont`. `ChainsExist` and
`ChainIs` show that the recursive function in `Chain` is defined, and has its equation,
where pointers lead to later nodes, by induction from the last node on (`Downward`, from
the well-foundedness of the numbers, with the property given as a set of nodes).
`ShapeIs` then states `TrieShape` as three parts, `Forward`, `Tree` and `Apart`.
`ExtendBelow` and `ExtendChain` are the two ways in which a node is added. The
hard one is the second: the new letter must differ from those of every chain that reaches
the last node, though the code has compared only those of the chain it walked, and
`OneWay` says that there are no others, since the walk began at the root or below
a node. Where a file overwrites a `cont`, the nodes that were below it stay in
`nodes`, as they stay allocated in the code, and the shape is theirs too.

What the index computes is proved in `IndexProofs`. Recursion is over positions of
sequences there, by functions, and `Recursion` shows that a function with given
steps exists, so that `TotalIs`, `WalkIs` and `ResultsAre` can say what `Total`, the walk
of `NodeOf` and the results are, by `CountUp`, an induction with the property given as a set.

* `CountsAreRight`, by `PlaceInv` and `CountInv`, of a worker that has met no file that fails: the flags tell whether a word goes on at
  character `j` of line `i`, and the words counted with the one that goes on are
  those that have begun before that place. `trie.nodes` does not come into it, so
  that it holds of every file, sound or not.
* `SearchFindsAnyWord` and `SearchFindsRight`, by `IndexInv`. Its two parts that matter are `FindsInv`:
  a search for any word finds what has been met of it, in the files that are in and in
  the one that is inserted, of this where the word has ended before character `j` of line `i`, with the lines in their order, each once
  (`Posted`); and `GoesInv`: the node that the flags
  stand at is the one that a walk for the word that goes on leads to, wherever it began in the line. `NodesInv` and
  `FlagInv` say what the flags are where no word goes on. A step that puts a letter in must
  leave every search as it was (`SameSearch`): `OneWord` says that two words which lead to one node are
  equal, which is where `TrieShape` is needed; `BelowNew` and `BehindNew` treat the two ways
  in which a node is added; a further file that is sound overwrites no part of
  the trie, since by `FirstIs` its first letter is the root's, which never changes (`RootStays`), and the word
  ends behind it. A step that ends a word posts one more to
  its list: `PostKeeps`, since lines come in their order, and `EndsAre`, since
  of all words only the one that goes on ends at this place.
* `MaxMinAnswersAnyWord` and `MaxMinAnswersRight`, from the same invariant: a
  list with its lines in order gives results with the files in order, each with the number of its postings (`Tally`,
  `CountFileKeeps`), the loops of `maxFinder` and `minFinder` keep the last of the largest and the first of the smallest
  (`BestNext`), and the postings of a file are as many as its lines that have the word (`TallyIs`).

Assumptions: `SizeAssumption` (at least one slot), `SizeIsNumOfThreads`,
`ThreadsAssumption` and `CrawlerThreads` (finitely many, distinct from the main thread and from
nobody), `NoSockAssumption`, `EnvironmentAssumption`, `WebAssumption` (a finite set of
pages, links that lead to pages), `EngineAssumption` (at least one worker),
`SearchAssumption` and `MaxCommandsAssumption` (the bounds are numbers), `ExchangeAssumption` (a capacity of at least one
byte, contents up to a length), `DecimalAssumption` (the decimal forms of different
numbers differ and are not a CR, LF or NUL), `IndexAssumption` (a blank is no letter). TLC evaluates them in the runs.

Model-checked only: liveness (`Served`, `CommandsAnswered`, `ShutdownEnds`, `CrawlEnds`, `FirstPathArrives`,
`SearchReplied`, `ShutdownEndsEngine`, `PageArrives`, `ServerFreed`), which is out of the
prover's reach, since it has no rules for fairness and ENABLED. Every other property of the passing
runs is a theorem.

## 5. What is not modelled

* Checks of arguments (`-t 0` among them, with which `Queue_full` divides by
  zero): no state is kept by then, and the modules assume what they let pass.
* Texts, dates and layout of answers; the name and the address in a link, and
  with it two forms of one URL, which are two pages here; `mkdirs` and directory
  modes; `printListToFile`, which nothing calls.
* Overflow of the counters, which takes 2 GiB of pages.
* A child whose `execl` fails and that goes on as a second crawler
  (mycrawler.c:146, 165): both programs are taken to be there.
* How `/maxcount` and the other commands would travel to a worker and back
  (worker.c:99-228): nobody sends them at this commit. What they compute is in `TrieIndex`.
* What a worker would do that had survived a file it cannot read (worker.c:345).
* A line of a file without a blank (textmap.c:62): the code computes with the
  null pointer it gets.
* The end of a message in the middle of a read of 80 bytes (worker.c:290).
* The web creator and `test.c`: random draws over files, and a program to try
  signals.

## 6. Plan

The model is complete but for what section 5 lists, and every safety property of
the runs is proved. What could be added: what a search finds after a file that is not `Sound`, where
the first letter of a file takes the place of another; the commands max and min
on their way to the workers, if the program sends them again.
