---------------------------- MODULE SearchProofs ----------------------------
(***************************************************************************)
(* Proofs about the search engine and the crawler's side of it, for any    *)
(* number of workers, paths and commands and FIFOs of any capacity.        *)
(***************************************************************************)
EXTENDS SearchEngine, SequenceTheorems, TLAPS

------------------------------------------------------------------------------
(* Types.                                                                  *)

(* A write, whether it fails or not, puts at most one message behind.      *)
LEMMA WriteTypes ==
  ASSUME JobTypeOK, NEW w \in Workers, NEW message \in Messages, Write(w, message)
  PROVE  /\ sent' \in [Workers -> Seq(Messages)]
         /\ fifo' \in [Workers -> Seq(Messages)]
<1>1. Append(sent[w], message) \in Seq(Messages) /\ Append(fifo[w], message) \in Seq(Messages)
  BY AppendProperties DEF JobTypeOK
<1>2. QED
  BY <1>1 DEF Write, JobTypeOK

LEMMA EachWorkerTypes ==
  ASSUME JobTypeOK, NEW at, NEW next, EachWorker(at, next)
  PROVE  /\ i' \in 0 .. NumWorkers - 1
         /\ jpc = at /\ jpc' \in {at, next}
         /\ i + 1 \in Workers
BY EngineAssumption DEF EachWorker, JobTypeOK, Workers

LEMMA ParentTypes ==
  ASSUME JobInv, ParentStep \/ ForkFails
  PROVE  JobInv'
<1> USE DEF JobInv, JobTypeOK, workerVars, pipes
<1>1. CASE LoadPaths
  BY <1>1 DEF LoadPaths
<1>2. CASE Fork
  BY <1>2, EachWorkerTypes DEF Fork
<1>3. CASE ForkFails \/ ShareEnds
  BY <1>3 DEF ForkFails, ShareEnds
<1>4. CASE Share
  <2>1. /\ numOfPaths \in 1 .. MaxPaths /\ P \in 1 .. numOfPaths /\ j + NumWorkers <= MaxPaths + NumWorkers
        /\ i + 1 \in Workers /\ P \in Messages
    BY <1>4, EngineAssumption, SMTT(30) DEF Share, Workers, Messages
  <2>2. /\ P' \in 1 .. numOfPaths /\ i' \in 0 .. NumWorkers - 1 /\ j' \in 0 .. MaxPaths + NumWorkers
    BY <1>4, <2>1, EngineAssumption DEF Share, Advance
  <2>3. /\ sent' \in [Workers -> Seq(Messages)]
        /\ fifo' \in [Workers -> Seq(Messages)]
    BY <1>4, <2>1, WriteTypes DEF Share
  <2>4. QED
    BY <1>4, <2>1, <2>2, <2>3, EngineAssumption DEF Share
<1>5. CASE SendStop
  <2>1. i + 1 \in Workers /\ Stop \in Messages /\ i' \in 0 .. NumWorkers - 1
        /\ jpc' \in {"stop", "command"}
    BY <1>5, EachWorkerTypes, EngineAssumption DEF SendStop, Stop, Messages
  <2>2. /\ sent' \in [Workers -> Seq(Messages)]
        /\ fifo' \in [Workers -> Seq(Messages)]
    BY <1>5, <2>1, WriteTypes DEF SendStop
  <2>3. QED
    BY <1>5, <2>1, <2>2 DEF SendStop
<1>6. CASE Command
  <2>1. input' \in Seq(Lines) /\ output' \in Seq({"answer"})
    BY <1>6, AppendProperties DEF Command
  <2>2. QED
    BY <1>6, <2>1 DEF Command
<1>7. CASE KillWorker
  <2>1. i + 1 \in Workers /\ i' \in 0 .. NumWorkers - 1 /\ jpc' \in {"kill", "done", "crashed"}
    BY <1>7, EachWorkerTypes DEF KillWorker
  <2>2. QED
    BY <1>7, <2>1 DEF KillWorker
<1>8. QED
  BY <1>1, <1>2, <1>3, <1>4, <1>5, <1>6, <1>7 DEF ParentStep

LEMMA WorkerTypes ==
  ASSUME JobInv, NEW w \in Workers, WorkerStep(w) \/ Terminate(w)
  PROVE  JobInv'
<1> USE DEF JobInv, JobTypeOK, parentVars, pipes, MoveWorker
<1>1. CASE ReadPaths(w)
  <2>1. fifo[w] \in Seq(Messages) /\ fifo[w] # <<>>
    BY <1>1 DEF ReadPaths
  <2>2. Head(fifo[w]) \in Messages /\ Len(fifo[w]) \in Nat
    BY <2>1
  <2>3. \A n \in Nat : n <= Len(fifo[w]) => SubSeq(fifo[w], n + 1, Len(fifo[w])) \in Seq(Messages)
    BY <2>1, SubSeqProperties
  <2>4. fifo' \in [Workers -> Seq(Messages)]
    BY <1>1, <2>2, <2>3, EngineAssumption DEF ReadPaths
  <2>5. got' \in [Workers -> SUBSET Messages]
    BY <1>1, <2>2 DEF ReadPaths
  <2>6. QED
    BY <1>1, <2>4, <2>5 DEF ReadPaths
<1>2. CASE InstallHandlers(w)
  BY <1>2 DEF InstallHandlers
<1>3. CASE Terminate(w)
  BY <1>3 DEF Terminate
<1>4. QED
  BY <1>1, <1>2, <1>3 DEF WorkerStep

(* The engine's steps leave the crawler's main thread and bashls alone.    *)
LEMMA EngineTypes ==
  ASSUME SearchInv, EngineNext, UNCHANGED <<saved, crawled, lpc, crawlerVars>>
  PROVE  SearchInv'
<1>1. JobInv'
  BY ParentTypes, WorkerTypes DEF SearchInv, EngineNext
<1>2. QED
  BY <1>1 DEF SearchInv, SearchTypeOK, JobInv, crawlerVars

(* Steps of the crawler and of bashls that leave the engine alone but for  *)
(* its pipes, its file and its start.                                      *)
LEMMA OutsideTypes ==
  ASSUME SearchInv, UNCHANGED <<numOfPaths, i, j, P, fifo, sent, workerVars, terminated>>,
         jpc' = jpc \/ (jpc' \in {"load", "failed"} /\ j = 0 /\ P = 1
                        /\ \A w \in Workers : sent[w] = <<>>),
         pathsfile' \in 0 .. MaxPaths,
         input' \in Seq(Lines), output' \in Seq({"answer"})
  PROVE  JobInv'
BY DEF SearchInv, JobInv, JobTypeOK, workerVars

LEMMA PrintfTypes ==
  ASSUME SearchInv, NEW line \in Lines, Printf(line)
  PROVE  /\ input' \in Seq(Lines) /\ buffered' = <<>>
         /\ Len(input') = Len(input) + Len(buffered) + 1
         /\ \A k \in 1 .. Len(input) : input'[k] = input[k]
         /\ \A k \in 1 .. Len(buffered) : input'[Len(input) + k] = "text"
         /\ input'[Len(input) + Len(buffered) + 1] = line
<1> DEFINE tail == buffered \o <<line>>
           m == Len(input)
           n == Len(buffered)
<1>1. /\ input \in Seq(Lines) /\ m \in Nat
      /\ buffered \in Seq(Lines) /\ n \in Nat
      /\ \A k \in 1 .. n : buffered[k] = "text"
  BY DEF SearchInv, SearchTypeOK, JobTypeOK, Lines
<1>2. <<line>> \in Seq(Lines) /\ Len(<<line>>) = 1 /\ <<line>>[1] = line
  OBVIOUS
<1>3. /\ tail \in Seq(Lines) /\ Len(tail) = n + 1
      /\ \A k \in 1 .. n : tail[k] = "text"
      /\ tail[n + 1] = line
  BY <1>1, <1>2, ConcatProperties
<1>4. input' = input \o tail /\ buffered' = <<>>
  <2>1. input' = input \o buffered \o <<line>> /\ buffered' = <<>>
    BY DEF Printf
  <2>2. (input \o buffered) \o <<line>> = input \o tail
    BY <1>1, <1>2, ConcatAssociative
  <2>3. QED
    BY <2>1, <2>2
<1>5. /\ input \o tail \in Seq(Lines) /\ Len(input \o tail) = m + (n + 1)
      /\ \A k \in 1 .. m + (n + 1) :
           (input \o tail)[k] = IF k <= m THEN input[k] ELSE tail[k - m]
  <2> HIDE DEF tail
  <2>1. /\ input \o tail \in Seq(Lines) /\ Len(input \o tail) = m + Len(tail)
        /\ \A k \in 1 .. m + Len(tail) :
             (input \o tail)[k] = IF k <= m THEN input[k] ELSE tail[k - m]
    BY <1>1, <1>3, ConcatProperties
  <2>2. QED
    BY <1>3, <2>1
<1>6. \A k \in 1 .. m : input'[k] = input[k]
  BY <1>1, <1>4, <1>5
<1>7. \A k \in 1 .. n : input'[m + k] = tail[k]
  <2> HIDE DEF tail
  <2> TAKE k \in 1 .. n
  <2>1. m + k \in 1 .. m + (n + 1) /\ ~(m + k <= m) /\ (m + k) - m = k
    BY <1>1
  <2>2. QED
    BY <1>4, <1>5, <2>1
<1>8. input'[m + n + 1] = tail[n + 1]
  <2> HIDE DEF tail
  <2>1. m + n + 1 \in 1 .. m + (n + 1) /\ ~(m + n + 1 <= m) /\ (m + n + 1) - m = n + 1
    BY <1>1
  <2>2. QED
    BY <1>4, <1>5, <2>1
<1>9. QED
  <2> HIDE DEF tail
  <2>1. Len(input') = m + n + 1
    BY <1>1, <1>4, <1>5
  <2>2. QED
    BY <1>3, <1>4, <1>5, <1>6, <1>7, <1>8, <2>1

LEMMA CrawlerTypes ==
  ASSUME SearchInv, FreshInv,
         \/ CrawlFinishes \/ OtherCommand \/ FirstSearch \/ LaterSearch \/ Shutdown
         \/ CrawlerStep \/ CrawlerDies
  PROVE  SearchInv'
<1> USE SearchAssumption DEF SearchInv, SearchTypeOK, crawlerVars, engineVars
<1>0. ASSUME UNCHANGED engineVars PROVE JobInv'
  BY <1>0 DEF JobInv, JobTypeOK, workerVars, parentVars, pipes
<1>1. CASE CrawlFinishes \/ CrawlerDies
  BY <1>0, <1>1 DEF CrawlFinishes, CrawlerDies, JobInv
<1>2. CASE OtherCommand \/ LaterSearch \/ Shutdown
  BY <1>0, <1>2 DEF OtherCommand, LaterSearch, Shutdown, Comes, MoveCrawler, JobInv
<1>3. CASE FirstSearch
  <2>1. buffered' \in Seq({"text"}) /\ Len(buffered') = Len(buffered) + 1
    BY <1>3, AppendProperties DEF FirstSearch
  <2>2. JobInv'
    BY <1>0, <1>3 DEF FirstSearch, Comes
  <2>3. Len(buffered) <= MaxText /\ Len(buffered) \in Nat
    BY <1>3 DEF FirstSearch
  <2>4. Len(buffered') <= MaxText + 1
    BY <2>1, <2>3
  <2>5. QED
    BY <1>3, <2>1, <2>2, <2>4 DEF FirstSearch, Comes, MoveCrawler, JobInv
<1>4. CASE Wait
  BY <1>0, <1>4 DEF Wait, MoveCrawler, JobInv
<1>5. CASE ForkEngine
  <2>1. jpc = "none"
    BY <1>5 DEF ForkEngine, MoveCrawler, FreshInv
  <2>2. JobInv'
    BY <1>5, <2>1, OutsideTypes DEF ForkEngine, JobInv, JobTypeOK, pipes
  <2>3. QED
    BY <1>5, <2>2 DEF ForkEngine, MoveCrawler, JobInv
<1>6. CASE AskEngine \/ TellExit
  <2>1. input' \in Seq(Lines) /\ buffered' = <<>>
    BY <1>6, PrintfTypes DEF AskEngine, TellExit, Lines
  <2>2. JobInv'
    BY <1>6, <2>1, OutsideTypes
       DEF AskEngine, TellExit, Printf, parentVars, JobInv, JobTypeOK
  <2>3. QED
    BY <1>6, <2>1, <2>2 DEF AskEngine, TellExit, Printf, MoveCrawler, JobInv
<1>7. CASE ReadAnswer
  <2>1. output' \in Seq({"answer"})
    BY <1>7 DEF ReadAnswer, JobTypeOK
  <2>2. JobInv'
    BY <1>7, <2>1, OutsideTypes DEF ReadAnswer, parentVars, JobInv, JobTypeOK
  <2>3. QED
    BY <1>7, <2>2 DEF ReadAnswer, MoveCrawler, JobInv
<1>8. QED
  BY <1>1, <1>2, <1>3, <1>4, <1>5, <1>6, <1>7 DEF CrawlerStep

LEMMA ScriptTypes ==
  ASSUME SearchInv, RemoveOld \/ ListOne
  PROVE  SearchInv'
<1>1. pathsfile' \in 0 .. MaxPaths
  BY EngineAssumption DEF RemoveOld, ListOne, SearchInv, SearchTypeOK, JobTypeOK
<1>2. JobInv'
  BY <1>1, OutsideTypes
     DEF RemoveOld, ListOne, parentVars, pipes, SearchInv, JobInv, JobTypeOK
<1>3. QED
  BY <1>2 DEF RemoveOld, ListOne, crawlerVars, SearchInv, SearchTypeOK, JobInv

------------------------------------------------------------------------------
(* The list of paths.                                                      *)

LEMMA EngineFresh ==
  ASSUME FreshInv, EngineNext, UNCHANGED <<saved, crawled, lpc, crawlerVars>>
  PROVE  FreshInv'
<1>1. pathsfile' = pathsfile /\ (jpc' # "none" <=> jpc # "none")
      /\ (numOfPaths' = numOfPaths \/ (LoadPaths /\ numOfPaths' = pathsfile))
      /\ (jpc' \in {"none", "load", "failed"} \/ LoadPaths \/ jpc \notin {"none", "load", "failed"})
  <2> USE DEF FreshInv
  <2>1. CASE LoadPaths \/ Fork \/ ForkFails \/ Share \/ ShareEnds
    BY <2>1 DEF LoadPaths, Fork, EachWorker, ForkFails, Share, ShareEnds
  <2>2. CASE SendStop \/ Command \/ KillWorker
    BY <2>2 DEF SendStop, Command, KillWorker, EachWorker
  <2>3. ASSUME NEW w \in Workers, WorkerStep(w) \/ Terminate(w)
        PROVE  UNCHANGED <<pathsfile, jpc, numOfPaths>>
    BY <2>3 DEF WorkerStep, ReadPaths, InstallHandlers, Terminate, parentVars
  <2>4. QED
    BY <2>1, <2>2, <2>3 DEF EngineNext, ParentStep
<1>2. QED
  BY <1>1 DEF FreshInv, ListIsFresh, LoadPaths, crawlerVars

LEMMA CrawlerFresh ==
  ASSUME FreshInv,
         \/ CrawlFinishes \/ OtherCommand \/ FirstSearch \/ LaterSearch \/ Shutdown
         \/ CrawlerStep \/ CrawlerDies
  PROVE  FreshInv'
<1> USE DEF FreshInv, ListIsFresh, engineVars, parentVars, crawlerVars
<1>1. CASE CrawlFinishes \/ CrawlerDies
  BY <1>1 DEF CrawlFinishes, CrawlerDies
<1>2. CASE OtherCommand \/ LaterSearch \/ Shutdown \/ FirstSearch
  BY <1>2 DEF OtherCommand, LaterSearch, Shutdown, FirstSearch, Comes, MoveCrawler
<1>3. CASE Wait \/ ForkEngine
  BY <1>3 DEF Wait, ForkEngine, MoveCrawler
<1>4. CASE AskEngine \/ TellExit \/ ReadAnswer
  BY <1>4 DEF AskEngine, TellExit, ReadAnswer, Printf, MoveCrawler
<1>5. QED
  BY <1>1, <1>2, <1>3, <1>4 DEF CrawlerStep

LEMMA ScriptFresh ==
  ASSUME SearchInv, FreshInv, RemoveOld \/ ListOne
  PROVE  FreshInv'
BY DEF RemoveOld, ListOne, FreshInv, ListIsFresh, parentVars, crawlerVars, SearchInv,
       SearchTypeOK, JobTypeOK

LEMMA StutterSearch ==
  ASSUME SearchInv, FreshInv, UNCHANGED vars
  PROVE  SearchInv' /\ FreshInv'
<1>1. SearchInv'
  BY DEF vars, engineVars, parentVars, workerVars, pipes, crawlerVars, SearchInv, SearchTypeOK,
         JobInv, JobTypeOK
<1>2. FreshInv'
  BY DEF vars, engineVars, parentVars, crawlerVars, FreshInv, ListIsFresh
<1>3. QED
  BY <1>1, <1>2

LEMMA SearchFreshInv == Spec => [](SearchInv /\ FreshInv)
<1>1. Init => SearchInv /\ FreshInv
  <2> SUFFICES ASSUME Init PROVE SearchInv /\ FreshInv
    OBVIOUS
  <2>1. /\ <<>> \in Seq(Messages) /\ <<>> \in Seq(Lines) /\ <<>> \in Seq({"answer"})
        /\ 0 \in 0 .. MaxPaths /\ MaxPaths \in 0 .. MaxPaths
        /\ 0 \in 0 .. NumWorkers - 1 /\ 0 \in 0 .. MaxPaths + NumWorkers
        /\ 1 \in 1 .. MaxPaths + 1 /\ 0 \in 0 .. MaxCommands
    BY EngineAssumption, SearchAssumption
  <2>2. JobTypeOK
    BY <2>1 DEF Init, EngineInit, JobTypeOK
  <2>3. JobInv
    BY <2>2 DEF Init, EngineInit, JobInv
  <2>4. buffered \in Seq({"text"}) /\ Len(buffered) = MaxText
    BY SearchAssumption DEF Init
  <2>5. /\ saved \in 0 .. MaxPaths /\ crawled = FALSE /\ ready = FALSE /\ commands = 0
        /\ xpc = "accept" /\ lpc = "none"
    BY DEF Init
  <2>6. SearchInv
    <3>1. {crawled, ready} \subseteq BOOLEAN
      BY <2>5
    <3>2. Len(buffered) <= MaxText /\ Len(buffered) <= MaxText + 1
      BY <2>4, SearchAssumption
    <3>3. SearchTypeOK
      BY <2>1, <2>2, <2>4, <2>5, <3>1, <3>2 DEF SearchTypeOK
    <3>4. QED
      BY <2>3, <3>2, <3>3 DEF SearchInv
  <2>7. FreshInv
    BY DEF Init, EngineInit, FreshInv, ListIsFresh
  <2>8. QED
    BY <2>6, <2>7
<1>2. SearchInv /\ FreshInv /\ [Next]_vars => (SearchInv /\ FreshInv)'
  BY EngineTypes, CrawlerTypes, ScriptTypes, EngineFresh, CrawlerFresh, ScriptFresh,
     StutterSearch DEF Next
<1>3. QED
  BY <1>1, <1>2, PTL DEF Spec

(* The variables of the crawler's main thread, of bashls and of the engine *)
(* with its workers keep their types: the counters of the loops stay in    *)
(* range for every number of workers and paths, and no more than a line is *)
(* added to what waits in stdout (jobExecutor.c:177-243, worker.c,         *)
(* mycrawler.c:118-194).                                                   *)
THEOREM SearchTypeCorrect == Spec => []SearchTypeOK
<1>1. SearchInv => SearchTypeOK
  BY DEF SearchInv
<1>2. QED
  BY <1>1, SearchFreshInv, PTL

(* The engine shares what the crawl has saved, however many paths there    *)
(* are and whatever the file held before: bashls is run once, and reaped   *)
(* before the engine is forked (mycrawler.c:144-155, paths.c:16-79).       *)
THEOREM SearchListIsFresh == Spec => []ListIsFresh
<1>1. FreshInv => ListIsFresh
  BY DEF FreshInv
<1>2. QED
  BY <1>1, SearchFreshInv, PTL

------------------------------------------------------------------------------
(* The pipes.                                                              *)

LEMMA QuietPipes ==
  ASSUME AnswersPaired, UNCHANGED pipes,
         xpc' = xpc \/ xpc' = "died" \/ (xpc # "answer" /\ xpc # "died" /\ xpc' # "answer")
  PROVE  AnswersPaired'
<1>1. Searches' = Searches
  BY DEF pipes, Searches
<1>2. QED
  BY <1>1 DEF AnswersPaired, pipes

(* The engine takes the oldest line, and answers it if it is a search.     *)
LEMMA CommandPipes ==
  ASSUME SearchInv, AnswersPaired, Command, xpc' = xpc
  PROVE  AnswersPaired'
<1> DEFINE n == Len(input)
<1>1. /\ n \in Nat \ {0} /\ Len(input') = n - 1 /\ Head(input) = input[1]
      /\ \A k \in 1 .. n - 1 : input'[k] = input[k + 1]
  BY EmptySeq, HeadTailProperties DEF Command, SearchInv, SearchTypeOK, JobTypeOK
<1>2. \A k \in 1 .. n - 1 : k \in Searches' <=> k + 1 \in Searches
  BY <1>1 DEF Searches
<1>3. Searches' \subseteq 1 .. n - 1 /\ Searches \subseteq 1 .. n
  BY <1>1 DEF Searches
<1>4. \A k \in 2 .. n : k - 1 \in 1 .. n - 1 /\ k = (k - 1) + 1
  BY <1>1
<1>5. 1 \in Searches <=> Head(input) = "/search"
  BY <1>1 DEF Searches
<1>6. Searches = {} => Searches' = {}
  BY <1>2, <1>3
<1>7. CASE Head(input) = "/search"
  <2>1. output' = Append(output, "answer")
    BY <1>7 DEF Command
  <2>2. CASE xpc = "died"
    BY <2>2 DEF AnswersPaired
  <2>3. CASE xpc # "died"
    <3>1. xpc = "answer" /\ output = <<>> /\ Searches = {1}
      BY <1>5, <1>7, <2>3 DEF AnswersPaired
    <3>2. Searches' = {}
      BY <1>2, <1>3, <3>1
    <3>3. QED
      BY <2>1, <3>1, <3>2 DEF AnswersPaired
  <2>4. QED
    BY <2>2, <2>3
<1>8. CASE Head(input) # "/search"
  <2>1. output' = output
    BY <1>8 DEF Command
  <2>2. ASSUME NEW k, Searches = {k} PROVE Searches' = {k - 1}
    <3>1. k \in 2 .. n
      <4>1. k \in 1 .. n /\ k # 1
        BY <1>3, <1>5, <1>8, <2>2
      <4>2. QED
        BY <1>1, <4>1
    <3>2. k - 1 \in Searches'
      BY <1>2, <1>4, <2>2, <3>1
    <3>3. \A l \in Searches' : l = k - 1
      <4> TAKE l \in Searches'
      <4>1. l \in 1 .. n - 1 /\ l + 1 \in Searches
        BY <1>2, <1>3
      <4>2. l + 1 = k
        BY <2>2, <4>1
      <4>3. QED
        BY <4>1, <4>2
    <3>4. QED
      BY <3>2, <3>3
  <2>3. QED
    BY <1>6, <2>1, <2>2 DEF AnswersPaired
<1>9. QED
  BY <1>7, <1>8

(* The crawler asks when there is neither a search nor an answer, behind   *)
(* whatever text its stdout held.                                          *)
LEMMA PrintfPipes ==
  ASSUME SearchInv, AnswersPaired, AskEngine \/ TellExit
  PROVE  AnswersPaired'
<1> DEFINE m == Len(input)
           n == Len(buffered)
           line == IF AskEngine THEN "/search" ELSE "/exit"
<1>1. /\ xpc \in {"ask", "exit"} /\ output' = output
      /\ xpc' = IF AskEngine THEN "answer" ELSE "ended"
  BY DEF AskEngine, TellExit, MoveCrawler, Printf
<1>2. /\ Len(input') = m + n + 1
      /\ \A k \in 1 .. m : input'[k] = input[k]
      /\ \A k \in 1 .. n : input'[m + k] = "text"
      /\ input'[m + n + 1] = line
  BY PrintfTypes DEF AskEngine, TellExit, Lines
<1>3. m \in Nat /\ n \in Nat
  BY DEF SearchInv, SearchTypeOK, JobTypeOK
<1>4. output = <<>> /\ \A k \in 1 .. m : input[k] # "/search"
  BY <1>1 DEF AnswersPaired, Searches
<1>5. ASSUME NEW k \in 1 .. m + n PROVE input'[k] # "/search"
  <2>1. CASE k \in 1 .. m
    BY <1>2, <1>4, <2>1
  <2>2. CASE k \notin 1 .. m
    <3>1. k - m \in 1 .. n /\ m + (k - m) = k
      BY <1>3, <2>2
    <3>2. input'[m + (k - m)] = "text"
      BY <1>2, <3>1
    <3>3. QED
      BY <3>1, <3>2
  <2>3. QED
    BY <2>1, <2>2
<1>6. \A k \in 1 .. m + n + 1 : k \in 1 .. m + n \/ k = m + n + 1
  BY <1>3
<1>7. CASE AskEngine
  <2>1. Searches' = {m + n + 1}
    BY <1>2, <1>3, <1>5, <1>6, <1>7 DEF Searches
  <2>2. QED
    BY <1>1, <1>4, <1>7, <2>1 DEF AnswersPaired
<1>8. CASE ~AskEngine
  <2>1. Searches' = {}
    BY <1>2, <1>3, <1>5, <1>6, <1>8 DEF Searches
  <2>2. QED
    BY <1>1, <1>4, <1>8, <2>1 DEF AnswersPaired
<1>9. QED
  BY <1>7, <1>8

LEMMA ReadPipes ==
  ASSUME AnswersPaired, ReadAnswer
  PROVE  AnswersPaired'
<1>1. /\ xpc = "answer" /\ xpc' = "accept" /\ output # <<>> /\ output' = Tail(output)
      /\ input' = input
  BY DEF ReadAnswer, MoveCrawler
<1>2. output = <<"answer">> /\ Searches = {}
  BY <1>1 DEF AnswersPaired
<1>3. output' = <<>> /\ Searches' = {}
  BY <1>1, <1>2 DEF Searches
<1>4. QED
  BY <1>1, <1>3 DEF AnswersPaired

(* Between the pipes there is one search or one answer while the crawler   *)
(* waits, and none else, for any number of commands and whatever text      *)
(* precedes the first search: no client gets the answer to another's       *)
(* search (mycrawler.c:149-173, jobExecutor.c:216-230).                    *)
THEOREM SearchAnswersPaired == Spec => []AnswersPaired
<1>1. Init => AnswersPaired
  BY DEF Init, EngineInit, AnswersPaired, Searches
<1>2. SearchInv /\ AnswersPaired /\ [Next]_vars => AnswersPaired'
  <2> SUFFICES ASSUME SearchInv, AnswersPaired, [Next]_vars PROVE AnswersPaired'
    OBVIOUS
  <2>1. CASE CrawlFinishes \/ CrawlerDies
    BY <2>1, QuietPipes DEF CrawlFinishes, CrawlerDies, engineVars, crawlerVars
  <2>2. CASE OtherCommand \/ FirstSearch \/ LaterSearch \/ Shutdown
    BY <2>2, QuietPipes
       DEF OtherCommand, FirstSearch, LaterSearch, Shutdown, Comes, MoveCrawler, engineVars
  <2>3. CASE Wait \/ ForkEngine
    BY <2>3, QuietPipes DEF Wait, ForkEngine, MoveCrawler, engineVars
  <2>4. CASE RemoveOld \/ ListOne
    BY <2>4, QuietPipes DEF RemoveOld, ListOne, crawlerVars
  <2>5. CASE EngineNext /\ UNCHANGED <<saved, crawled, lpc, crawlerVars>>
    <3>1. CASE Command
      BY <2>5, <3>1, CommandPipes DEF crawlerVars
    <3>2. CASE ~Command
      <4>1. UNCHANGED pipes
        BY <2>5, <3>2
           DEF EngineNext, ParentStep, LoadPaths, Fork, ForkFails, Share, ShareEnds, SendStop,
               KillWorker, WorkerStep, ReadPaths, InstallHandlers, Terminate
      <4>2. QED
        BY <2>5, <4>1, QuietPipes DEF crawlerVars
    <3>3. QED
      BY <3>1, <3>2
  <2>6. CASE UNCHANGED vars
    BY <2>6, QuietPipes DEF vars, engineVars, crawlerVars
  <2>7. QED
    BY <2>1, <2>2, <2>3, <2>4, <2>5, <2>6, PrintfPipes, ReadPipes DEF Next, CrawlerStep
<1>3. QED
  BY <1>1, <1>2, SearchFreshInv, PTL DEF Spec

------------------------------------------------------------------------------
(* Round robin.                                                            *)

(* A multiple of a number that is less than the number away from 0 is 0.   *)
LEMMA SmallMultiple ==
  ASSUME NEW n \in Nat \ {0}, NEW d \in Int, d * n < n, d * n > 0 - n
  PROVE  d = 0
<1>1. \A c \in Nat : c * n >= 0
  OBVIOUS
<1>2. CASE d >= 1
  <2>1. (d - 1) * n >= 0
    BY <1>1, <1>2
  <2>2. (d - 1) * n = d * n - n
    OBVIOUS
  <2>3. QED
    BY <2>1, <2>2
<1>3. CASE d <= 0 - 1
  <2>1. (0 - 1 - d) * n >= 0
    BY <1>1, <1>3
  <2>2. (0 - 1 - d) * n = 0 - n - d * n
    OBVIOUS
  <2>3. QED
    BY <2>1, <2>2
<1>4. QED
  BY <1>2, <1>3

(* In each round it is every worker's turn once.                           *)
LEMMA TurnInRound ==
  ASSUME NEW r \in Nat, NEW x \in 0 .. NumWorkers - 1
  PROVE  TurnOf(r * NumWorkers + x + 1) = x + 1
<1> DEFINE n == NumWorkers
           a == r * n + x
           q == a \div n
           m == a % n
<1>1. n \in Nat \ {0} /\ x \in Int /\ 0 <= x /\ x < n /\ a \in Int
  BY EngineAssumption
<1>2. q \in Int /\ m \in Int /\ 0 <= m /\ m < n /\ a = n * q + m
  BY <1>1
<1>3. (r - q) * n = m - x
  <2>1. (r - q) * n = r * n - n * q
    BY <1>1, <1>2
  <2>2. QED
    BY <1>1, <1>2, <2>1
<1>4. r - q = 0
  <2>1. r - q \in Int /\ (r - q) * n < n /\ (r - q) * n > 0 - n
    BY <1>1, <1>2, <1>3
  <2>2. QED
    BY <1>1, <2>1, SmallMultiple
<1>5. m = x
  BY <1>1, <1>2, <1>3, <1>4
<1>6. (r * n + x + 1) - 1 = a
  BY <1>1
<1>7. QED
  BY <1>1, <1>5, <1>6 DEF TurnOf

LEMMA TurnIsWorker ==
  ASSUME numOfPaths \in Nat
  PROVE  \A p \in 1 .. numOfPaths : TurnOf(p) \in Workers
<1> TAKE p \in 1 .. numOfPaths
<1>1. p - 1 \in Int /\ (p - 1) % NumWorkers \in 0 .. NumWorkers - 1
  BY EngineAssumption
<1>2. QED
  BY <1>1, EngineAssumption DEF TurnOf, Workers

(* A write of which track is kept puts the message behind the others.      *)
LEMMA WriteSent ==
  ASSUME JobInv, NEW w \in Workers, NEW message \in Messages, Write(w, message),
         Len(sent[w]) <= MaxPaths
  PROVE  /\ Len(sent[w]) \in Nat /\ Len(sent'[w]) = Len(sent[w]) + 1
         /\ \A k \in 1 .. Len(sent[w]) : sent'[w][k] = sent[w][k]
         /\ sent'[w][Len(sent[w]) + 1] = message
         /\ \A k \in 1 .. Len(sent'[w]) : k \in 1 .. Len(sent[w]) \/ k = Len(sent[w]) + 1
         /\ \A v \in Workers : v # w => sent'[v] = sent[v]
         /\ \A m, v : v \in Workers =>
              (Among(m, sent'[v]) <=> Among(m, sent[v]) \/ (v = w /\ m = message))
<1>1. /\ sent \in [Workers -> Seq(Messages)]
      /\ sent' = [sent EXCEPT ![w] = Append(sent[w], message)]
  BY DEF Write, JobInv, JobTypeOK
<1>2. sent[w] \in Seq(Messages) /\ sent'[w] = Append(sent[w], message)
  BY <1>1
<1>3. /\ Len(sent[w]) \in Nat /\ Len(sent'[w]) = Len(sent[w]) + 1
      /\ \A k \in 1 .. Len(sent[w]) : sent'[w][k] = sent[w][k]
      /\ sent'[w][Len(sent[w]) + 1] = message
  BY <1>2, AppendProperties
<1>4. \A k \in 1 .. Len(sent'[w]) : k \in 1 .. Len(sent[w]) \/ k = Len(sent[w]) + 1
  BY <1>3
<1>5. \A v \in Workers : v # w => sent'[v] = sent[v]
  BY <1>1
<1>6. \A m : Among(m, sent'[w]) <=> Among(m, sent[w]) \/ m = message
  BY <1>3, <1>4, SMTT(30) DEF Among
<1>7. QED
  BY <1>3, <1>4, <1>5, <1>6 DEF Among

\* The first part of SharedInTurn, and the second for some of the paths.
InTurn(s, w) ==
  \A k \in 1 .. Len(s) :
    IF s[k] = Stop THEN k = Len(s) ELSE s[k] = w + (k - 1) * NumWorkers

(* The path that is sent is the one whose turn it is, and the counters     *)
(* meet again behind the end of each round.                                *)
LEMMA ShareTurn ==
  ASSUME JobInv, TurnInv, Share
  PROVE  TurnInv'
<1> DEFINE r == Rounds
           n == NumWorkers
           w == i + 1
<1>1. /\ n \in Nat \ {0} /\ i \in 0 .. n - 1 /\ j \in Nat /\ numOfPaths \in 1 .. MaxPaths
      /\ P \in 1 .. numOfPaths /\ MaxPaths \in Nat
      /\ w \in Workers /\ n \in Workers /\ P \in Messages /\ P # Stop
  BY EngineAssumption DEF Share, JobInv, JobTypeOK, Workers, Messages, Stop
<1>2. /\ j = r * n /\ P = j + i + 1
      /\ \A v \in Workers : Len(sent[v]) = IF v <= i THEN r + 1 ELSE r
      /\ \A v \in Workers : ~Among(Stop, sent[v])
      /\ \A p \in 1 .. numOfPaths : p < P => Among(p, sent[TurnOf(p)])
      /\ SharedInTurn /\ jpc = "share" /\ j < numOfPaths
  BY DEF Share, TurnInv
<1>3. r \in Nat
  <2>1. sent[n] \in Seq(Messages)
    BY <1>1 DEF JobInv, JobTypeOK
  <2>2. QED
    BY <2>1 DEF Rounds
<1>4. Len(sent[w]) = r /\ r <= MaxPaths
  <2>1. Len(sent[w]) = r
    BY <1>1, <1>2, SMTT(30)
  <2>2. r * n = r + r * (n - 1) /\ r * (n - 1) >= 0
    <3>1. \A a, b \in Nat : a * b >= 0
      OBVIOUS
    <3>2. n - 1 \in Nat
      BY <1>1
    <3>3. QED
      BY <1>1, <1>3, <3>1, <3>2
  <2>3. r <= j
    BY <1>1, <1>2, <1>3, <2>2
  <2>4. QED
    BY <1>1, <1>2, <1>3, <2>1, <2>3
<1>5. Write(w, P) /\ Advance /\ jpc' = jpc /\ numOfPaths' = numOfPaths
  BY DEF Share
<1>6. /\ Len(sent'[w]) = r + 1
      /\ \A k \in 1 .. r : sent'[w][k] = sent[w][k]
      /\ sent'[w][r + 1] = P
      /\ \A v \in Workers : v # w => sent'[v] = sent[v]
      /\ \A m, v : v \in Workers =>
           (Among(m, sent'[v]) <=> Among(m, sent[v]) \/ (v = w /\ m = P))
  BY <1>1, <1>4, <1>5, WriteSent
<1>7. \A v \in Workers : InTurn(sent'[v], v)
  <2>1. \A v \in Workers : InTurn(sent[v], v)
    BY <1>2 DEF SharedInTurn, InTurn
  <2>2. ASSUME NEW k \in 1 .. r + 1
        PROVE  sent'[w][k] # Stop /\ sent'[w][k] = w + (k - 1) * n
    <3>1. CASE k \in 1 .. r
      <4>1. sent[w][k] # Stop
        BY <1>1, <1>2, <1>4, <3>1 DEF Among
      <4>2. sent[w][k] = w + (k - 1) * n
        BY <1>1, <1>4, <2>1, <3>1, <4>1 DEF InTurn
      <4>3. QED
        BY <1>6, <3>1, <4>1, <4>2
    <3>2. CASE k = r + 1
      <4>1. k - 1 = r /\ sent'[w][k] = P
        BY <1>3, <1>6, <3>2
      <4>2. P = w + r * n
        BY <1>1, <1>2, <1>3
      <4>3. QED
        BY <1>1, <4>1, <4>2
    <3>3. QED
      BY <1>3, <3>1, <3>2
  <2>3. InTurn(sent'[w], w)
    BY <1>6, <2>2 DEF InTurn
  <2>4. QED
    BY <1>6, <2>1, <2>3
<1>8. \A v \in Workers : ~Among(Stop, sent'[v])
  BY <1>1, <1>2, <1>6
<1>9. \A p \in 1 .. numOfPaths : TurnOf(p) \in Workers
  BY TurnIsWorker DEF JobInv, JobTypeOK
<1>10. TurnOf(P) = w
  BY <1>2, <1>3, <1>1, TurnInRound
<1>11. \A p \in 1 .. numOfPaths : p <= P => Among(p, sent'[TurnOf(p)])
  <2> TAKE p \in 1 .. numOfPaths
  <2>1. CASE p < P
    BY <1>2, <1>6, <1>9, <2>1
  <2>2. CASE p = P
    BY <1>1, <1>6, <1>10, <2>2
  <2>3. QED
    BY <1>1, <2>1, <2>2
<1>12. /\ j' < numOfPaths =>
            /\ j' = Rounds' * n /\ P' = j' + i' + 1
            /\ \A v \in Workers : Len(sent'[v]) = IF v <= i' THEN Rounds' + 1 ELSE Rounds'
       /\ \A p \in 1 .. numOfPaths : p < P' \/ j' >= numOfPaths => p <= P
  <2>0. Rounds' = Len(sent'[n])
    BY DEF Rounds
  <2>1. CASE P = numOfPaths
    <3>1. j' = j + n /\ P' = P
      BY <1>5, <2>1 DEF Advance
    <3>2. ~(j' < numOfPaths)
      BY <1>1, <1>2, <2>1, <3>1
    <3>3. QED
      BY <1>1, <2>1, <3>1, <3>2
  <2>2. CASE P # numOfPaths /\ w = n
    <3>1. j' = j + n /\ P' = P + 1 /\ i' = 0
      BY <1>5, <2>2 DEF Advance
    <3>2. Rounds' = r + 1
      BY <1>6, <2>0, <2>2
    <3>3. j' = Rounds' * n
      <4>1. (r + 1) * n = r * n + n
        BY <1>1, <1>3
      <4>2. QED
        BY <1>2, <3>1, <3>2, <4>1
    <3>4. \A v \in Workers : Len(sent'[v]) = r + 1 /\ ~(v <= i')
      <4> TAKE v \in Workers
      <4>1. v \in 1 .. n /\ ~(v <= i')
        BY <1>1, <3>1 DEF Workers
      <4>2. CASE v = w
        BY <1>6, <4>1, <4>2
      <4>3. CASE v # w
        <5>1. v <= i
          BY <1>1, <2>2, <4>1, <4>3
        <5>2. Len(sent[v]) = r + 1 /\ sent'[v] = sent[v]
          BY <1>2, <1>6, <4>3, <5>1
        <5>3. QED
          BY <4>1, <5>2
      <4>4. QED
        BY <4>2, <4>3
    <3>5. P' = j' + i' + 1 /\ j' = P
      BY <1>1, <1>2, <2>2, <3>1, SMTT(30)
    <3>6. QED
      BY <1>1, <2>2, <3>1, <3>2, <3>3, <3>4, <3>5
  <2>3. CASE P # numOfPaths /\ w # n
    <3>1. j' = j /\ P' = P + 1 /\ i' = w
      BY <1>5, <2>3 DEF Advance
    <3>2. Rounds' = r
      <4>1. sent'[n] = sent[n]
        BY <1>1, <1>6, <2>3
      <4>2. QED
        BY <2>0, <4>1 DEF Rounds
    <3>3. \A v \in Workers : Len(sent'[v]) = IF v <= w THEN r + 1 ELSE r
      BY <1>1, <1>2, <1>3, <1>6 DEF Workers
    <3>4. P' = j' + i' + 1
      BY <1>1, <1>2, <3>1
    <3>5. QED
      BY <1>1, <1>2, <3>1, <3>2, <3>3, <3>4, SMTT(30)
  <2>4. QED
    BY <2>1, <2>2, <2>3
<1>13. SharedInTurn'
  BY <1>2, <1>5, <1>7 DEF SharedInTurn, InTurn
<1>14. QED
  BY <1>2, <1>5, <1>8, <1>11, <1>12, <1>13 DEF TurnInv, Among

(* The writing of "stop" to the next worker ends what that worker is sent. *)
LEMMA StopTurn ==
  ASSUME JobInv, TurnInv, SendStop
  PROVE  TurnInv'
<1> DEFINE w == i + 1
<1>1. /\ w \in Workers /\ Stop \in Messages /\ i \in Nat
      /\ jpc = "stop" /\ jpc' \in {"stop", "command"}
      /\ jpc' = "stop" => i' = w
      /\ sent \in [Workers -> Seq(Messages)]
  <2>1. EachWorker("stop", "command") /\ JobTypeOK
    BY DEF SendStop, JobInv
  <2>2. w \in Workers /\ jpc = "stop" /\ jpc' \in {"stop", "command"}
    BY <2>1, EachWorkerTypes
  <2>3. jpc' = "stop" => i' = w
    BY <2>1 DEF EachWorker
  <2>4. Stop \in Messages /\ i \in Nat /\ sent \in [Workers -> Seq(Messages)]
    BY <2>1, EngineAssumption DEF JobTypeOK, Stop, Messages
  <2>5. QED
    BY <2>2, <2>3, <2>4
<1>2. /\ \A v \in Workers : v > i => ~Among(Stop, sent[v])
      /\ \A v \in Workers : InTurn(sent[v], v)
      /\ \A p \in 1 .. numOfPaths : Among(p, sent[TurnOf(p)])
  BY <1>1 DEF TurnInv, SharedInTurn, InTurn
<1>3. Write(w, Stop) /\ numOfPaths' = numOfPaths
  BY DEF SendStop
<1>4. \A p \in 1 .. numOfPaths : TurnOf(p) \in Workers
  BY TurnIsWorker DEF JobInv, JobTypeOK
<1>5. /\ \A v \in Workers : v > w => ~Among(Stop, sent'[v])
      /\ \A v \in Workers : InTurn(sent'[v], v)
      /\ \A m, v : v \in Workers /\ Among(m, sent[v]) => Among(m, sent'[v])
  <2>1. CASE Len(sent[w]) <= MaxPaths
    <3>1. /\ Len(sent'[w]) = Len(sent[w]) + 1
          /\ \A k \in 1 .. Len(sent[w]) : sent'[w][k] = sent[w][k]
          /\ sent'[w][Len(sent[w]) + 1] = Stop
          /\ \A k \in 1 .. Len(sent'[w]) : k \in 1 .. Len(sent[w]) \/ k = Len(sent[w]) + 1
          /\ \A v \in Workers : v # w => sent'[v] = sent[v]
          /\ \A m, v : v \in Workers =>
               (Among(m, sent'[v]) <=> Among(m, sent[v]) \/ (v = w /\ m = Stop))
      BY <1>1, <1>3, <2>1, WriteSent
    <3>2. ~Among(Stop, sent[w])
      BY <1>1, <1>2
    <3>3. InTurn(sent'[w], w)
      <4> SUFFICES ASSUME NEW k \in 1 .. Len(sent'[w])
                   PROVE  IF sent'[w][k] = Stop THEN k = Len(sent'[w])
                          ELSE sent'[w][k] = w + (k - 1) * NumWorkers
        BY DEF InTurn
      <4>1. CASE k \in 1 .. Len(sent[w])
        <5>1. sent[w][k] # Stop
          BY <3>2, <4>1 DEF Among
        <5>2. sent[w][k] = w + (k - 1) * NumWorkers
          BY <1>1, <1>2, <4>1, <5>1 DEF InTurn
        <5>3. QED
          BY <3>1, <4>1, <5>1, <5>2
      <4>2. CASE k = Len(sent[w]) + 1
        BY <3>1, <4>2
      <4>3. QED
        BY <3>1, <4>1, <4>2
    <3>4. \A v \in Workers : InTurn(sent'[v], v)
      BY <1>2, <3>1, <3>3
    <3>5. \A v \in Workers : v > w => v > i /\ v # w
      BY <1>1 DEF Workers
    <3>6. QED
      BY <1>2, <3>1, <3>4, <3>5
  <2>2. CASE ~(Len(sent[w]) <= MaxPaths)
    <3>1. sent' = sent
      BY <1>3, <2>2 DEF Write
    <3>2. \A v \in Workers : v > w => v > i
      BY <1>1 DEF Workers
    <3>3. QED
      BY <1>2, <3>1, <3>2
  <2>3. QED
    BY <2>1, <2>2
<1>6. SharedInTurn'
  BY <1>2, <1>3, <1>4, <1>5 DEF SharedInTurn, InTurn
<1>7. jpc' = "stop" => \A v \in Workers : v > i' => ~Among(Stop, sent'[v])
  BY <1>1, <1>5
<1>8. jpc' # "share"
  BY <1>1
<1>9. QED
  BY <1>6, <1>7, <1>8 DEF TurnInv, Among

(* The counters where sharing begins, and where it ends.                   *)
LEMMA ForkTurn ==
  ASSUME JobInv, TurnInv, Fork
  PROVE  TurnInv'
<1>1. /\ j = 0 /\ P = 1 /\ NumWorkers \in Workers /\ numOfPaths \in Nat
      /\ \A w \in Workers : sent[w] = <<>>
      /\ UNCHANGED <<sent, numOfPaths, j, P>>
      /\ jpc' \in {"fork", "share"}
      /\ jpc' = "share" => i' = 0
  BY EngineAssumption DEF JobInv, JobTypeOK, Fork, EachWorker, Workers
<1>2. \A w \in Workers : Len(sent'[w]) = 0 /\ \A m : ~Among(m, sent'[w])
  BY <1>1 DEF Among
<1>3. Rounds' = 0
  BY <1>1, <1>2 DEF Rounds
<1>4. SharedInTurn'
  BY <1>1, <1>2 DEF SharedInTurn
<1>5. jpc' = "share" =>
        /\ \A w \in Workers : ~Among(Stop, sent'[w])
        /\ j' = Rounds' * NumWorkers /\ P' = j' + i' + 1
        /\ \A w \in Workers : Len(sent'[w]) = IF w <= i' THEN Rounds' + 1 ELSE Rounds'
        /\ \A p \in 1 .. numOfPaths' : ~(p < P' \/ j' >= numOfPaths')
  <2> SUFFICES ASSUME jpc' = "share"
               PROVE  /\ \A w \in Workers : ~Among(Stop, sent'[w])
                      /\ j' = Rounds' * NumWorkers /\ P' = j' + i' + 1
                      /\ \A w \in Workers : Len(sent'[w]) = IF w <= i' THEN Rounds' + 1 ELSE Rounds'
                      /\ \A p \in 1 .. numOfPaths' : ~(p < P' \/ j' >= numOfPaths')
    OBVIOUS
  <2>1. j' = Rounds' * NumWorkers /\ P' = j' + i' + 1
    BY <1>1, <1>3, EngineAssumption
  <2>2. \A w \in Workers : ~(w <= i')
    BY <1>1 DEF Workers
  <2>3. \A p \in 1 .. numOfPaths' : ~(p < P' \/ j' >= numOfPaths')
    BY <1>1
  <2>4. QED
    BY <1>2, <1>3, <2>1, <2>2, <2>3
<1>6. QED
  BY <1>1, <1>4, <1>5 DEF TurnInv, Among

LEMMA ShareEndsTurn ==
  ASSUME JobInv, TurnInv, ShareEnds
  PROVE  TurnInv'
<1>1. /\ jpc = "share" /\ jpc' = "stop" /\ j >= numOfPaths
      /\ UNCHANGED <<sent, numOfPaths, i, j, P>>
  BY DEF ShareEnds
<1>2. QED
  BY <1>1 DEF TurnInv, SharedInTurn, Among, TurnOf

(* The other steps: the parent is not at sharing, or nothing of it moves.  *)
LEMMA QuietTurn ==
  ASSUME TurnInv, UNCHANGED sent,
         \/ UNCHANGED <<numOfPaths, jpc, i, j, P>>
         \/ jpc' \in {"none", "load", "fork", "failed"}
         \/ /\ jpc \in {"command", "kill"} /\ jpc' \in {"command", "kill", "done", "crashed"}
            /\ UNCHANGED numOfPaths
  PROVE  TurnInv'
BY DEF TurnInv, SharedInTurn, Rounds, Among, TurnOf

LEMMA EngineTurn ==
  ASSUME JobInv, TurnInv, EngineNext
  PROVE  TurnInv'
<1>1. CASE LoadPaths \/ ForkFails
  BY <1>1, QuietTurn DEF LoadPaths, ForkFails
<1>2. CASE Command \/ KillWorker
  BY <1>2, QuietTurn DEF Command, KillWorker, EachWorker
<1>3. ASSUME NEW w \in Workers, WorkerStep(w) \/ Terminate(w)
      PROVE  TurnInv'
  <2>1. UNCHANGED <<sent, numOfPaths, jpc, i, j, P>>
    BY <1>3 DEF WorkerStep, ReadPaths, InstallHandlers, Terminate, parentVars
  <2>2. QED
    BY <2>1, QuietTurn
<1>4. QED
  BY <1>1, <1>2, <1>3, ForkTurn, ShareTurn, ShareEndsTurn, StopTurn DEF EngineNext, ParentStep

LEMMA OutsideTurn ==
  ASSUME FreshInv, TurnInv,
         \/ CrawlFinishes \/ OtherCommand \/ FirstSearch \/ LaterSearch \/ Shutdown
         \/ CrawlerStep \/ CrawlerDies \/ RemoveOld \/ ListOne \/ UNCHANGED vars
  PROVE  TurnInv'
<1>1. /\ UNCHANGED sent
      /\ UNCHANGED <<numOfPaths, jpc, i, j, P>> \/ jpc' \in {"load", "failed"}
  <2> USE DEF engineVars, parentVars
  <2>1. CASE CrawlFinishes \/ CrawlerDies \/ UNCHANGED vars
    BY <2>1 DEF CrawlFinishes, CrawlerDies, vars
  <2>2. CASE OtherCommand \/ FirstSearch \/ LaterSearch \/ Shutdown
    BY <2>2 DEF OtherCommand, FirstSearch, LaterSearch, Shutdown, Comes
  <2>3. CASE Wait \/ ForkEngine
    BY <2>3 DEF Wait, ForkEngine
  <2>4. CASE AskEngine \/ TellExit \/ ReadAnswer
    BY <2>4 DEF AskEngine, TellExit, Printf, ReadAnswer
  <2>5. CASE RemoveOld \/ ListOne
    BY <2>5 DEF RemoveOld, ListOne
  <2>6. QED
    BY <2>1, <2>2, <2>3, <2>4, <2>5 DEF CrawlerStep
<1>2. QED
  BY <1>1, QuietTurn

(* Every path goes to the worker whose turn it is, none twice and none not *)
(* at all, and nothing follows "stop", for every number of workers and     *)
(* paths: `j = j + i - 1' with the outer i and the `j++' of the loop add   *)
(* up to one round, whether the paths end in the middle of it or not       *)
(* (jobExecutor.c:177-204).                                                *)
THEOREM SearchSharedInTurn == Spec => []SharedInTurn
<1>1. Init => TurnInv
  <2> SUFFICES ASSUME Init PROVE TurnInv
    OBVIOUS
  <2>1. jpc = "none" /\ \A w \in Workers : Len(sent[w]) = 0
    BY DEF Init, EngineInit
  <2>2. QED
    BY <2>1 DEF TurnInv, SharedInTurn
<1>2. SearchInv /\ FreshInv /\ TurnInv /\ [Next]_vars => TurnInv'
  BY EngineTurn, OutsideTurn DEF Next, SearchInv
<1>3. TurnInv => SharedInTurn
  BY DEF TurnInv
<1>4. QED
  BY <1>1, <1>2, <1>3, SearchFreshInv, PTL DEF Spec
==============================================================================
