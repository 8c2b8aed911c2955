---------------------------- MODULE CrawlerProofs ----------------------------
(***************************************************************************)
(* Proofs about the crawler, for any number of crawling threads and any    *)
(* site.                                                                   *)
(***************************************************************************)
EXTENDS Crawler, SequenceTheorems, FiniteSetTheorems, TLAPS

------------------------------------------------------------------------------
(* The lists.                                                              *)

(* list_add puts a page in front (list.c:22-44).                           *)
LEMMA ListAdd ==
  ASSUME NEW S, NEW l \in Seq(S), NEW p \in S
  PROVE  /\ list_add(l, p) \in Seq(S)
         /\ Len(list_add(l, p)) = Len(l) + 1
         /\ \A q : list_check(list_add(l, p), q) <=> q = p \/ list_check(l, q)
         /\ Distinct(l) /\ ~list_check(l, p) => Distinct(list_add(l, p))
<1> DEFINE n == Len(l)
           m == list_add(l, p)
<1>1. /\ m \in Seq(S) /\ n \in Nat /\ Len(m) = n + 1
      /\ m[1] = p /\ 1 \in 1 .. n + 1
      /\ \A i \in 1 .. n : m[i + 1] = l[i] /\ i + 1 \in 1 .. n + 1
  <2>1. <<p>> \in Seq(S) /\ Len(<<p>>) = 1 /\ <<p>>[1] = p
    OBVIOUS
  <2>2. QED
    BY <2>1, ConcatProperties DEF list_add
<1>2. \A i \in 1 .. n + 1 : i = 1 \/ (i - 1 \in 1 .. n /\ m[i] = l[i - 1])
  BY <1>1
<1>3. ASSUME NEW q PROVE list_check(m, q) <=> q = p \/ list_check(l, q)
  <2>1. ASSUME NEW i \in 1 .. n + 1, m[i] = q PROVE q = p \/ list_check(l, q)
    BY <1>1, <1>2, <2>1 DEF list_check
  <2>2. ASSUME NEW i \in 1 .. n, l[i] = q PROVE list_check(m, q)
    BY <1>1, <2>2 DEF list_check
  <2>3. list_check(m, p)
    BY <1>1 DEF list_check
  <2>4. QED
    BY <1>1, <2>1, <2>2, <2>3 DEF list_check
<1>4. ASSUME Distinct(l), ~list_check(l, p) PROVE Distinct(m)
  <2> SUFFICES ASSUME NEW i \in 1 .. n + 1, NEW j \in 1 .. n + 1, m[i] = m[j]
               PROVE  i = j
    BY <1>1 DEF Distinct
  <2>1. CASE i = 1 /\ j = 1
    BY <2>1
  <2>2. CASE i = 1 /\ j # 1
    BY <1>1, <1>2, <1>4, <2>2 DEF list_check
  <2>3. CASE i # 1 /\ j = 1
    BY <1>1, <1>2, <1>4, <2>3 DEF list_check
  <2>4. CASE i # 1 /\ j # 1
    <3>1. i - 1 \in 1 .. n /\ j - 1 \in 1 .. n /\ l[i - 1] = l[j - 1]
      BY <1>2, <2>4
    <3>2. i - 1 = j - 1
      BY <1>4, <3>1 DEF Distinct
    <3>3. QED
      BY <3>2
  <2>5. QED
    BY <2>1, <2>2, <2>3, <2>4
<1>5. QED
  BY <1>1, <1>3, <1>4

(* list_rem takes the page in front (list.c:13-19).                        *)
LEMMA ListRem ==
  ASSUME NEW S, NEW l \in Seq(S), l # <<>>
  PROVE  /\ Head(l) \in S /\ Tail(l) \in Seq(S)
         /\ Len(Tail(l)) = Len(l) - 1
         /\ \A q : list_check(l, q) <=> q = Head(l) \/ list_check(Tail(l), q)
         /\ Distinct(l) => Distinct(Tail(l)) /\ ~list_check(Tail(l), Head(l))
<1> DEFINE n == Len(l)
           m == Tail(l)
<1>1. /\ n \in Nat \ {0} /\ m \in Seq(S) /\ Len(m) = n - 1
      /\ Head(l) = l[1] /\ l[1] \in S
      /\ \A i \in 1 .. n - 1 : m[i] = l[i + 1] /\ i + 1 \in 1 .. n /\ i + 1 # 1
  BY EmptySeq, HeadTailProperties
<1>2. \A i \in 1 .. n : i = 1 \/ (i - 1 \in 1 .. n - 1 /\ l[i] = m[i - 1])
  BY <1>1
<1>3. \A q : list_check(l, q) <=> q = Head(l) \/ list_check(m, q)
  <2> TAKE q
  <2>1. ASSUME NEW i \in 1 .. n, l[i] = q
        PROVE  q = Head(l) \/ \E k \in 1 .. n - 1 : m[k] = q
    <3>1. CASE i = 1
      BY <1>1, <2>1, <3>1
    <3>2. CASE i # 1
      BY <1>2, <2>1, <3>2
    <3>3. QED
      BY <3>1, <3>2
  <2>2. q = Head(l) => \E k \in 1 .. n : l[k] = q
    BY <1>1
  <2>3. ASSUME NEW i \in 1 .. n - 1, m[i] = q PROVE \E k \in 1 .. n : l[k] = q
    BY <1>1, <2>3
  <2>4. list_check(l, q) <=> \E k \in 1 .. n : l[k] = q
    BY DEF list_check
  <2>5. list_check(m, q) <=> \E k \in 1 .. n - 1 : m[k] = q
    BY <1>1 DEF list_check
  <2> HIDE DEF n, m
  <2>6. QED
    BY <2>1, <2>2, <2>3, <2>4, <2>5
<1>4. ASSUME Distinct(l) PROVE Distinct(m) /\ ~list_check(m, Head(l))
  <2>1. 1 \in 1 .. n
    BY <1>1
  <2>2. ~list_check(m, Head(l))
    BY <1>1, <1>4, <2>1 DEF Distinct, list_check
  <2>3. ASSUME NEW i \in 1 .. n - 1, NEW j \in 1 .. n - 1, m[i] = m[j]
        PROVE  i = j
    <3>1. i + 1 = j + 1
      BY <1>1, <1>4, <2>3 DEF Distinct
    <3>2. QED
      BY <3>1
  <2>4. QED
    BY <1>1, <2>2, <2>3 DEF Distinct
<1>5. QED
  BY <1>1, <1>3, <1>4

------------------------------------------------------------------------------
(* Types, and the number of workers.                                       *)

LEMMA MainTypes ==
  ASSUME CrawlerTypeOK,
         MainStep \/ MainFails \/ Answered \/ \E c \in Commands : AcceptCommand(c)
  PROVE  CrawlerTypeOK'
<1> USE DEF CrawlerTypeOK, MoveMain, MainLabels, lists, stats, threadVars, mainVars
<1>1. CASE Boot
  <2>1. pagesToAdd' \in Seq(Pages)
    BY <1>1, ListAdd, WebAssumption DEF Boot
  <2>2. QED
    BY <1>1, <2>1 DEF Boot, ThreadLabels
<1>2. CASE OpenPort \/ ReadCommand \/ Answered
  BY <1>2 DEF OpenPort, ReadCommand, Answered
<1>3. CASE SearchLock \/ SearchFinished \/ SearchInProgress
  BY <1>3 DEF SearchLock, SearchFinished, SearchInProgress, AcquireList, ReleaseList
<1>4. CASE Bye \/ AllCancelled \/ \E t \in Threads : Cancel(t)
  BY <1>4 DEF Bye, Cancel, AllCancelled
<1>5. CASE FreeToAdd \/ FreeAdded
  <2>1. \A l \in Seq(Pages) : l # <<>> => Tail(l) \in Seq(Pages)
    OBVIOUS
  <2>2. pagesToAdd' \in Seq(Pages) /\ pagesAdded' \in Seq(Pages)
    BY <1>5, <2>1 DEF FreeToAdd, FreeAdded, list_empty
  <2>3. QED
    BY <1>5, <2>2 DEF FreeToAdd, FreeAdded
<1>6. CASE End \/ MainFails
  BY <1>6 DEF End, MainFails, Exit
<1>7. ASSUME NEW c \in Commands, AcceptCommand(c) PROVE CrawlerTypeOK'
  <2>1. commands' \in 0 .. MaxCommands
    BY <1>7, MaxCommandsAssumption DEF AcceptCommand
  <2>2. QED
    BY <1>7, <2>1 DEF AcceptCommand
<1>8. QED
  BY <1>1, <1>2, <1>3, <1>4, <1>5, <1>6, <1>7 DEF MainStep

(* The threads at work are counted by `workers'.                           *)
LEMMA AtWorkFinite ==
  /\ AtWork \subseteq Threads /\ IsFiniteSet(AtWork) /\ Cardinality(AtWork) \in Nat
  /\ \A t \in AtWork : Cardinality(AtWork) # 0
<1>1. AtWork \subseteq Threads
  BY DEF AtWork
<1>2. QED
  BY <1>1, CrawlerThreads, FS_Subset, FS_CardinalityType, FS_EmptySet

LEMMA ThreadTypes ==
  ASSUME WorkInv, NEW t \in Threads,
         \/ ThreadStep(t) \/ ThreadFails(t) \/ UseAfterFree(t)
         \/ SpuriousWake(t) \/ Cancelled(t) \/ CancelledInWait(t)
  PROVE  CrawlerTypeOK'
<1> USE DEF WorkInv, CrawlerTypeOK, Move, ThreadLabels, lists, stats, threadVars, mainVars
<1>1. CASE ThreadLock(t) \/ ThreadWait(t) \/ ThreadSees(t) \/ ThreadUnlock(t)
  BY <1>1 DEF ThreadLock, ThreadWait, ThreadSees, ThreadUnlock, AcquireList, ReleaseList
<1>2. CASE ThreadTake(t)
  <2>1. /\ Head(pagesToAdd) \in Pages
        /\ pagesToAdd' \in Seq(Pages) /\ pagesAdded' \in Seq(Pages)
    BY <1>2, ListRem, ListAdd DEF ThreadTake, list_empty
  <2>2. QED
    BY <1>2, <2>1 DEF ThreadTake
<1>3. CASE GetFound(t) \/ GetNotFound(t) \/ GetHangs(t) \/ LinkLock(t) \/ LastLink(t)
  BY <1>3 DEF GetFound, GetNotFound, GetHangs, LinkLock, LastLink, AcquireList
<1>4. CASE Count(t) \/ Save(t)
  <2>1. page[t] \in Pages
    BY <1>4 DEF Count, Save, Working
  <2>2. Bytes[page[t]] \in Nat /\ Links[page[t]] \in Seq(Pages)
    BY <2>1, WebAssumption
  <2>3. CASE Count(t)
    BY <2>1, <2>2, <2>3, SMTT(30) DEF Count
  <2>4. CASE Save(t)
    BY <2>1, <2>2, <2>4 DEF Save
  <2>5. QED
    BY <1>4, <2>3, <2>4
<1>5. CASE AddLink(t)
  <2>1. Head(todo[t]) \in Pages /\ Tail(todo[t]) \in Seq(Pages)
    BY <1>5, ListRem DEF AddLink
  <2>2. pagesToAdd' \in Seq(Pages)
    <3>1. list_add(pagesToAdd, Head(todo[t])) \in Seq(Pages)
      BY <2>1, ListAdd
    <3>2. QED
      BY <1>5, <3>1 DEF AddLink
  <2>3. tpc' \in [Threads -> ThreadLabels]
    BY <1>5 DEF AddLink, Signal, Waiters
  <2>4. todo' \in [Threads -> Seq(Pages)]
    BY <1>5, <2>1 DEF AddLink
  <2>5. QED
    BY <1>5, <2>2, <2>3, <2>4 DEF AddLink, ReleaseList
<1>6. CASE Done(t)
  <2>1. t \in AtWork
    BY <1>6 DEF Done, AtWork, Working
  <2>2. workers' \in Nat
    BY <1>6, <2>1, AtWorkFinite DEF Done, WorkersCounted
  <2>3. QED
    BY <1>6, <2>2 DEF Done
<1>7. CASE SpuriousWake(t) \/ Cancelled(t) \/ CancelledInWait(t)
  BY <1>7 DEF SpuriousWake, Cancelled, CancelledInWait, AcquireList
<1>8. CASE TakeCrashes(t) \/ GetFails(t) \/ SaveFails(t) \/ UseAfterFree(t)
  BY <1>8 DEF TakeCrashes, GetFails, SaveFails, UseAfterFree, Exit
<1>9. QED
  BY <1>1, <1>2, <1>3, <1>4, <1>5, <1>6, <1>7, <1>8 DEF ThreadStep, ThreadFails

(* Steps that neither take a page nor are done with one.                   *)
LEMMA QuietWork ==
  ASSUME WorkInv, CrawlerTypeOK', page' = page, workers' = workers,
         mpc' = "boot" => mpc = "boot" /\ tpc' = tpc,
         \A t \in Threads :
           /\ tpc'[t] \in Looking => tpc[t] \in Looking
           /\ tpc'[t] \in Working => tpc[t] \in Working
           /\ tpc'[t] = "linkadd" => todo'[t] # <<>>
  PROVE  WorkInv'
<1>1. AtWork' = AtWork
  BY DEF AtWork
<1>2. WorkersCounted'
  BY <1>1 DEF WorkInv, WorkersCounted
<1>3. QED
  BY <1>2 DEF WorkInv

LEMMA MainWork ==
  ASSUME WorkInv,
         MainStep \/ MainFails \/ Answered \/ \E c \in Commands : AcceptCommand(c)
  PROVE  WorkInv'
<1>1. CrawlerTypeOK'
  BY MainTypes DEF WorkInv
<1>2. CASE Boot
  <2>1. /\ UNCHANGED <<page, workers>> /\ mpc' # "boot"
        /\ \A t \in Threads : tpc[t] = "unborn" /\ tpc'[t] = "lock"
    BY <1>2 DEF Boot, MoveMain, WorkInv
  <2>2. QED
    BY <1>1, <2>1, QuietWork DEF Looking, Working
<1>3. CASE ~Boot
  <2>1. UNCHANGED <<page, workers, tpc, todo>>
    BY <1>3
       DEF MainStep, OpenPort, ReadCommand, Answered, SearchLock, SearchFinished,
           SearchInProgress, Bye, Cancel, AllCancelled, FreeToAdd, FreeAdded, End, MainFails,
           AcceptCommand, Exit, threadVars
  <2>2. mpc' = "boot" => mpc = "boot"
    BY <1>3
       DEF MainStep, OpenPort, ReadCommand, Answered, SearchLock, SearchFinished,
           SearchInProgress, Bye, Cancel, AllCancelled, FreeToAdd, FreeAdded, End, MainFails,
           AcceptCommand, Exit, mainVars, MoveMain
  <2>3. QED
    BY <1>1, <2>1, <2>2, QuietWork DEF WorkInv
<1>4. QED
  BY <1>2, <1>3

(* A page that is taken is counted in, one that is done with is counted    *)
(* off (crawlThread.c:204, 210).                                           *)
LEMMA TakeWork ==
  ASSUME WorkInv, NEW t \in Threads, ThreadTake(t)
  PROVE  WorkInv'
<1>1. CrawlerTypeOK'
  BY ThreadTypes DEF ThreadStep
<1>2. /\ tpc[t] = "take" /\ tpc' = [tpc EXCEPT ![t] = "unlock"]
      /\ page' = [page EXCEPT ![t] = Head(pagesToAdd)]
      /\ workers' = workers + 1 /\ todo' = todo /\ mpc' = mpc
      /\ Head(pagesToAdd) # NoPage
      /\ tpc \in [Threads -> ThreadLabels]
      /\ page \in [Threads -> Pages \cup {NoPage}]
  BY ListRem, WebAssumption
     DEF ThreadTake, Move, mainVars, WorkInv, CrawlerTypeOK, list_empty
<1>3. t \notin AtWork /\ AtWork' = AtWork \cup {t}
  BY <1>2 DEF AtWork, WorkInv, Looking
<1>4. Cardinality(AtWork') = Cardinality(AtWork) + 1
  BY <1>3, AtWorkFinite, FS_AddElement
<1>5. WorkersCounted'
  BY <1>2, <1>4 DEF WorkersCounted, WorkInv
<1>6. \A u \in Threads :
        /\ tpc'[u] \in Looking => page'[u] = NoPage
        /\ tpc'[u] \in Working => page'[u] # NoPage
        /\ tpc'[u] = "linkadd" => todo'[u] # <<>>
  BY <1>2 DEF WorkInv, Looking, Working
<1>7. QED
  BY <1>1, <1>2, <1>5, <1>6 DEF WorkInv

LEMMA DoneWork ==
  ASSUME WorkInv, NEW t \in Threads, Done(t)
  PROVE  WorkInv'
<1>1. CrawlerTypeOK'
  BY ThreadTypes DEF ThreadStep
<1>2. /\ tpc[t] = "done" /\ tpc' = [tpc EXCEPT ![t] = "lock"]
      /\ page' = [page EXCEPT ![t] = NoPage]
      /\ workers' = workers - 1 /\ todo' = todo /\ mpc' = mpc
      /\ tpc \in [Threads -> ThreadLabels]
      /\ page \in [Threads -> Pages \cup {NoPage}]
  BY DEF Done, Move, mainVars, WorkInv, CrawlerTypeOK
<1>3. t \in AtWork /\ AtWork' = AtWork \ {t}
  BY <1>2 DEF AtWork, WorkInv, Working
<1>4. Cardinality(AtWork') = Cardinality(AtWork) - 1
  BY <1>3, AtWorkFinite, FS_RemoveElement
<1>5. WorkersCounted'
  BY <1>2, <1>4 DEF WorkersCounted, WorkInv
<1>6. \A u \in Threads :
        /\ tpc'[u] \in Looking => page'[u] = NoPage
        /\ tpc'[u] \in Working => page'[u] # NoPage
        /\ tpc'[u] = "linkadd" => todo'[u] # <<>>
  BY <1>2 DEF WorkInv, Looking, Working
<1>7. QED
  BY <1>1, <1>2, <1>5, <1>6 DEF WorkInv

LEMMA ThreadWork ==
  ASSUME WorkInv, NEW t \in Threads,
         \/ ThreadStep(t) \/ ThreadFails(t) \/ UseAfterFree(t)
         \/ SpuriousWake(t) \/ Cancelled(t) \/ CancelledInWait(t)
  PROVE  WorkInv'
<1>1. CrawlerTypeOK'
  BY ThreadTypes
<1> USE DEF Looking, Working, Move, WorkInv, CrawlerTypeOK
<1>2. CASE ThreadLock(t) \/ ThreadWait(t) \/ ThreadSees(t) \/ SpuriousWake(t)
  BY <1>1, <1>2, QuietWork DEF ThreadLock, ThreadWait, ThreadSees, SpuriousWake, mainVars
<1>3. CASE ThreadUnlock(t) \/ GetFound(t) \/ GetNotFound(t) \/ GetHangs(t) \/ Count(t)
         \/ LastLink(t)
  BY <1>1, <1>3, QuietWork
     DEF ThreadUnlock, GetFound, GetNotFound, GetHangs, Count, LastLink, mainVars
<1>4. CASE LinkLock(t)
  BY <1>1, <1>4, QuietWork DEF LinkLock, mainVars
<1>5. CASE Save(t)
  BY <1>1, <1>5, QuietWork DEF Save, mainVars
<1>6. CASE AddLink(t)
  <2>1. /\ UNCHANGED <<page, workers>> /\ mpc' = mpc /\ tpc[t] = "linkadd"
        /\ \A u \in Threads : u # t => todo'[u] = todo[u]
        /\ \A u \in Threads :
             \/ (tpc'[u] = tpc[u] /\ u # t)
             \/ (tpc[u] = "linkadd" /\ tpc'[u] = "link")
             \/ (tpc[u] = "waiting" /\ tpc'[u] = "lock")
    BY <1>6 DEF AddLink, Signal, Waiters, mainVars
  <2>2. QED
    BY <1>1, <2>1, QuietWork
<1>7. CASE Cancelled(t) \/ CancelledInWait(t)
  BY <1>1, <1>7, QuietWork DEF Cancelled, CancelledInWait, mainVars
<1>8. CASE TakeCrashes(t) \/ GetFails(t) \/ SaveFails(t) \/ UseAfterFree(t)
  BY <1>1, <1>8, QuietWork
     DEF TakeCrashes, GetFails, SaveFails, UseAfterFree, Exit, threadVars, mainVars
<1>9. QED
  BY <1>2, <1>3, <1>4, <1>5, <1>6, <1>7, <1>8, TakeWork, DoneWork DEF ThreadStep, ThreadFails

(* The variables keep their types, and the main thread may rely on         *)
(* `workers'.                                                              *)
LEMMA CrawlerWorkInv == Spec => []WorkInv
<1>1. Init => WorkInv
  <2> SUFFICES ASSUME Init PROVE WorkInv
    OBVIOUS
  <2>1. CrawlerTypeOK
    <3>1. <<>> \in Seq(Pages) /\ 0 \in 0 .. MaxCommands
      BY MaxCommandsAssumption
    <3>2. pagesToAdd \in Seq(Pages) /\ pagesAdded \in Seq(Pages)
          /\ commands \in 0 .. MaxCommands
      BY <3>1 DEF Init
    <3>3. todo \in [Threads -> Seq(Pages)]
      BY <3>1 DEF Init
    <3>4. QED
      BY <3>2, <3>3 DEF Init, CrawlerTypeOK, ThreadLabels, MainLabels
  <2>2. AtWork = {}
    BY DEF Init, AtWork
  <2>3. QED
    BY <2>1, <2>2, FS_EmptySet DEF Init, WorkInv, WorkersCounted, Looking, Working
<1>2. WorkInv /\ [Next]_vars => WorkInv'
  <2> SUFFICES ASSUME WorkInv, [Next]_vars PROVE WorkInv'
    OBVIOUS
  <2>1. CASE UNCHANGED vars
    BY <2>1
       DEF vars, lists, stats, threadVars, mainVars, WorkInv, CrawlerTypeOK, WorkersCounted,
           AtWork
  <2>2. QED
    BY <2>1, MainWork, ThreadWork DEF Next
<1>3. QED
  BY <1>1, <1>2, PTL DEF Spec

(* The variables of the crawler keep their types (mycrawler.c,             *)
(* crawlThread.c, list.c); `workers' never goes below zero.                *)
THEOREM CrawlerTypeCorrect == Spec => []CrawlerTypeOK
<1>1. WorkInv => CrawlerTypeOK
  BY DEF WorkInv
<1>2. QED
  BY <1>1, CrawlerWorkInv, PTL

(* `workers' is the number of threads that have taken a page and are not   *)
(* done with it, with any number of threads (crawlThread.c:204, 210): the  *)
(* main thread cannot take the crawl for finished while a page is being    *)
(* fetched (mycrawler.c:141).                                              *)
THEOREM CrawlerWorkersCounted == Spec => []WorkersCounted
<1>1. WorkInv => WorkersCounted
  BY DEF WorkInv
<1>2. QED
  BY <1>1, CrawlerWorkInv, PTL

------------------------------------------------------------------------------
(* Mutual exclusion on listToAddLock.                                      *)

LEMMA MainLockKept ==
  ASSUME WorkInv, LockInv,
         MainStep \/ MainFails \/ Answered \/ \E c \in Commands : AcceptCommand(c)
  PROVE  LockInv'
<1> USE CrawlerThreads DEF LockInv, Inside, MoveMain
<1>1. CASE Boot
  BY <1>1 DEF Boot, WorkInv
<1>2. CASE OpenPort \/ ReadCommand \/ Answered
  BY <1>2 DEF OpenPort, ReadCommand, Answered, threadVars
<1>3. CASE SearchLock \/ SearchFinished \/ SearchInProgress
  BY <1>3 DEF SearchLock, SearchFinished, SearchInProgress, AcquireList, ReleaseList, threadVars
<1>4. CASE Bye \/ AllCancelled \/ \E t \in Threads : Cancel(t)
  BY <1>4 DEF Bye, Cancel, AllCancelled, threadVars
<1>5. CASE FreeToAdd \/ FreeAdded
  BY <1>5 DEF FreeToAdd, FreeAdded, threadVars
<1>6. CASE End \/ MainFails
  BY <1>6 DEF End, MainFails, Exit, threadVars, mainVars
<1>7. ASSUME NEW c \in Commands, AcceptCommand(c) PROVE LockInv'
  BY <1>7 DEF AcceptCommand, threadVars
<1>8. QED
  BY <1>1, <1>2, <1>3, <1>4, <1>5, <1>6, <1>7 DEF MainStep

LEMMA ThreadLockKept ==
  ASSUME WorkInv, LockInv, NEW t \in Threads,
         \/ ThreadStep(t) \/ ThreadFails(t) \/ UseAfterFree(t)
         \/ SpuriousWake(t) \/ Cancelled(t) \/ CancelledInWait(t)
  PROVE  LockInv'
<1> USE CrawlerThreads DEF LockInv, Inside, Move, WorkInv, CrawlerTypeOK
<1>1. CASE ThreadLock(t) \/ LinkLock(t) \/ CancelledInWait(t)
  BY <1>1 DEF ThreadLock, LinkLock, CancelledInWait, AcquireList, mainVars
<1>2. CASE ThreadWait(t) \/ ThreadUnlock(t)
  BY <1>2 DEF ThreadWait, ThreadUnlock, ReleaseList, mainVars
<1>3. CASE ThreadSees(t) \/ ThreadTake(t)
  BY <1>3 DEF ThreadSees, ThreadTake, mainVars
<1>4. CASE GetFound(t) \/ GetNotFound(t) \/ GetHangs(t) \/ Count(t) \/ Save(t) \/ LastLink(t)
  BY <1>4 DEF GetFound, GetNotFound, GetHangs, Count, Save, LastLink, mainVars
<1>5. CASE AddLink(t)
  <2>1. /\ tpc[t] = "linkadd" /\ tpc'[t] = "link"
        /\ \A u \in Threads : u # t =>
             tpc'[u] = tpc[u] \/ (tpc[u] = "waiting" /\ tpc'[u] = "lock")
    BY <1>5 DEF AddLink, Signal, Waiters
  <2>2. QED
    BY <1>5, <2>1 DEF AddLink, ReleaseList, mainVars
<1>6. CASE Done(t) \/ SpuriousWake(t)
  BY <1>6 DEF Done, SpuriousWake, mainVars
<1>7. CASE Cancelled(t)
  BY <1>7 DEF Cancelled, mainVars
<1>8. CASE TakeCrashes(t) \/ GetFails(t) \/ SaveFails(t) \/ UseAfterFree(t)
  BY <1>8 DEF TakeCrashes, GetFails, SaveFails, UseAfterFree, Exit, threadVars, mainVars
<1>9. QED
  BY <1>1, <1>2, <1>3, <1>4, <1>5, <1>6, <1>7, <1>8 DEF ThreadStep, ThreadFails

(* Mutual exclusion on listToAddLock, for any number of threads: whoever   *)
(* is between a lock and its unlock owns the mutex, the threads that were  *)
(* cancelled in between and the main thread's test of the crawl included   *)
(* (crawlThread.c:73-86, 189-205, mycrawler.c:140-167).                    *)
THEOREM CrawlerLockInv == Spec => []LockInv
<1>1. Init => LockInv
  BY CrawlerThreads DEF Init, LockInv, Inside
<1>2. WorkInv /\ LockInv /\ [Next]_vars => LockInv'
  <2> SUFFICES ASSUME WorkInv, LockInv, [Next]_vars PROVE LockInv'
    OBVIOUS
  <2>1. CASE UNCHANGED vars
    BY <2>1 DEF vars, threadVars, mainVars, LockInv
  <2>2. QED
    BY <2>1, MainLockKept, ThreadLockKept DEF Next
<1>3. QED
  BY <1>1, <1>2, CrawlerWorkInv, PTL DEF Spec

------------------------------------------------------------------------------
(* The lists.  Until they are freed only three steps change them: Boot,    *)
(* ThreadTake and AddLink.                                                 *)

(* Once the lists are being freed, or the process has ended, that is final.*)
LEMMA StaysDown ==
  ASSUME [Next]_vars, ~Up
  PROVE  ~Up'
<1> USE DEF Up, Freeing
<1>1. ASSUME NEW how \in {"success", "failure", "crashed", "unsaved"}, Exit(how) PROVE ~Up'
  BY <1>1 DEF Exit
<1>2. CASE MainStep \/ MainFails \/ Answered \/ \E c \in Commands : AcceptCommand(c)
  BY <1>1, <1>2
     DEF MainStep, Boot, OpenPort, ReadCommand, Answered, SearchLock, SearchFinished,
         SearchInProgress, Bye, Cancel, AllCancelled, FreeToAdd, FreeAdded, End, MainFails,
         AcceptCommand, MoveMain
<1>3. ASSUME NEW t \in Threads,
             \/ ThreadStep(t) \/ ThreadFails(t) \/ UseAfterFree(t)
             \/ SpuriousWake(t) \/ Cancelled(t) \/ CancelledInWait(t)
      PROVE  ~Up'
  BY <1>1, <1>3
     DEF ThreadStep, ThreadLock, ThreadWait, ThreadSees, ThreadTake, TakeCrashes, ThreadUnlock,
         GetFound, GetNotFound, Count, Save, LinkLock, AddLink, LastLink, Done, ThreadFails,
         GetFails, GetHangs, SaveFails,
         UseAfterFree, SpuriousWake, Cancelled, CancelledInWait, mainVars
<1>4. CASE UNCHANGED vars
  BY <1>4 DEF vars, mainVars
<1>5. QED
  BY <1>2, <1>3, <1>4 DEF Next

(* What the other steps of a crawl that goes on leave alone.               *)
LEMMA ListsKept ==
  ASSUME [Next]_vars, Up, Up', ~Boot,
         \A t \in Threads : ~ThreadTake(t) /\ ~AddLink(t)
  PROVE  UNCHANGED lists /\ (mpc' = "boot" => mpc = "boot")
<1> USE DEF Up, Freeing, lists
<1>1. ASSUME NEW how \in {"success", "failure", "crashed", "unsaved"}, Exit(how) PROVE FALSE
  BY <1>1 DEF Exit
<1>2. CASE MainStep \/ MainFails \/ Answered \/ \E c \in Commands : AcceptCommand(c)
  BY <1>1, <1>2
     DEF MainStep, OpenPort, ReadCommand, Answered, SearchLock, SearchFinished,
         SearchInProgress, Bye, Cancel, AllCancelled, FreeToAdd, FreeAdded, End, MainFails,
         AcceptCommand, MoveMain
<1>3. ASSUME NEW t \in Threads,
             \/ ThreadStep(t) \/ ThreadFails(t) \/ UseAfterFree(t)
             \/ SpuriousWake(t) \/ Cancelled(t) \/ CancelledInWait(t)
      PROVE  UNCHANGED lists /\ (mpc' = "boot" => mpc = "boot")
  BY <1>1, <1>3
     DEF ThreadStep, ThreadLock, ThreadWait, ThreadSees, TakeCrashes, ThreadUnlock,
         GetFound, GetNotFound, Count, Save, LinkLock, LastLink, Done, ThreadFails, GetFails,
         GetHangs, SaveFails, UseAfterFree, SpuriousWake, Cancelled, CancelledInWait, mainVars
<1>4. CASE UNCHANGED vars
  BY <1>4 DEF vars, mainVars
<1>5. QED
  BY <1>2, <1>3, <1>4 DEF Next

(* The starting URL is the first page of empty lists (mycrawler.c:88).     *)
LEMMA BootLists ==
  ASSUME WorkInv, ListInv, Up, Boot
  PROVE  /\ pagesAdded' = <<>>
         /\ \A p : ~Known(p)
         /\ \A p : Known(p)' <=> p = Start
         /\ \A p : list_check(pagesToAdd, p)' <=> p = Start
         /\ ListInv'
<1>1. /\ pagesToAdd = <<>> /\ pagesAdded = <<>> /\ pagesAdded' = <<>>
      /\ pagesToAdd' = list_add(pagesToAdd, Start)
      /\ mpc' # "boot"
  BY DEF Boot, MoveMain, ListInv
<1>2. \A p : ~list_check(<<>>, p)
  BY DEF list_check
<1>3. Distinct(<<>>)
  BY DEF Distinct
<1>4. pagesToAdd \in Seq(Pages) /\ Start \in Pages
  BY WebAssumption DEF WorkInv, CrawlerTypeOK
<1>5. /\ \A p : list_check(pagesToAdd', p) <=> p = Start \/ list_check(pagesToAdd, p)
      /\ Distinct(pagesToAdd')
  BY <1>1, <1>2, <1>3, <1>4, ListAdd
<1>6. QED
  BY <1>1, <1>2, <1>3, <1>5 DEF ListInv, Known, list_check, Distinct

(* A page that is taken goes from one list to the other.                   *)
LEMMA TakeLists ==
  ASSUME WorkInv, ListInv, Up, NEW t \in Threads, ThreadTake(t)
  PROVE  /\ Head(pagesToAdd) \in Pages
         /\ ~list_check(pagesAdded, Head(pagesToAdd))
         /\ list_check(pagesToAdd, Head(pagesToAdd))
         /\ Len(pagesToAdd') = Len(pagesToAdd) - 1 /\ Len(pagesToAdd) \in Nat
         /\ \A p : list_check(pagesAdded, p)'
                     <=> p = Head(pagesToAdd) \/ list_check(pagesAdded, p)
         /\ \A p : list_check(pagesToAdd, p)'
                     <=> p # Head(pagesToAdd) /\ list_check(pagesToAdd, p)
         /\ \A p : Known(p)' <=> Known(p)
         /\ ListInv'
<1> DEFINE h == Head(pagesToAdd)
<1>1. /\ pagesToAdd # <<>> /\ pagesToAdd' = Tail(pagesToAdd)
      /\ pagesAdded' = list_add(pagesAdded, h)
      /\ mpc' = mpc
      /\ pagesToAdd \in Seq(Pages) /\ pagesAdded \in Seq(Pages)
  BY DEF ThreadTake, list_empty, mainVars, WorkInv, CrawlerTypeOK
<1>2. /\ Distinct(pagesToAdd) /\ Distinct(pagesAdded)
      /\ \A p \in Pages : ~(list_check(pagesAdded, p) /\ list_check(pagesToAdd, p))
      /\ mpc # "boot"
  BY <1>1 DEF ListInv
<1>3. /\ h \in Pages /\ Len(pagesToAdd') = Len(pagesToAdd) - 1
      /\ \A p : list_check(pagesToAdd, p) <=> p = h \/ list_check(pagesToAdd', p)
      /\ Distinct(pagesToAdd') /\ ~list_check(pagesToAdd', h)
  BY <1>1, <1>2, ListRem
<1>4. ~list_check(pagesAdded, h)
  BY <1>2, <1>3
<1>5. /\ \A p : list_check(pagesAdded', p) <=> p = h \/ list_check(pagesAdded, p)
      /\ Distinct(pagesAdded')
  BY <1>1, <1>2, <1>3, <1>4, ListAdd
<1>6. \A p : list_check(pagesToAdd, p)' <=> list_check(pagesToAdd', p)
  BY DEF list_check
<1>7. \A p : list_check(pagesAdded, p)' <=> list_check(pagesAdded', p)
  BY DEF list_check
<1>8. Distinct(pagesToAdd)' /\ Distinct(pagesAdded)'
  BY <1>3, <1>5 DEF Distinct
<1>9. \A p : Known(p)' <=> Known(p)
  BY <1>3, <1>5, <1>6, <1>7 DEF Known
<1>10. ListInv'
  BY <1>1, <1>2, <1>3, <1>4, <1>5, <1>6, <1>7, <1>8 DEF ListInv
<1>11. Len(pagesToAdd) \in Nat
  BY <1>1
<1>12. QED
  BY <1>3, <1>4, <1>5, <1>6, <1>7, <1>9, <1>10, <1>11

(* A link is listed unless it is known.                                    *)
LEMMA LinkLists ==
  ASSUME WorkInv, ListInv, Up, NEW t \in Threads, AddLink(t)
  PROVE  /\ todo[t] # <<>> /\ Head(todo[t]) \in Pages
         /\ pagesAdded' = pagesAdded
         /\ IF Known(Head(todo[t]))
            THEN pagesToAdd' = pagesToAdd
            ELSE Len(pagesToAdd') = Len(pagesToAdd) + 1
         /\ Len(pagesToAdd) \in Nat
         /\ \A p : list_check(pagesToAdd, p)' <=>
                     \/ list_check(pagesToAdd, p)
                     \/ (p = Head(todo[t]) /\ ~Known(p))
         /\ \A p : Known(p)' <=> Known(p) \/ p = Head(todo[t])
         /\ ListInv'
<1> DEFINE link == Head(todo[t])
<1>1. /\ pagesToAdd \in Seq(Pages) /\ pagesAdded \in Seq(Pages)
      /\ pagesAdded' = pagesAdded /\ mpc' = mpc
      /\ todo[t] \in Seq(Pages) /\ todo[t] # <<>>
      /\ \/ Known(link) /\ pagesToAdd' = pagesToAdd
         \/ ~Known(link) /\ pagesToAdd' = list_add(pagesToAdd, link)
  BY DEF AddLink, mainVars, WorkInv, CrawlerTypeOK
<1>2. link \in Pages
  BY <1>1
<1>3. mpc # "boot"
  BY DEF AddLink, WorkInv
<1>4. \A p : list_check(pagesToAdd, p)' <=> list_check(pagesToAdd', p)
  BY DEF list_check
<1>5. \A p : list_check(pagesAdded, p)' <=> list_check(pagesAdded, p)
  BY <1>1 DEF list_check
<1>6. CASE Known(link)
  <2>1. pagesToAdd' = pagesToAdd
    BY <1>1, <1>6
  <2>2. ListInv'
    BY <1>1, <1>5, <2>1, <1>4 DEF ListInv, Distinct
  <2>3. QED
    BY <1>1, <1>2, <1>4, <1>5, <1>6, <2>1, <2>2 DEF Known
<1>7. CASE ~Known(link)
  <2>1. /\ pagesToAdd' = list_add(pagesToAdd, link)
        /\ ~list_check(pagesToAdd, link) /\ ~list_check(pagesAdded, link)
    BY <1>1, <1>7 DEF Known
  <2>2. /\ Len(pagesToAdd') = Len(pagesToAdd) + 1
        /\ \A p : list_check(pagesToAdd', p) <=> p = link \/ list_check(pagesToAdd, p)
        /\ Distinct(pagesToAdd) => Distinct(pagesToAdd')
    BY <1>1, <1>2, <2>1, ListAdd
  <2>3. Distinct(pagesToAdd)' /\ Distinct(pagesAdded)'
    BY <1>1, <2>2 DEF ListInv, Distinct
  <2>4. ListInv'
    BY <1>1, <1>3, <1>4, <1>5, <2>1, <2>2, <2>3 DEF ListInv
  <2>5. QED
    BY <1>1, <1>2, <1>4, <1>5, <1>7, <2>2, <2>4 DEF Known
<1>8. QED
  BY <1>6, <1>7

LEMMA CrawlerListInv == Spec => []ListInv
<1>1. Init => ListInv
  BY DEF Init, ListInv, Distinct, list_check
<1>2. WorkInv /\ ListInv /\ [Next]_vars => ListInv'
  <2> SUFFICES ASSUME WorkInv, ListInv, [Next]_vars, Up'
               PROVE  ListInv'
    BY DEF ListInv
  <2>1. Up
    BY StaysDown
  <2>2. CASE ~Boot /\ \A t \in Threads : ~ThreadTake(t) /\ ~AddLink(t)
    <3>1. UNCHANGED <<pagesToAdd, pagesAdded>> /\ (mpc' = "boot" => mpc = "boot")
      BY <2>1, <2>2, ListsKept DEF lists
    <3>2. QED
      BY <2>1, <3>1 DEF ListInv, Distinct, list_check
  <2>3. QED
    BY <2>1, <2>2, BootLists, TakeLists, LinkLists
<1>3. QED
  BY <1>1, <1>2, CrawlerWorkInv, PTL DEF Spec

(* No page is listed twice, and none that was taken is listed again, with  *)
(* any number of threads that find links to it at the same time: a thread  *)
(* looks through both lists and adds in one critical section, and a page   *)
(* goes from one list to the other in one (crawlThread.c:73-86, 189-204).  *)
THEOREM CrawlerListedOnce == Spec => []ListedOnce
<1>1. WorkInv /\ ListInv => ListedOnce
  <2> SUFFICES ASSUME WorkInv, ListInv, Up,
                      NEW i \in 1 .. Len(pagesToAdd \o pagesAdded),
                      NEW j \in 1 .. Len(pagesToAdd \o pagesAdded),
                      (pagesToAdd \o pagesAdded)[i] = (pagesToAdd \o pagesAdded)[j]
               PROVE  i = j
    BY DEF ListedOnce
  <2> DEFINE m == Len(pagesToAdd)
             n == Len(pagesAdded)
  <2>1. pagesToAdd \in Seq(Pages) /\ pagesAdded \in Seq(Pages) /\ m \in Nat /\ n \in Nat
    BY DEF WorkInv, CrawlerTypeOK
  <2>2. \A k \in 1 .. Len(pagesToAdd \o pagesAdded) :
          \/ (k \in 1 .. m /\ (pagesToAdd \o pagesAdded)[k] = pagesToAdd[k])
          \/ (k - m \in 1 .. n /\ (pagesToAdd \o pagesAdded)[k] = pagesAdded[k - m])
    BY <2>1, ConcatProperties
  <2>3. /\ Distinct(pagesToAdd) /\ Distinct(pagesAdded)
        /\ \A p \in Pages : ~(list_check(pagesAdded, p) /\ list_check(pagesToAdd, p))
    BY DEF ListInv
  <2>4. \A k \in 1 .. m, l \in 1 .. n : pagesToAdd[k] # pagesAdded[l]
    BY <2>1, <2>3 DEF list_check
  <2>5. CASE i \in 1 .. m /\ (pagesToAdd \o pagesAdded)[i] = pagesToAdd[i]
    <3>1. j \in 1 .. m /\ (pagesToAdd \o pagesAdded)[j] = pagesToAdd[j]
      BY <2>2, <2>4, <2>5
    <3>2. QED
      BY <2>3, <2>5, <3>1 DEF Distinct
  <2>6. CASE i - m \in 1 .. n /\ (pagesToAdd \o pagesAdded)[i] = pagesAdded[i - m]
    <3>1. j - m \in 1 .. n /\ (pagesToAdd \o pagesAdded)[j] = pagesAdded[j - m]
      BY <2>2, <2>4, <2>6
    <3>2. i - m = j - m
      BY <2>3, <2>6, <3>1 DEF Distinct
    <3>3. i \in Int /\ j \in Int
      OBVIOUS
    <3>4. QED
      BY <2>1, <3>2, <3>3
  <2>7. QED
    BY <2>2, <2>5, <2>6
<1>2. QED
  BY <1>1, CrawlerWorkInv, CrawlerListInv, PTL

------------------------------------------------------------------------------
(* No thread takes from an empty list while the crawl goes on.             *)

(* A thread that has looked at the list holds the lock, so nobody else     *)
(* takes or adds before it does.                                           *)
LEMMA CrawlerTakeInv == Spec => [](TakeInv /\ NoCrashWhileCrawling)
<1>1. Init => TakeInv /\ NoCrashWhileCrawling
  BY DEF Init, TakeInv, NoCrashWhileCrawling
<1>2. WorkInv /\ LockInv /\ TakeInv /\ [Next]_vars => TakeInv'
  <2> SUFFICES ASSUME WorkInv, LockInv, TakeInv, [Next]_vars, Up',
                      NEW t \in Threads, tpc'[t] = "take"
               PROVE  pagesToAdd' # <<>>
    BY DEF TakeInv
  <2> USE DEF WorkInv, CrawlerTypeOK, Move
  <2>1. Up
    BY StaysDown
  <2>2. CASE Boot
    BY <2>2 DEF Boot
  <2>3. ASSUME NEW u \in Threads, ThreadTake(u) PROVE FALSE
    <3>1. tpc[u] = "take" /\ tpc'[u] = "unlock" /\ u # t /\ tpc[t] = "take"
      BY <2>3 DEF ThreadTake
    <3>2. QED
      BY <3>1 DEF LockInv, Inside
  <2>4. ASSUME NEW u \in Threads, AddLink(u) PROVE FALSE
    <3>1. tpc[u] = "linkadd" /\ tpc[t] = "take"
      BY <2>4 DEF AddLink, Signal, Waiters
    <3>2. QED
      BY <3>1 DEF LockInv, Inside
  <2>5. CASE ~Boot /\ \A u \in Threads : ~ThreadTake(u) /\ ~AddLink(u)
    <3>1. pagesToAdd' = pagesToAdd
      BY <2>1, <2>5, ListsKept DEF lists
    <3>2. tpc[t] = "take" \/ ThreadSees(t)
      <4>1. CASE MainStep \/ MainFails \/ Answered \/ \E c \in Commands : AcceptCommand(c)
        BY <2>5, <4>1
           DEF MainStep, OpenPort, ReadCommand, Answered, SearchLock, SearchFinished,
               SearchInProgress, Bye, Cancel, AllCancelled, FreeToAdd, FreeAdded, End,
               MainFails, AcceptCommand, Exit, threadVars
      <4>2. ASSUME NEW u \in Threads,
                   \/ ThreadStep(u) \/ ThreadFails(u) \/ UseAfterFree(u)
                   \/ SpuriousWake(u) \/ Cancelled(u) \/ CancelledInWait(u)
            PROVE  tpc[t] = "take" \/ ThreadSees(t)
        BY <2>5, <4>2
           DEF ThreadStep, ThreadLock, ThreadWait, ThreadSees, TakeCrashes, ThreadUnlock,
               GetFound, GetNotFound, Count, Save, LinkLock, LastLink, Done, ThreadFails,
               GetFails, GetHangs, SaveFails,
               UseAfterFree, SpuriousWake, Cancelled, CancelledInWait, Exit, threadVars
      <4>3. CASE UNCHANGED vars
        BY <4>3 DEF vars, threadVars
      <4>4. QED
        BY <4>1, <4>2, <4>3 DEF Next
    <3>3. QED
      BY <2>1, <3>1, <3>2 DEF TakeInv, ThreadSees, list_empty
  <2>6. QED
    BY <2>2, <2>3, <2>4, <2>5
<1>3. TakeInv /\ NoCrashWhileCrawling /\ [Next]_vars => NoCrashWhileCrawling'
  <2> SUFFICES ASSUME TakeInv, NoCrashWhileCrawling, [Next]_vars, status' = "crashed"
               PROVE  Freeing'
    BY DEF NoCrashWhileCrawling
  <2> USE DEF NoCrashWhileCrawling, Freeing, Move, MoveMain
  <2>1. CASE MainStep \/ MainFails \/ Answered \/ \E c \in Commands : AcceptCommand(c)
    BY <2>1
       DEF MainStep, Boot, OpenPort, ReadCommand, Answered, SearchLock, SearchFinished,
           SearchInProgress, Bye, Cancel, AllCancelled, FreeToAdd, FreeAdded, End, MainFails,
           AcceptCommand, Exit
  <2>2. ASSUME NEW t \in Threads, ThreadStep(t) PROVE Freeing'
    <3>1. CASE TakeCrashes(t)
      BY <3>1 DEF TakeCrashes, TakeInv, Up, list_empty, Exit, mainVars
    <3>2. CASE ~TakeCrashes(t)
      BY <2>2, <3>2
         DEF ThreadStep, ThreadLock, ThreadWait, ThreadSees, ThreadTake, ThreadUnlock,
             GetFound, GetNotFound, Count, Save, LinkLock, AddLink, LastLink, Done
    <3>3. QED
      BY <3>1, <3>2
  <2>3. ASSUME NEW t \in Threads,
               \/ ThreadFails(t) \/ UseAfterFree(t)
               \/ SpuriousWake(t) \/ Cancelled(t) \/ CancelledInWait(t)
        PROVE  Freeing'
    BY <2>3
       DEF ThreadFails, GetFails, GetHangs, SaveFails, UseAfterFree, SpuriousWake, Cancelled,
           CancelledInWait, Exit, mainVars
  <2>4. CASE UNCHANGED vars
    BY <2>4 DEF vars, mainVars
  <2>5. QED
    BY <2>1, <2>2, <2>3, <2>4 DEF Next
<1>4. QED
  BY <1>1, <1>2, <1>3, CrawlerWorkInv, CrawlerLockInv, PTL DEF Spec

(* As long as the lists are not being freed no thread follows the null     *)
(* pointer of an empty list, with any number of threads: the test and the  *)
(* removal are one critical section, and a woken thread tests again        *)
(* (crawlThread.c:189-204, list.c:13-19).                                  *)
THEOREM CrawlerNoCrash == Spec => []NoCrashWhileCrawling
BY CrawlerTakeInv, PTL

------------------------------------------------------------------------------
(* Wakeups.                                                                *)

LEMMA HeadingFinite ==
  /\ Heading \subseteq Threads /\ IsFiniteSet(Heading) /\ Cardinality(Heading) \in Nat
  /\ Heading' \subseteq Threads /\ IsFiniteSet(Heading') /\ Cardinality(Heading') \in Nat
<1>1. Heading \subseteq Threads /\ Heading' \subseteq Threads
  BY DEF Heading
<1>2. QED
  BY <1>1, CrawlerThreads, FS_Subset, FS_CardinalityType

(* Steps that leave the list alone, send nobody to sleep and turn nobody   *)
(* away from it.                                                           *)
LEMMA QuietWakeup ==
  ASSUME WorkInv, NoLostWakeup, Up, pagesToAdd' = pagesToAdd,
         Waiters' \subseteq Waiters, Heading \subseteq Heading'
  PROVE  NoLostWakeup'
<1>1. Cardinality(Heading) <= Cardinality(Heading')
  BY HeadingFinite, FS_Subset
<1>2. Len(pagesToAdd) \in Nat
  BY DEF WorkInv, CrawlerTypeOK
<1>3. QED
  BY <1>1, <1>2, HeadingFinite DEF NoLostWakeup

LEMMA TakeWakeup ==
  ASSUME WorkInv, ListInv, NoLostWakeup, Up, NEW t \in Threads, ThreadTake(t)
  PROVE  NoLostWakeup'
<1>1. tpc[t] = "take" /\ tpc' = [tpc EXCEPT ![t] = "unlock"]
      /\ tpc \in [Threads -> ThreadLabels]
  BY DEF ThreadTake, Move, WorkInv, CrawlerTypeOK
<1>2. Waiters' = Waiters /\ t \in Heading /\ Heading' = Heading \ {t}
  BY <1>1 DEF Waiters, Heading
<1>3. Cardinality(Heading') = Cardinality(Heading) - 1
  BY <1>2, HeadingFinite, FS_RemoveElement
<1>4. Len(pagesToAdd') = Len(pagesToAdd) - 1 /\ Len(pagesToAdd) \in Nat
  BY TakeLists
<1>5. QED
  BY <1>2, <1>3, <1>4, HeadingFinite DEF NoLostWakeup

(* Every page that is listed wakes a thread, if one sleeps.                *)
LEMMA LinkWakeup ==
  ASSUME WorkInv, ListInv, NoLostWakeup, Up, NEW t \in Threads, AddLink(t)
  PROVE  NoLostWakeup'
<1> DEFINE there == [tpc EXCEPT ![t] = "link"]
<1>1. /\ tpc[t] = "linkadd" /\ tpc \in [Threads -> ThreadLabels]
  BY DEF AddLink, WorkInv, CrawlerTypeOK
<1>2. CASE tpc' = there /\ pagesToAdd' = pagesToAdd
  BY <1>1, <1>2, QuietWakeup DEF Waiters, Heading
<1>3. CASE tpc' = there /\ Waiters = {}
  <2>1. Waiters' = {}
    BY <1>1, <1>3 DEF Waiters
  <2>2. QED
    BY <2>1 DEF NoLostWakeup
<1>4. ASSUME NEW u \in Waiters, tpc' = [there EXCEPT ![u] = "lock"],
             Len(pagesToAdd') = Len(pagesToAdd) + 1
      PROVE  NoLostWakeup'
  <2>1. u \in Threads /\ tpc[u] = "waiting" /\ u # t
    BY <1>1, <1>4 DEF Waiters
  <2>2. u \notin Heading /\ Heading' = Heading \cup {u}
    BY <1>1, <1>4, <2>1 DEF Heading
  <2>3. Cardinality(Heading') = Cardinality(Heading) + 1
    BY <2>2, HeadingFinite, FS_AddElement
  <2>4. Len(pagesToAdd) \in Nat
    BY LinkLists
  <2>5. QED
    BY <1>4, <2>3, <2>4, HeadingFinite DEF NoLostWakeup
<1>5. \/ tpc' = there /\ pagesToAdd' = pagesToAdd
      \/ tpc' = there /\ Waiters = {}
      \/ /\ \E u \in Waiters : tpc' = [there EXCEPT ![u] = "lock"]
         /\ Len(pagesToAdd') = Len(pagesToAdd) + 1
  BY LinkLists DEF AddLink, Signal
<1>6. QED
  BY <1>2, <1>3, <1>4, <1>5

LEMMA MainWakeup ==
  ASSUME WorkInv, NoLostWakeup, Up, Up',
         MainStep \/ MainFails \/ Answered \/ \E c \in Commands : AcceptCommand(c)
  PROVE  NoLostWakeup'
<1>1. CASE Boot
  <2>1. Waiters' = {}
    BY <1>1 DEF Boot, Waiters
  <2>2. QED
    BY <2>1 DEF NoLostWakeup
<1>2. CASE ~Boot
  <2>1. tpc' = tpc /\ pagesToAdd' = pagesToAdd
    BY <1>2
       DEF MainStep, OpenPort, ReadCommand, Answered, SearchLock, SearchFinished,
           SearchInProgress, Bye, Cancel, AllCancelled, FreeToAdd, FreeAdded, End, MainFails,
           AcceptCommand, Exit, MoveMain, threadVars, lists, Up, Freeing
  <2>2. QED
    BY <2>1, QuietWakeup DEF Waiters, Heading
<1>3. QED
  BY <1>1, <1>2

LEMMA ThreadWakeup ==
  ASSUME WorkInv, ListInv, NoLostWakeup, Up, Up', NEW t \in Threads,
         \/ ThreadStep(t) \/ ThreadFails(t) \/ UseAfterFree(t)
         \/ SpuriousWake(t) \/ Cancelled(t) \/ CancelledInWait(t)
  PROVE  NoLostWakeup'
<1> USE DEF Move, Waiters, Heading, WorkInv, CrawlerTypeOK
<1>1. CASE ThreadWait(t)
  <2>1. Len(pagesToAdd') = 0
    BY <1>1 DEF ThreadWait, list_empty, lists
  <2>2. QED
    BY <2>1, HeadingFinite DEF NoLostWakeup
<1>2. CASE ThreadLock(t) \/ ThreadSees(t) \/ SpuriousWake(t) \/ CancelledInWait(t)
  BY <1>2, QuietWakeup DEF ThreadLock, ThreadSees, SpuriousWake, CancelledInWait, lists
<1>3. CASE ThreadUnlock(t) \/ GetFound(t) \/ GetNotFound(t) \/ GetHangs(t) \/ Count(t)
         \/ Save(t)
  BY <1>3, QuietWakeup DEF ThreadUnlock, GetFound, GetNotFound, GetHangs, Count, Save, lists
<1>4. CASE LinkLock(t) \/ LastLink(t) \/ Done(t) \/ Cancelled(t)
  BY <1>4, QuietWakeup DEF LinkLock, LastLink, Done, Cancelled, lists
<1>5. CASE TakeCrashes(t) \/ GetFails(t) \/ SaveFails(t) \/ UseAfterFree(t)
  BY <1>5, QuietWakeup
     DEF TakeCrashes, GetFails, SaveFails, UseAfterFree, Exit, threadVars, lists
<1>6. QED
  BY <1>1, <1>2, <1>3, <1>4, <1>5, TakeWakeup, LinkWakeup DEF ThreadStep, ThreadFails

(* No wakeup is lost, with any number of threads and however the links of  *)
(* several pages come together: as long as one thread sleeps there is for  *)
(* every listed page another on its way to the list (crawlThread.c:80-81,  *)
(* 193-197).                                                               *)
THEOREM CrawlerNoLostWakeup == Spec => []NoLostWakeup
<1>1. Init => NoLostWakeup
  BY DEF Init, NoLostWakeup, Waiters
<1>2. WorkInv /\ ListInv /\ NoLostWakeup /\ [Next]_vars => NoLostWakeup'
  <2> SUFFICES ASSUME WorkInv, ListInv, NoLostWakeup, [Next]_vars, Up'
               PROVE  NoLostWakeup'
    BY DEF NoLostWakeup
  <2>1. Up
    BY StaysDown
  <2>2. CASE UNCHANGED vars
    BY <2>1, <2>2, QuietWakeup DEF vars, lists, threadVars, Waiters, Heading
  <2>3. QED
    BY <2>1, <2>2, MainWakeup, ThreadWakeup DEF Next
<1>3. QED
  BY <1>1, <1>2, CrawlerWorkInv, CrawlerListInv, PTL DEF Spec

------------------------------------------------------------------------------
(* The crawl as a whole: the crawler does what module Crawl promises, and  *)
(* the crawl that the main thread finds finished is.                       *)

(* What the threads have still to look at.                                 *)

LEMMA TargetsOf ==
  ASSUME NEW p \in Pages
  PROVE  /\ Targets[p] \subseteq Pages
         /\ p \in Found => \A q : q \in Targets[p] <=> list_check(Links[p], q)
         /\ p \notin Found => Targets[p] = {}
<1>1. Links[p] \in Seq(Pages)
  BY WebAssumption
<1>2. DOMAIN Links[p] = 1 .. Len(Links[p]) /\ \A i \in 1 .. Len(Links[p]) : Links[p][i] \in Pages
  BY <1>1
<1>3. Targets[p] = IF p \in Found THEN {Links[p][i] : i \in DOMAIN Links[p]} ELSE {}
  BY DEF Targets
<1>4. QED
  BY <1>2, <1>3 DEF list_check

(* Steps that leave the lists and the threads' pages alone.                *)
LEMMA QuietCrawl ==
  ASSUME PageInv, LinkInv, UNCHANGED <<pagesToAdd, pagesAdded, page, todo>>,
         \A t \in Threads :
           /\ tpc'[t] \in {"count", "save", "link", "linkadd"} => page[t] \in Found
           /\ tpc'[t] \in {"link", "linkadd"} => tpc[t] \in {"link", "linkadd"}
           /\ tpc'[t] = "done" => \A q \in Targets[page[t]] : Known(q)
  PROVE  PageInv' /\ LinkInv'
<1>1. PageInv'
  BY DEF PageInv, list_check
<1>2. \A q : (Known(q)' <=> Known(q)) 
  BY DEF Known, list_check
<1>3. \A t \in Threads, q \in Pages \cup {NoPage} :
        list_check(todo[t], q)' <=> list_check(todo[t], q)
  BY DEF list_check
<1>4. LinkInv'
  BY <1>2, <1>3 DEF LinkInv, list_check
<1>5. QED
  BY <1>1, <1>4

LEMMA TakeCrawl ==
  ASSUME WorkInv, ListInv, Up, PageInv, LinkInv, NEW t \in Threads, ThreadTake(t)
  PROVE  PageInv' /\ LinkInv'
<1> DEFINE h == Head(pagesToAdd)
<1>1. /\ tpc[t] = "take" /\ tpc' = [tpc EXCEPT ![t] = "unlock"]
      /\ page' = [page EXCEPT ![t] = h] /\ todo' = todo
      /\ tpc \in [Threads -> ThreadLabels]
      /\ page \in [Threads -> Pages \cup {NoPage}]
  BY DEF ThreadTake, Move, WorkInv, CrawlerTypeOK
<1>2. /\ ~list_check(pagesAdded, h)
      /\ \A p : list_check(pagesAdded, p)' <=> p = h \/ list_check(pagesAdded, p)
      /\ \A p : Known(p)' <=> Known(p)
  BY TakeLists
<1>3. \A u \in Threads : page[u] # NoPage => page[u] # h /\ list_check(pagesAdded, page[u])
  BY <1>2 DEF PageInv
<1>4. PageInv'
  <2>1. ASSUME NEW u \in Threads, page'[u] # NoPage PROVE list_check(pagesAdded, page[u])'
    <3>1. CASE u = t
      <4>1. page'[u] = h
        BY <1>1, <3>1
      <4>2. list_check(pagesAdded', h)
        BY <1>2 DEF list_check
      <4>3. QED
        BY <4>1, <4>2 DEF list_check
    <3>2. CASE u # t
      <4>1. page'[u] = page[u]
        BY <1>1, <3>2
      <4>2. list_check(pagesAdded', page[u])
        BY <1>2, <1>3, <2>1, <4>1 DEF list_check
      <4>3. QED
        BY <4>1, <4>2 DEF list_check
    <3>3. QED
      BY <3>1, <3>2
  <2>2. ASSUME NEW u \in Threads, NEW v \in Threads, page'[u] = page'[v], page'[u] # NoPage
        PROVE  u = v
    BY <1>1, <1>3, <2>2 DEF PageInv
  <2>3. QED
    BY <2>1, <2>2 DEF PageInv
<1>5. LinkInv'
  <2> SUFFICES ASSUME NEW u \in Threads,
                      tpc'[u] \in {"count", "save", "link", "linkadd", "done"}
               PROVE  (/\ tpc[u] \in {"count", "save", "link", "linkadd"} => page[u] \in Found
                       /\ tpc[u] \in {"link", "linkadd"} =>
                           /\ \A i \in 1 .. Len(todo[u]) : todo[u][i] \in Targets[page[u]]
                           /\ \A q \in Targets[page[u]] : Known(q) \/ list_check(todo[u], q)
                       /\ tpc[u] = "done" => \A q \in Targets[page[u]] : Known(q))'
    BY DEF LinkInv
  <2>1. u # t /\ tpc'[u] = tpc[u] /\ page'[u] = page[u] /\ todo'[u] = todo[u]
    BY <1>1
  <2>2. QED
    BY <1>2, <2>1 DEF LinkInv, list_check
<1>6. QED
  BY <1>4, <1>5

(* The links of a page are those of its lines (crawlThread.c:95-143).      *)
LEMMA SaveCrawl ==
  ASSUME WorkInv, PageInv, LinkInv, NEW t \in Threads, Save(t)
  PROVE  PageInv' /\ LinkInv'
<1>1. /\ tpc[t] = "save" /\ tpc' = [tpc EXCEPT ![t] = "link"]
      /\ page' = page /\ pagesToAdd' = pagesToAdd /\ pagesAdded' = pagesAdded
      /\ todo' = [todo EXCEPT ![t] = Links[page[t]]]
      /\ tpc \in [Threads -> ThreadLabels]
      /\ todo \in [Threads -> Seq(Pages)]
  BY DEF Save, Move, lists, WorkInv, CrawlerTypeOK
<1>2. page[t] \in Found /\ page[t] \in Pages
  BY <1>1, WebAssumption DEF LinkInv
<1>3. \A q : q \in Targets[page[t]] <=> list_check(Links[page[t]], q)
  BY <1>2, TargetsOf
<1>4. PageInv'
  BY <1>1 DEF PageInv, list_check
<1>5. \A q : Known(q)' <=> Known(q)
  BY <1>1 DEF Known, list_check
<1>6. LinkInv'
  <2> SUFFICES ASSUME NEW u \in Threads
               PROVE  (/\ tpc[u] \in {"count", "save", "link", "linkadd"} => page[u] \in Found
                       /\ tpc[u] \in {"link", "linkadd"} =>
                           /\ \A i \in 1 .. Len(todo[u]) : todo[u][i] \in Targets[page[u]]
                           /\ \A q \in Targets[page[u]] : Known(q) \/ list_check(todo[u], q)
                       /\ tpc[u] = "done" => \A q \in Targets[page[u]] : Known(q))'
    BY DEF LinkInv
  <2>1. CASE u = t
    BY <1>1, <1>2, <1>3, <2>1 DEF list_check
  <2>2. CASE u # t
    BY <1>1, <1>5, <2>2 DEF LinkInv, list_check
  <2>3. QED
    BY <2>1, <2>2
<1>7. QED
  BY <1>4, <1>6

(* A link that has been looked at is known.                                *)
LEMMA AddLinkCrawl ==
  ASSUME WorkInv, ListInv, Up, PageInv, LinkInv, NEW t \in Threads, AddLink(t)
  PROVE  PageInv' /\ LinkInv'
<1> DEFINE link == Head(todo[t])
<1>1. /\ tpc[t] = "linkadd" /\ page' = page
      /\ todo' = [todo EXCEPT ![t] = Tail(todo[t])]
      /\ tpc'[t] = "link"
      /\ \A u \in Threads : u # t =>
           tpc'[u] = tpc[u] \/ (tpc[u] = "waiting" /\ tpc'[u] = "lock")
      /\ todo \in [Threads -> Seq(Pages)]
  BY DEF AddLink, Signal, Waiters, WorkInv, CrawlerTypeOK
<1>2. /\ todo[t] # <<>> /\ pagesAdded' = pagesAdded
      /\ \A p : Known(p)' <=> Known(p) \/ p = link
  BY LinkLists
<1>3. /\ todo[t] \in Seq(Pages)
      /\ \A q : list_check(todo[t], q) <=> q = link \/ list_check(Tail(todo[t]), q)
  BY <1>1, <1>2, ListRem
<1>4. PageInv'
  BY <1>1, <1>2 DEF PageInv, list_check
<1>5. LinkInv'
  <2> SUFFICES ASSUME NEW u \in Threads
               PROVE  (/\ tpc[u] \in {"count", "save", "link", "linkadd"} => page[u] \in Found
                       /\ tpc[u] \in {"link", "linkadd"} =>
                           /\ \A i \in 1 .. Len(todo[u]) : todo[u][i] \in Targets[page[u]]
                           /\ \A q \in Targets[page[u]] : Known(q) \/ list_check(todo[u], q)
                       /\ tpc[u] = "done" => \A q \in Targets[page[u]] : Known(q))'
    BY DEF LinkInv
  <2>1. CASE u = t
    <3>1. todo'[u] = Tail(todo[t]) /\ page'[u] = page[t] /\ page[t] \in Found
      BY <1>1, <2>1 DEF LinkInv
    <3>2. \A i \in 1 .. Len(Tail(todo[t])) : list_check(Tail(todo[t]), Tail(todo[t])[i])
      BY DEF list_check
    <3>3. \A q : list_check(todo[t], q) => q \in Targets[page[t]]
      BY <1>1 DEF LinkInv, list_check
    <3>4. \A i \in 1 .. Len(Tail(todo[t])) : Tail(todo[t])[i] \in Targets[page[t]]
      BY <1>3, <3>2, <3>3
    <3>5. \A q \in Targets[page[t]] : Known(q)' \/ list_check(Tail(todo[t]), q)
      BY <1>1, <1>2, <1>3 DEF LinkInv
    <3>6. QED
      BY <1>1, <2>1, <3>1, <3>4, <3>5 DEF list_check
  <2>2. CASE u # t
    BY <1>1, <1>2, <2>2 DEF LinkInv, list_check
  <2>3. QED
    BY <2>1, <2>2
<1>6. QED
  BY <1>4, <1>5

LEMMA DoneCrawl ==
  ASSUME WorkInv, PageInv, LinkInv, NEW t \in Threads, Done(t)
  PROVE  PageInv' /\ LinkInv'
<1>1. /\ tpc[t] = "done" /\ tpc' = [tpc EXCEPT ![t] = "lock"]
      /\ page' = [page EXCEPT ![t] = NoPage] /\ todo' = todo
      /\ pagesToAdd' = pagesToAdd /\ pagesAdded' = pagesAdded
      /\ tpc \in [Threads -> ThreadLabels]
      /\ page \in [Threads -> Pages \cup {NoPage}]
  BY DEF Done, Move, lists, WorkInv, CrawlerTypeOK
<1>2. PageInv'
  BY <1>1 DEF PageInv, list_check
<1>3. \A q : Known(q)' <=> Known(q)
  BY <1>1 DEF Known, list_check
<1>4. \A u \in Threads : u # t => tpc'[u] = tpc[u] /\ page'[u] = page[u] /\ todo'[u] = todo[u]
  BY <1>1
<1>5. LinkInv'
  BY <1>1, <1>3, <1>4 DEF LinkInv, list_check
<1>6. QED
  BY <1>2, <1>5

(* Steps that end the crawl are of no concern here; the others leave the   *)
(* lists and the pages alone, but for the five above.                      *)
LEMMA MainCrawl ==
  ASSUME WorkInv, ListInv, Up, Up', PageInv, LinkInv,
         MainStep \/ MainFails \/ Answered \/ \E c \in Commands : AcceptCommand(c)
  PROVE  PageInv' /\ LinkInv'
<1>1. CASE Boot
  <2>1. \A t \in Threads : page'[t] = NoPage /\ tpc'[t] = "lock"
    BY <1>1 DEF Boot, MoveMain, WorkInv, Looking
  <2>2. QED
    BY <2>1 DEF PageInv, LinkInv
<1>2. CASE ~Boot
  <2>1. UNCHANGED <<pagesToAdd, pagesAdded, page, todo, tpc>>
    BY <1>2
       DEF MainStep, OpenPort, ReadCommand, Answered, SearchLock, SearchFinished,
           SearchInProgress, Bye, Cancel, AllCancelled, FreeToAdd, FreeAdded, End, MainFails,
           AcceptCommand, Exit, MoveMain, threadVars, lists, Up, Freeing
  <2>2. QED
    BY <2>1, QuietCrawl DEF LinkInv
<1>3. QED
  BY <1>1, <1>2

LEMMA ThreadCrawl ==
  ASSUME WorkInv, ListInv, Up, Up', PageInv, LinkInv, NEW t \in Threads,
         \/ ThreadStep(t) \/ ThreadFails(t) \/ UseAfterFree(t)
         \/ SpuriousWake(t) \/ Cancelled(t) \/ CancelledInWait(t)
  PROVE  PageInv' /\ LinkInv'
<1> USE DEF Move, WorkInv, CrawlerTypeOK
<1>1. CASE ThreadLock(t) \/ ThreadWait(t) \/ ThreadSees(t) \/ SpuriousWake(t)
  BY <1>1, QuietCrawl DEF ThreadLock, ThreadWait, ThreadSees, SpuriousWake, lists, LinkInv
<1>2. CASE ThreadUnlock(t) \/ GetFound(t)
  BY <1>2, QuietCrawl DEF ThreadUnlock, GetFound, lists, LinkInv
<1>3. CASE GetHangs(t) \/ Count(t)
  BY <1>3, QuietCrawl DEF GetHangs, Count, lists, LinkInv
<1>4. CASE GetNotFound(t)
  <2>1. Targets[page[t]] = {}
    BY <1>4, TargetsOf DEF GetNotFound, Working
  <2>2. QED
    BY <1>4, <2>1, QuietCrawl DEF GetNotFound, lists, LinkInv
<1>5. CASE LinkLock(t)
  BY <1>5, QuietCrawl DEF LinkLock, lists, LinkInv
<1>6. CASE LastLink(t)
  <2>1. \A q \in Targets[page[t]] : Known(q)
    BY <1>6 DEF LastLink, LinkInv, list_check
  <2>2. QED
    BY <1>6, <2>1, QuietCrawl DEF LastLink, lists, LinkInv
<1>7. CASE Cancelled(t) \/ CancelledInWait(t)
  BY <1>7, QuietCrawl DEF Cancelled, CancelledInWait, lists, LinkInv
<1>8. CASE TakeCrashes(t) \/ GetFails(t) \/ SaveFails(t) \/ UseAfterFree(t)
  BY <1>8, QuietCrawl
     DEF TakeCrashes, GetFails, SaveFails, UseAfterFree, Exit, threadVars, lists, LinkInv
<1>9. QED
  BY <1>1, <1>2, <1>3, <1>4, <1>5, <1>6, <1>7, <1>8, TakeCrawl, SaveCrawl, AddLinkCrawl,
     DoneCrawl DEF ThreadStep, ThreadFails

(* A thread has a page of its own, and when it is done with it every link  *)
(* of the page is known.                                                   *)
LEMMA CrawlerCrawlInv == Spec => []CrawlInv
<1>1. Init => CrawlInv
  BY DEF Init, CrawlInv, PageInv, LinkInv
<1>2. WorkInv /\ ListInv /\ CrawlInv /\ [Next]_vars => CrawlInv'
  <2> SUFFICES ASSUME WorkInv, ListInv, CrawlInv, [Next]_vars, Up'
               PROVE  PageInv' /\ LinkInv'
    BY DEF CrawlInv
  <2>1. Up /\ PageInv /\ LinkInv
    BY StaysDown DEF CrawlInv
  <2>2. CASE UNCHANGED vars
    BY <2>1, <2>2, QuietCrawl DEF vars, lists, threadVars, LinkInv
  <2>3. QED
    BY <2>1, <2>2, MainCrawl, ThreadCrawl DEF Next
<1>3. QED
  BY <1>1, <1>2, CrawlerWorkInv, CrawlerListInv, PTL DEF Spec

------------------------------------------------------------------------------
(* The crawler implements module Crawl.                                    *)

crawlVars == <<Up, CrawlState>>

(* A step that changes the state of one page.                              *)
LEMMA OnePage ==
  ASSUME Up, Up', NEW p \in Pages, NEW to, PageState(p)' = to,
         \A q \in Pages : q # p => PageState(q)' = PageState(q)
  PROVE  Crawl!Move(p, PageState(p), to)
<1>1. CrawlState' = [CrawlState EXCEPT ![p] = to]
  BY DEF CrawlState
<1>2. CrawlState[p] = PageState(p)
  BY DEF CrawlState
<1>3. Up' = Up
  BY DEF Up
<1>4. QED
  BY <1>1, <1>2, <1>3 DEF Crawl!Move

LEMMA QuietState ==
  ASSUME Up' = Up, UNCHANGED <<pagesToAdd, pagesAdded, page>>
  PROVE  UNCHANGED crawlVars
BY DEF crawlVars, CrawlState, PageState, list_check

(* The end of the crawl is a Stop.                                         *)
LEMMA StopState ==
  ASSUME Up, ~Up'
  PROVE  Crawl!Stop
BY DEF CrawlState, PageState, Up, Crawl!Stop, Crawl!Unknown

(* What a page's state says of the lists.                                  *)
LEMMA StateOf ==
  ASSUME WorkInv, ListInv, PageInv, Up, NEW p \in Pages
  PROVE  /\ (\E t \in Threads : page[t] = p) => PageState(p) = "taken" /\ list_check(pagesAdded, p)
         /\ (\A t \in Threads : page[t] # p) /\ list_check(pagesAdded, p) =>
               PageState(p) = "done"
         /\ list_check(pagesToAdd, p) => PageState(p) = "listed"
         /\ ~Known(p) => PageState(p) = "unknown"
         /\ Known(p) => PageState(p) # "unknown"
<1>1. (\E t \in Threads : page[t] = p) => list_check(pagesAdded, p)
  BY WebAssumption DEF PageInv
<1>2. ~(list_check(pagesAdded, p) /\ list_check(pagesToAdd, p))
  BY DEF ListInv
<1>3. QED
  BY <1>1, <1>2 DEF PageState, Known

(* The first page is the start, and nothing is known before.               *)
LEMMA BootState ==
  ASSUME WorkInv, ListInv, PageInv, Up, Up', Boot
  PROVE  Crawl!List(Start)
<1>1. /\ pagesAdded' = <<>> /\ page' = page
      /\ \A p : ~Known(p)
      /\ \A p : list_check(pagesToAdd, p)' <=> p = Start
  BY BootLists DEF Boot
<1>2. \A p \in Pages : PageState(p) = "unknown"
  BY <1>1, StateOf
<1>3. \A p \in Pages : \A t \in Threads : page'[t] # p
  BY <1>1, WebAssumption DEF Boot, MoveMain, WorkInv, Looking
<1>4. \A p \in Pages : ~list_check(pagesAdded, p)'
  BY <1>1 DEF list_check
<1>5. \A p \in Pages : PageState(p)' = IF p = Start THEN "listed" ELSE "unknown"
  BY <1>1, <1>3, <1>4 DEF PageState
<1>6. Start \in Pages
  BY WebAssumption
<1>7. Crawl!Move(Start, "unknown", "listed")
  BY <1>2, <1>5, <1>6, OnePage
<1>8. QED
  BY <1>7 DEF Crawl!List

(* A page is listed when a page that is being fetched links to it.         *)
LEMMA AddLinkState ==
  ASSUME WorkInv, ListInv, PageInv, LinkInv, Up, Up', NEW t \in Threads, AddLink(t)
  PROVE  (\E p \in Pages : Crawl!List(p)) \/ UNCHANGED crawlVars
<1>0. PICK link \in Pages : link = Head(todo[t])
  BY LinkLists
<1>1. /\ todo[t] # <<>> /\ pagesAdded' = pagesAdded /\ page' = page
      /\ Known(link) => pagesToAdd' = pagesToAdd
      /\ \A p : list_check(pagesToAdd, p)' <=>
                  list_check(pagesToAdd, p) \/ (p = link /\ ~Known(p))
  BY <1>0, LinkLists DEF AddLink
<1>2. CASE Known(link)
  <2>1. Up' = Up
    BY DEF Up
  <2>2. QED
    BY <1>1, <1>2, <2>1, QuietState
<1>3. CASE ~Known(link)
  <2>1. PageState(link) = "unknown" /\ \A u \in Threads : page[u] # link
    BY <1>1, <1>3, StateOf DEF Known
  <2>2. \A p \in Pages : list_check(pagesAdded, p)' <=> list_check(pagesAdded, p)
    BY <1>1 DEF list_check
  <2>3. PageState(link)' = "listed"
    BY <1>1, <1>3, <2>1, <2>2 DEF PageState, Known
  <2>4. \A q \in Pages : q # link => PageState(q)' = PageState(q)
    BY <1>1, <2>2 DEF PageState
  <2>5. Crawl!Move(link, "unknown", "listed")
    BY <1>1, <2>1, <2>3, <2>4, OnePage
  <2>6. page[t] \in Pages /\ link \in Targets[page[t]]
    <3>1. /\ tpc[t] = "linkadd" /\ todo[t] \in Seq(Pages)
          /\ page[t] \in Pages
      BY DEF AddLink, WorkInv, CrawlerTypeOK, Working
    <3>2. link = todo[t][1] /\ 1 \in 1 .. Len(todo[t])
      BY <1>0, <1>1, <3>1, EmptySeq, HeadTailProperties
    <3>3. QED
      BY <3>1, <3>2 DEF LinkInv
  <2>7. CrawlState[page[t]] = "taken"
    BY <2>6, StateOf DEF CrawlState
  <2>8. QED
    BY <1>1, <2>5, <2>6, <2>7 DEF Crawl!List
<1>4. QED
  BY <1>2, <1>3

LEMMA TakeState ==
  ASSUME WorkInv, ListInv, PageInv, Up, Up', NEW t \in Threads, ThreadTake(t)
  PROVE  \E p \in Pages : Crawl!Take(p)
<1>0. PICK h \in Pages : h = Head(pagesToAdd)
  BY TakeLists
<1>1. /\ list_check(pagesToAdd, h)
      /\ \A p : list_check(pagesAdded, p)' <=> p = h \/ list_check(pagesAdded, p)
      /\ \A p : list_check(pagesToAdd, p)' <=> p # h /\ list_check(pagesToAdd, p)
  BY <1>0, TakeLists
<1>2. /\ page[t] = NoPage /\ page' = [page EXCEPT ![t] = h]
      /\ page \in [Threads -> Pages \cup {NoPage}]
  BY <1>0 DEF ThreadTake, Move, WorkInv, CrawlerTypeOK, Looking
<1>3. PageState(h) = "listed"
  BY <1>1, StateOf
<1>4. PageState(h)' = "taken"
  <2>1. page'[t] = h
    BY <1>2
  <2>2. QED
    BY <2>1 DEF PageState
<1>5. ASSUME NEW q \in Pages, q # h PROVE PageState(q)' = PageState(q)
  <2>1. (\E u \in Threads : page'[u] = q) <=> (\E u \in Threads : page[u] = q)
    BY <1>2, <1>5, WebAssumption
  <2>2. QED
    BY <1>1, <1>5, <2>1 DEF PageState
<1>6. QED
  BY <1>3, <1>4, <1>5, OnePage DEF Crawl!Take

LEMMA DoneState ==
  ASSUME WorkInv, ListInv, PageInv, LinkInv, Up, Up', NEW t \in Threads, Done(t)
  PROVE  \E p \in Pages : Crawl!Done(p)
<1> DEFINE p == page[t]
<1>1. /\ p \in Pages /\ page' = [page EXCEPT ![t] = NoPage] /\ tpc[t] = "done"
      /\ page \in [Threads -> Pages \cup {NoPage}]
      /\ pagesToAdd' = pagesToAdd /\ pagesAdded' = pagesAdded
  BY DEF Done, Move, WorkInv, CrawlerTypeOK, Working, lists
<1>2. PageState(p) = "taken" /\ list_check(pagesAdded, p)
  BY <1>1, StateOf
<1>3. \A u \in Threads : page'[u] # p
  BY <1>1, WebAssumption DEF PageInv
<1>4. \A q \in Pages : (list_check(pagesAdded, q)' <=> list_check(pagesAdded, q))
                       /\ (list_check(pagesToAdd, q)' <=> list_check(pagesToAdd, q))
  BY <1>1 DEF list_check
<1>5. PICK r \in Pages : r = p
  BY <1>1
<1>6. PageState(r)' = "done"
  <2>1. list_check(pagesAdded, r)'
    BY <1>2, <1>4, <1>5
  <2>2. QED
    BY <1>3, <1>5, <2>1 DEF PageState
<1>7. ASSUME NEW q \in Pages, q # r PROVE PageState(q)' = PageState(q)
  <2>1. (\E u \in Threads : page'[u] = q) <=> (\E u \in Threads : page[u] = q)
    BY <1>1, <1>5, <1>7, WebAssumption
  <2>2. QED
    BY <1>4, <2>1 DEF PageState
<1>8. Crawl!Move(r, "taken", "done")
  BY <1>2, <1>5, <1>6, <1>7, OnePage
<1>9. \A q \in Targets[r] : CrawlState[q] # "unknown"
  <2>1. \A q \in Targets[r] : Known(q) /\ q \in Pages
    BY <1>1, <1>5, TargetsOf DEF LinkInv
  <2>2. QED
    BY <2>1, StateOf DEF CrawlState
<1>10. QED
  BY <1>8, <1>9 DEF Crawl!Done

(* The other steps leave the pages and the workers alone.                  *)
LEMMA PagesKept ==
  ASSUME [Next]_vars, Up, Up', ~Boot,
         \A t \in Threads : ~ThreadTake(t) /\ ~AddLink(t) /\ ~Done(t)
  PROVE  UNCHANGED <<pagesToAdd, pagesAdded, page, workers>>
<1>1. UNCHANGED <<pagesToAdd, pagesAdded>>
  BY ListsKept DEF lists
<1>2. UNCHANGED <<page, workers>>
  <2>1. CASE MainStep \/ MainFails \/ Answered \/ \E c \in Commands : AcceptCommand(c)
    BY <2>1
       DEF MainStep, OpenPort, ReadCommand, Answered, SearchLock, SearchFinished,
           SearchInProgress, Bye, Cancel, AllCancelled, FreeToAdd, FreeAdded, End, MainFails,
           AcceptCommand, Exit, threadVars
  <2>2. ASSUME NEW t \in Threads,
               \/ ThreadStep(t) \/ ThreadFails(t) \/ UseAfterFree(t)
               \/ SpuriousWake(t) \/ Cancelled(t) \/ CancelledInWait(t)
        PROVE  UNCHANGED <<page, workers>>
    BY <2>2
       DEF ThreadStep, ThreadLock, ThreadWait, ThreadSees, TakeCrashes, ThreadUnlock,
           GetFound, GetNotFound, Count, Save, LinkLock, LastLink, ThreadFails, GetFails,
           GetHangs, SaveFails,
           UseAfterFree, SpuriousWake, Cancelled, CancelledInWait, Exit, threadVars
  <2>3. CASE UNCHANGED vars
    BY <2>3 DEF vars, threadVars
  <2>4. QED
    BY <2>1, <2>2, <2>3 DEF Next
<1>3. QED
  BY <1>1, <1>2

(* They are no steps of the crawl.                                         *)
LEMMA OtherState ==
  ASSUME [Next]_vars, Up, Up', ~Boot,
         \A t \in Threads : ~ThreadTake(t) /\ ~AddLink(t) /\ ~Done(t)
  PROVE  UNCHANGED crawlVars
<1>1. Up' = Up
  BY DEF Up
<1>2. QED
  BY <1>1, PagesKept, QuietState

(* Every step of the crawler is a step of module Crawl or none, with any   *)
(* number of threads and any site: a page is listed when a page that is    *)
(* being fetched links to it, taken once by one thread, and done when      *)
(* every page it links to is listed or taken (crawlThread.c:50-91,         *)
(* 185-217, mycrawler.c:88).                                               *)
THEOREM CrawlerImplementsCrawl == Spec => ImplementsCrawl
<1>1. Init => Crawl!Init
  <2> SUFFICES ASSUME Init PROVE Crawl!Init
    OBVIOUS
  <2>1. \A p \in Pages : ~list_check(pagesAdded, p) /\ ~list_check(pagesToAdd, p)
    BY DEF Init, list_check
  <2>2. \A p \in Pages : PageState(p) = "unknown"
    BY <2>1, WebAssumption DEF Init, PageState
  <2>3. QED
    BY <2>2 DEF Init, Up, Freeing, CrawlState, Crawl!Init, Crawl!Unknown
<1>2. WorkInv /\ ListInv /\ CrawlInv /\ [Next]_vars => [Crawl!Next]_<<Up, CrawlState>>
  <2> SUFFICES ASSUME WorkInv, ListInv, CrawlInv, [Next]_vars
               PROVE  Crawl!Next \/ UNCHANGED crawlVars
    BY DEF crawlVars
  <2>1. CASE ~Up
    BY <2>1, StaysDown DEF crawlVars, CrawlState, PageState, Up
  <2>2. CASE Up /\ ~Up'
    BY <2>2, StopState DEF Crawl!Next
  <2>3. CASE Up /\ Up'
    <3>1. PageInv /\ LinkInv
      BY <2>3 DEF CrawlInv
    <3>2. ASSUME NEW t \in Threads, ThreadTake(t) \/ AddLink(t) \/ Done(t)
          PROVE  Crawl!Next \/ UNCHANGED crawlVars
      BY <2>3, <3>1, <3>2, TakeState, AddLinkState, DoneState DEF Crawl!Next
    <3>3. CASE Boot
      <4>1. Crawl!List(Start) /\ Start \in Pages
        BY <2>3, <3>1, <3>3, BootState, WebAssumption
      <4>2. QED
        BY <4>1 DEF Crawl!Next
    <3>4. QED
      BY <2>3, <3>2, <3>3, OtherState
  <2>4. QED
    BY <2>1, <2>2, <2>3
<1>3. QED
  BY <1>1, <1>2, CrawlerWorkInv, CrawlerListInv, CrawlerCrawlInv, PTL
     DEF Spec, ImplementsCrawl, Crawl!Spec

------------------------------------------------------------------------------
(* The crawl that is found finished is finished.                           *)

(* The start can be reached, and what a page that can be reached links to. *)
LEMMA ReachableClosed ==
  /\ Start \in Reachable
  /\ \A p \in Reachable : Targets[p] \subseteq Reachable
<1>1. Start \in Reachable
  BY WebAssumption DEF Reachable
<1>2. ASSUME NEW p \in Reachable, NEW q \in Targets[p] PROVE q \in Reachable
  <2>1. p \in Pages /\ q \in Pages
    BY <1>2, TargetsOf DEF Reachable
  <2>2. ASSUME NEW S \in SUBSET Pages, Start \in S, \A r \in S : Targets[r] \subseteq S
        PROVE  q \in S
    <3>1. p \in S
      BY <2>2 DEF Reachable
    <3>2. QED
      BY <1>2, <2>2, <3>1
  <2>3. QED
    BY <2>1, <2>2 DEF Reachable
<1>3. QED
  BY <1>1, <1>2

LEMMA BootReach ==
  ASSUME WorkInv, ListInv, Up, Boot
  PROVE  ReachInv'
<1>1. /\ pagesAdded' = <<>>
      /\ \A p : Known(p)' <=> p = Start
  BY BootLists
<1>2. \A p : ~list_check(pagesAdded, p)'
  BY <1>1 DEF list_check
<1>3. Known(Start)'
  BY <1>1
<1>4. QED
  BY <1>1, <1>2, <1>3, ReachableClosed DEF ReachInv, Reachable

LEMMA TakeReach ==
  ASSUME WorkInv, ListInv, Up, ReachInv, NEW t \in Threads, ThreadTake(t)
  PROVE  ReachInv'
<1>0. PICK h \in Pages : h = Head(pagesToAdd)
  BY TakeLists
<1>1. /\ \A p : list_check(pagesAdded, p)' <=> p = h \/ list_check(pagesAdded, p)
      /\ \A p : Known(p)' <=> Known(p)
  BY <1>0, TakeLists
<1>2. /\ page[t] = NoPage /\ page' = [page EXCEPT ![t] = h] /\ mpc' = mpc
      /\ page \in [Threads -> Pages \cup {NoPage}]
  BY <1>0 DEF ThreadTake, Move, WorkInv, CrawlerTypeOK, Looking, mainVars
<1>3. page'[t] = h /\ \A u \in Threads : page[u] # NoPage => page'[u] = page[u]
  BY <1>2
<1>4. ASSUME NEW p \in Pages, list_check(pagesAdded, p)'
      PROVE  (\E u \in Threads : page'[u] = p) \/ (\A q \in Targets[p] : Known(q)')
  BY <1>1, <1>3, <1>4, WebAssumption DEF ReachInv
<1>5. (mpc # "boot" => Known(Start))' /\ \A p \in Pages : Known(p)' => p \in Reachable
  BY <1>1, <1>2 DEF ReachInv
<1>6. QED
  BY <1>4, <1>5 DEF ReachInv, Reachable

LEMMA AddLinkReach ==
  ASSUME WorkInv, ListInv, PageInv, LinkInv, Up, ReachInv, NEW t \in Threads, AddLink(t)
  PROVE  ReachInv'
<1>0. PICK link \in Pages : link = Head(todo[t])
  BY LinkLists
<1>1. /\ todo[t] # <<>> /\ pagesAdded' = pagesAdded /\ page' = page /\ mpc' = mpc
      /\ \A p : Known(p)' <=> Known(p) \/ p = link
  BY <1>0, LinkLists DEF AddLink, mainVars
<1>2. link \in Reachable
  <2>1. /\ tpc[t] = "linkadd" /\ todo[t] \in Seq(Pages)
        /\ page[t] \in Pages /\ page[t] # NoPage
    BY DEF AddLink, WorkInv, CrawlerTypeOK, Working
  <2>2. link = todo[t][1] /\ 1 \in 1 .. Len(todo[t])
    BY <1>0, <1>1, <2>1, EmptySeq, HeadTailProperties
  <2>3. link \in Targets[page[t]]
    BY <2>1, <2>2 DEF LinkInv
  <2>4. page[t] \in Reachable
    BY <2>1 DEF PageInv, Known, ReachInv
  <2>5. QED
    BY <2>3, <2>4, ReachableClosed
<1>3. \A p : list_check(pagesAdded, p)' <=> list_check(pagesAdded, p)
  BY <1>1 DEF list_check
<1>4. (mpc # "boot" => Known(Start))' /\ \A p \in Pages : Known(p)' => p \in Reachable
  BY <1>1, <1>2 DEF ReachInv
<1>5. \A p \in Pages :
        list_check(pagesAdded, p)' =>
          (\E u \in Threads : page'[u] = p) \/ (\A q \in Targets[p] : Known(q)')
  BY <1>1, <1>3 DEF ReachInv
<1>6. QED
  BY <1>4, <1>5 DEF ReachInv, Reachable

LEMMA DoneReach ==
  ASSUME WorkInv, LinkInv, ReachInv, NEW t \in Threads, Done(t)
  PROVE  ReachInv'
<1>1. /\ tpc[t] = "done" /\ page' = [page EXCEPT ![t] = NoPage] /\ mpc' = mpc
      /\ pagesToAdd' = pagesToAdd /\ pagesAdded' = pagesAdded
      /\ page \in [Threads -> Pages \cup {NoPage}]
  BY DEF Done, Move, lists, mainVars, WorkInv, CrawlerTypeOK
<1>2. \A p : /\ list_check(pagesAdded, p)' <=> list_check(pagesAdded, p)
             /\ Known(p)' <=> Known(p)
  BY <1>1 DEF list_check, Known
<1>3. \A p \in Pages :
        list_check(pagesAdded, p)' =>
          (\E u \in Threads : page'[u] = p) \/ (\A q \in Targets[p] : Known(q)')
  BY <1>1, <1>2 DEF ReachInv, LinkInv
<1>4. (mpc # "boot" => Known(Start))' /\ \A p \in Pages : Known(p)' => p \in Reachable
  BY <1>1, <1>2 DEF ReachInv
<1>5. QED
  BY <1>3, <1>4 DEF ReachInv, Reachable

(* Only Boot leads on from there.                                         *)
LEMMA BootLeft ==
  ASSUME [Next]_vars, ~Boot, mpc = "boot"
  PROVE  mpc' = "boot"
<1>1. CASE MainStep \/ MainFails \/ Answered \/ \E c \in Commands : AcceptCommand(c)
  BY <1>1
     DEF MainStep, OpenPort, ReadCommand, Answered, SearchLock, SearchFinished,
         SearchInProgress, Bye, Cancel, AllCancelled, FreeToAdd, FreeAdded, End, MainFails,
         AcceptCommand, MoveMain, Exit
<1>2. ASSUME NEW t \in Threads,
             \/ ThreadStep(t) \/ ThreadFails(t) \/ UseAfterFree(t)
             \/ SpuriousWake(t) \/ Cancelled(t) \/ CancelledInWait(t)
      PROVE  mpc' = mpc
  BY <1>2
     DEF ThreadStep, ThreadLock, ThreadWait, ThreadSees, ThreadTake, TakeCrashes, ThreadUnlock,
         GetFound, GetNotFound, Count, Save, LinkLock, AddLink, LastLink, Done, ThreadFails,
         GetFails, GetHangs, SaveFails,
         UseAfterFree, SpuriousWake, Cancelled, CancelledInWait, Exit, mainVars
<1>3. CASE UNCHANGED vars
  BY <1>3 DEF vars, mainVars
<1>4. QED
  BY <1>1, <1>2, <1>3 DEF Next

LEMMA ReachKept ==
  ASSUME WorkInv, ListInv, PageInv, LinkInv, Up, Up', ReachInv, [Next]_vars
  PROVE  ReachInv'
<1>1. CASE ~Boot /\ \A t \in Threads : ~ThreadTake(t) /\ ~AddLink(t) /\ ~Done(t)
  <2>1. UNCHANGED <<pagesToAdd, pagesAdded, page>> /\ (mpc' = "boot" => mpc = "boot")
    BY <1>1, PagesKept, ListsKept
  <2>2. \A p : /\ list_check(pagesAdded, p)' <=> list_check(pagesAdded, p)
               /\ Known(p)' <=> Known(p)
    BY <2>1 DEF list_check, Known
  <2>3. /\ mpc' # "boot" => Known(Start)'
        /\ \A p \in Pages : Known(p)' => p \in Reachable
    <3>1. mpc' # "boot" => Known(Start)
      BY <2>1, <1>1, BootLeft DEF ReachInv
    <3>2. QED
      BY <2>2, <3>1 DEF ReachInv
  <2>4. \A p \in Pages :
          list_check(pagesAdded, p)' =>
            (\E u \in Threads : page'[u] = p) \/ (\A q \in Targets[p] : Known(q)')
    BY <2>1, <2>2 DEF ReachInv
  <2>5. QED
    BY <2>3, <2>4 DEF ReachInv, Reachable
<1>2. QED
  BY <1>1, BootReach, TakeReach, AddLinkReach, DoneReach

(* Which pages are saved.                                                  *)
LEMMA QuietSaved ==
  ASSUME SavedInv, UNCHANGED <<pagesAdded, page, saved>>,
         \A t \in Threads :
           /\ tpc'[t] \in {"unlock", "get", "hung", "count", "save"} =>
                tpc[t] \in {"unlock", "get", "hung", "count", "save"}
           /\ tpc'[t] \in {"link", "linkadd", "done"} =>
                tpc[t] \in {"link", "linkadd", "done"} \/ page[t] \notin Found
  PROVE  SavedInv'
<1>1. \A p : list_check(pagesAdded, p)' <=> list_check(pagesAdded, p)
  BY DEF list_check
<1>2. (\A p \in saved : p \in Found /\ list_check(pagesAdded, p))'
  BY <1>1 DEF SavedInv
<1>3. (\A t \in Threads :
         page[t] \in saved => tpc[t] \notin {"unlock", "get", "hung", "count", "save"})'
  BY DEF SavedInv
<1>4. ASSUME NEW p \in Found, list_check(pagesAdded, p), p \notin saved
      PROVE  \E t \in Threads : page'[t] = p /\ tpc'[t] \notin {"link", "linkadd", "done"}
  BY <1>4 DEF SavedInv
<1>5. QED
  BY <1>1, <1>2, <1>3, <1>4 DEF SavedInv

LEMMA TakeSaved ==
  ASSUME WorkInv, ListInv, Up, SavedInv, NEW t \in Threads, ThreadTake(t)
  PROVE  SavedInv'
<1>0. PICK h \in Pages : h = Head(pagesToAdd)
  BY TakeLists
<1>1. /\ ~list_check(pagesAdded, h)
      /\ \A p : list_check(pagesAdded, p)' <=> p = h \/ list_check(pagesAdded, p)
  BY <1>0, TakeLists
<1>2. /\ page[t] = NoPage /\ page' = [page EXCEPT ![t] = h] /\ saved' = saved
      /\ tpc' = [tpc EXCEPT ![t] = "unlock"]
      /\ page \in [Threads -> Pages \cup {NoPage}]
      /\ tpc \in [Threads -> ThreadLabels]
  BY <1>0 DEF ThreadTake, Move, WorkInv, CrawlerTypeOK, Looking
<1>3. /\ page'[t] = h /\ tpc'[t] = "unlock" /\ h \notin saved
      /\ \A u \in Threads : u # t => page'[u] = page[u] /\ tpc'[u] = tpc[u]
  BY <1>1, <1>2 DEF SavedInv
<1>4. (\A p \in saved : p \in Found /\ list_check(pagesAdded, p))'
  BY <1>1, <1>2 DEF SavedInv
<1>5. (\A u \in Threads :
         page[u] \in saved => tpc[u] \notin {"unlock", "get", "hung", "count", "save"})'
  BY <1>2, <1>3 DEF SavedInv
<1>6. ASSUME NEW p \in Found, list_check(pagesAdded, p)', p \notin saved'
      PROVE  \E u \in Threads : page'[u] = p /\ tpc'[u] \notin {"link", "linkadd", "done"}
  <2>1. CASE p = h
    BY <1>3, <2>1
  <2>2. CASE p # h
    <3>1. PICK u \in Threads : page[u] = p /\ tpc[u] \notin {"link", "linkadd", "done"}
      BY <1>1, <1>2, <1>6, <2>2 DEF SavedInv
    <3>2. u # t
      BY <1>2, <3>1, WebAssumption
    <3>3. QED
      BY <1>3, <3>1, <3>2
  <2>3. QED
    BY <2>1, <2>2
<1>7. QED
  BY <1>4, <1>5, <1>6 DEF SavedInv

LEMMA SaveSaved ==
  ASSUME WorkInv, PageInv, LinkInv, SavedInv, NEW t \in Threads, Save(t)
  PROVE  SavedInv' /\ saved' = saved \cup {page[t]} /\ page[t] \notin saved
<1>1. /\ tpc[t] = "save" /\ tpc' = [tpc EXCEPT ![t] = "link"]
      /\ page' = page /\ pagesAdded' = pagesAdded
      /\ saved' = saved \cup {page[t]}
      /\ tpc \in [Threads -> ThreadLabels]
      /\ page[t] # NoPage
  BY DEF Save, Move, lists, WorkInv, CrawlerTypeOK, Working
<1>2. /\ page[t] \in Found /\ page[t] \notin saved
      /\ list_check(pagesAdded, page[t])
      /\ \A u \in Threads : u # t => page[u] # page[t]
  BY <1>1 DEF LinkInv, PageInv, SavedInv
<1>3. \A p : list_check(pagesAdded, p)' <=> list_check(pagesAdded, p)
  BY <1>1 DEF list_check
<1>4. (\A p \in saved : p \in Found /\ list_check(pagesAdded, p))'
  BY <1>1, <1>2, <1>3 DEF SavedInv
<1>5. (\A u \in Threads :
         page[u] \in saved => tpc[u] \notin {"unlock", "get", "hung", "count", "save"})'
  BY <1>1, <1>2 DEF SavedInv
<1>6. ASSUME NEW p \in Found, list_check(pagesAdded, p)', p \notin saved'
      PROVE  \E u \in Threads : page'[u] = p /\ tpc'[u] \notin {"link", "linkadd", "done"}
  BY <1>1, <1>3, <1>6 DEF SavedInv
<1>7. QED
  BY <1>1, <1>2, <1>4, <1>5, <1>6 DEF SavedInv

LEMMA DoneSaved ==
  ASSUME WorkInv, SavedInv, NEW t \in Threads, Done(t)
  PROVE  SavedInv'
<1>1. /\ tpc[t] = "done" /\ tpc' = [tpc EXCEPT ![t] = "lock"]
      /\ page' = [page EXCEPT ![t] = NoPage] /\ pagesAdded' = pagesAdded /\ saved' = saved
      /\ page \in [Threads -> Pages \cup {NoPage}]
      /\ tpc \in [Threads -> ThreadLabels]
  BY DEF Done, Move, lists, WorkInv, CrawlerTypeOK
<1>2. \A p : list_check(pagesAdded, p)' <=> list_check(pagesAdded, p)
  BY <1>1 DEF list_check
<1>3. (\A p \in saved : p \in Found /\ list_check(pagesAdded, p))'
  BY <1>1, <1>2 DEF SavedInv
<1>4. (\A u \in Threads :
         page[u] \in saved => tpc[u] \notin {"unlock", "get", "hung", "count", "save"})'
  BY <1>1 DEF SavedInv
<1>5. ASSUME NEW p \in Found, list_check(pagesAdded, p)', p \notin saved'
      PROVE  \E u \in Threads : page'[u] = p /\ tpc'[u] \notin {"link", "linkadd", "done"}
  <2>1. PICK u \in Threads : page[u] = p /\ tpc[u] \notin {"link", "linkadd", "done"}
    BY <1>1, <1>2, <1>5 DEF SavedInv
  <2>2. u # t
    BY <1>1, <2>1
  <2>3. QED
    BY <1>1, <2>1, <2>2
<1>6. QED
  BY <1>3, <1>4, <1>5 DEF SavedInv

(* A thread that fails to get its page ends the process, so the others     *)
(* neither save it nor go on.                                              *)
LEMMA SavedKept ==
  ASSUME WorkInv, ListInv, PageInv, LinkInv, Up, Up', SavedInv, [Next]_vars
  PROVE  SavedInv'
<1>1. CASE MainStep \/ MainFails \/ Answered \/ \E c \in Commands : AcceptCommand(c)
  <2>1. CASE Boot
    <3>1. pagesAdded' = pagesAdded /\ \A t \in Threads : tpc'[t] = "lock"
      BY <2>1 DEF Boot
    <3>2. QED
      BY <2>1, <3>1, QuietSaved DEF Boot
  <2>2. CASE ~Boot
    <3>1. UNCHANGED <<pagesAdded, page, saved, tpc>>
      BY <1>1, <2>2
         DEF MainStep, OpenPort, ReadCommand, Answered, SearchLock, SearchFinished,
             SearchInProgress, Bye, Cancel, AllCancelled, FreeToAdd, FreeAdded, End, MainFails,
             AcceptCommand, Exit, MoveMain, threadVars, lists, Up, Freeing
    <3>2. QED
      BY <3>1, QuietSaved
  <2>3. QED
    BY <2>1, <2>2
<1>2. ASSUME NEW t \in Threads,
             \/ ThreadStep(t) \/ ThreadFails(t) \/ UseAfterFree(t)
             \/ SpuriousWake(t) \/ Cancelled(t) \/ CancelledInWait(t)
      PROVE  SavedInv'
  <2> USE DEF Move, WorkInv, CrawlerTypeOK
  <2>1. CASE ThreadLock(t) \/ ThreadWait(t) \/ ThreadSees(t) \/ SpuriousWake(t)
    BY <2>1, QuietSaved DEF ThreadLock, ThreadWait, ThreadSees, SpuriousWake, lists
  <2>2. CASE ThreadUnlock(t) \/ GetFound(t) \/ GetNotFound(t) \/ GetHangs(t) \/ Count(t)
    BY <2>2, QuietSaved DEF ThreadUnlock, GetFound, GetNotFound, GetHangs, Count, lists
  <2>3. CASE LinkLock(t) \/ LastLink(t)
    BY <2>3, QuietSaved DEF LinkLock, LastLink, lists
  <2>4. CASE AddLink(t)
    <3>1. /\ tpc[t] = "linkadd" /\ tpc'[t] = "link"
          /\ \A u \in Threads : u # t =>
               tpc'[u] = tpc[u] \/ (tpc[u] = "waiting" /\ tpc'[u] = "lock")
          /\ UNCHANGED <<pagesAdded, page, saved>>
      BY <2>4 DEF AddLink, Signal, Waiters
    <3>2. QED
      BY <3>1, QuietSaved
  <2>5. CASE Cancelled(t) \/ CancelledInWait(t)
    BY <2>5, QuietSaved DEF Cancelled, CancelledInWait, lists
  <2>6. CASE TakeCrashes(t) \/ GetFails(t) \/ SaveFails(t) \/ UseAfterFree(t)
    BY <2>6, QuietSaved
       DEF TakeCrashes, GetFails, SaveFails, UseAfterFree, Exit, threadVars, lists
  <2>7. QED
    BY <1>2, <2>1, <2>2, <2>3, <2>4, <2>5, <2>6, TakeSaved, SaveSaved, DoneSaved
       DEF ThreadStep, ThreadFails
<1>3. CASE UNCHANGED vars
  BY <1>3, QuietSaved DEF vars, lists, threadVars
<1>4. QED
  BY <1>1, <1>2, <1>3 DEF Next

(* Once no page is left to fetch and no thread is at work on one, no       *)
(* thread takes or lists a page again.                                     *)
LEMMA NobodyAtWork ==
  ASSUME WorkInv, workers = 0
  PROVE  \A t \in Threads : page[t] = NoPage /\ tpc[t] \notin Working
BY AtWorkFinite DEF WorkInv, WorkersCounted, AtWork

LEMMA FinishedKept ==
  ASSUME WorkInv, Up, Up', Finished, mpc # "boot", [Next]_vars
  PROVE  Finished' /\ mpc' # "boot" /\ UNCHANGED <<pagesToAdd, pagesAdded, page, workers>>
<1>1. ~Boot
  BY DEF Boot, MoveMain
<1>2. ASSUME NEW t \in Threads PROVE ~ThreadTake(t) /\ ~AddLink(t) /\ ~Done(t)
  BY NobodyAtWork DEF Finished, ThreadTake, AddLink, Done, Move, Working
<1>3. UNCHANGED <<pagesToAdd, pagesAdded, page, workers>>
  BY <1>1, <1>2, PagesKept
<1>4. mpc' # "boot"
  BY <1>1, <1>2, ListsKept
<1>5. QED
  BY <1>3, <1>4 DEF Finished, list_empty

LEMMA ReadyKept ==
  ASSUME WorkInv, Up, Up', CountInv, [Next]_vars
  PROVE  (ready => Finished /\ mpc # "boot")'
<1>1. CASE ready
  BY <1>1, FinishedKept DEF CountInv
<1>2. CASE SearchFinished
  BY <1>2 DEF SearchFinished, Finished, MoveMain, lists, list_empty
<1>3. CASE ~ready /\ ~SearchFinished
  <2>1. ready' = ready
    <3>1. CASE MainStep \/ MainFails \/ Answered \/ \E c \in Commands : AcceptCommand(c)
      BY <1>3, <3>1
         DEF MainStep, Boot, OpenPort, ReadCommand, Answered, SearchLock,
             SearchInProgress, Bye, Cancel, AllCancelled, FreeToAdd, FreeAdded, End, MainFails,
             AcceptCommand, Exit, mainVars
    <3>2. ASSUME NEW t \in Threads,
                 \/ ThreadStep(t) \/ ThreadFails(t) \/ UseAfterFree(t)
                 \/ SpuriousWake(t) \/ Cancelled(t) \/ CancelledInWait(t)
          PROVE  ready' = ready
      BY <3>2
         DEF ThreadStep, ThreadLock, ThreadWait, ThreadSees, ThreadTake, TakeCrashes,
             ThreadUnlock, GetFound, GetNotFound, Count, Save, LinkLock, AddLink, LastLink,
             Done, ThreadFails, GetFails, GetHangs, SaveFails, UseAfterFree, SpuriousWake,
             Cancelled, CancelledInWait, Exit, mainVars
    <3>3. CASE UNCHANGED vars
      BY <3>3 DEF vars, mainVars
    <3>4. QED
      BY <3>1, <3>2, <3>3 DEF Next
  <2>2. QED
    BY <1>3, <2>1
<1>4. QED
  BY <1>1, <1>2, <1>3

(* The threads are cancelled after the last command.                       *)
LEMMA CancelKept ==
  ASSUME Up, Up', CountInv, [Next]_vars
  PROVE  /\ (cancelled # {} => mpc = "cancel")'
         /\ cancelled # {} => cancelled' # {} /\ ready' = ready
<1> USE DEF CountInv, Up, Freeing
<1>1. CASE MainStep \/ MainFails \/ Answered \/ \E c \in Commands : AcceptCommand(c)
  BY <1>1
     DEF MainStep, Boot, OpenPort, ReadCommand, Answered, SearchLock, SearchFinished,
         SearchInProgress, Bye, Cancel, AllCancelled, FreeToAdd, FreeAdded, End, MainFails,
         AcceptCommand, MoveMain, Exit, mainVars
<1>2. ASSUME NEW t \in Threads,
             \/ ThreadStep(t) \/ ThreadFails(t) \/ UseAfterFree(t)
             \/ SpuriousWake(t) \/ Cancelled(t) \/ CancelledInWait(t)
      PROVE  UNCHANGED <<cancelled, mpc, ready>>
  BY <1>2
     DEF ThreadStep, ThreadLock, ThreadWait, ThreadSees, ThreadTake, TakeCrashes, ThreadUnlock,
         GetFound, GetNotFound, Count, Save, LinkLock, AddLink, LastLink, Done, ThreadFails,
         GetFails, GetHangs, SaveFails,
         UseAfterFree, SpuriousWake, Cancelled, CancelledInWait, Exit, mainVars
<1>3. CASE UNCHANGED vars
  BY <1>3 DEF vars, mainVars
<1>4. QED
  BY <1>1, <1>2, <1>3 DEF Next

(* The pages counted are those that are saved and those about to be.       *)
LEMMA SavingFinite ==
  ASSUME CrawlerTypeOK
  PROVE  /\ IsFiniteSet(Saving) /\ Cardinality(Saving) \in Nat
         /\ IsFiniteSet(saved) /\ Cardinality(saved) \in Nat
<1>1. Saving \subseteq Threads /\ saved \subseteq Pages
  BY DEF Saving, CrawlerTypeOK
<1>2. QED
  BY <1>1, CrawlerThreads, WebAssumption, FS_Subset, FS_CardinalityType

LEMMA QuietCount ==
  ASSUME Counted, UNCHANGED <<pagesDownloaded, saved>>,
         \A t \in Threads : tpc'[t] = "save" <=> tpc[t] = "save"
  PROVE  Counted'
<1>1. Saving' = Saving
  BY DEF Saving
<1>2. QED
  BY <1>1 DEF Counted

LEMMA CountCounted ==
  ASSUME CrawlerTypeOK, Counted, NEW t \in Threads, Count(t)
  PROVE  Counted'
<1>1. /\ tpc[t] = "count" /\ tpc' = [tpc EXCEPT ![t] = "save"]
      /\ pagesDownloaded' = pagesDownloaded + 1 /\ saved' = saved
      /\ tpc \in [Threads -> ThreadLabels]
  BY DEF Count, Move, CrawlerTypeOK
<1>2. t \notin Saving /\ Saving' = Saving \cup {t}
  BY <1>1 DEF Saving
<1>3. Cardinality(Saving') = Cardinality(Saving) + 1
  BY <1>2, SavingFinite, FS_AddElement
<1>4. QED
  BY <1>1, <1>3, SavingFinite DEF Counted

LEMMA SaveCounted ==
  ASSUME WorkInv, PageInv, LinkInv, SavedInv, Counted, NEW t \in Threads, Save(t)
  PROVE  Counted'
<1>1. /\ tpc[t] = "save" /\ tpc' = [tpc EXCEPT ![t] = "link"]
      /\ pagesDownloaded' = pagesDownloaded
      /\ tpc \in [Threads -> ThreadLabels] /\ CrawlerTypeOK
  BY DEF Save, Move, stats, WorkInv, CrawlerTypeOK
<1>2. t \in Saving /\ Saving' = Saving \ {t}
  BY <1>1 DEF Saving
<1>3. Cardinality(Saving') = Cardinality(Saving) - 1
  BY <1>1, <1>2, SavingFinite, FS_RemoveElement
<1>4. Cardinality(saved') = Cardinality(saved) + 1
  BY <1>1, SaveSaved, SavingFinite, FS_AddElement
<1>5. QED
  BY <1>1, <1>3, <1>4, SavingFinite DEF Counted

(* A thread that is cancelled between the count and the file would spoil   *)
(* it; but then the crawl is not asked about again.                        *)
LEMMA CountKept ==
  ASSUME WorkInv, PageInv, LinkInv, SavedInv, Counted, Up, Up', [Next]_vars,
         cancelled = {} \/ ready, ready => Finished
  PROVE  Counted'
<1>1. CASE MainStep \/ MainFails \/ Answered \/ \E c \in Commands : AcceptCommand(c)
  <2>1. CASE Boot
    <3>1. \A t \in Threads : tpc[t] = "unborn" /\ tpc'[t] = "lock"
      BY <2>1 DEF Boot, MoveMain, WorkInv
    <3>2. QED
      BY <2>1, <3>1, QuietCount DEF Boot, stats
  <2>2. CASE ~Boot
    <3>1. UNCHANGED <<pagesDownloaded, saved, tpc>>
      BY <1>1, <2>2
         DEF MainStep, OpenPort, ReadCommand, Answered, SearchLock, SearchFinished,
             SearchInProgress, Bye, Cancel, AllCancelled, FreeToAdd, FreeAdded, End, MainFails,
             AcceptCommand, Exit, stats, threadVars
    <3>2. QED
      BY <3>1, QuietCount
  <2>3. QED
    BY <2>1, <2>2
<1>2. ASSUME NEW t \in Threads,
             \/ ThreadStep(t) \/ ThreadFails(t) \/ UseAfterFree(t)
             \/ SpuriousWake(t) \/ Cancelled(t) \/ CancelledInWait(t)
      PROVE  Counted'
  <2> USE DEF Move, WorkInv, CrawlerTypeOK
  <2>1. CASE ThreadLock(t) \/ ThreadWait(t) \/ ThreadSees(t) \/ SpuriousWake(t)
    BY <2>1, QuietCount DEF ThreadLock, ThreadWait, ThreadSees, SpuriousWake, stats
  <2>2. CASE ThreadTake(t) \/ ThreadUnlock(t) \/ GetFound(t) \/ GetNotFound(t) \/ GetHangs(t)
    BY <2>2, QuietCount DEF ThreadTake, ThreadUnlock, GetFound, GetNotFound, GetHangs, stats
  <2>3. CASE LinkLock(t) \/ LastLink(t) \/ Done(t)
    BY <2>3, QuietCount DEF LinkLock, LastLink, Done, stats
  <2>4. CASE AddLink(t)
    <3>1. /\ tpc[t] = "linkadd" /\ tpc'[t] = "link"
          /\ \A u \in Threads : u # t =>
               tpc'[u] = tpc[u] \/ (tpc[u] = "waiting" /\ tpc'[u] = "lock")
          /\ UNCHANGED <<pagesDownloaded, saved>>
      BY <2>4 DEF AddLink, Signal, Waiters, stats
    <3>2. QED
      BY <3>1, QuietCount
  <2>5. CASE Cancelled(t)
    <3>1. tpc[t] # "save"
      BY <2>5, NobodyAtWork DEF Cancelled, Finished, Working
    <3>2. QED
      BY <2>5, <3>1, QuietCount DEF Cancelled, stats
  <2>6. CASE CancelledInWait(t)
    BY <2>6, QuietCount DEF CancelledInWait, stats
  <2>7. CASE TakeCrashes(t) \/ GetFails(t) \/ SaveFails(t) \/ UseAfterFree(t)
    BY <2>7, QuietCount
       DEF TakeCrashes, GetFails, SaveFails, UseAfterFree, Exit, threadVars, stats
  <2>8. CASE Count(t)
    BY <2>8, CountCounted
  <2>9. CASE Save(t)
    BY <2>9, SaveCounted
  <2>10. QED
    BY <1>2, <2>1, <2>2, <2>3, <2>4, <2>5, <2>6, <2>7, <2>8, <2>9 DEF ThreadStep, ThreadFails
<1>3. CASE UNCHANGED vars
  BY <1>3, QuietCount DEF vars, stats, threadVars
<1>4. QED
  BY <1>1, <1>2, <1>3 DEF Next

LEMMA CrawlerReadyInv == Spec => []ReadyInv
<1>1. Init => ReadyInv
  <2> SUFFICES ASSUME Init PROVE ReachInv /\ SavedInv /\ CountInv
    BY DEF ReadyInv
  <2>1. \A p : ~list_check(pagesAdded, p) /\ ~list_check(pagesToAdd, p)
    BY DEF Init, list_check
  <2>2. ReachInv
    BY <2>1 DEF Init, ReachInv, Known
  <2>3. SavedInv
    BY <2>1 DEF Init, SavedInv
  <2>4. Saving = {} /\ saved = {} /\ pagesDownloaded = 0
    BY DEF Init, Saving
  <2>5. CountInv
    BY <2>4, FS_EmptySet DEF Init, CountInv, Counted
  <2>6. QED
    BY <2>2, <2>3, <2>5
<1>2. WorkInv /\ ListInv /\ CrawlInv /\ ReadyInv /\ [Next]_vars => ReadyInv'
  <2> SUFFICES ASSUME WorkInv, ListInv, CrawlInv, ReadyInv, [Next]_vars, Up'
               PROVE  ReachInv' /\ SavedInv' /\ CountInv'
    BY DEF ReadyInv
  <2>1. Up /\ PageInv /\ LinkInv /\ ReachInv /\ SavedInv /\ CountInv
    BY StaysDown DEF CrawlInv, ReadyInv
  <2>2. ReachInv' /\ SavedInv'
    BY <2>1, ReachKept, SavedKept
  <2>3. (ready => Finished /\ mpc # "boot")' /\ (cancelled # {} => mpc = "cancel")'
    BY <2>1, ReadyKept, CancelKept
  <2>4. ASSUME (cancelled = {} \/ ready)' PROVE Counted'
    <3>1. cancelled = {} \/ ready
      BY <2>1, <2>4, CancelKept
    <3>2. Counted /\ (ready => Finished)
      BY <2>1, <3>1 DEF CountInv
    <3>3. QED
      BY <2>1, <3>1, <3>2, CountKept
  <2>5. CountInv'
    BY <2>3, <2>4 DEF CountInv
  <2>6. QED
    BY <2>2, <2>5
<1>3. QED
  BY <1>1, <1>2, CrawlerWorkInv, CrawlerListInv, CrawlerCrawlInv, PTL DEF Spec

(* When the main thread takes the crawl for finished it is, for any number *)
(* of threads and any site: the pages taken are those that can be reached, *)
(* the files are those of them that exist, and pagesDownloaded counts them *)
(* (mycrawler.c:141-143, crawlThread.c:50-143, 185-217).                   *)
THEOREM CrawlerReadyMeansFinished == Spec => []ReadyMeansFinished
<1>1. WorkInv /\ CrawlInv /\ ReadyInv => ReadyMeansFinished
  <2> SUFFICES ASSUME WorkInv, CrawlInv, ReadyInv, ready, Up
               PROVE  /\ {pagesAdded[i] : i \in 1 .. Len(pagesAdded)} = Reachable
                      /\ saved = Reachable \cap Found
                      /\ pagesDownloaded = Cardinality(saved)
    BY DEF ReadyMeansFinished
  <2> DEFINE Added == {p \in Pages : list_check(pagesAdded, p)}
  <2>1. PageInv /\ ReachInv /\ SavedInv /\ CountInv /\ Finished /\ mpc # "boot"
    BY DEF CrawlInv, ReadyInv, CountInv
  <2>2. \A t \in Threads : page[t] = NoPage /\ tpc[t] \notin Working
    BY <2>1, NobodyAtWork DEF Finished
  <2>3. \A p : Known(p) <=> list_check(pagesAdded, p)
    BY <2>1 DEF Known, Finished, list_empty, list_check
  <2>4. {pagesAdded[i] : i \in 1 .. Len(pagesAdded)} = Added
    <3>1. \A i \in 1 .. Len(pagesAdded) : pagesAdded[i] \in Pages
      BY DEF WorkInv, CrawlerTypeOK
    <3>2. QED
      BY <3>1 DEF list_check
  <2>5. Added = Reachable
    <3>1. Added \subseteq Reachable
      BY <2>1, <2>3 DEF ReachInv
    <3>2. Start \in Added
      BY <2>1, <2>3, WebAssumption DEF ReachInv
    <3>3. ASSUME NEW q \in Added PROVE Targets[q] \subseteq Added
      <4>1. \A r \in Targets[q] : Known(r)
        BY <2>1, <2>2, <3>3, WebAssumption DEF ReachInv
      <4>2. QED
        BY <2>3, <3>3, <4>1, TargetsOf
    <3>4. \A p \in Reachable : p \in Added
      BY <3>2, <3>3 DEF Reachable
    <3>5. QED
      BY <3>1, <3>4
  <2>6. saved = Reachable \cap Found
    <3>1. \A p \in saved : p \in Added /\ p \in Found
      BY <2>1, WebAssumption DEF SavedInv
    <3>2. \A p \in Added : p \in Found => p \in saved
      BY <2>1, <2>2, WebAssumption DEF SavedInv
    <3>3. QED
      BY <2>5, <3>1, <3>2
  <2>7. pagesDownloaded = Cardinality(saved)
    <3>1. Saving = {}
      BY <2>2 DEF Saving, Working
    <3>2. pagesDownloaded = Cardinality(saved) + Cardinality(Saving)
      BY <2>1 DEF CountInv, Counted
    <3>3. QED
      BY <3>1, <3>2, SavingFinite, FS_EmptySet DEF WorkInv
  <2>8. QED
    BY <2>4, <2>5, <2>6, <2>7
<1>2. QED
  BY <1>1, CrawlerWorkInv, CrawlerCrawlInv, CrawlerReadyInv, PTL
==============================================================================
