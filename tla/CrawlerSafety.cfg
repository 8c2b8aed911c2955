CONSTANTS
  home = home
  news = news
  about = about
  gone = gone
  Threads = {t1, t2, t3}
  Main = Main
  Nobody = Nobody
  NoPage = NoPage
  Pages <- MCPages
  Start = home
  Found <- MCFound
  Links <- MCLinks
  Bytes <- MCBytes
  MaxCommands = 2
SPECIFICATION Spec
SYMMETRY Symmetry
INVARIANTS CrawlerTypeOK ListedOnce WorkersCounted NoLostWakeup NoCrashWhileCrawling ReadyMeansFinished
PROPERTY ImplementsCrawl
CHECK_DEADLOCK FALSE
