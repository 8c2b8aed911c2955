CONSTANTS
  home = home
  news = news
  about = about
  gone = gone
  Threads = {t1, t2}
  Main = Main
  Nobody = Nobody
  NoPage = NoPage
  Pages <- MCPages
  Start = home
  Found <- MCFound
  Links <- MCLinks
  Bytes <- MCBytes
  MaxCommands = 1
SPECIFICATION Spec
INVARIANT FreedWhenUnused
CHECK_DEADLOCK FALSE
