----------------------------- MODULE HttpExchange -----------------------------
(***************************************************************************)
(* One page on its way from the server to the crawler: get and             *)
(* readAnswerFromServer (crawlThread.c) at one end of a connection,        *)
(* recv_get and getRequest (serverThread.c) at the other, with the loops   *)
(* of auxFun.c over the two streams of bytes between them.  Nothing but    *)
(* the number of lines that each side counts tells one part of a message   *)
(* from the next.                                                          *)
(*                                                                         *)
(* A byte is "CR", "LF", "NUL" or stands for the bytes of a word.  Both    *)
(* ends block where a read or write of the code would; reads and writes    *)
(* take one byte a step, so every way to split them is there.              *)
(***************************************************************************)
EXTENDS Integers, Sequences, TLC

CONSTANTS
  Pages,     \* the contents, sequences of bytes, that a file may have
  MaxLength, \* a bound on their lengths
  Capacity   \* how many bytes a stream holds

ASSUME ExchangeAssumption ==
  /\ Capacity \in Nat \ {0}
  /\ MaxLength \in Nat \ {0}
  /\ \A p \in Pages : p \in Seq(STRING) /\ Len(p) <= MaxLength

VARIABLES
  file,       \* what the server has under the name of the page
  up, down,   \* the streams from the client to the server and back
  cpc,        \* where the client is
  cOut,       \* what it still has to write
  cReader,    \* what it has read of the answer, line by line
  content,    \* what it has read of the page
  downloaded, \* its count of bytes
  reset,      \* whether a reset waits for its next read, or has been read
  spc,        \* where the server is
  sOut, sReader,
  answer,     \* what the server has decided to send, as code and text
  counted,    \* its count of bytes
  lost        \* whether a reset has destroyed a part of the answer

clientVars == <<cpc, cOut, cReader, content, downloaded>>
serverVars == <<spc, sOut, sReader, answer, counted>>
vars == <<file, up, down, clientVars, reset, serverVars, lost>>

------------------------------------------------------------------------------
(* Lines.                                                                  *)

\* A string ends at its first NUL.
Text(bytes) ==
  LET cut == {k \in 1 .. Len(bytes) : bytes[k] = "NUL"}
  IN  IF cut = {} THEN bytes
      ELSE SubSeq(bytes, 1, (CHOOSE k \in cut : \A l \in cut : k <= l) - 1)

NewReader == [line |-> <<>>, cr |-> FALSE, lines |-> <<>>]

LineEnds(reader) ==
  [line |-> <<>>, cr |-> FALSE, lines |-> Append(reader.lines, Text(reader.line))]

\* The reader after one byte of inputStringFd.  After a CR one more byte is
\* read, whatever it is.
Take(reader, byte) ==
  CASE reader.cr \/ byte = "LF" -> LineEnds(reader)
    [] ~reader.cr /\ byte = "CR" -> [reader EXCEPT !.cr = TRUE]
    [] OTHER -> [reader EXCEPT !.line = Append(@, byte)]

Line(words) == words \o <<"CR", "LF">>

\* sprintf("%d") and atoi: what is not a number is 0.
Decimal(n) == ToString(n)
ASSUME DecimalAssumption ==
  \A n \in 0 .. MaxLength :
    /\ Decimal(n) \notin {"CR", "LF", "NUL"}
    /\ \A m \in 0 .. MaxLength : Decimal(m) = Decimal(n) => m = n
Atoi(words) ==
  IF words # <<>> /\ \E n \in 0 .. MaxLength : Decimal(n) = words[1]
    THEN CHOOSE n \in 0 .. MaxLength : Decimal(n) = words[1]
    ELSE 0

\* The six lines of get, written with the NUL that ends the string.
Request ==
  Line(<<"GET", "page", "HTTP/1.1">>) \o Line(<<"User-Agent">>) \o Line(<<"Host">>)
    \o Line(<<"Accept-Language">>) \o Line(<<"Accept-Encoding">>)
    \o Line(<<"Connection">>) \o <<"NUL">>

\* Mutant of Header: the length of the file, not of the string.
HeaderOfFile(a) ==
  Line(<<"HTTP/1.1", a.code, "OK">>) \o Line(<<"Date">>) \o Line(<<"Server">>)
    \o Line(<<"Content-Length", Decimal(Len(file.bytes))>>) \o Line(<<"Content-Type">>)
    \o Line(<<"Connection">>) \o Line(<<>>)

\* The lines of getRequest's answer, with the empty one.
Header(a) ==
  Line(<<"HTTP/1.1", a.code, "OK">>) \o Line(<<"Date">>) \o Line(<<"Server">>)
    \o Line(<<"Content-Length", Decimal(Len(a.text))>>) \o Line(<<"Content-Type">>)
    \o Line(<<"Connection">>) \o Line(<<>>)

\* Mutant of RequestLines: the loop over the rest starts at 1.
RequestLinesShort == 1 + 4
\* Mutant of RequestLines: `i <= 5' ends the loop.
RequestLinesLong == 1 + 6
RequestLines == 1 + 5

\* Mutant of AnswerLines: consumeLines(sock, 2) for the lines after the length.
AnswerLinesShort == 1 + 2 + 1 + 2
AnswerLines == 1 + 2 + 1 + 3

------------------------------------------------------------------------------
Files == [code : {"200"}, bytes : Pages] \cup [code : {"404", "403"}, bytes : {<<>>}]

NoAnswer == [code |-> "none", text |-> <<>>]

\* An error page says so in one byte.
AnswerWith(f) ==
  [code |-> f.code, text |-> IF f.code = "200" THEN Text(f.bytes) ELSE <<"sorry">>]

AnswerTo(line) ==
  LET name == SubSeq(line, 2, Len(line) - 1)
  IN  AnswerWith(IF name = <<"page">> THEN file ELSE [code |-> "404", bytes |-> <<>>])

Init ==
  /\ file \in Files
  /\ up = <<>> /\ down = <<>>
  /\ cpc = "write" /\ cOut = Request /\ cReader = NewReader
  /\ content = <<>> /\ downloaded = 0
  /\ spc = "read" /\ sOut = <<>> /\ sReader = NewReader
  /\ answer = NoAnswer /\ counted = 0
  /\ reset = "none" /\ lost = FALSE

ServerOpen == spc \in {"read", "answer", "write", "sleep"}
ClientOpen == cpc \in {"write", "lines", "body"}

\* The kernel resets a connection that is closed with bytes unread.  What
\* the client has not received by then is lost, the rest can be read.
ResetToClient ==
  /\ reset' = "waits"
  /\ \E k \in 0 .. Len(down) :
       /\ down' = SubSeq(down, 1, k)
       /\ lost' = (lost \/ k < Len(down))

------------------------------------------------------------------------------
(* The client.                                                             *)

WriteRequest ==
  /\ cpc = "write" /\ ServerOpen
  /\ Len(up) < Capacity
  /\ up' = Append(up, Head(cOut))
  /\ cOut' = Tail(cOut)
  /\ cpc' = IF cOut' = <<>> THEN "lines" ELSE "write"
  /\ UNCHANGED <<file, down, cReader, content, downloaded, reset, serverVars, lost>>

\* The server has closed: what is written brings a reset, and the next write
\* SIGPIPE.
WriteToNobody ==
  /\ cpc = "write" /\ ~ServerOpen
  /\ \/ /\ reset = "none" /\ ResetToClient
        /\ cOut' = Tail(cOut)
        /\ cpc' = IF cOut' = <<>> THEN "lines" ELSE "write"
     \/ reset # "none" /\ cpc' = "killed" /\ UNCHANGED <<cOut, down, reset, lost>>
  /\ UNCHANGED <<file, up, cReader, content, downloaded, serverVars>>

\* Where readAnswerFromServer goes on when it has these lines.
AfterLines(lines) ==
  CASE /\ Len(lines) = 1
       /\ Len(lines[1]) < 3 \/ lines[1][2] \notin {"404", "403", "200"} -> "failed"
    [] Len(lines) = AnswerLines -> "body"
    [] OTHER -> "lines"

\* One read of inputStringFd.  At the end of the stream only the read after
\* a CR returns; the other loop goes on for ever.
ReadLines ==
  /\ cpc = "lines"
  /\ \/ /\ down # <<>> /\ down' = Tail(down)
        /\ cReader' = Take(cReader, Head(down))
        /\ UNCHANGED reset
     \/ /\ down = <<>> /\ ~ServerOpen /\ cReader.cr
        /\ cReader' = LineEnds(cReader)
        /\ reset' = IF reset = "waits" THEN "read" ELSE reset
        /\ UNCHANGED down
  /\ cpc' = IF cReader'.lines = cReader.lines THEN cpc ELSE AfterLines(cReader'.lines)
  /\ UNCHANGED <<file, up, cOut, content, downloaded, serverVars, lost>>

ContentSize ==
  LET line == cReader.lines[4] IN Atoi(SubSeq(line, 2, Len(line)))

\* One read of socket_read, which fails on a reset.  At the end of the
\* stream it goes on for ever.
ReadContent ==
  /\ cpc = "body" /\ Len(content) < ContentSize
  /\ \/ /\ down # <<>> /\ down' = Tail(down)
        /\ content' = Append(content, Head(down))
        /\ UNCHANGED <<cpc, reset>>
     \/ /\ down = <<>> /\ reset = "waits"
        /\ cpc' = "failed" /\ reset' = "read"
        /\ UNCHANGED <<down, content>>
  /\ UNCHANGED <<file, up, cOut, cReader, downloaded, serverVars, lost>>

\* The statistics are brought up to date and the socket is closed.
FinishGet ==
  /\ cpc = "body" /\ Len(content) = ContentSize
  /\ cpc' = "done"
  /\ downloaded' = IF cReader.lines[1][2] = "200" THEN ContentSize ELSE 0
  /\ UNCHANGED <<file, up, down, cOut, cReader, content, reset, serverVars, lost>>

\* The crawler's process ends for another reason.
ClientEnds ==
  /\ ClientOpen /\ cpc' = "gone"
  /\ UNCHANGED <<file, up, down, cOut, cReader, content, downloaded, reset, serverVars, lost>>

ClientStep == WriteRequest \/ WriteToNobody \/ ReadLines \/ ReadContent \/ FinishGet

------------------------------------------------------------------------------
(* The server.                                                             *)

\* One read of inputStringFd, as in ReadLines.
ReadRequest ==
  /\ spc = "read"
  /\ \/ /\ up # <<>> /\ up' = Tail(up)
        /\ sReader' = Take(sReader, Head(up))
     \/ /\ up = <<>> /\ ~ClientOpen /\ sReader.cr
        /\ sReader' = LineEnds(sReader)
        /\ UNCHANGED up
  /\ spc' = IF Len(sReader'.lines) = RequestLines THEN "answer" ELSE "read"
  /\ UNCHANGED <<file, down, clientVars, reset, sOut, answer, counted, lost>>

DecideAnswer ==
  /\ spc = "answer" /\ spc' = "write"
  /\ answer' = AnswerTo(sReader.lines[1])
  /\ counted' = IF answer'.code = "200" THEN Len(file.bytes) ELSE 0
  /\ sOut' = Header(answer') \o answer'.text
  /\ UNCHANGED <<file, up, down, clientVars, reset, sReader, lost>>

WriteAnswer ==
  /\ spc = "write" /\ ClientOpen
  /\ Len(down) < Capacity
  /\ down' = Append(down, Head(sOut))
  /\ sOut' = Tail(sOut)
  /\ spc' = IF sOut' = <<>> THEN "sleep" ELSE "write"
  /\ UNCHANGED <<file, up, clientVars, reset, sReader, answer, counted, lost>>

\* The client has closed: its kernel answers what is written with a reset,
\* and SIGPIPE, or the exit after a failed write, ends the whole server.
WriteAnswerToNobody ==
  /\ spc = "write" /\ ~ClientOpen
  /\ \/ sOut' = Tail(sOut) /\ spc' = IF sOut' = <<>> THEN "sleep" ELSE "write"
     \/ spc' = "killed" /\ UNCHANGED sOut
  /\ UNCHANGED <<file, up, down, clientVars, reset, sReader, answer, counted, lost>>

ShutsAs(pc) ==
  /\ spc' = pc
  /\ IF up # <<>> /\ ClientOpen THEN ResetToClient ELSE UNCHANGED <<down, reset, lost>>
  /\ UNCHANGED <<file, up, clientVars, sOut, sReader, answer, counted>>

\* sleep(1) does not say that the client has what was written.
CloseSocket == spc = "sleep" /\ ShutsAs("closed")

\* The serving process ends for another reason.
ServerEnds == ServerOpen /\ ShutsAs("ended")

ServerStep == ReadRequest \/ DecideAnswer \/ WriteAnswer \/ WriteAnswerToNobody \/ CloseSocket

------------------------------------------------------------------------------
Next == ClientStep \/ ServerStep \/ ClientEnds \/ ServerEnds

(* Both processes run; nothing makes one of them end.                      *)
Spec == Init /\ [][Next]_vars /\ WF_vars(ClientStep) /\ WF_vars(ServerStep)

------------------------------------------------------------------------------
(* Properties.                                                             *)

(* The client gets the answer the server decided on, its code and all of   *)
(* its text and nothing else, or none at all, wherever writes are split    *)
(* and whoever ends (crawlThread.c:93-143, serverThread.c:62-142).         *)
Exchange == INSTANCE RequestReply WITH
  due    <- AnswerWith(file),
  None   <- NoAnswer,
  result <- IF cpc = "done" THEN [code |-> cReader.lines[1][2], text |-> content]
                            ELSE NoAnswer
ImplementsExchange == Exchange!Spec

(* Both sides count the same lines: while the server answers, the NUL is   *)
(* all it has not read of the request, and a client with its answer has    *)
(* left nothing of it and counted the bytes that the server has counted,   *)
(* if no NUL cuts the page short, though neither looks at what the lines   *)
(* it drops contain (serverThread.c:54-57, 105, crawlThread.c:109-127).    *)
FramesMatch ==
  /\ spc \in {"answer", "write", "sleep"} /\ cpc # "gone" => up \o cOut = <<"NUL">>
  /\ spc # "ended" /\ cpc = "done" =>
       /\ down = <<>> /\ sOut = <<>>
       /\ downloaded = counted \/ Text(file.bytes) # file.bytes

\* What makes FramesMatch inductive.  Where the lines end that each side reads,
\* and how many bytes a reader has had of lines that end there.
RequestEnds == <<0, 5, 8, 11, 14, 17, 20>>
HeaderEnds == <<0, 5, 8, 11, 15, 18, 21, 23>>

Position(reader, ends) ==
  ends[Len(reader.lines) + 1] + Len(reader.line) + (IF reader.cr THEN 1 ELSE 0)

\* A reader holds what it has been given, cut where the lines end.
Reads(reader, bytes, ends) ==
  LET m == Len(reader.lines)
  IN  /\ m < Len(ends)
      /\ \A l \in 1 .. m : reader.lines[l] = SubSeq(bytes, ends[l] + 1, ends[l + 1] - 2)
      /\ reader.line = SubSeq(bytes, ends[m + 1] + 1, ends[m + 1] + Len(reader.line))
      /\ IF m + 1 = Len(ends) THEN reader.line = <<>> /\ ~reader.cr
         ELSE LET left == ends[m + 2] - ends[m + 1] - Len(reader.line)
              IN  left >= 2 /\ (reader.cr => left = 2)

Bytes ==
  {"CR", "LF", "NUL", "GET", "page", "HTTP/1.1", "User-Agent", "Host", "Accept-Language",
   "Accept-Encoding", "Connection", "OK", "Date", "Server", "Content-Length", "Content-Type",
   "200", "403", "404", "sorry"}
    \cup {Decimal(n) : n \in 0 .. MaxLength} \cup UNION {{p[k] : k \in 1 .. Len(p)} : p \in Pages}

Readers == [line : Seq(Bytes), cr : BOOLEAN, lines : Seq(Seq(Bytes))]

ExchangeTypeOK ==
  /\ file \in Files /\ {up, down, cOut, sOut, content} \subseteq Seq(Bytes)
  /\ cpc \in {"write", "lines", "body", "done", "failed", "killed", "gone"}
  /\ spc \in {"read", "answer", "write", "sleep", "closed", "killed", "ended"}
  /\ cReader \in Readers /\ sReader \in Readers
  /\ reset \in {"none", "waits", "read"}
  /\ answer \in {NoAnswer, AnswerWith(file)}

\* What has been written behind the first n bytes, and not been read; what has
\* not been written.
InFlight(bytes, n, stream) ==
  n + Len(stream) <= Len(bytes) /\ stream = SubSeq(bytes, n + 1, n + Len(stream))
Unwritten(bytes, n) == SubSeq(bytes, n + 1, Len(bytes))

\* The request: what of it is where.
RequestInv ==
  LET n == Position(sReader, RequestEnds)
  IN  /\ Reads(sReader, Request, RequestEnds)
      /\ InFlight(Request, n, up)
      /\ ServerOpen /\ cpc # "gone" => cOut = Unwritten(Request, n + Len(up))

\* The answer, once there is one.
Message(a) == Header(a) \o a.text
AnswerInv ==
  LET all == Message(answer)
      n   == Position(cReader, HeaderEnds) + Len(content)
  IN  /\ Reads(cReader, all, HeaderEnds)
      /\ InFlight(all, n, down)
      /\ spc = "write" /\ ClientOpen => sOut = Unwritten(all, n + Len(down))
      /\ content = SubSeq(answer.text, 1, Len(content))
      /\ counted = IF answer.code = "200" THEN Len(file.bytes) ELSE 0
      /\ cpc = "done" => /\ content = answer.text
                         /\ downloaded = IF answer.code = "200" THEN Len(content) ELSE 0

\* How far the two sides are.
PhaseInv ==
  /\ spc = "read" => Len(sReader.lines) < RequestLines
  /\ spc \in {"answer", "write", "sleep"} => Len(sReader.lines) = RequestLines
  /\ cpc = "write" <=> cOut # <<>> /\ cpc \notin {"killed", "gone"}
  /\ cpc = "write" => cReader = NewReader
  /\ cpc \in {"write", "lines"} => content = <<>> /\ Len(cReader.lines) < AnswerLines
  /\ cpc \in {"body", "done"} => Len(cReader.lines) = AnswerLines
  /\ spc = "write" => sOut # <<>>
  /\ spc \in {"sleep", "closed"} => sOut = <<>>
  /\ cpc = "done" => spc \in {"sleep", "closed", "ended"}
  /\ cpc \in {"failed", "killed"} \/ reset # "none" => ~ServerOpen
  /\ spc = "killed" => cpc = "gone"

DecidedInv ==
  IF answer = NoAnswer
    THEN /\ spc \in {"read", "answer", "ended"} /\ cpc \notin {"body", "done", "failed"}
         /\ content = <<>> /\ down = <<>> /\ sOut = <<>> /\ cReader = NewReader
    ELSE spc \notin {"read", "answer"} /\ AnswerInv

ExchangeInv == ExchangeTypeOK /\ RequestInv /\ DecidedInv /\ PhaseInv

(* A client that has got its answer and closed does not end the server,    *)
(* which any other client that closes before its answer is written can     *)
(* (serverThread.c:127-134, crawlThread.c:182).                            *)
AnsweredClientIsHarmless == [][spc # "killed" /\ spc' = "killed" => cpc = "gone"]_vars

(* The page arrives, unless a process ends, or the close of the server,    *)
(* which never reads the NUL, resets the connection with a part of the     *)
(* answer still on its way (auxFun.c:38, 92-104, serverThread.c:135-141).  *)
PageArrives == cpc = "write" ~> cpc \in {"done", "gone"} \/ spc = "ended" \/ lost

(* The serving thread gets to its close, and so to the next connection,    *)
(* unless the crawler has ended by then, at any point of the exchange: the *)
(* read loop has no end when that was within its request                   *)
(* (serverThread.c:62-142, auxFun.c:38).                                   *)
ServerFreed == spc = "read" ~> spc \in {"closed", "ended"} \/ cpc = "gone"
==============================================================================
