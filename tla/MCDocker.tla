-------------------------------- MODULE MCDocker --------------------------------
(***************************************************************************)
(* What the program does with the Docker daemon, one question at a time:   *)
(* an operation that runs a command in a container (DataTab), a log that   *)
(* is read (ContainerStreams) and then shared by the sockets that follow   *)
(* it (LogStream), or two requests that find the daemon while it is        *)
(* stopped and another one started (DockerTransport).  They share nothing, *)
(* so a behaviour is of one of them.                                       *)
(*                                                                         *)
(* Tools write pieces of up to five bytes, so that a piece ends inside the *)
(* character of two bytes; a chunk ends anywhere.  Two sockets share a log *)
(* of two lines with a history of one, so that the buffer overflows, a     *)
(* batch waits for its timer and a gate skips.                             *)
(***************************************************************************)
EXTENDS DataTab, ContainerStreams, DockerTransport, LogStream

VARIABLE scenario

allVars == <<dataVars, logVars, transportVars, logsVars, scenario>>

-----------------------------------------------------------------------------
(* What runs in containers, and what they log *)

A == 97
B == 98

RECURSIVE Pieces(_, _)
Pieces(stream, bytes) ==
  IF bytes = <<>> THEN <<>>
  ELSE LET n == Min({5, Len(bytes)})
       IN  <<[stream |-> stream, bytes |-> SubSeq(bytes, 1, n)]>> \o Pieces(stream, SubSeq(bytes, n + 1, Len(bytes)))

Printed(text) == Pieces("stdout", Encode(text))
Told == [stream |-> "stderr", bytes |-> <<B, WideLead>>]

Job(op, writes, exit, cap) ==
  [op |-> op, stdin |-> NoStdin, writes |-> writes, exit |-> exit, cap |-> cap, stop |-> {"timeout"},
   line |-> <<A>>, words |-> <<>>, records |-> <<>>, limit |-> 2]

(* A header of two fields, a row of one and a row of three, with a         *)
(* character of two bytes and a field that needs quotes and pairs; rows of *)
(* one field; or the command tags of two statements.                       *)
SqlRecords == << <<<<A>>, <<B>>>>, <<<<Wide>>>>, <<<<Quote, B>>, <<A>>, <<B>>>> >>
Sql(records, cap, limit, exit) ==
  [Job("sql", Printed(CsvText(records)) \o (IF exit = 0 THEN <<>> ELSE <<Told>>), exit, cap) EXCEPT
     !.words = <<<<A>>>>, !.records = records, !.limit = limit]
Narrow == << <<<<A>>>>, <<<<Wide>>>>, <<<<B>>>> >>
Tags == << <<<<TagWord>>>>, <<<<TagWord>>>> >>

(* GET "a b" '"\' in redis-cli's quoting, one value with a quote, one NULL. *)
RedisLine == <<A, Space, Quote, A, Backslash, LetterN, Quote, Space, Apostrophe, Quote, Backslash, B, Backslash, Apostrophe, Apostrophe>>
RedisValues == << <<A, Quote>>, <<>>, <<Wide>> >>
Redis(cap, text, records) ==
  [Job("redis", Printed(text), 0, cap) EXCEPT !.line = RedisLine,
     !.words = <<<<A>>, <<A, Newline>>, <<Quote, Backslash, B, Apostrophe>>>>, !.records = records]

ListNames == << <<A, B>>, <<Wide>>, <<B>> >>
List(cap, names) ==
  [Job("list", Printed(Concat([i \in DOMAIN names |-> names[i] \o <<Newline>>])), 0, cap) EXCEPT
     !.records = [i \in DOMAIN names |-> <<names[i]>>]]

Seed(exit, stop) ==
  [Job("seed", <<[stream |-> "stdout", bytes |-> <<A, WideLead>>]>>, exit, 8) EXCEPT
     !.stdin = <<A, B, Newline>>, !.stop = stop]

MCJobs ==
  {Sql(SqlRecords, 20, 2, 0), Sql(SqlRecords, 8, 2, 0),
   Sql(Narrow, 20, 2, 1), Sql(Narrow, 20, 1, 0), Sql(Narrow, 3, 1, 0),
   Sql(Tags, 20, 2, 0), Sql(Tags, 20, 1, 0), Sql(Tags, 3, 2, 0),
   Redis(20, RedisText(SubSeq(RedisValues, 1, 2)), [i \in 1 .. 2 |-> <<RedisValues[i]>>]),
   Redis(20, RedisText(RedisValues), [i \in 1 .. 3 |-> <<RedisValues[i]>>]),
   Redis(6, RedisText(RedisValues), [i \in 1 .. 3 |-> <<RedisValues[i]>>]),
   Redis(20, <<ErrorWord, Comma, A, Newline>>, <<>>),
   List(20, ListNames), List(20, Tail(ListNames)), List(4, ListNames),
   Seed(0, {"timeout"}), Seed(1, {"timeout", "abort"}), [Seed(0, {"timeout"}) EXCEPT !.cap = 3]}

Log(writes, tty, type) == [writes |-> writes, tty |-> tty, contentType |-> type]
Piece(stream, bytes) == [stream |-> stream, bytes |-> bytes]
TwoStreams ==
  <<Piece("stdout", <<A, WideLead>>), Piece("stderr", <<B, Newline, WideLead>>),
    Piece("stdout", <<WideRest, Return, Newline, B>>), Piece("stderr", <<WideRest>>)>>
OneStream == [i \in DOMAIN TwoStreams |-> [TwoStreams[i] EXCEPT !.stream = "stdout"]]
MCLogs ==
  {Log(TwoStreams, FALSE, type) : type \in {"multiplexed", "none"}}
    \cup {Log(OneStream, TRUE, "raw"), Log(Tail(OneStream), TRUE, "none")}

-----------------------------------------------------------------------------
MCInit ==
  /\ scenario \in {"data", "logs", "transport", "channel"}
  /\ InitData
  /\ scenario # "data" => job = Seed(0, {"timeout"}) /\ alive /\ seedFile = "small"
  /\ InitStream
  /\ scenario # "logs" => log = Log(OneStream, TRUE, "raw")
  /\ InitTransport
  /\ scenario # "transport" => up = NoDaemon
  /\ InitLogs

MCNext ==
  /\ \/ scenario = "data" /\ DataNext /\ UNCHANGED <<logVars, transportVars, logsVars>>
     \/ scenario = "logs" /\ StreamNext /\ UNCHANGED <<dataVars, transportVars, logsVars>>
     \/ scenario = "transport" /\ TransportNext /\ UNCHANGED <<dataVars, logVars, logsVars>>
     \/ scenario = "channel" /\ LogsNext /\ UNCHANGED <<dataVars, logVars, transportVars>>
  /\ UNCHANGED scenario

MCSpec ==
  /\ MCInit /\ [][MCNext]_allVars
  /\ WF_allVars(scenario = "data" /\ Deadline /\ UNCHANGED <<argv, answer, seedFile>>
                  /\ UNCHANGED <<logVars, transportVars, logsVars, scenario>>)
=============================================================================
