------------------------------- MODULE DataTab -------------------------------
(***************************************************************************)
(* The operations that run a command inside a service's container:         *)
(* run-query.op.ts, list-data-objects.op.ts and seed-service.op.ts, from   *)
(* the checks of loadRunningService (running-service.ts) to what the       *)
(* caller is told, over DockerExec; and the texts of the tab: the argv of  *)
(* a query (query-argv.ts) and CSV as psql and redis-cli print it          *)
(* (csv.ts).  Texts are sequences of characters, as in DockerFrames; a     *)
(* carriage return before a line feed and hexadecimal escapes are left     *)
(* out.                                                                    *)
(***************************************************************************)
EXTENDS DockerExec

CONSTANTS
  MaxObjects    \* DATA_MAX_OBJECTS

(* A job names its operation ("sql", "redis", "list" or "seed"), what the  *)
(* user typed and meant by it (line, words), what the tool prints, the     *)
(* header of a query included (records), and the row limit.  A seed feeds the text of its file, which  *)
(* may be empty: stdin is undefined for the other operations only.         *)
ASSUME SeedsAssumption ==
  \A j \in Jobs : j.op = "seed" => j.stdin # NoStdin /\ j.stdin \in Seq(Nat)

VARIABLES
  argv,         \* what was put in the place of {{query}}
  answer,       \* what the caller is told
  seedFile      \* the seed file on disk

dataVars == <<execVars, argv, answer, seedFile>>

-----------------------------------------------------------------------------
Quote == 34
Apostrophe == 39
Comma == 44
Dash == 45
Space == 32
Backslash == 92
LetterN == 110
NullWord == 1         \* the word NULL, as one character
ErrorWord == 2        \* the word ERROR
TagWord == 3          \* a text that looks like a command tag: INSERT 0 2

Space_ == {Space, Newline, Return}
Escaped(c) == IF c = LetterN THEN Newline ELSE c

(* What the tools print (external).                                        *)
CsvField(f) ==
  IF \E i \in DOMAIN f : f[i] \in {Quote, Comma, Newline}
  THEN <<Quote>> \o Concat([i \in DOMAIN f |-> IF f[i] = Quote THEN <<Quote, Quote>> ELSE <<f[i]>>]) \o <<Quote>>
  ELSE f
Joined(seqs, sep) == Concat([i \in DOMAIN seqs |-> IF i = 1 THEN seqs[i] ELSE <<sep>> \o seqs[i]])
CsvText(records) ==
  Concat([i \in DOMAIN records |->
    Joined([j \in DOMAIN records[i] |-> CsvField(records[i][j])], Comma) \o <<Newline>>])
RedisValue(v) ==
  IF v = <<>> THEN <<NullWord>>
  ELSE <<Quote>> \o Concat([i \in DOMAIN v |->
         CASE v[i] \in {Quote, Backslash} -> <<Backslash, v[i]>>
           [] v[i] = Newline -> <<Backslash, LetterN>>
           [] OTHER -> <<v[i]>>]) \o <<Quote>>
RedisText(values) == Joined([i \in DOMAIN values |-> RedisValue(values[i])], Comma) \o <<Newline>>

-----------------------------------------------------------------------------
(* splitRedisWords: a word, how it is quoted, and whether a closing quote  *)
(* was just seen, behind which only a space may come.                      *)
NoWords == [words |-> <<>>, word |-> <<>>, quote |-> 0, escape |-> FALSE, open |-> FALSE,
            closed |-> FALSE, unbalanced |-> FALSE]

EndWord(w) == [w EXCEPT !.words = Append(@, w.word), !.word = <<>>, !.open = FALSE, !.closed = FALSE]
Letter(w, c) == [w EXCEPT !.word = Append(@, c), !.open = TRUE, !.escape = FALSE]

SplitChar(w, c) ==
  CASE w.quote = Quote /\ w.escape -> Letter(w, Escaped(c))
    [] w.quote = Apostrophe /\ w.escape /\ c = Apostrophe -> Letter(w, c)
    [] w.quote = Apostrophe /\ w.escape /\ c # Apostrophe ->
         [Letter(w, Backslash) EXCEPT !.word = IF c = Backslash THEN @ ELSE Append(@, c), !.escape = c = Backslash]
    [] w.quote # 0 /\ ~w.escape /\ c = Backslash -> [w EXCEPT !.escape = TRUE]
    [] w.quote # 0 /\ ~w.escape /\ c = w.quote -> [w EXCEPT !.quote = 0, !.closed = TRUE]
    [] w.quote # 0 /\ ~w.escape /\ c \notin {Backslash, w.quote} -> Letter(w, c)
    [] w.quote = 0 /\ c \in Space_ -> IF w.open THEN EndWord(w) ELSE w
    [] w.quote = 0 /\ c \notin Space_ /\ w.closed -> [w EXCEPT !.unbalanced = TRUE]
    [] w.quote = 0 /\ c \in {Quote, Apostrophe} /\ ~w.closed -> [w EXCEPT !.quote = c, !.open = TRUE]
    [] OTHER -> Letter(w, c)

SplitRedisWords(line) ==
  LET w == FoldLeft(SplitChar, NoWords, line)
  IN  [ok |-> ~w.unbalanced /\ w.quote = 0,
       words |-> IF w.open THEN EndWord(w).words ELSE w.words]

(* buildQueryArgv: what takes the place of {{query}}.                      *)
QueryWords(kind, query) ==
  IF kind = "sql" THEN [ok |-> TRUE, words |-> <<query>>]
  ELSE LET split == SplitRedisWords(query)
       IN  [split EXCEPT !.ok = @ /\ split.words # <<>>
              /\ (split.words[1] # <<>> => Head(split.words[1]) # Dash)]

-----------------------------------------------------------------------------
(* parseCsv *)
NewCsv == [records |-> <<>>, record |-> <<>>, field |-> <<>>, quoted |-> FALSE, quoteSeen |-> FALSE,
           inRecord |-> FALSE, more |-> FALSE]

EndRecord(p, max) ==
  IF Len(p.records) >= max THEN [p EXCEPT !.more = TRUE]
  ELSE [p EXCEPT !.records = Append(@, Append(p.record, p.field)),
                 !.record = <<>>, !.field = <<>>, !.inRecord = FALSE]

Unquoted(p, c, max) ==
  CASE c = Quote /\ p.field = <<>> -> [p EXCEPT !.quoted = TRUE, !.inRecord = TRUE]
    [] c = Comma -> [p EXCEPT !.record = Append(@, p.field), !.field = <<>>, !.inRecord = TRUE]
    [] c = Newline -> EndRecord(p, max)
    [] OTHER -> [p EXCEPT !.field = Append(@, c), !.inRecord = TRUE]

(* A quote inside a quoted field is one of a pair, or closes it.           *)
CsvChar(p, c, max) ==
  CASE p.more -> p
    [] ~p.more /\ p.quoteSeen /\ c = Quote -> [p EXCEPT !.field = Append(@, c), !.quoteSeen = FALSE]
    [] ~p.more /\ p.quoteSeen /\ c # Quote -> Unquoted([p EXCEPT !.quoted = FALSE, !.quoteSeen = FALSE], c, max)
    [] ~p.more /\ ~p.quoteSeen /\ p.quoted ->
         IF c = Quote THEN [p EXCEPT !.quoteSeen = TRUE] ELSE [p EXCEPT !.field = Append(@, c)]
    [] OTHER -> Unquoted(p, c, max)

ParseCsv(text, max) ==
  LET p == FoldLeft(LAMBDA q, c : CsvChar(q, c, max), NewCsv, text)
      tail == ~p.more /\ (p.inRecord \/ p.field # <<>>)
      last == IF tail THEN EndRecord(p, max) ELSE p
  IN  [records |-> last.records, more |-> last.more, partialTail |-> tail]

(* parseRedisCsv: values, escaped inside quotes and bare outside them.     *)
NewReply == [values |-> <<>>, bare |-> <<>>, value |-> <<>>, in |-> "none", escape |-> FALSE]

EndValue(p) ==
  [p EXCEPT !.values = Append(@, IF p.in = "bare" /\ p.value = <<NullWord>> THEN <<>> ELSE p.value),
            !.bare = Append(@, p.in = "bare"), !.value = <<>>, !.in = "none", !.escape = FALSE]

ReplyChar(p, c) ==
  CASE p.in = "quoted" /\ p.escape -> [p EXCEPT !.value = Append(@, Escaped(c)), !.escape = FALSE]
    [] p.in = "quoted" /\ ~p.escape ->
         (CASE c = Quote -> EndValue(p)
            [] c = Backslash -> [p EXCEPT !.escape = TRUE]
            [] OTHER -> [p EXCEPT !.value = Append(@, c)])
    [] p.in # "quoted" /\ c \in {Comma, Newline} -> IF p.in = "bare" THEN EndValue(p) ELSE p
    [] p.in = "none" /\ c = Quote -> [p EXCEPT !.in = "quoted"]
    [] OTHER -> [p EXCEPT !.in = "bare", !.value = Append(@, c)]

ParseRedisCsv(text) ==
  LET p == FoldLeft(ReplyChar, NewReply, text)
      last == IF p.in = "none" THEN p ELSE EndValue(p)
      error == Len(last.values) >= 2 /\ last.bare[1] /\ last.values[1] = <<ErrorWord>>
  IN  [error |-> error, values |-> IF error THEN <<>> ELSE last.values]
-----------------------------------------------------------------------------
Refused(code) == [ok |-> FALSE, code |-> code]
Shown(rows, truncated) == [ok |-> TRUE, rows |-> rows, truncated |-> truncated]
Pending == Refused("pending")

InitData ==
  /\ InitExec
  /\ argv = <<>> /\ answer = Pending
  /\ seedFile \in IF job.op = "seed" THEN {"small", "large", "outside", "missing"} ELSE {"missing"}

Tell(a) == answer' = a /\ client' = [client EXCEPT !.at = "told"]

-----------------------------------------------------------------------------
(* checkQuery, loadRunningService and the argv: the container is inspected *)
(* once, and may stop before the exec is made.                             *)
Load ==
  /\ client.at = "idle"
  /\ LET words == IF job.op \in {"sql", "redis"} THEN QueryWords(job.op, job.line)
                  ELSE [ok |-> TRUE, words |-> job.words]
     IN  \/ /\ \E code \in {"PROJECT_NOT_FOUND", "SERVICE_NOT_FOUND", "INVALID_INPUT"} : Tell(Refused(code))
            /\ UNCHANGED argv
         \/ /\ ~alive \/ ~words.ok
            /\ Tell(Refused(IF alive THEN "INVALID_INPUT" ELSE "SERVICE_NOT_RUNNING"))
            /\ UNCHANGED argv
         \/ /\ alive /\ words.ok
            /\ client' = [client EXCEPT !.at = IF job.op = "seed" THEN "checkSeed" ELSE "locate"]
            /\ argv' = words.words
            /\ UNCHANGED answer
  /\ UNCHANGED <<job, link, exec, alive, seedFile>>

(* checkSeedFile, before the file is read.                                 *)
CheckSeedFile ==
  /\ client.at = "checkSeed"
  /\ IF seedFile = "small" THEN client' = [client EXCEPT !.at = "readSeed"] /\ UNCHANGED answer
     ELSE Tell(Refused(IF seedFile = "missing" THEN "IO" ELSE "INVALID_INPUT"))
  /\ UNCHANGED <<job, link, exec, alive, argv, seedFile>>

(* The file that was checked may be gone or grown when it is read.         *)
ReadSeedFile ==
  /\ client.at = "readSeed"
  /\ IF seedFile = "small" THEN client' = [client EXCEPT !.at = "locate"] /\ UNCHANGED answer
     ELSE Tell(Refused(IF seedFile = "missing" THEN "IO" ELSE "INVALID_INPUT"))
  /\ UNCHANGED <<job, link, exec, alive, argv, seedFile>>

SeedFileChanges ==
  /\ client.at = "readSeed" /\ seedFile = "small"
  /\ \E f \in {"large", "missing"} : seedFile' = f
  /\ UNCHANGED <<execVars, argv, answer>>

-----------------------------------------------------------------------------
(* COMMAND_TAG: what psql prints for a statement without a result set.     *)
OnlyTags(records) == records # <<>> /\ \A i \in DOMAIN records : records[i] = <<<<TagWord>>>>

(* fit: a row is cut, or filled up, to the width of the header.            *)
Fit(row, width) == [i \in 1 .. width |-> IF i \in DOMAIN row THEN row[i] ELSE <<>>]
Body(records) == IF records = <<>> THEN <<>> ELSE Tail(records)
Table(records) == [i \in DOMAIN Body(records) |-> Fit(Body(records)[i], Len(records[1]))]

(* Faulty: output that was cut keeps its last record.                      *)
SqlRowsUncut(output) ==
  LET parsed == ParseCsv(output.stdout, job.limit + 2)
      rows == Table(parsed.records)
  IN  Shown(SubSeq(rows, 1, Min({job.limit, Len(rows)})), output.truncated \/ parsed.more \/ Len(rows) > job.limit)

(* sqlResult: the header, then rows up to the limit; output that was cut   *)
(* inside a record loses it.  Records that all look like command tags are  *)
(* shown one and all, in a column of their own.                            *)
SqlRows(output) ==
  LET parsed == ParseCsv(output.stdout, job.limit + 2)
      records == IF output.truncated /\ parsed.partialTail /\ ~parsed.more
                 THEN Front(parsed.records) ELSE parsed.records
      rows == Table(records)
  IN  IF ~output.truncated /\ ~parsed.more /\ OnlyTags(records) THEN Shown(records, FALSE)
      ELSE Shown(SubSeq(rows, 1, Min({job.limit, Len(rows)})),
                 output.truncated \/ parsed.more \/ Len(rows) > job.limit)

(* A reply that was cut loses its last value, whole or not.                *)
RedisRows(output) ==
  LET parsed == ParseRedisCsv(output.stdout)
      values == IF output.truncated /\ parsed.values # <<>> THEN Front(parsed.values) ELSE parsed.values
  IN  Shown([i \in 1 .. Min({job.limit, Len(values)}) |-> <<values[i]>>],
            output.truncated \/ Len(values) > job.limit)

(* The lines, but the last of a listing that was cut; no blank ones.       *)
ListedNames(output) ==
  LET p == Parts(<<>>, output.stdout)
      lines == p.parts \o IF output.truncated THEN <<>> ELSE <<p.rest>>
      names == SelectSeq([i \in DOMAIN lines |-> Chomp(lines[i])], LAMBDA n : n # <<>>)
  IN  Shown([i \in 1 .. Min({MaxObjects, Len(names)}) |-> <<names[i]>>],
            output.truncated \/ Len(names) > MaxObjects)

(* A tool killed at the byte cap still printed rows; any other exit code   *)
(* but 0, and a time-out, is a failure.                                    *)
Interpreted(r) ==
  LET cut == r.output.truncated /\ job.op # "seed"
      error == job.op = "redis" /\ ParseRedisCsv(r.output.stdout).error
  IN  IF r.timedOut \/ (r.exit # 0 /\ ~cut) \/ error THEN Refused("INVALID_INPUT")
      ELSE CASE job.op = "sql" -> SqlRows(r.output)
             [] job.op = "redis" -> RedisRows(r.output)
             [] job.op = "list" -> ListedNames(r.output)
             [] job.op = "seed" -> Shown(<<>>, FALSE)

(* DataService applies the caps once more to what it answers with.         *)
Served(a) ==
  LET max == IF job.op = "list" THEN MaxObjects ELSE job.limit
  IN  IF a.ok /\ Len(a.rows) > max THEN Shown(SubSeq(a.rows, 1, max), TRUE) ELSE a

Answer ==
  /\ client.at = "done"
  /\ Tell(IF client.result.kind = "error" THEN Refused(client.result.code) ELSE Served(Interpreted(client.result)))
  /\ UNCHANGED <<job, link, exec, alive, argv, seedFile>>

DataNext ==
  \/ Load \/ CheckSeedFile \/ ReadSeedFile \/ SeedFileChanges \/ Answer
  \/ ExecNext /\ UNCHANGED <<argv, answer, seedFile>>

-----------------------------------------------------------------------------
(* What the Data tab shows is what the tool printed: whole rows from the   *)
(* first one on, all of them unless it says that some are missing, however *)
(* the output was cut by frames, chunks, the byte cap or the row limit.    *)
(* The rows of a query are as wide as its header, and the fields that are  *)
(* cut from a wider one are not said to be missing.  When the connection   *)
(* ended early, nothing says so, and the last row may be a part of one.    *)
RowsTrue ==
  answer.ok /\ job.op # "seed" =>
    LET table == IF job.op = "sql" THEN Table(job.records) ELSE job.records
        whole == IF job.op = "sql" /\ OnlyTags(job.records) THEN job.records ELSE table
        rows == answer.rows
    IN  /\ IF link.phase = "lost"
           THEN rows = <<>> \/ \E t \in {table, job.records} : IsPrefix(Front(rows), t)
           ELSE IF answer.truncated THEN IsPrefix(rows, whole) \/ IsPrefix(rows, table) ELSE rows = whole
        /\ Len(rows) <= (IF job.op = "list" THEN MaxObjects ELSE job.limit)

(* A seed is reported as done only when a command succeeded that was fed   *)
(* all of it (seedService, over the half-closed connection of hijack.ts):  *)
(* or a beginning of it, when the connection ended before the end of stdin *)
(* was sent, which no error tells.                                         *)
SeedTrue ==
  answer.ok /\ job.op = "seed" =>
    /\ exec.state = "exited" /\ exec.code = 0 /\ IsPrefix(exec.stdin, job.stdin)
    /\ exec.stdin = job.stdin \/ (link.phase = "lost" /\ ~link.eof)

(* What runs in the container is what was typed: the query as one item, or *)
(* the words a Redis line was written to mean, and nothing else runs.      *)
ArgvAsMeant == exec.state # "absent" => argv = job.words

(* What was asked is what ran, and what is shown is what it said (runQuery, *)
(* listDataObjects).                                                       *)
AnswerTrue == RowsTrue /\ ArgvAsMeant
=============================================================================
