----------------------------- MODULE CitiImport -----------------------------
(***************************************************************************)
(* The Citi import of services/citi_import: a statement copied from the    *)
(* bank's page is parsed line by line, kept in memory under a new id, and  *)
(* exported as an archive of CSV files with a bounded number of rows each. *)
(* The parser's loop is the state machine; parsing never suspends, so one  *)
(* text is parsed at a time.  A line is what the parser tells apart:       *)
(*   "date"    three words that are a day, a Polish month and a year,      *)
(*   "charge"  an amount that is not positive,                             *)
(*   "credit"  a positive amount,                                          *)
(*   "text"    anything else that is not blank.                            *)
(* A date is no amount: its month is neither a number nor a suffix in      *)
(* capitals.                                                               *)
(***************************************************************************)
EXTENDS PythonData

CONSTANTS
  Statements,   \* the texts clients send: sequences of lines, blank ones left out
  Sizes,   \* the chunk sizes they ask for
  FileIds  \* ids uuid4 can draw

Lines == {"date", "charge", "credit", "text"}

ASSUME CitiAssumption ==
  /\ Statements \subseteq Seq(Lines)
  /\ Sizes \subseteq Nat \ {0}
  /\ None \notin FileIds

VARIABLES
  upload,  \* the text being parsed, or None
  files,   \* CitiImportStore: the parsed files
  reply,   \* the latest answer to a client
  told     \* history: what the client was told of each file, with its text

vars == <<upload, files, reply, told>>

-----------------------------------------------------------------------------
(* A transaction, and the record made of it, by the lines it takes its     *)
(* fields from.  A warning is the line of the block it is about.           *)
Transaction(i) == [date |-> i, payee |-> i + 1, amount |-> i + 3]

Upload(f, lines, positive, size) ==
  [file |-> f, lines |-> lines, positive |-> positive, size |-> size,
   index |-> 1, transactions |-> <<>>, warnings |-> <<>>]

Init ==
  /\ upload = None
  /\ files = [f \in FileIds |-> None]
  /\ reply = None
  /\ told = [f \in FileIds |-> None]

(* parse_text, and upload_text_file once the bytes are decoded.            *)
Begin(f, lines, positive, size) ==
  /\ upload = None
  /\ told[f] = None
  /\ upload' = Upload(f, lines, positive, size)
  /\ reply' = None
  /\ UNCHANGED <<files, told>>

(* A file that is not called .txt is refused before it is read.            *)
RefuseName ==
  /\ upload = None
  /\ reply' = [status |-> 400, file |-> None, records |-> <<>>, archive |-> <<>>]
  /\ UNCHANGED <<upload, files, told>>

-----------------------------------------------------------------------------
(* The loop of CitiTextParser.parse: one action for each way through it.   *)
Parsing == upload # None /\ upload.index <= Len(upload.lines)
Line(i) == upload.lines[i]
Block == Parsing /\ Line(upload.index) = "date"
Complete == upload.index + 3 <= Len(upload.lines)
AmountLine == Line(upload.index + 3)
Skipped == ~upload.positive /\ AmountLine = "credit"

(* Mutant: the loop goes on without moving.                                *)
StayAtLine ==
  /\ Parsing
  /\ ~Block
  /\ UNCHANGED vars

SkipLine ==
  /\ Parsing
  /\ ~Block
  /\ upload' = [upload EXCEPT !.index = @ + 1]
  /\ UNCHANGED <<files, reply, told>>

Incomplete ==
  /\ Block
  /\ ~Complete
  /\ upload' = [upload EXCEPT !.warnings = Append(@, upload.index),
                              !.index = Len(upload.lines) + 1]
  /\ UNCHANGED <<files, reply, told>>

(* Mutant: after an invalid amount only the block's date is passed over.   *)
InvalidAmountResync ==
  /\ Block
  /\ Complete
  /\ AmountLine \notin {"charge", "credit"}
  /\ upload' = [upload EXCEPT !.warnings = Append(@, upload.index), !.index = @ + 1]
  /\ UNCHANGED <<files, reply, told>>

InvalidAmount ==
  /\ Block
  /\ Complete
  /\ AmountLine \notin {"charge", "credit"}
  /\ upload' = [upload EXCEPT !.warnings = Append(@, upload.index), !.index = @ + 4]
  /\ UNCHANGED <<files, reply, told>>

PositiveSkipped ==
  /\ Block
  /\ Complete
  /\ Skipped
  /\ upload' = [upload EXCEPT !.index = @ + 4]
  /\ UNCHANGED <<files, reply, told>>

Taken ==
  /\ Block
  /\ Complete
  /\ AmountLine \in {"charge", "credit"}
  /\ ~Skipped
  /\ upload' = [upload EXCEPT !.transactions = Append(@, Transaction(upload.index)),
                              !.index = @ + 4]
  /\ UNCHANGED <<files, reply, told>>

(* The store's entry; the preview that answers is made of the same lists.  *)
Entry == [records |-> upload.transactions, warnings |-> upload.warnings,
          size |-> upload.size]

Preview(f, records) ==
  [status |-> 200, file |-> f, records |-> records, archive |-> <<>>]

Stored ==
  /\ upload # None
  /\ ~Parsing
  /\ files' = [files EXCEPT ![upload.file] = Entry]
  /\ told' = [told EXCEPT ![upload.file] =
                [lines |-> upload.lines, positive |-> upload.positive,
                 size |-> upload.size, records |-> upload.transactions,
                 warnings |-> upload.warnings]]
  /\ reply' = Preview(upload.file, upload.transactions)
  /\ upload' = None

-----------------------------------------------------------------------------
(* Mutant: the records that do not fill a chunk are forgotten.             *)
FullChunks(records, size) ==
  IF records = <<>> THEN <<<<>>>>
  ELSE [k \in 1..(Len(records) \div size) |->
          SubSeq(records, (k - 1) * size + 1, k * size)]

(* CitiCsvZipExporter: records[index : index + size] for every size-th     *)
(* index, or one empty chunk; the dates of the first and the last record   *)
(* name the archive, and the chunk's number is added when there are more.  *)
Chunks(records, size) ==
  IF records = <<>> THEN <<<<>>>>
  ELSE [k \in 1..((Len(records) - 1) \div size + 1) |->
          SubSeq(records, (k - 1) * size + 1,
                 IF k * size < Len(records) THEN k * size ELSE Len(records))]

ExportName(records) ==
  IF records = <<>> THEN <<>> ELSE <<records[1].date, Last(records).date>>

Member(records, chunks, k) ==
  [name |-> IF Len(chunks) > 1 THEN Append(ExportName(records), k)
            ELSE ExportName(records),
   rows |-> chunks[k]]

Archive(records, size) ==
  LET chunks == Chunks(records, size)
  IN [k \in DOMAIN chunks |-> Member(records, chunks, k)]

(* CitiImportStore.get: a malformed id is 400, an unknown one 404.         *)
Refused(id) ==
  IF id \notin FileIds
  THEN [status |-> 400, file |-> None, records |-> <<>>, archive |-> <<>>]
  ELSE [status |-> 404, file |-> id, records |-> <<>>, archive |-> <<>>]
Known(id) == id \in FileIds /\ files[id] # None

GetFile(id) ==
  /\ upload = None
  /\ reply' = IF Known(id) THEN Preview(id, files[id].records) ELSE Refused(id)
  /\ UNCHANGED <<upload, files, told>>

ExportCsv(id) ==
  /\ upload = None
  /\ reply' =
       IF Known(id)
       THEN [Preview(id, files[id].records) EXCEPT
               !.archive = Archive(files[id].records, files[id].size)]
       ELSE Refused(id)
  /\ UNCHANGED <<upload, files, told>>

(* The files are in memory only; a parse that was under way is lost.       *)
Restart ==
  /\ upload' = None
  /\ files' = [f \in FileIds |-> None]
  /\ reply' = None
  /\ UNCHANGED told

ParseStep ==
  \/ SkipLine
  \/ Incomplete
  \/ InvalidAmount
  \/ PositiveSkipped
  \/ Taken
  \/ Stored

Next ==
  \/ \E f \in FileIds, lines \in Statements, positive \in BOOLEAN, size \in Sizes :
       Begin(f, lines, positive, size)
  \/ RefuseName
  \/ ParseStep
  \/ \E id \in FileIds \union {None} : GetFile(id) \/ ExportCsv(id)
  \/ Restart

(* The loop runs to its end without suspending.                            *)
Spec == Init /\ [][Next]_vars /\ WF_vars(ParseStep)

-----------------------------------------------------------------------------
Transactions == [date : Nat, payee : Nat, amount : Nat]

(* The state has its type: a text, the place reached in it, the lists of   *)
(* the parser, the store of cache.py and the answers of the routes.        *)
CitiTypeOK ==
  /\ upload # None =>
       /\ upload.file \in FileIds
       /\ upload.lines \in Seq(Lines)
       /\ upload.index \in Nat \ {0}
       /\ upload.transactions \in Seq(Transactions)
       /\ upload.warnings \in Seq(Nat)
  /\ \A f \in FileIds :
       files[f] # None =>
         /\ files[f].records \in Seq(Transactions)
         /\ files[f].warnings \in Seq(Nat)
         /\ files[f].size \in Sizes
  /\ reply # None =>
       /\ reply.status \in {200, 400, 404}
       /\ reply.file \in FileIds \union {None}
       /\ \A k \in DOMAIN reply.archive : reply.archive[k].rows \in Seq(Transactions)

(* The blocks of a text, without a loop: a date begins one exactly when no *)
(* other block has begun in the three lines before it.                     *)
Dates(lines) == {i \in DOMAIN lines : lines[i] = "date"}
Starts(lines) ==
  CHOOSE S \in SUBSET Dates(lines) :
    \A i \in Dates(lines) : i \in S <=> S \intersect (i-3)..(i-1) = {}
Wanted(t, i) ==
  /\ i + 3 \in DOMAIN t.lines
  /\ \/ t.lines[i + 3] = "charge"
     \/ t.lines[i + 3] = "credit" /\ t.positive
Unwanted(t, i) ==
  /\ i + 3 \in DOMAIN t.lines
  /\ t.lines[i + 3] = "credit"
  /\ ~t.positive

(* The list of the members of S, from the least on.                        *)
Ascending(list, S) ==
  /\ ToSet(list) = S
  /\ \A k, l \in DOMAIN list : k < l => list[k] < list[l]

(* What the loop of parser.py:43-78 makes of a text is what the blocks     *)
(* are: each gives the transaction of its first, second and fourth line,   *)
(* or a warning, unless it is a credit nobody asked for; nothing of the    *)
(* text is read twice, and the order of the statement is kept.             *)
BlocksAreAccounted ==
  \A f \in FileIds :
    told[f] # None =>
      LET t == told[f]
          starts == Starts(t.lines)
          taken == {i \in starts : Wanted(t, i)}
          wrong == {i \in starts : ~Wanted(t, i) /\ ~Unwanted(t, i)}
      IN /\ Ascending([k \in DOMAIN t.records |-> t.records[k].date], taken)
         /\ \A k \in DOMAIN t.records : t.records[k] = Transaction(t.records[k].date)
         /\ Ascending(t.warnings, wrong)

(* An answer about a file (cache.py, exporter.py) is about the records its *)
(* upload reported, and an archive holds each of them once, in order, in   *)
(* members of different names with no more rows than the upload asked for. *)
ArchiveIsPartition ==
  reply # None /\ reply.status = 200 =>
    LET t == told[reply.file]
    IN /\ reply.records = t.records
       /\ reply.archive # <<>> =>
            /\ FlattenSeq([k \in DOMAIN reply.archive |-> reply.archive[k].rows]) = t.records
            /\ \A k \in DOMAIN reply.archive :
                 /\ Len(reply.archive[k].rows) <= t.size
                 /\ reply.archive[k].rows = <<>> => t.records = <<>>
            /\ IsInjective([k \in DOMAIN reply.archive |-> reply.archive[k].name])

(* Every text is parsed to its end (parser.py:43): each way through the    *)
(* loop moves the index, or the server stops.                              *)
ParsesEnd == upload # None ~> upload = None
=============================================================================
