------------------------------- MODULE CsvImport -------------------------------
(***************************************************************************)
(* POST /events/:eventId/attendees/import: the parser of csv.util.ts, one  *)
(* step per character, the mapping of its records to attendees, and        *)
(* importCsv's loop with one transaction per attendee, while others add    *)
(* and remove attendees of the same event.                                 *)
(*                                                                         *)
(* A character is a quote, a comma, a line feed, a carriage return, or a   *)
(* word: what the mapping compares as a whole (a header's name, an         *)
(* address) is one character here, so a field is a sequence of them.       *)
(***************************************************************************)
EXTENDS Integers, Sequences, FiniteSets

CONSTANTS Texts,        \* uploaded files
          NameWord, EmailWord, Space,
          Addresses,    \* characters that contain an address's "@" and "."
          Lower(_),     \* toLowerCase
          Present,      \* addresses registered before the upload
          MaxFaults,    \* bound: transactions that fail
          MaxEdits      \* bound: attendees others add or remove meanwhile

Quote == "quote"
Comma == "comma"
LF == "lf"
CR == "cr"
BOM == "bom"

ASSUME CsvAssumption ==
  /\ MaxFaults \in Nat /\ MaxEdits \in Nat
  /\ {NameWord, EmailWord, Space} \cap Addresses = {}
  /\ \A upload \in Texts :
       /\ upload \in Seq({upload[k] : k \in DOMAIN upload})
       /\ \E k \in DOMAIN upload : upload[k] \notin {Space, LF, CR, BOM}

VARIABLES
  text, i, inQuotes, field, row, rows,  \* parseCsv
  at,                                   \* "parse", "map", "look", "insert", "done"
  mapped,                               \* records that mapAttendeeRows has read
  todo, errors,                         \* those still to import; rows reported
  created, duplicates,
  attendees,                            \* addresses registered for the event
  lost, removed,                        \* history: commits that failed after
  faults, edits                         \* they were counted; who was removed

parserVars == <<text, i, inQuotes, field, row, rows>>
importVars == <<mapped, todo, errors, created, duplicates, attendees>>
envVars == <<lost, removed, faults, edits>>
vars == <<parserVars, at, importVars, envVars>>

-------------------------------------------------------------------------------
(* How many of the first n places are in A. *)
Count(A, n) == Cardinality(A \cap (1..n))

(* The elements of s at the places in A, in their order: the j-th of these *)
(* places is the one with j of them up to it.                              *)
Nth(A, j) == CHOOSE k \in A : Count(A, k) = j
Pick(s, A) == [j \in 1..Cardinality(A) |-> s[Nth(A, j)]]

(* A leading BOM goes; CRLF and CR become LF, within quotes too. *)
Clean(s) ==
  LET FirstOfPair(k) == s[k] = CR /\ k < Len(s) /\ s[k + 1] = LF
      kept == Pick(s, {k \in DOMAIN s : ~FirstOfPair(k) /\ ~(k = 1 /\ s[k] = BOM)})
  IN  [k \in DOMAIN kept |-> IF kept[k] = CR THEN LF ELSE kept[k]]

Init ==
  /\ \E upload \in Texts : text = Clean(upload)
  /\ i = 1 /\ inQuotes = FALSE /\ field = <<>> /\ row = <<>> /\ rows = <<>>
  /\ at = "parse"
  /\ mapped = 0 /\ todo = <<>> /\ errors = <<>> /\ created = 0 /\ duplicates = 0
  /\ attendees = Present
  /\ lost = 0 /\ removed = {} /\ faults = 0 /\ edits = 0

-------------------------------------------------------------------------------
(* parseCsv *)

Reads(ch) == at = "parse" /\ i =< Len(text) /\ text[i] = ch
Skip(n) == i' = i + n /\ UNCHANGED <<text, at, importVars, envVars>>

Doubled == i < Len(text) /\ text[i + 1] = Quote

EscapedQuote ==
  /\ Reads(Quote) /\ inQuotes /\ Doubled
  /\ field' = Append(field, Quote)
  /\ Skip(2)
  /\ UNCHANGED <<inQuotes, row, rows>>

(* A bug the runs look for: a doubled quote is not looked for. *)
AnyQuote ==
  /\ Reads(Quote)
  /\ inQuotes' = ~inQuotes
  /\ Skip(1)
  /\ UNCHANGED <<field, row, rows>>

(* A quote opens or closes; wherever it stands. *)
PlainQuote ==
  /\ Reads(Quote) /\ ~(inQuotes /\ Doubled)
  /\ inQuotes' = ~inQuotes
  /\ Skip(1)
  /\ UNCHANGED <<field, row, rows>>

EndField ==
  /\ Reads(Comma) /\ ~inQuotes
  /\ row' = Append(row, field)
  /\ field' = <<>>
  /\ Skip(1)
  /\ UNCHANGED <<inQuotes, rows>>

(* A record and its number, which counts records and not lines. *)
Record(values) == [values |-> values, rowNumber |-> Len(rows) + 1]

EndRecord ==
  /\ Reads(LF) /\ ~inQuotes
  /\ rows' = Append(rows, Record(Append(row, field)))
  /\ row' = <<>>
  /\ field' = <<>>
  /\ Skip(1)
  /\ UNCHANGED inQuotes

Character ==
  /\ \E ch \in {text[k] : k \in DOMAIN text} :
       /\ Reads(ch)
       /\ ch # Quote
       /\ ch \in {Comma, LF} => inQuotes
       /\ field' = Append(field, ch)
  /\ Skip(1)
  /\ UNCHANGED <<inQuotes, row, rows>>

(* The last record may lack its newline. *)
EndOfText ==
  /\ at = "parse" /\ i > Len(text)
  /\ rows' = IF field # <<>> \/ row # <<>>
               THEN Append(rows, Record(Append(row, field))) ELSE rows
  /\ at' = "map"
  /\ UNCHANGED <<text, i, inQuotes, field, row, importVars, envVars>>

-------------------------------------------------------------------------------
(* mapAttendeeRows *)

Trim(s) ==
  LET ink == {k \in DOMAIN s : s[k] \notin {Space, LF}}
  IN  IF ink = {} THEN <<>>
      ELSE SubSeq(s, CHOOSE k \in ink : \A j \in ink : k =< j,
                     CHOOSE k \in ink : \A j \in ink : j =< k)

(* The first place of a value in a sequence, 0 if there is none. *)
Place(v, s) ==
  IF \E k \in DOMAIN s : s[k] = v
    THEN CHOOSE k \in DOMAIN s : s[k] = v /\ \A j \in 1..(k - 1) : s[j] # v
    ELSE 0

Header(parsed) == [k \in DOMAIN parsed[1].values |-> Trim(parsed[1].values[k])]
HasHeader(parsed) ==
  parsed # <<>> /\ \E k \in DOMAIN Header(parsed) :
                     Header(parsed)[k] \in {<<NameWord>>, <<EmailWord>>}
NameColumn(parsed) ==
  IF HasHeader(parsed) THEN Place(<<NameWord>>, Header(parsed)) ELSE 1
EmailColumn(parsed) ==
  IF HasHeader(parsed) THEN Place(<<EmailWord>>, Header(parsed)) ELSE 2

Cell(record, column) ==
  IF column \in DOMAIN record.values THEN Trim(record.values[column]) ELSE <<>>
Name(parsed, record) == Cell(record, NameColumn(parsed))
Email(parsed, record) == Cell(record, EmailColumn(parsed))

(* One "@" with something before it and a dot behind it, and no spaces. *)
IsEmail(v) ==
  /\ Cardinality({k \in DOMAIN v : v[k] \in Addresses}) = 1
  /\ \A k \in DOMAIN v : v[k] \notin {Space, LF}

Blank(parsed, record) == Name(parsed, record) = <<>> /\ Email(parsed, record) = <<>>

Wrong(parsed, record) ==
  Name(parsed, record) = <<>> \/ ~IsEmail(Email(parsed, record))

Lowered(v) == [k \in DOMAIN v |-> Lower(v[k])]

DataRows(parsed) == IF HasHeader(parsed) THEN Tail(parsed) ELSE parsed

(* mapAttendeeRows' loop: each of the data rows is skipped, reported or    *)
(* taken.                                                                  *)
Current == DataRows(rows)[mapped + 1]
ReadRecord ==
  /\ at = "map" /\ mapped < Len(DataRows(rows))
  /\ mapped' = mapped + 1
  /\ UNCHANGED <<parserVars, at, created, duplicates, attendees, envVars>>

SkipBlank ==
  /\ ReadRecord
  /\ Blank(rows, Current)
  /\ UNCHANGED <<todo, errors>>

(* A bug: errors are numbered among the rows behind the header. *)
ReportWrongRenumbered ==
  /\ ReadRecord
  /\ ~Blank(rows, Current) /\ Wrong(rows, Current)
  /\ errors' = Append(errors, mapped + 1)
  /\ UNCHANGED todo

ReportWrong ==
  /\ ReadRecord
  /\ ~Blank(rows, Current) /\ Wrong(rows, Current)
  /\ errors' = Append(errors, Current.rowNumber)
  /\ UNCHANGED todo

(* An attendee is written as the place of its record among the data rows. *)
TakeRow ==
  /\ ReadRecord
  /\ ~Blank(rows, Current) /\ ~Wrong(rows, Current)
  /\ todo' = Append(todo, mapped + 1)
  /\ UNCHANGED errors

StartImport ==
  /\ at = "map" /\ mapped = Len(DataRows(rows))
  /\ at' = "look"
  /\ UNCHANGED <<parserVars, importVars, envVars>>

-------------------------------------------------------------------------------
(* importCsv: the transaction of one row *)

Address(parsed, k) == Lowered(Email(parsed, DataRows(parsed)[k]))
Wants == Address(rows, Head(todo))
NextRow == todo' = Tail(todo) /\ at' = "look"
Report == errors' = Append(errors, 0)
Fault == faults < MaxFaults /\ faults' = faults + 1

FoundDuplicate ==
  /\ at = "look" /\ todo # <<>> /\ Wants \in attendees
  /\ duplicates' = duplicates + 1
  /\ NextRow
  /\ UNCHANGED <<parserVars, mapped, errors, created, attendees, envVars>>

FoundNone ==
  /\ at = "look" /\ todo # <<>> /\ Wants \notin attendees
  /\ at' = "insert"
  /\ UNCHANGED <<parserVars, importVars, envVars>>

InsertRow ==
  /\ at = "insert" /\ Wants \notin attendees
  /\ attendees' = attendees \cup {Wants}
  /\ created' = created + 1
  /\ NextRow
  /\ UNCHANGED <<parserVars, mapped, errors, duplicates, envVars>>

(* A bug: a row that fails is not reported. *)
RowRefusedSilently ==
  /\ at = "insert" /\ Wants \in attendees
  /\ NextRow
  /\ UNCHANGED <<parserVars, mapped, errors, created, duplicates, attendees, envVars>>

(* A bug: it ends the upload. *)
RowRefusedAborts ==
  /\ at = "insert" /\ Wants \in attendees
  /\ at' = "failed"
  /\ UNCHANGED <<parserVars, importVars, envVars>>

(* Registered since the look: an error of the row, not a duplicate. *)
RowRefused ==
  /\ at = "insert" /\ Wants \in attendees
  /\ Report
  /\ NextRow
  /\ UNCHANGED <<parserVars, mapped, created, duplicates, attendees, envVars>>

(* A bug: one whose transaction fails is not reported. *)
RowFailsSilently ==
  /\ at \in {"look", "insert"} /\ todo # <<>>
  /\ Fault
  /\ NextRow
  /\ UNCHANGED <<parserVars, mapped, errors, created, duplicates, attendees,
                 lost, removed, edits>>

(* The database fails, before the row was counted or after (the counts are *)
(* taken inside of the transaction), when it may have committed or not;    *)
(* the loop goes on.                                                       *)
RowFails ==
  /\ at \in {"look", "insert"} /\ todo # <<>>
  /\ Fault
  /\ Report
  /\ \/ UNCHANGED <<created, duplicates, attendees, lost>>
     \/ /\ at = "insert" /\ Wants \notin attendees
        /\ created' = created + 1 /\ lost' = lost + 1
        /\ attendees' \in {attendees, attendees \cup {Wants}}
        /\ UNCHANGED duplicates
     \/ /\ at = "look" /\ Wants \in attendees
        /\ duplicates' = duplicates + 1 /\ lost' = lost + 1
        /\ UNCHANGED <<created, attendees>>
  /\ NextRow
  /\ UNCHANGED <<parserVars, mapped, removed, edits>>

Respond ==
  /\ at = "look" /\ todo = <<>>
  /\ at' = "done"
  /\ UNCHANGED <<parserVars, importVars, envVars>>

(* Others add and remove attendees of the event meanwhile. *)
Others ==
  /\ at \in {"look", "insert"}
  /\ edits < MaxEdits
  /\ edits' = edits + 1
  /\ \E e \in {Lowered(<<a>>) : a \in Addresses} :
       \/ /\ e \notin attendees
          /\ attendees' = attendees \cup {e}
          /\ UNCHANGED removed
       \/ /\ e \in attendees
          /\ attendees' = attendees \ {e}
          /\ removed' = removed \cup {e}
  /\ UNCHANGED <<parserVars, at, mapped, todo, errors, created, duplicates, lost,
                 faults>>

-------------------------------------------------------------------------------
Parse ==
  \/ EscapedQuote \/ PlainQuote \/ EndField \/ EndRecord \/ Character
  \/ EndOfText

Map == SkipBlank \/ ReportWrong \/ TakeRow \/ StartImport

Import ==
  \/ FoundDuplicate \/ FoundNone \/ InsertRow \/ RowRefused \/ RowFails
  \/ Respond

Next == Parse \/ Map \/ Import \/ Others

Spec == Init /\ [][Next]_vars

(* The request goes on until it is answered. *)
FairSpec == Spec /\ WF_vars(Parse \/ Map \/ Import)
-------------------------------------------------------------------------------
(* Properties *)

(* What a CSV text t says, without an automaton: a place is within quotes  *)
(* if an odd number of quotes precede it, commas and line feeds outside of *)
(* quotes separate, and of quotes only the second of a doubled one is a    *)
(* mark, a character of a field.                                           *)
Within(t, k) == Count({j \in DOMAIN t : t[j] = Quote}, k - 1) % 2 = 1
Separators(t, ch) == {k \in DOMAIN t : t[k] = ch /\ ~Within(t, k)}
Marks(t) ==
  {k \in DOMAIN t : IF t[k] = Quote THEN k > 1 /\ t[k - 1] = Quote /\ ~Within(t, k)
                                    ELSE t[k] \in {Comma, LF} => Within(t, k)}

(* The line and the field in which a place is, counted by the separators   *)
(* before it, and the place of a mark in its field.                        *)
Line(ends, k) == 1 + Count(ends, k - 1)
OnLine(ends, A, l) == {k \in A : Line(ends, k) = l}
Field(ends, commas, k) == 1 + Count(OnLine(ends, commas, Line(ends, k)), k - 1)
InField(ends, commas, A, l, f) ==
  {k \in A : Line(ends, k) = l /\ Field(ends, commas, k) = f}
PlaceOf(ends, commas, marks, k) ==
  Count(InField(ends, commas, marks, Line(ends, k), Field(ends, commas, k)), k)

(* A table has the lines, fields and marks of the first n places of t, and *)
(* no others, and its records are numbered from 1.                         *)
Says(t, ends, commas, marks, n, table) ==
  /\ Len(table) = 1 + Count(ends, n)
  /\ \A l \in DOMAIN table :
       /\ table[l].rowNumber = l
       /\ Len(table[l].values) = 1 + Count(OnLine(ends, commas, l), n)
       /\ \A f \in DOMAIN table[l].values :
            Len(table[l].values[f])
              = Count(InField(ends, commas, marks, l, f), n)
  /\ \A k \in marks \cap (1..n) :
       table[Line(ends, k)].values[Field(ends, commas, k)]
            [PlaceOf(ends, commas, marks, k)] = t[k]

(* The parser reads what the file says, record for record, numbered from 1 *)
(* (csv.util.ts:14), for any text: quotes that open in the middle of a     *)
(* field or never close included.  A last line without a mark or a comma   *)
(* is no record.                                                           *)
ParsedAsWritten ==
  at # "parse" =>
    LET ends == Separators(text, LF)
        commas == Separators(text, Comma)
        marks == Marks(text)
        last == OnLine(ends, commas \cup marks, 1 + Cardinality(ends))
        table == IF last = {} THEN Append(rows, Record(<<<<>>>>)) ELSE rows
    IN  Says(text, ends, commas, marks, Len(text), table)

(* The places of the data rows that are blank, faulty and neither. *)
Places(parsed) == 1..Len(DataRows(parsed))
Blanks(parsed) == {k \in Places(parsed) : Blank(parsed, DataRows(parsed)[k])}
Faulty(parsed) ==
  {k \in Places(parsed) : Wrong(parsed, DataRows(parsed)[k])} \ Blanks(parsed)
Wanted(parsed) == Places(parsed) \ (Blanks(parsed) \cup Faulty(parsed))

(* The answer accounts for every record: it is the header, blank, created, *)
(* a duplicate or reported, and nothing twice except a row whose           *)
(* transaction failed after it was counted.                                *)
EveryRowAnswered ==
  at = "done" =>
    Len(DataRows(rows)) - Cardinality(Blanks(rows)) + lost
      = created + duplicates + Len(errors)

(* A reported number is that of a faulty record of the file, and every     *)
(* faulty record is reported.                                              *)
ReportedByNumber ==
  at = "done" =>
    /\ {errors[k] : k \in DOMAIN errors} \ {0}
         = {DataRows(rows)[k].rowNumber : k \in Faulty(rows)}
    /\ \A k \in DOMAIN errors : errors[k] > 0 => Wrong(rows, rows[errors[k]])

(* An attendee of the file is registered when the answer is given, unless  *)
(* an error was reported for it or somebody has removed it.                *)
NobodyForgotten ==
  at = "done" =>
    Cardinality({k \in Wanted(rows) :
                   Address(rows, k) \notin attendees \cup removed})
      =< Cardinality({k \in DOMAIN errors : errors[k] = 0})

(* attendees.service.ts:254: "A bad row never aborts the whole upload":    *)
(* whatever the rows and the database do, the upload is answered.          *)
Answered == <>(at = "done")
===============================================================================
