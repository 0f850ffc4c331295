---------------------------- MODULE CampaignFile ----------------------------
(***************************************************************************)
(* The recipients of a campaign: the CSV file they are imported from       *)
(* (campaign-csv.util.ts, importCsv) and the edits of updateRow.  Which    *)
(* statuses allow an import or an edit, and the rows' own statuses, are in *)
(* Campaign; here is what the rows say.                                    *)
(*                                                                         *)
(* A text is a sequence of characters; a character is a letter or a whole  *)
(* word, a blank, a comma, a quote or a line end.  The spreadsheet program *)
(* that writes the file is external.  A refused request changes nothing.   *)
(*                                                                         *)
(* Both requests read the template first and write the rows later; staff   *)
(* and operators may revise the template in between.  One request is in    *)
(* flight at a time, as a bound: that requests overlap is in Campaign.     *)
(***************************************************************************)
EXTENDS Integers, Sequences, FiniteSets, SequencesExt

CONSTANTS KeyLists,       \* the placeholder keys of templates, as sequences
          CellTexts,      \* bound: the texts in the cells of files
          EditTexts,      \* bound: the texts in edits
          MaxImportRows,  \* MAX_IMPORT_ROWS
          FurtherKeys,    \* bound: keys in edits that are no placeholder's
          MaxCells        \* bound: the cells of a table, its header apart

ASSUME ImportLimits == MaxImportRows \in Nat \ {0} /\ MaxCells \in Nat

VARIABLES keys,     \* Object.keys(template.placeholdersJson)
          rows,     \* the rows; checked (history): the keys they were checked for
          file,     \* the last file: table, writer, keys it was read with, accepted?
          pending   \* what the request in flight will write

fileVars == <<keys, rows, file, pending>>

Comma == ","
Quote == "\""
Blank == " "
LineEnd == "\n"

(* toLowerCase, and toUpperCase of a first letter, on the words used.      *)
Lower   == [Name |-> "name", NAME |-> "name", Phone |-> "phone", Code |-> "code"]
Capital == [name |-> "Name", phone |-> "Phone", code |-> "Code"]
Mapped(word, table) == IF word \in DOMAIN table THEN table[word] ELSE word
ToLowerCase(text) == [i \in DOMAIN text |-> Mapped(text[i], Lower)]

Trim(text) ==
  LET ink == {i \in DOMAIN text : text[i] \notin {Blank, LineEnd}}
  IN  IF ink = {} THEN <<>> ELSE SubSeq(text, Min(ink), Max(ink))

Joined(texts, separator) ==
  FoldLeftDomain(LAMBDA text, i : text \o (IF i = 1 THEN <<>> ELSE <<separator>>) \o texts[i],
                 <<>>, texts)

-----------------------------------------------------------------------------
(* campaign-csv.util.ts                                                    *)

PlaceholderKeyToHeader(key) ==
  IF key = <<>> THEN key ELSE [key EXCEPT ![1] = Mapped(@, Capital)]

PhoneColumn == <<"Phone">>
Columns(ks) == <<PhoneColumn>> \o [i \in DOMAIN ks |-> PlaceholderKeyToHeader(ks[i])]

(* One demo value per column, nothing quoted.                              *)
DemoRow(ks) == << <<"0901234567">> >> \o [i \in DOMAIN ks |-> <<"demo_">> \o ks[i]]
BuildCsvTemplateContent(ks) ==
  Joined(<<Joined(Columns(ks), Comma), Joined(DemoRow(ks), Comma)>>, LineEnd)

(* Line ends end a line inside quotes too; empty lines are left out.       *)
Lines(text) ==
  LET split == FoldLeft(LAMBDA ls, c : IF c = LineEnd THEN Append(ls, <<>>)
                                       ELSE [ls EXCEPT ![Len(ls)] = Append(@, c)],
                        << <<>> >>, text)
  IN  SelectSeq([i \in DOMAIN split |-> Trim(split[i])], LAMBDA l : l # <<>>)

(* Fault: a doubled quote inside quotes ends them.                         *)
ParseCharOnce(line, p, i) ==
  CASE line[i] = Quote -> [p EXCEPT !.inQuotes = ~@]
    [] line[i] = Comma /\ ~p.inQuotes ->
         [p EXCEPT !.cells = Append(@, p.current), !.current = <<>>]
    [] OTHER -> [p EXCEPT !.current = Append(@, line[i])]

ParseChar(line, p, i) ==
  LET ch == line[i]
  IN  CASE p.skip -> [p EXCEPT !.skip = FALSE]
        [] ch = Quote /\ p.inQuotes /\ i < Len(line) /\ line[i + 1] = Quote ->
             [p EXCEPT !.current = Append(@, Quote), !.skip = TRUE]
        [] ch = Quote -> [p EXCEPT !.inQuotes = ~@]
        [] ch = Comma /\ ~p.inQuotes ->
             [p EXCEPT !.cells = Append(@, p.current), !.current = <<>>]
        [] OTHER -> [p EXCEPT !.current = Append(@, ch)]

ParseCsvLine(line) ==
  LET start == [cells |-> <<>>, current |-> <<>>, inQuotes |-> FALSE, skip |-> FALSE]
      end   == FoldLeftDomain(LAMBDA p, i : ParseChar(line, p, i), start, line)
  IN  Append(end.cells, end.current)

(* buildHeaderIndex: the first column of that name, 0 if there is none.    *)
ColumnIndex(header, column) ==
  LET at == {i \in DOMAIN header : ToLowerCase(Trim(header[i])) = ToLowerCase(column)}
  IN  IF at = {} THEN 0 ELSE Min(at)

HeaderFits(header, ks) ==
  /\ \A i \in DOMAIN Columns(ks) : ColumnIndex(header, Columns(ks)[i]) > 0
  /\ Len(header) = 1 + Len(ks)

Cell(cells, i) == IF i \in DOMAIN cells THEN Trim(cells[i]) ELSE <<>>

RowOf(cells, header, ks) ==
  [phone   |-> Cell(cells, ColumnIndex(header, PhoneColumn)),
   payload |-> [k \in ToSet(ks) |->
                  Cell(cells, ColumnIndex(header, PlaceholderKeyToHeader(k)))],
   checked |-> ToSet(ks)]

HasText(payload, k) == k \in DOMAIN payload /\ Trim(payload[k]) # <<>>

(* Fault: one value is enough.                                             *)
PayloadHasValue(payload, ks) == ks = <<>> \/ \E k \in ToSet(ks) : HasText(payload, k)

(* Each placeholder has a value, in an import as in an edit; of further    *)
(* keys nothing is asked.                                                  *)
PayloadIsComplete(payload, ks) == \A k \in ToSet(ks) : HasText(payload, k)

RowIsValid(r, ks) == r.phone # <<>> /\ PayloadIsComplete(r.payload, ks)

(* The rows of the file and whether there was no error; an error in any    *)
(* row makes importCsv refuse the whole file.                              *)
ParseCampaignCsv(text, ks) ==
  LET lines  == Lines(text)
      header == ParseCsvLine(lines[1])
      parsed == [i \in 1..(Len(lines) - 1) |-> RowOf(ParseCsvLine(lines[i + 1]), header, ks)]
  IN  IF /\ Len(lines) >= 2
         /\ HeaderFits(header, ks)
         /\ Len(parsed) <= MaxImportRows
         /\ \A i \in DOMAIN parsed : RowIsValid(parsed[i], ks)
      THEN [rows |-> parsed, accepted |-> TRUE]
      ELSE [rows |-> <<>>, accepted |-> FALSE]

-----------------------------------------------------------------------------
(* External: the spreadsheet program quotes a cell that needs it.          *)
Quoted(text) ==
  LET doubled == FlattenSeq([i \in DOMAIN text |-> IF text[i] = Quote THEN <<Quote, Quote>>
                                                   ELSE <<text[i]>>])
  IN  IF ToSet(text) \cap {Comma, Quote, LineEnd} = {} THEN text
      ELSE <<Quote>> \o doubled \o <<Quote>>

Written(table) ==
  Joined([i \in DOMAIN table |-> Joined([j \in DOMAIN table[i] |-> Quoted(table[i][j])], Comma)],
         LineEnd)

NoKeys == << <<>> >>
NoFile  == [table |-> <<>>, exported |-> FALSE, keys |-> NoKeys, accepted |-> FALSE]
NoWrite == [rows |-> <<>>, file |-> NoFile]

FileInit == keys = NoKeys /\ rows = <<>> /\ file = NoFile /\ pending = NoWrite

(* A campaign for an approved template.                                    *)
NewCampaign ==
  /\ keys = NoKeys
  /\ keys' \in KeyLists
  /\ UNCHANGED <<rows, file, pending>>

(* Staff put the approved template back in review, an operator edits it    *)
(* and staff approve it again; no campaign looks, nor does a request that  *)
(* read the template before.  (A refused file is forgotten, as a bound.)   *)
ReviseTemplate ==
  /\ keys # NoKeys
  /\ keys' \in KeyLists \ {keys}
  /\ file' = IF file.accepted THEN file ELSE NoFile
  /\ UNCHANGED <<rows, pending>>

(* importCsv up to its transaction: with an error in any row the request   *)
(* ends.                                                                   *)
ReadImport(table, text, exported) ==
  LET parsed == ParseCampaignCsv(text, keys)
      read   == [table |-> table, exported |-> exported, keys |-> keys,
                 accepted |-> parsed.accepted]
  IN  /\ keys # NoKeys
      /\ pending = NoWrite
      /\ IF parsed.accepted
         THEN pending' = [rows |-> parsed.rows, file |-> read] /\ UNCHANGED file
         ELSE file' = read /\ UNCHANGED pending
      /\ UNCHANGED <<keys, rows>>

(* The transaction of importCsv replaces all the rows, the update of       *)
(* updateRow its row.                                                      *)
WriteRows ==
  /\ pending # NoWrite
  /\ rows' = pending.rows
  /\ file' = pending.file
  /\ pending' = NoWrite
  /\ UNCHANGED keys

(* The write throws or the server dies: nothing is written.                *)
WriteFails ==
  /\ pending # NoWrite
  /\ pending' = NoWrite
  /\ UNCHANGED <<keys, rows, file>>

(* The operator's own table: the columns in any order, or the wrong ones.  *)
Headers == {<<PhoneColumn>>, <<PhoneColumn, <<"NAME">>>>, << <<"name">>, <<"phone", Blank>> >>,
            << <<"Code">>, <<"Name">>, PhoneColumn>>, << <<"name">>, <<"Name">>, PhoneColumn>>}

ImportTable ==
  /\ rows = <<>> /\ file = NoFile
  /\ \E header \in Headers, n \in 0..(MaxImportRows + 1) :
       /\ n * Len(header) <= MaxCells
       /\ \E data \in [1..n -> [DOMAIN header -> CellTexts]] :
            ReadImport(<<header>> \o data, Written(<<header>> \o data), FALSE)

(* exportCsvTemplate, its file sent back as it is.                         *)
ImportTemplate ==
  /\ file = NoFile
  /\ ReadImport(<<Columns(keys), DemoRow(keys)>>, BuildCsvTemplateContent(keys), TRUE)

(* The payload an edit sends is any object: placeholders may be missing,   *)
(* and further keys be there.                                              *)
Payloads ==
  UNION {[sent -> EditTexts] : sent \in SUBSET (ToSet(keys) \cup FurtherKeys)}

(* What updateRow makes of a row: phone and payload are optional; a        *)
(* payload is checked for the placeholders and then taken whole.  A text   *)
(* stands for at least eight characters, as UpdateCampaignRowDto wants of  *)
(* a phone.                                                                *)
Edited(row) ==
  LET phones   == {row.phone} \cup (EditTexts \ {<<>>})
      accepted == {payload \in Payloads : PayloadIsComplete(payload, keys)}
  IN  {[row EXCEPT !.phone = phone] : phone \in phones} \cup
      {[phone |-> phone, payload |-> payload, checked |-> ToSet(keys)] :
         phone \in phones, payload \in accepted}

(* updateRow up to its update.  One edit after an import, as a bound.      *)
EditRow ==
  /\ file.accepted
  /\ pending = NoWrite
  /\ \E i \in DOMAIN rows : \E row \in Edited(rows[i]) :
       pending' = [rows |-> [rows EXCEPT ![i] = row], file |-> NoFile]
  /\ file' = NoFile
  /\ UNCHANGED <<keys, rows>>

FileNext == \/ NewCampaign \/ ReviseTemplate \/ ImportTable \/ ImportTemplate \/ EditRow
            \/ WriteRows \/ WriteFails

FileSpec == FileInit /\ [][FileNext]_fileVars

-----------------------------------------------------------------------------
(* Properties                                                              *)

FileTypeOK ==
  /\ keys \in KeyLists \cup {NoKeys}
  /\ \A list \in {rows, pending.rows} :
       /\ \A i \in DOMAIN list : DOMAIN list[i] = {"phone", "payload", "checked"}
       /\ Len(list) <= MaxImportRows
  /\ \A f \in {file, pending.file} : f.accepted \in BOOLEAN /\ f.exported \in BOOLEAN

(* Columns that can be told apart: none blank around the edges, no two     *)
(* equal but for their case.                                               *)
Distinct(ks) ==
  LET columns == Columns(ks)
  IN  /\ \A i \in DOMAIN columns : Trim(columns[i]) = columns[i]
      /\ \A i, j \in DOMAIN columns :
           ToLowerCase(columns[i]) = ToLowerCase(columns[j]) => i = j

(* No cell has a line end, and the export, which quotes nothing, had       *)
(* nothing to quote.                                                       *)
Readable ==
  \A i \in DOMAIN file.table : \A j \in DOMAIN file.table[i] :
    ToSet(file.table[i][j]) \cap (IF file.exported THEN {Comma, Quote, LineEnd}
                                  ELSE {LineEnd}) = {}

(* The recipients a reader sees in the table: what stands under a column,  *)
(* whatever its place.                                                     *)
Under(table, i, column) ==
  LET j == CHOOSE j \in DOMAIN table[1] :
             ToLowerCase(Trim(table[1][j])) = ToLowerCase(column)
  IN  Trim(table[i][j])
Recipient(table, i, ks) ==
  [phone   |-> Under(table, i, PhoneColumn),
   payload |-> [k \in ToSet(ks) |-> Under(table, i, PlaceholderKeyToHeader(k))],
   checked |-> ToSet(ks)]
SameColumns(header, columns) ==
  /\ Len(header) = Len(columns)
  /\ {ToLowerCase(Trim(header[j])) : j \in DOMAIN header} =
     {ToLowerCase(columns[j]) : j \in DOMAIN columns}

(* Lines that are not empty: a table of phones alone may have empty ones.  *)
Filled(table) == SelectSeq(table, LAMBDA cells : Len(cells) > 1 \/ Trim(cells[1]) # <<>>)

Importable(table, ks) ==
  /\ SameColumns(table[1], Columns(ks))
  /\ Len(table) - 1 \in 1..MaxImportRows
  /\ \A i \in 2..Len(table) :
       LET r == Recipient(table, i, ks)
       IN  <<>> \notin {r.phone} \cup {r.payload[k] : k \in DOMAIN r.payload}

(* parseCampaignCsv: when the template's columns can be told apart, a file *)
(* is imported exactly if it has these columns, in any order, at least one *)
(* row and no gaps; and then each row holds what its line says, also with  *)
(* quotes and commas inside and with the template revised before the rows  *)
(* were written.  The exported template is such a file.                    *)
ImportedAsWritten ==
  file # NoFile /\ Distinct(file.keys) /\ Readable =>
    LET table == Filled(file.table)
    IN  /\ file.accepted <=> Importable(table, file.keys)
        /\ file.accepted =>
             rows = [i \in 1..(Len(table) - 1) |-> Recipient(table, i + 1, file.keys)]

(* importCsv and updateRow, "is required": every row, imported or edited,  *)
(* has a value for every placeholder of the template its import or its     *)
(* last payload was checked against, whatever further keys an edit brought *)
(* and whoever revised the template before the row was written.            *)
RowsAreComplete ==
  \A i \in DOMAIN rows : \A k \in rows[i].checked : HasText(rows[i].payload, k)
=============================================================================
