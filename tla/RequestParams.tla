--------------------------- MODULE RequestParams ---------------------------
(***************************************************************************)
(* The data of a request on its way from Omnis and back: the row given to  *)
(* $initialize becomes the worker's parameter map (getParamsFromRow,       *)
(* getAnyFromEXTFldVal), run() reads the map into a request, adds the      *)
(* headers one by one, fills a list with those of the response, and        *)
(* returns a map that readResult turns into the row of $completed.  The    *)
(* same worker may be run again: its parameters and its delegate's lists   *)
(* are those of the run before.                                            *)
(*                                                                         *)
(* Column names are compared without case in the code, so a name here      *)
(* stands for all its spellings; a list has no two columns of one name.    *)
(* Types other than character and list convert to values that are neither  *)
(* a std::string nor a vector, and nothing tells them apart.  The exchange *)
(* itself is module CppNetlibDelegate; here it goes well or it does not.   *)
(***************************************************************************)
EXTENDS Integers, SequencesExt

CONSTANTS GetMethod, HeadMethod, PostMethod, \* texts that name methods run() knows
          NoText,    \* the empty text
          Rows,      \* the rows $initialize may be given: names to cells
          Responses, \* the headers a server may answer with: pairs of name and value
          LongNames, \* names that do not fit a str255
          MaxRuns    \* bound on the runs of one worker

ASSUME TextsAssumption == NoText \notin {GetMethod, HeadMethod, PostMethod}
ASSUME RunsAssumption == MaxRuns \in Nat \ {0}

VARIABLES
    phase,      \* how far the request has come
    row,        \* the row
    params,     \* Worker::_params
    unread,     \* names of the map that run() has not come to
    text,       \* locals of run(): url, method, requestBody and requestBodyType
    headers,    \* local of run()
    headKey, headValue, sent,    \* locals of run(): the last key and value, request_'s headers
    result,     \* run()'s map
    answer,     \* the row of $completed
    runs,       \* how many runs have been answered
    headerList, \* _headerResult, which lives as long as the delegate
    response,   \* history: the headers the server has answered the run with, if it has
    moves       \* external: whether EXTfldval::setList takes the list it is given away

locals == <<unread, text, headers, headKey, headValue, sent>>
lists == <<headerList, response>>
vars == <<phase, row, params, locals, result, answer, runs, lists, moves>>

Phases == {"initialize", "parameters", "headers", "exchange", "answer", "done"}

\* Cells of Omnis and values of C++.
Text(x) == [type |-> "text", text |-> x]
Other == [type |-> "other"]
Response(list) == [type |-> "response", headers |-> list]
List(columns, cells) == [type |-> "list", columns |-> columns, cells |-> cells]
Vector(maps) == [type |-> "vector", maps |-> maps]
IsText(x) == x.type = "text"

\* A list has its cells in rows and under columns.
IsTable(x) ==
    /\ Len(x.cells) \in Nat /\ DOMAIN x.cells = 1 .. Len(x.cells)
    /\ Len(x.columns) \in Nat /\ DOMAIN x.columns = 1 .. Len(x.columns)
    /\ \A i \in DOMAIN x.cells, j \in DOMAIN x.columns :
          IsText(x.cells[i][j]) => x.cells[i][j] = Text(x.cells[i][j].text)

ASSUME RowsAssumption ==
    \A r \in Rows : \A n \in DOMAIN r :
        /\ r[n].type \in {"text", "other", "list"}
        /\ r[n].type = "list" => IsTable(r[n])

\* The headers of a response are a sequence.
ASSUME ResponsesAssumption == \A r \in Responses : Len(r) \in Nat /\ DOMAIN r = 1 .. Len(r)

Nothing == [x \in {} |-> Other]

EmptyList == [columns |-> <<>>, cells |-> <<>>]

\* The names run() knows, in the order in which the map has them.
Known == <<"body", "body_type", "headers", "method", "url">>

\* The locals before a parameter is read.
Defaults == [body |-> NoText, body_type |-> NoText, method |-> GetMethod, url |-> NoText]

\* The texts a row brings with it, in its cells and in those of its lists.
TextsIn(cell) ==
    CASE cell.type = "text" -> {cell.text}
      [] cell.type = "list" ->
           LET cells == UNION {{cell.cells[i][j] : j \in DOMAIN cell.columns} : i \in DOMAIN cell.cells}
           IN  {c.text : c \in {x \in cells : IsText(x)}}
      [] OTHER -> {}

Texts == {NoText, GetMethod} \cup UNION {UNION {TextsIn(r[n]) : n \in DOMAIN r} : r \in Rows}

\* The names and the values that a server's answers bring with them.
FieldNames == {NoText} \cup UNION {{r[i][1] : i \in DOMAIN r} : r \in Responses}
FieldValues == {NoText} \cup UNION {{r[i][2] : i \in DOMAIN r} : r \in Responses}

\* The locals hold texts, and maps from names to values: what any_cast lets through.
TypeOK ==
    /\ phase \in Phases
    /\ \E i \in 1 .. Len(Known) + 1 : unread = SubSeq(Known, i, Len(Known))
    /\ text \in [DOMAIN Defaults -> Texts]
    /\ {headKey, headValue} \subseteq Texts
    /\ \A i \in DOMAIN headers : \A n \in DOMAIN headers[i] : headers[i][n].type \in {"text", "other"}
    /\ sent \in Seq(Texts \X Texts) /\ Len(sent) <= Len(headers)
    /\ runs \in 0 .. MaxRuns
    /\ headerList.columns \in Seq(FieldNames)
    /\ headerList.cells \in [DOMAIN headerList.columns -> FieldValues]
    /\ response \subseteq Responses
    /\ moves \in BOOLEAN

Init ==
    /\ phase = "initialize"
    /\ row \in Rows
    /\ params = Nothing
    /\ unread = Known
    /\ text = Defaults
    /\ headers = <<>>
    /\ headKey = NoText
    /\ headValue = NoText
    /\ sent = <<>>
    /\ result = Nothing
    /\ answer = Nothing
    /\ runs = 0
    /\ headerList = EmptyList
    /\ response = {}
    /\ moves \in BOOLEAN

-----------------------------------------------------------------------------
(* $initialize, on the main thread *)

\* The cell of row i under column n.
Cell(list, i, n) == list.cells[i][CHOOSE j \in DOMAIN list.columns : list.columns[j] = n]

\* Mutant of ListRow: a cell that holds no text gets no entry in its row's map.
ListRowSparse(list, i) ==
    LET names == {list.columns[j] : j \in 1 .. (Len(list.columns) - 1)}
    IN  [n \in {m \in names : IsText(Cell(list, i, m))} |-> Cell(list, i, n)]

\* Row i of a list as a map.  The loop over the columns stops before the last one,
\* and a list inside a list is no text.
ListRow(list, i) ==
    [n \in {list.columns[j] : j \in 1 .. (Len(list.columns) - 1)} |->
        IF IsText(Cell(list, i, n)) THEN Cell(list, i, n) ELSE Other]

\* getAnyFromEXTFldVal; the loop over the rows stops before the last one, too.
ToAny(cell) ==
    IF cell.type = "list"
    THEN Vector([i \in 1 .. (Len(cell.cells) - 1) |-> ListRow(cell, i)])
    ELSE cell

\* getParamsFromRow: all the columns of the row.
Initialize ==
    /\ phase = "initialize"
    /\ params' = [n \in DOMAIN row |-> ToAny(row[n])]
    /\ phase' = "parameters"
    /\ UNCHANGED <<row, locals, result, answer, runs, lists, moves>>

-----------------------------------------------------------------------------
(* run() *)

\* any_cast to the type of the local that name n is for.
Casts(n) == n \in DOMAIN params /\ params[n].type = IF n = "headers" THEN "vector" ELSE "text"

Take(n) ==
    /\ text' = IF Casts(n) /\ n # "headers" THEN [text EXCEPT ![n] = params[n].text] ELSE text
    /\ headers' = IF Casts(n) /\ n = "headers" THEN params[n].maps ELSE headers
    /\ UNCHANGED <<phase, row, params, headKey, headValue, sent, result, answer, runs, lists, moves>>

\* Mutant of ReadParameter: the handler of bad_any_cast is outside the loop.
ReadParameterStops ==
    /\ phase = "parameters" /\ unread # <<>>
    /\ Take(Head(unread))
    /\ unread' = IF Head(unread) \in DOMAIN params /\ ~Casts(Head(unread)) THEN <<>> ELSE Tail(unread)

\* Mutant of ReadParameter: a value that does not cast is taken as it is.
ReadParameterUncast ==
    /\ phase = "parameters" /\ unread # <<>>
    /\ LET n == Head(unread)
       IN  IF n \in DOMAIN text /\ n \in DOMAIN params /\ ~Casts(n)
           THEN /\ text' = [text EXCEPT ![n] = params[n]]
                /\ UNCHANGED <<phase, row, params, headers, headKey, headValue, sent, result, answer, runs, lists, moves>>
           ELSE Take(n)
    /\ unread' = Tail(unread)

\* One round of the loop: a value that does not cast leaves its local as it was.
ReadParameter ==
    /\ phase = "parameters" /\ unread # <<>>
    /\ Take(Head(unread))
    /\ unread' = Tail(unread)

\* Without a url there is no request.
Validate ==
    /\ phase = "parameters" /\ unread = <<>>
    /\ phase' = IF text["url"] = NoText THEN "answer" ELSE "headers"
    /\ UNCHANGED <<row, params, locals, result, answer, runs, lists, moves>>

\* A row without a key or a value keeps those of the row before.  A cell that is no
\* text throws out of the whole request.
AddHeader ==
    /\ phase = "headers" /\ Len(sent) < Len(headers)
    /\ LET map == headers[Len(sent) + 1]
           Taken(n, old) == IF n \in DOMAIN map THEN map[n].text ELSE old
       IN  IF \A n \in DOMAIN map \cap {"key", "value"} : IsText(map[n])
           THEN /\ headKey' = Taken("key", headKey)
                /\ headValue' = Taken("value", headValue)
                /\ sent' = Append(sent, <<headKey', headValue'>>)
                /\ UNCHANGED phase
           ELSE /\ phase' = "answer"
                /\ UNCHANGED <<headKey, headValue, sent>>
    /\ UNCHANGED <<row, params, unread, text, headers, result, answer, runs, lists, moves>>

Send ==
    /\ phase = "headers" /\ Len(sent) = Len(headers)
    /\ phase' = "exchange"
    /\ UNCHANGED <<row, params, locals, result, answer, runs, lists, moves>>

-----------------------------------------------------------------------------
(* The response *)

\* initStr255: nothing is left of a name that is too long.
ColumnName(n) == IF n \in LongNames THEN NoText ELSE n

\* Mutant of BuildHeaderList: a value goes to the first column of its name.
BuildHeaderListByName(list, fields) ==
    LET columns == list.columns \o [i \in DOMAIN fields |-> ColumnName(fields[i][1])]
        Named(i) == {j \in DOMAIN fields : ColumnName(fields[j][1]) = columns[i]}
    IN  [columns |-> columns,
         cells |-> [i \in DOMAIN columns |->
             IF Named(i) = {} \/ \E j \in 1 .. (i - 1) : columns[j] = columns[i]
             THEN NoText ELSE fields[Max(Named(i))][2]]]

\* buildHeaderList: a column for each header after those that are there, an empty row
\* after the rows, and the values into row 1 from its first column on.  cells is row 1.
BuildHeaderList(list, fields) ==
    LET columns == list.columns \o [i \in DOMAIN fields |-> ColumnName(fields[i][1])]
    IN  [columns |-> columns,
         cells |-> [i \in DOMAIN columns |->
             CASE i \in DOMAIN fields -> fields[i][2]
               [] i \in DOMAIN list.cells \ DOMAIN fields -> list.cells[i]
               [] OTHER -> NoText]]

\* The server answers; the map's "Result" is a list with the list of headers in it.
Answered(fields) ==
    /\ response' = {fields}
    /\ result' = [Result |-> Response(BuildHeaderList(headerList, fields)),
                  Method |-> Text(text["method"]), URL |-> Text(text["url"])]
    /\ headerList' = IF moves THEN EmptyList ELSE BuildHeaderList(headerList, fields)

\* Mutant of Exchange: the url is put into the map before the exchange.
ExchangeNamesUrlFirst ==
    /\ phase = "exchange"
    /\ phase' = "answer"
    /\ \/ /\ text["method"] \in {GetMethod, PostMethod, HeadMethod}
          /\ \E fields \in Responses : Answered(fields)
       \/ result' = [URL |-> Text(text["url"])] /\ UNCHANGED lists
    /\ UNCHANGED <<row, params, locals, answer, runs, moves>>

\* A method run() does not know, or an exchange that fails, returns the empty map.
Exchange ==
    /\ phase = "exchange"
    /\ phase' = "answer"
    /\ \/ /\ text["method"] \in {GetMethod, PostMethod, HeadMethod}
          /\ \E fields \in Responses : Answered(fields)
       \/ result' = Nothing /\ UNCHANGED lists
    /\ UNCHANGED <<row, params, locals, answer, runs, moves>>

\* readResult: three columns; a name the map does not have leaves its cell empty.
ReadResult ==
    /\ phase = "answer"
    /\ phase' = "done"
    /\ answer' = [n \in {"Method", "URL", "Result"} |->
                    IF n \in DOMAIN result THEN result[n] ELSE Text(NoText)]
    /\ runs' = runs + 1
    /\ UNCHANGED <<row, params, locals, result, lists, moves>>

\* The worker is run once more: run() has new locals, the delegate its old lists.
RunAgain ==
    /\ phase = "done" /\ runs < MaxRuns
    /\ phase' = "parameters"
    /\ unread' = Known /\ text' = Defaults /\ headers' = <<>> /\ sent' = <<>>
    /\ headKey' = NoText /\ headValue' = NoText
    /\ result' = Nothing
    /\ response' = {}
    /\ UNCHANGED <<row, params, answer, runs, headerList, moves>>

Next ==
    \/ Initialize \/ ReadParameter \/ Validate \/ AddHeader \/ Send
    \/ Exchange \/ ReadResult \/ RunAgain

Spec == Init /\ [][Next]_vars

-----------------------------------------------------------------------------
(* Properties *)

\* A column's text, or what stands for it when there is none.
TextOf(n) == IF n \in DOMAIN row /\ IsText(row[n]) THEN row[n].text ELSE Defaults[n]

\* A parameter of a wrong type spoils itself alone, wherever it comes in the map: the
\* request has the texts of the row, or their defaults.
BadParameterIsIsolated ==
    phase \in {"headers", "exchange", "answer", "done"} =>
        \A n \in DOMAIN text : text[n] = TextOf(n)

\* Text x stands in row i of the list of headers under column n.
IsHeaderText(x, i, n) == Text(x) = Cell(row["headers"], i, n)

\* No header takes its key from one row of the list and its value from another,
\* although headKey and headValue outlive the rounds of the loop.
HeadersAreNotMixed ==
    \A i \in DOMAIN sent :
        /\ sent[i][1] # NoText => IsHeaderText(sent[i][1], i, "key")
        /\ sent[i][2] # NoText => IsHeaderText(sent[i][2], i, "value")

\* $completed tells the url and the method together with a response of this very run,
\* and nothing at all otherwise, so that the application can tell the one from the other.
AnswerIsWhole ==
    phase = "done" =>
        IF response = {}
        THEN \A n \in DOMAIN answer : answer[n] = Text(NoText)
        ELSE /\ answer["Result"].type = "response"
             /\ answer["URL"] = Text(TextOf("url"))
             /\ answer["Method"] = Text(TextOf("method"))

\* The columns of a list are the names of the fields, and its row 1 their values.
Pairs(list, fields) ==
    /\ Len(list.columns) = Len(fields)
    /\ \A i \in DOMAIN fields :
          /\ list.cells[i] = fields[i][2]
          /\ fields[i][1] \notin LongNames => list.columns[i] = fields[i][1]

\* The list of headers pairs each name of the response with its value, the same name
\* any number of times.  A second run keeps that only if setList takes lists away:
\* otherwise it puts its values under the names of the first.
HeadersKeepTheirNames ==
    phase = "done" /\ (runs = 1 \/ moves) =>
        \A fields \in response : Pairs(answer["Result"].headers, fields)

\* OmnisTools.he:73 "Row like object to simulate an Omnis row in C++ standard types":
\* the headers that are sent are those of the row.
HeadersAreComplete ==
    phase = "exchange" /\ "headers" \in DOMAIN row /\ row["headers"].type = "list" =>
        /\ Len(sent) = Len(row["headers"].cells)
        /\ \A i \in DOMAIN sent : IsHeaderText(sent[i][1], i, "key") /\ IsHeaderText(sent[i][2], i, "value")
-----------------------------------------------------------------------------
(* The strengthening that makes the properties inductive *)

\* A local has its default until its name has been read, and the row's text from then
\* on; the map is the row's.
ParamInv ==
    /\ unread \in Seq(DOMAIN Defaults \cup {"headers"})
    /\ phase \notin {"initialize", "parameters"} => unread = <<>>
    /\ phase # "initialize" => params = [n \in DOMAIN row |-> ToAny(row[n])]
    /\ \A n \in DOMAIN text :
          /\ text[n] \in {Defaults[n], TextOf(n)}
          /\ text[n] = TextOf(n) \/ \E i \in 1 .. Len(unread) : unread[i] = n

\* result is of this run, and the answer what it was read from.
AnswerInv ==
    /\ phase \in {"initialize", "parameters", "headers", "exchange"} => response = {}
    /\ response = {} => result = Nothing
    /\ response # {} =>
          result = [Result |-> Response(result["Result"].headers),
                    Method |-> Text(TextOf("method")), URL |-> Text(TextOf("url"))]
    /\ AnswerIsWhole

\* The columns of list x that its maps have.
Kept(x) == {x.columns[j] : j \in 1 .. (Len(x.columns) - 1)}

\* The maps come from the list of headers of the row, and all of them have the same
\* names: a local that one of them fills is filled by each.
HeaderInv ==
    /\ headers # <<>> =>
          /\ "headers" \in DOMAIN row /\ row["headers"].type = "list"
          /\ headers = [i \in 1 .. (Len(row["headers"].cells) - 1) |-> ListRow(row["headers"], i)]
          /\ headKey # NoText => "key" \in Kept(row["headers"])
          /\ headValue # NoText => "value" \in Kept(row["headers"])
    /\ phase \in {"initialize", "parameters"} => sent = <<>> /\ headKey = NoText /\ headValue = NoText
    /\ headers = <<>> => sent = <<>>
    /\ HeadersAreNotMixed

\* The list starts empty, and is empty again whenever setList takes lists away.
ListInv ==
    /\ phase # "done" => runs < MaxRuns
    /\ moves \/ (runs = 0 /\ phase # "answer") => headerList = EmptyList
    /\ phase = "done" => runs > 0
    /\ phase = "answer" /\ (runs = 0 \/ moves) =>
          \A fields \in response : Pairs(result["Result"].headers, fields)
    /\ HeadersKeepTheirNames

IInv == TypeOK /\ row \in Rows /\ ParamInv /\ AnswerInv /\ HeaderInv /\ ListInv
=============================================================================
