------------------------- MODULE RequestParamsProofs -------------------------
(***************************************************************************)
(* Proofs about RequestParams, for every set of rows and of responses,     *)
(* with lists of any size, and any number of runs.                         *)
(***************************************************************************)
EXTENDS RequestParams, SequenceTheorems, TLAPS

USE TextsAssumption, RunsAssumption

LEMMA KnownNames == Known \in Seq(DOMAIN Defaults \cup {"headers"}) /\ Len(Known) = 5
BY DEF Known, Defaults

\* A worker that has been given nothing yet satisfies the invariant.
LEMMA InitIsSafe == Init => IInv
<1> SUFFICES ASSUME Init PROVE IInv
  OBVIOUS
<1> USE DEF Init
<1>1. ParamInv
  <2>1. unread \in Seq(DOMAIN Defaults \cup {"headers"}) /\ Len(unread) = 5
    BY DEF Known, Defaults
  <2>2. \A n \in DOMAIN Defaults : \E i \in 1 .. Len(unread) : unread[i] = n
    BY DEF Known, Defaults
  <2> QED
    BY <2>1, <2>2 DEF ParamInv
<1>2. AnswerInv
  BY DEF AnswerInv, AnswerIsWhole
<1>3. HeaderInv
  BY DEF HeaderInv, HeadersAreNotMixed
<1>4. ListInv
  BY DEF ListInv, HeadersKeepTheirNames
<1>5. TypeOK
  <2>1. text \in [DOMAIN Defaults -> Texts]
    BY DEF Defaults, Texts
  <2>2. unread = SubSeq(Known, 1, Len(Known)) /\ 1 \in 1 .. Len(Known) + 1
    BY KnownNames, SubSeqFull
  <2>3. headerList.columns \in Seq(FieldNames) /\ headerList.cells \in [DOMAIN headerList.columns -> FieldValues]
    BY DEF EmptyList
  <2>4. runs \in 0 .. MaxRuns /\ sent \in Seq(Texts \X Texts) /\ Len(sent) <= Len(headers)
    OBVIOUS
  <2>5. headKey \in Texts /\ headValue \in Texts /\ DOMAIN headers = {}
    BY DEF Texts
  <2> QED
    BY <2>1, <2>2, <2>3, <2>4, <2>5 DEF TypeOK, Phases
<1> QED
  BY <1>1, <1>2, <1>3, <1>4, <1>5 DEF IInv

\* A text stays a text on its way into the map, and nothing else becomes one.
LEMMA TextsStay ==
    ASSUME NEW cell
    PROVE  /\ IsText(ToAny(cell)) <=> IsText(cell)
           /\ IsText(cell) => ToAny(cell) = cell
BY DEF ToAny, IsText, Vector

\* Initialize makes the map, ReadParameter takes one name off unread, and nothing else
\* touches the locals before the next run.
LEMMA ParamStep ==
    ASSUME TypeOK, ParamInv, [Next]_vars
    PROVE  ParamInv'
<1> USE DEF ParamInv, TextOf, locals
<1>0. text \in [DOMAIN Defaults -> Texts]
  BY DEF TypeOK
<1>1. ASSUME Initialize PROVE ParamInv'
  BY <1>1 DEF Initialize
<1>2. ASSUME ReadParameter PROVE ParamInv'
  <2> DEFINE n == Head(unread)
  <2>1. /\ unread # <<>> /\ unread' = Tail(unread) /\ phase = "parameters"
        /\ UNCHANGED <<phase, row, params>>
        /\ text' = IF Casts(n) /\ n # "headers" THEN [text EXCEPT ![n] = params[n].text] ELSE text
    BY <1>2 DEF ReadParameter, Take
  <2>2. /\ unread' \in Seq(DOMAIN Defaults \cup {"headers"})
        /\ \A i \in 1 .. Len(unread) : unread[i] = n \/ \E j \in 1 .. Len(unread') : unread'[j] = unread[i]
    <3>1. unread \in Seq(DOMAIN Defaults \cup {"headers"}) /\ unread # <<>>
      BY <2>1
    <3>2. unread' \in Seq(DOMAIN Defaults \cup {"headers"}) /\ Len(unread') = Len(unread) - 1
      BY <2>1, <3>1
    <3>3. \A i \in 1 .. Len(unread) : i # 1 => i - 1 \in 1 .. Len(unread') /\ unread'[i - 1] = unread[i]
      BY <2>1, <3>1, <3>2
    <3> QED
      BY <3>1, <3>2, <3>3
  <2>3. n # "headers" => (Casts(n) <=> n \in DOMAIN row /\ IsText(row[n]))
    BY <2>1, TextsStay DEF Casts, IsText
  <2>4. n # "headers" /\ Casts(n) => params[n].text = TextOf(n)
    BY <2>1, <2>3, TextsStay DEF Casts
  <2>5. n \in DOMAIN text => n # "headers"
    BY <1>0 DEF Defaults
  <2>6. DOMAIN text' = DOMAIN text /\ DOMAIN text = DOMAIN Defaults
    BY <1>0, <2>1
  <2>7. \A m \in DOMAIN text : text'[m] = IF m = n /\ Casts(n) THEN TextOf(n) ELSE text[m]
    BY <2>1, <2>4, <2>5
  <2>8. n \in DOMAIN text => text'[n] = TextOf(n)
    <3>1. CASE Casts(n)
      BY <2>7, <3>1
    <3>2. CASE ~Casts(n)
      BY <2>3, <2>5, <2>7, <3>2
    <3> QED
      BY <3>1, <3>2
  <2>9. \A m \in DOMAIN text' :
           /\ text'[m] \in {Defaults[m], TextOf(m)}
           /\ text'[m] = TextOf(m) \/ \E i \in 1 .. Len(unread') : unread'[i] = m
    <3> SUFFICES ASSUME NEW m \in DOMAIN text
                 PROVE  /\ text'[m] \in {Defaults[m], TextOf(m)}
                        /\ text'[m] = TextOf(m) \/ \E i \in 1 .. Len(unread') : unread'[i] = m
      BY <2>6
    <3>1. CASE m = n
      BY <2>8, <3>1
    <3>2. CASE m # n
      BY <2>2, <2>7, <3>2
    <3> QED
      BY <3>1, <3>2
  <2> QED
    BY <2>1, <2>2, <2>6, <2>9
<1>3. ASSUME RunAgain PROVE ParamInv'
  <2>1. unread' \in Seq(DOMAIN Defaults \cup {"headers"}) /\ Len(unread') = 5
    BY <1>3 DEF RunAgain, Known, Defaults
  <2>2. \A n \in DOMAIN Defaults : \E i \in 1 .. Len(unread') : unread'[i] = n
    BY <1>3 DEF RunAgain, Known, Defaults
  <2> QED
    BY <1>3, <2>1, <2>2 DEF RunAgain
<1>4. ASSUME Validate PROVE ParamInv'
  BY <1>4 DEF Validate
<1>5. ASSUME AddHeader PROVE ParamInv'
  <2>1. UNCHANGED <<row, params, unread, text>> /\ phase' \in {"headers", "answer"} /\ phase = "headers"
    BY <1>5 DEF AddHeader
  <2> QED
    BY <2>1
<1>6. ASSUME Send \/ Exchange \/ ReadResult PROVE ParamInv'
  BY <1>6 DEF Send, Exchange, ReadResult
<1>7. ASSUME UNCHANGED vars PROVE ParamInv'
  BY <1>7 DEF vars
<1> QED
  BY <1>1, <1>2, <1>3, <1>4, <1>5, <1>6, <1>7 DEF Next

\* After the parameters, the locals are what TextOf says.
LEMMA TextsAreRead ==
    ASSUME TypeOK, ParamInv, phase \notin {"initialize", "parameters"}
    PROVE  BadParameterIsIsolated /\ text["url"] = TextOf("url") /\ text["method"] = TextOf("method")
<1>1. Len(unread) = 0
  BY DEF ParamInv
<1>2. \A n \in DOMAIN text : text[n] = TextOf(n)
  BY <1>1 DEF ParamInv
<1>3. DOMAIN text = DOMAIN Defaults
  BY DEF TypeOK
<1> QED
  BY <1>2, <1>3 DEF BadParameterIsIsolated, Defaults

\* Only Exchange makes a result and only ReadResult an answer.
LEMMA AnswerStep ==
    ASSUME TypeOK, ParamInv, AnswerInv, [Next]_vars
    PROVE  AnswerInv'
<1> USE DEF AnswerInv, AnswerIsWhole, TextOf, locals, lists
<1>1. ASSUME UNCHANGED <<result, response, row>>, phase' # "done",
             phase' \in {"initialize", "parameters", "headers", "exchange"} =>
                 phase \in {"initialize", "parameters", "headers", "exchange"}
      PROVE  AnswerInv'
  BY <1>1
<1>2. ASSUME Exchange PROVE AnswerInv'
  <2>1. phase' = "answer" /\ UNCHANGED row /\ phase = "exchange" /\ response = {}
    BY <1>2 DEF Exchange
  <2>2. CASE UNCHANGED response /\ result' = Nothing
    BY <2>1, <2>2
  <2>3. CASE \E fields \in Responses : Answered(fields)
    <3>1. PICK fields \in Responses : Answered(fields)
      BY <2>3
    <3> DEFINE list == BuildHeaderList(headerList, fields)
    <3>2. /\ response' = {fields}
          /\ result' = [Result |-> Response(list), Method |-> Text(TextOf("method")),
                        URL |-> Text(TextOf("url"))]
      BY <2>1, <3>1, TextsAreRead DEF Answered
    <3> HIDE DEF list
    <3>3. result'["Result"].headers = list
      BY <3>2 DEF Response
    <3> QED
      BY <2>1, <3>2, <3>3
  <2> QED
    BY <1>2, <2>2, <2>3 DEF Exchange
<1>3. ASSUME ReadResult PROVE AnswerInv'
  <2>1. /\ phase' = "done" /\ UNCHANGED <<result, response, row>>
        /\ answer' = [n \in {"Method", "URL", "Result"} |->
                         IF n \in DOMAIN result THEN result[n] ELSE Text(NoText)]
    BY <1>3 DEF ReadResult
  <2>2. CASE response = {}
    <3>1. DOMAIN result = {}
      BY <2>2 DEF Nothing
    <3> QED
      BY <2>1, <2>2, <3>1
  <2>3. CASE response # {}
    <3>1. /\ DOMAIN result = {"Method", "URL", "Result"}
          /\ result["Result"].type = "response"
          /\ result["URL"] = Text(TextOf("url"))
          /\ result["Method"] = Text(TextOf("method"))
      BY <2>3 DEF Response
    <3> QED
      BY <2>1, <2>3, <3>1
  <2> QED
    BY <2>2, <2>3
<1>4. ASSUME RunAgain PROVE AnswerInv'
  BY <1>4 DEF RunAgain
<1>5. ASSUME Initialize \/ ReadParameter \/ Validate \/ AddHeader \/ Send PROVE AnswerInv'
  <2>1. /\ UNCHANGED <<result, response, row>>
        /\ phase \in {"initialize", "parameters", "headers"}
        /\ phase' \in {"parameters", "headers", "exchange", "answer"}
    BY <1>5 DEF Initialize, ReadParameter, Take, Validate, AddHeader, Send
  <2> QED
    BY <1>1, <2>1
<1>6. ASSUME UNCHANGED vars PROVE AnswerInv'
  BY <1>6 DEF vars
<1> QED
  BY <1>2, <1>3, <1>4, <1>5, <1>6 DEF Next

\* The list of a response is right when there was nothing in it before.
LEMMA BuiltFromNothing ==
    ASSUME NEW fields \in Responses
    PROVE  Pairs(BuildHeaderList(EmptyList, fields), fields)
<1> DEFINE names == [i \in DOMAIN fields |-> ColumnName(fields[i][1])]
           S == {ColumnName(fields[i][1]) : i \in DOMAIN fields}
<1>1. Len(fields) \in Nat /\ DOMAIN fields = 1 .. Len(fields)
  BY ResponsesAssumption
<1>2. names \in Seq(S) /\ Len(names) = Len(fields)
  BY <1>1
<1> HIDE DEF S
<1>3. <<>> \o names = names
  BY <1>2
<1>4. DOMAIN names = DOMAIN fields
  OBVIOUS
<1>5. BuildHeaderList(EmptyList, fields) =
        [columns |-> names,
         cells |-> [i \in DOMAIN names |->
             CASE i \in DOMAIN fields -> fields[i][2]
               [] i \in DOMAIN <<>> \ DOMAIN fields -> <<>>[i]
               [] OTHER -> NoText]]
  <2> HIDE DEF names
  <2> QED
    BY <1>3 DEF BuildHeaderList, EmptyList, names
<1>6. \A i \in DOMAIN fields : BuildHeaderList(EmptyList, fields).cells[i] = fields[i][2]
  BY <1>4, <1>5
<1>7. BuildHeaderList(EmptyList, fields).columns = names
  BY <1>5
<1> QED
  BY <1>2, <1>6, <1>7 DEF Pairs, ColumnName

\* Only Exchange touches the list; the next run finds what it left.
LEMMA ListStep ==
    ASSUME TypeOK, AnswerInv, ListInv, [Next]_vars
    PROVE  ListInv'
<1> USE DEF ListInv, HeadersKeepTheirNames, locals, lists
<1>1. ASSUME Exchange PROVE ListInv'
  <2>1. /\ phase = "exchange" /\ phase' = "answer" /\ UNCHANGED <<runs, moves>> /\ response = {}
    BY <1>1 DEF Exchange, AnswerInv
  <2>2. CASE UNCHANGED <<headerList, response>>
    BY <2>1, <2>2
  <2>3. CASE \E fields \in Responses : Answered(fields)
    <3>1. PICK fields \in Responses : Answered(fields)
      BY <2>3
    <3> DEFINE list == BuildHeaderList(headerList, fields)
    <3>2. /\ response' = {fields} /\ result'["Result"].headers = list
          /\ headerList' = IF moves THEN EmptyList ELSE list
      BY <3>1 DEF Answered, Response
    <3>3. runs = 0 \/ moves => Pairs(list, fields)
      BY <2>1, BuiltFromNothing
    <3> HIDE DEF list
    <3> QED
      BY <2>1, <3>2, <3>3
  <2> QED
    BY <1>1, <2>2, <2>3 DEF Exchange
<1>2. ASSUME ReadResult PROVE ListInv'
  <2>1. /\ phase = "answer" /\ phase' = "done" /\ runs' = runs + 1
        /\ UNCHANGED <<moves, result, headerList, response>>
        /\ "Result" \in DOMAIN result => answer'["Result"] = result["Result"]
    BY <1>2 DEF ReadResult
  <2>2. response # {} => "Result" \in DOMAIN result
    BY DEF AnswerInv
  <2>3. runs \in Nat
    BY DEF TypeOK
  <2> QED
    BY <2>1, <2>2, <2>3
<1>3. ASSUME RunAgain PROVE ListInv'
  BY <1>3 DEF RunAgain
<1>4. ASSUME Initialize \/ ReadParameter \/ Validate \/ AddHeader \/ Send PROVE ListInv'
  <2>1. /\ UNCHANGED <<result, response, headerList, runs, moves>>
        /\ phase \in {"initialize", "parameters", "headers"} /\ phase' # "done"
    BY <1>4 DEF Initialize, ReadParameter, Take, Validate, AddHeader, Send
  <2>2. response = {}
    BY <2>1 DEF AnswerInv
  <2> QED
    BY <2>1, <2>2
<1>5. ASSUME UNCHANGED vars PROVE ListInv'
  BY <1>5 DEF vars
<1> QED
  BY <1>1, <1>2, <1>3, <1>4, <1>5 DEF Next

\* A text in a map of headers is the cell under its name, and stays where it was.
LEMMA CellsOfRows ==
    ASSUME NEW x, IsTable(x), NEW i \in 1 .. (Len(x.cells) - 1), NEW n,
           n \in DOMAIN ListRow(x, i), IsText(ListRow(x, i)[n])
    PROVE  Text(ListRow(x, i)[n].text) = Cell(x, i, n)
<1>1. n \in Kept(x) /\ DOMAIN ListRow(x, i) = Kept(x)
  BY DEF ListRow, Kept
<1>2. IsText(Cell(x, i, n)) /\ ListRow(x, i)[n] = Cell(x, i, n)
  BY <1>1 DEF ListRow, Kept, IsText, Other
<1> DEFINE j == CHOOSE j \in DOMAIN x.columns : x.columns[j] = n
<1>3. Cell(x, i, n) = x.cells[i][j]
  BY DEF Cell
<1>4. j \in DOMAIN x.columns /\ i \in DOMAIN x.cells
  BY <1>1 DEF Kept, IsTable
<1> HIDE DEF j
<1> QED
  BY <1>2, <1>3, <1>4 DEF IsTable

\* A function from 1 .. m is a sequence of length m.
LEMMA LengthOf ==
    ASSUME NEW S, NEW m \in Nat, NEW f \in [1 .. m -> S]
    PROVE  Len(f) = m /\ DOMAIN f = 1 .. m
OBVIOUS

\* The vector that a list of headers becomes is a sequence, shorter by one than the list.
LEMMA MapsAreSequence ==
    ASSUME NEW table, IsTable(table), NEW maps,
           maps = [i \in 1 .. (Len(table.cells) - 1) |-> ListRow(table, i)]
    PROVE  /\ Len(maps) \in Nat /\ DOMAIN maps = 1 .. Len(maps)
           /\ 1 .. Len(maps) = 1 .. (Len(table.cells) - 1)
<1> DEFINE S == {ListRow(table, i) : i \in 1 .. (Len(table.cells) - 1)}
           m == IF Len(table.cells) - 1 < 0 THEN 0 ELSE Len(table.cells) - 1
<1>1. m \in Nat /\ 1 .. m = 1 .. (Len(table.cells) - 1)
  BY DEF IsTable
<1>2. maps \in [1 .. m -> S]
  BY <1>1
<1> HIDE DEF S, m
<1>3. Len(maps) = m /\ DOMAIN maps = 1 .. m
  BY <1>1, <1>2, LengthOf
<1> QED
  BY <1>1, <1>3

\* The maps are those of the rows of the list of headers, which run() got as a vector.
LEMMA HeadersAreRows ==
    ASSUME row \in Rows, HeaderInv
    PROVE  /\ Len(headers) \in Nat /\ DOMAIN headers = 1 .. Len(headers)
           /\ headers # <<>> => IsTable(row["headers"])
           /\ \A i \in 1 .. Len(headers) :
                 i \in 1 .. (Len(row["headers"].cells) - 1) /\ headers[i] = ListRow(row["headers"], i)
<1>1. CASE headers = <<>>
  BY <1>1
<1>2. CASE headers # <<>>
  <2>1. /\ headers = [i \in 1 .. (Len(row["headers"].cells) - 1) |-> ListRow(row["headers"], i)]
        /\ IsTable(row["headers"])
    BY <1>2, RowsAssumption DEF HeaderInv
  <2> QED
    BY <2>1, MapsAreSequence
<1> QED
  BY <1>1, <1>2

\* AddHeader takes one map after the other; in all of them the same names.
LEMMA HeaderStep ==
    ASSUME TypeOK, TypeOK', row \in Rows, ParamInv, HeaderInv, [Next]_vars
    PROVE  HeaderInv'
<1> USE DEF HeaderInv, locals
<1>1. ASSUME UNCHANGED <<row, headers, headKey, headValue, sent>>,
             phase' \in {"initialize", "parameters"} => phase \in {"initialize", "parameters"}
      PROVE  HeaderInv'
  BY <1>1 DEF HeadersAreNotMixed, IsHeaderText
<1>2. ASSUME Initialize \/ Validate \/ Send \/ Exchange \/ ReadResult \/ UNCHANGED vars
      PROVE  HeaderInv'
  <2>1. /\ UNCHANGED <<row, headers, headKey, headValue, sent>>
        /\ phase' \in {"initialize", "parameters"} => phase \in {"initialize", "parameters"}
    BY <1>2 DEF Initialize, Validate, Send, Exchange, ReadResult, vars
  <2> QED
    BY <1>1, <2>1
<1>3. ASSUME RunAgain PROVE HeaderInv'
  BY <1>3 DEF RunAgain, HeadersAreNotMixed
<1>4. ASSUME ReadParameter PROVE HeaderInv'
  <2>1. /\ phase = "parameters" /\ UNCHANGED <<phase, row, headKey, headValue, sent>>
        /\ headers' = headers \/ (Casts("headers") /\ headers' = params["headers"].maps)
    BY <1>4 DEF ReadParameter, Take
  <2>2. CASE headers' = headers
    BY <1>1, <2>1, <2>2
  <2>3. CASE Casts("headers") /\ headers' = params["headers"].maps
    <3>1. "headers" \in DOMAIN row /\ params["headers"] = ToAny(row["headers"])
      BY <2>1, <2>3 DEF Casts, ParamInv
    <3>2. row["headers"].type = "list"
      <4>1. row["headers"].type \in {"text", "other", "list"}
        BY <3>1, RowsAssumption
      <4> QED
        BY <2>3, <3>1, <4>1 DEF Casts, ToAny
    <3>3. headers' = [i \in 1 .. (Len(row["headers"].cells) - 1) |-> ListRow(row["headers"], i)]
      BY <2>3, <3>1, <3>2 DEF ToAny, Vector
    <3> QED
      BY <2>1, <3>1, <3>2, <3>3 DEF HeadersAreNotMixed
  <2> QED
    BY <2>1, <2>2, <2>3
<1>5. ASSUME AddHeader PROVE HeaderInv'
  <2> DEFINE table == row["headers"]
             k == Len(sent) + 1
             map == headers[k]
  <2>1. /\ phase = "headers" /\ phase' \notin {"initialize", "parameters"}
        /\ UNCHANGED <<row, headers>> /\ Len(sent) < Len(headers)
    BY <1>5 DEF AddHeader
  <2>2. CASE UNCHANGED <<headKey, headValue, sent>>
    BY <1>1, <2>1, <2>2
  <2>3. CASE /\ \A n \in DOMAIN map \cap {"key", "value"} : IsText(map[n])
             /\ headKey' = IF "key" \in DOMAIN map THEN map["key"].text ELSE headKey
             /\ headValue' = IF "value" \in DOMAIN map THEN map["value"].text ELSE headValue
             /\ sent' = Append(sent, <<headKey', headValue'>>)
    <3>1. Len(sent) \in Nat /\ DOMAIN sent = 1 .. Len(sent) /\ headers # <<>>
      BY <2>1 DEF TypeOK
    <3>2. table.type = "list" /\ IsTable(table)
      BY <3>1, RowsAssumption
    <3>3. k \in 1 .. (Len(table.cells) - 1) /\ map = ListRow(table, k)
      BY <2>1, <3>1, HeadersAreRows
    <3>4. DOMAIN map = Kept(table)
      BY <3>3 DEF ListRow, Kept
    <3>5. /\ headKey' # NoText => "key" \in Kept(table) /\ IsHeaderText(headKey', k, "key")
          /\ headValue' # NoText => "value" \in Kept(table) /\ IsHeaderText(headValue', k, "value")
      BY <2>3, <3>1, <3>2, <3>3, <3>4, CellsOfRows DEF IsHeaderText
    <3>6. /\ DOMAIN sent' = 1 .. k /\ Len(sent') = k
          /\ \A i \in 1 .. Len(sent) : sent'[i] = sent[i]
          /\ sent'[k] = <<headKey', headValue'>>
      <4> DEFINE pair == <<headKey', headValue'>>
      <4>1. sent \in Seq(Texts \X Texts) /\ pair \in Texts \X Texts /\ sent' = Append(sent, pair)
        BY <2>3 DEF TypeOK
      <4> HIDE DEF pair
      <4>2. /\ DOMAIN sent' = 1 .. k /\ Len(sent') = k
            /\ \A i \in 1 .. Len(sent) : sent'[i] = sent[i]
            /\ sent'[k] = pair
        BY <4>1
      <4> QED
        BY <4>2 DEF pair
    <3>7. HeadersAreNotMixed'
      <4> SUFFICES ASSUME NEW i \in 1 .. k
                   PROVE  /\ sent'[i][1] # NoText => IsHeaderText(sent'[i][1], i, "key")
                          /\ sent'[i][2] # NoText => IsHeaderText(sent'[i][2], i, "value")
        BY <2>1, <3>6 DEF HeadersAreNotMixed, IsHeaderText
      <4>1. CASE i = k
        BY <3>5, <3>6, <4>1
      <4>2. CASE i # k
        <5>1. i \in DOMAIN sent /\ sent'[i] = sent[i]
          BY <3>1, <3>6, <4>2
        <5> QED
          BY <5>1 DEF HeadersAreNotMixed
      <4> QED
        BY <4>1, <4>2
    <3> QED
      BY <2>1, <3>1, <3>5, <3>6, <3>7
  <2> QED
    BY <1>5, <2>2, <2>3 DEF AddHeader
<1> QED
  BY <1>2, <1>3, <1>4, <1>5 DEF Next

\* The texts of a row are among Texts, those of its lists included.
LEMMA RowTexts ==
    ASSUME NEW r \in Rows, NEW n \in DOMAIN r
    PROVE  /\ IsText(r[n]) => r[n].text \in Texts
           /\ r[n].type = "list" =>
                 \A i \in DOMAIN r[n].cells, j \in DOMAIN r[n].columns :
                    IsText(r[n].cells[i][j]) => r[n].cells[i][j].text \in Texts
<1>1. TextsIn(r[n]) \subseteq Texts
  BY DEF Texts
<1>2. IsText(r[n]) => r[n].text \in TextsIn(r[n])
  BY DEF TextsIn, IsText
<1>3. ASSUME r[n].type = "list", NEW i \in DOMAIN r[n].cells, NEW j \in DOMAIN r[n].columns,
             IsText(r[n].cells[i][j])
      PROVE  r[n].cells[i][j].text \in TextsIn(r[n])
  BY <1>3 DEF TextsIn
<1> QED
  BY <1>1, <1>2, <1>3

\* The maps of headers hold texts of the row, and values that are no texts.
LEMMA RowsOfHeaders ==
    ASSUME row \in Rows, "headers" \in DOMAIN row, row["headers"].type = "list",
           NEW i \in 1 .. (Len(row["headers"].cells) - 1), NEW n \in DOMAIN ListRow(row["headers"], i)
    PROVE  /\ ListRow(row["headers"], i)[n].type \in {"text", "other"}
           /\ IsText(ListRow(row["headers"], i)[n]) => ListRow(row["headers"], i)[n].text \in Texts
<1> DEFINE table == row["headers"]
           j == CHOOSE j \in DOMAIN table.columns : table.columns[j] = n
<1>1. IsTable(table)
  BY RowsAssumption
<1>2. n \in Kept(table) /\ Cell(table, i, n) = table.cells[i][j]
  BY DEF ListRow, Kept, Cell
<1>3. i \in DOMAIN table.cells /\ j \in DOMAIN table.columns
  BY <1>1, <1>2 DEF IsTable, Kept
<1>4. IsText(table.cells[i][j]) => table.cells[i][j].text \in Texts
  BY <1>3, RowTexts
<1>5. ListRow(table, i)[n] = IF IsText(Cell(table, i, n)) THEN Cell(table, i, n) ELSE Other
  BY <1>2 DEF ListRow, Kept
<1> HIDE DEF table, j
<1> QED
  BY <1>2, <1>4, <1>5 DEF IsText, Other, table

\* A list of headers has a cell under each of its columns.
LEMMA ListType ==
    ASSUME NEW fields \in Responses, headerList.columns \in Seq(FieldNames),
           headerList.cells \in [DOMAIN headerList.columns -> FieldValues]
    PROVE  LET list == BuildHeaderList(headerList, fields)
           IN  /\ list.columns \in Seq(FieldNames)
               /\ list.cells \in [DOMAIN list.columns -> FieldValues]
<1> DEFINE names == [i \in DOMAIN fields |-> ColumnName(fields[i][1])]
           columns == headerList.columns \o names
           cells == [i \in DOMAIN columns |->
                        CASE i \in DOMAIN fields -> fields[i][2]
                          [] i \in DOMAIN headerList.cells \ DOMAIN fields -> headerList.cells[i]
                          [] OTHER -> NoText]
<1>1. \A i \in DOMAIN fields : fields[i][1] \in FieldNames /\ fields[i][2] \in FieldValues
  BY DEF FieldNames, FieldValues
<1>2. names \in Seq(FieldNames)
  <2>1. \A i \in DOMAIN fields : names[i] \in FieldNames
    BY <1>1 DEF ColumnName, FieldNames
  <2>2. Len(fields) \in Nat /\ names \in [1 .. Len(fields) -> FieldNames]
    BY <2>1, ResponsesAssumption
  <2> HIDE DEF names
  <2> QED
    BY <2>2
<1>3. columns \in Seq(FieldNames)
  <2> HIDE DEF names
  <2> QED
    BY <1>2
<1>4. BuildHeaderList(headerList, fields) = [columns |-> columns, cells |-> cells]
  BY DEF BuildHeaderList
<1>5. cells \in [DOMAIN columns -> FieldValues]
  <2> HIDE DEF columns
  <2> QED
    BY <1>1 DEF FieldValues
<1> HIDE DEF columns, cells
<1> QED
  BY <1>3, <1>4, <1>5

\* The types of the locals are those of what any_cast let through.
LEMMA TypeStep ==
    ASSUME IInv, [Next]_vars
    PROVE  TypeOK'
<1> USE DEF TypeOK, locals, lists
<1>1. TypeOK /\ row \in Rows /\ ParamInv /\ HeaderInv /\ AnswerInv /\ ListInv
  BY DEF IInv
<1>2. ASSUME UNCHANGED <<locals, lists, runs, moves>>, phase' \in Phases PROVE TypeOK'
  BY <1>1, <1>2
<1>3. ASSUME Initialize \/ Validate \/ Send \/ UNCHANGED vars PROVE TypeOK'
  <2>1. UNCHANGED <<locals, lists, runs, moves>> /\ phase' \in Phases
    BY <1>1, <1>3 DEF Initialize, Validate, Send, Phases, vars
  <2> QED
    BY <1>2, <2>1
<1>4. ASSUME ReadParameter PROVE TypeOK'
  <2> DEFINE n == Head(unread)
  <2>1. /\ unread # <<>> /\ unread' = Tail(unread) /\ phase = "parameters"
        /\ UNCHANGED <<phase, row, params, headKey, headValue, sent, runs, lists, moves>>
        /\ text' = IF Casts(n) /\ n # "headers" THEN [text EXCEPT ![n] = params[n].text] ELSE text
        /\ headers' = headers \/ (Casts("headers") /\ headers' = params["headers"].maps)
    BY <1>4 DEF ReadParameter, Take
  <2>2. \E i \in 1 .. Len(Known) + 1 : unread' = SubSeq(Known, i, Len(Known))
    <3>1. PICK i \in 1 .. Len(Known) + 1 : unread = SubSeq(Known, i, Len(Known))
      BY <1>1
    <3>2. i \in 1 .. Len(Known)
      BY <2>1, <3>1, KnownNames, SubSeqEmpty
    <3>3. unread' = SubSeq(Known, i + 1, Len(Known)) /\ i + 1 \in 1 .. Len(Known) + 1
      BY <2>1, <3>1, <3>2, KnownNames, HeadTailOfSubSeq
    <3> QED
      BY <3>3
  <2>3. text' \in [DOMAIN Defaults -> Texts]
    <3>1. CASE Casts(n) /\ n # "headers"
      <4>1. n \in DOMAIN row /\ IsText(row[n]) /\ params[n] = row[n]
        BY <1>1, <2>1, <3>1, TextsStay DEF Casts, ParamInv, IsText
      <4>2. params[n].text \in Texts
        BY <1>1, <4>1, RowTexts
      <4> QED
        BY <1>1, <2>1, <3>1, <4>2
    <3>2. CASE ~(Casts(n) /\ n # "headers")
      BY <1>1, <2>1, <3>2
    <3> QED
      BY <3>1, <3>2
  <2>4. /\ \A i \in DOMAIN headers' : \A m \in DOMAIN headers'[i] : headers'[i][m].type \in {"text", "other"}
        /\ Len(headers') \in Nat
    <3>1. CASE headers' = headers
      BY <1>1, <3>1, HeadersAreRows
    <3>2. CASE Casts("headers") /\ headers' = params["headers"].maps
      <4>1. "headers" \in DOMAIN row /\ params["headers"] = ToAny(row["headers"])
        BY <1>1, <2>1, <3>2 DEF Casts, ParamInv
      <4>2. row["headers"].type = "list"
        <5>1. row["headers"].type \in {"text", "other", "list"}
          BY <1>1, <4>1, RowsAssumption
        <5> QED
          BY <3>2, <4>1, <5>1 DEF Casts, ToAny
      <4>3. headers' = [i \in 1 .. (Len(row["headers"].cells) - 1) |-> ListRow(row["headers"], i)]
        BY <3>2, <4>1, <4>2 DEF ToAny, Vector
      <4>4. IsTable(row["headers"])
        BY <1>1, <4>1, <4>2, RowsAssumption
      <4>5. Len(headers') \in Nat
        BY <4>3, <4>4, MapsAreSequence
      <4> QED
        BY <1>1, <4>1, <4>2, <4>3, <4>5, RowsOfHeaders
    <3> QED
      BY <2>1, <3>1, <3>2
  <2>5. Len(sent') <= Len(headers')
    BY <1>1, <2>1, <2>4 DEF HeaderInv
  <2> QED
    BY <1>1, <2>1, <2>2, <2>3, <2>4, <2>5
<1>5. ASSUME AddHeader PROVE TypeOK'
  <2> DEFINE k == Len(sent) + 1
             map == headers[k]
  <2>1. /\ phase = "headers" /\ Len(sent) < Len(headers)
        /\ UNCHANGED <<row, params, unread, text, headers, runs, lists, moves>>
    BY <1>5 DEF AddHeader
  <2>2. CASE UNCHANGED <<headKey, headValue, sent>> /\ phase' = "answer"
    BY <1>1, <2>1, <2>2 DEF Phases
  <2>3. CASE /\ \A n \in DOMAIN map \cap {"key", "value"} : IsText(map[n])
             /\ headKey' = IF "key" \in DOMAIN map THEN map["key"].text ELSE headKey
             /\ headValue' = IF "value" \in DOMAIN map THEN map["value"].text ELSE headValue
             /\ sent' = Append(sent, <<headKey', headValue'>>)
             /\ UNCHANGED phase
    <3>1. Len(sent) \in Nat /\ k \in 1 .. Len(headers) /\ headers # <<>>
      BY <1>1, <2>1, HeadersAreRows
    <3>2. /\ "headers" \in DOMAIN row /\ row["headers"].type = "list"
          /\ k \in 1 .. (Len(row["headers"].cells) - 1) /\ map = ListRow(row["headers"], k)
      BY <1>1, <3>1, HeadersAreRows DEF HeaderInv
    <3>3. headKey' \in Texts /\ headValue' \in Texts
      <4>1. \A n \in DOMAIN map : IsText(map[n]) => map[n].text \in Texts
        BY <1>1, <3>2, RowsOfHeaders
      <4> QED
        BY <1>1, <2>3, <4>1
    <3>4. sent' \in Seq(Texts \X Texts) /\ Len(sent') <= Len(headers')
      <4> DEFINE pair == <<headKey', headValue'>>
      <4>1. pair \in Texts \X Texts /\ sent' = Append(sent, pair)
        BY <2>3, <3>3
      <4> HIDE DEF pair
      <4> QED
        BY <1>1, <2>1, <3>1, <4>1, HeadersAreRows
    <3> QED
      BY <1>1, <2>1, <2>3, <3>3, <3>4
  <2> QED
    BY <1>5, <2>2, <2>3 DEF AddHeader
<1>6. ASSUME Exchange PROVE TypeOK'
  <2>1. phase' = "answer" /\ UNCHANGED <<locals, runs, moves>>
    BY <1>6 DEF Exchange
  <2>2. CASE UNCHANGED lists
    BY <1>2, <2>1, <2>2 DEF Phases
  <2>3. CASE \E fields \in Responses : Answered(fields)
    <3>1. PICK fields \in Responses : Answered(fields)
      BY <2>3
    <3>2. /\ headerList'.columns \in Seq(FieldNames)
          /\ headerList'.cells \in [DOMAIN headerList'.columns -> FieldValues]
      <4>1. CASE headerList' = EmptyList
        BY <4>1 DEF EmptyList
      <4>2. CASE headerList' = BuildHeaderList(headerList, fields)
        BY <1>1, <4>2, ListType
      <4> QED
        BY <3>1, <4>1, <4>2 DEF Answered
    <3>3. response' \subseteq Responses
      BY <3>1 DEF Answered
    <3> QED
      BY <1>1, <2>1, <3>2, <3>3 DEF Phases
  <2> QED
    BY <1>6, <2>2, <2>3 DEF Exchange
<1>7. ASSUME ReadResult PROVE TypeOK'
  <2>1. /\ phase = "answer" /\ phase' = "done" /\ runs' = runs + 1
        /\ UNCHANGED <<locals, lists, moves>>
    BY <1>7 DEF ReadResult
  <2>2. runs' \in 0 .. MaxRuns
    BY <1>1, <2>1 DEF ListInv
  <2> QED
    BY <1>1, <2>1, <2>2 DEF Phases
<1>8. ASSUME RunAgain PROVE TypeOK'
  <2>1. /\ phase' = "parameters" /\ UNCHANGED <<runs, headerList, moves>> /\ response' = {}
        /\ unread' = Known /\ text' = Defaults /\ headers' = <<>> /\ sent' = <<>>
        /\ headKey' = NoText /\ headValue' = NoText
    BY <1>8 DEF RunAgain
  <2>2. text' \in [DOMAIN Defaults -> Texts] /\ NoText \in Texts
    BY <2>1 DEF Defaults, Texts
  <2>3. unread' = SubSeq(Known, 1, Len(Known)) /\ 1 \in 1 .. Len(Known) + 1
    BY <2>1, KnownNames, SubSeqFull
  <2>4. sent' \in Seq(Texts \X Texts) /\ Len(sent') <= Len(headers') /\ DOMAIN headers' = {}
    BY <2>1
  <2> QED
    BY <1>1, <2>1, <2>2, <2>3, <2>4 DEF Phases
<1> QED
  BY <1>3, <1>4, <1>5, <1>6, <1>7, <1>8 DEF Next

\* Every step keeps the invariant.
LEMMA Transition == IInv /\ [Next]_vars => IInv'
<1> SUFFICES ASSUME IInv, [Next]_vars PROVE IInv'
  OBVIOUS
<1>1. row' = row
  BY DEF Next, Initialize, ReadParameter, Take, Validate, AddHeader, Send, Exchange, ReadResult,
     RunAgain, vars
<1> QED
  BY <1>1, TypeStep, ParamStep, AnswerStep, ListStep, HeaderStep DEF IInv

\* The invariant holds in every run of the worker, for rows and responses of any size.
THEOREM Invariance == Spec => []IInv
BY InitIsSafe, Transition, PTL DEF Spec

\* Whatever the row holds, the locals of run() hold texts of it and the maps that it
\* sends and answers with are whole: a sent header is a pair, a list has a cell for each
\* of its columns, and no run is left to count.
THEOREM TypeCorrect == Spec => []TypeOK
<1>1. IInv => TypeOK
  BY DEF IInv
<1> QED
  BY <1>1, Invariance, PTL

\* A parameter of a wrong type spoils itself alone, in rows of any columns.
THEOREM BadParametersAreIsolated == Spec => []BadParameterIsIsolated
<1>1. IInv => BadParameterIsIsolated
  BY TextsAreRead DEF IInv, BadParameterIsIsolated
<1> QED
  BY <1>1, Invariance, PTL

\* No header is put together from two rows, in lists of any size and layout.
THEOREM NoHeaderIsMixed == Spec => []HeadersAreNotMixed
<1>1. IInv => HeadersAreNotMixed
  BY DEF IInv, HeaderInv
<1> QED
  BY <1>1, Invariance, PTL

\* The answer is whole and of its own run, or empty, in every run.
THEOREM EveryAnswerIsWhole == Spec => []AnswerIsWhole
<1>1. IInv => AnswerIsWhole
  BY DEF IInv, AnswerInv
<1> QED
  BY <1>1, Invariance, PTL

\* The headers of the response keep their names, in the first run, and in every later
\* one if Omnis takes the list away.
THEOREM NamesAreKept == Spec => []HeadersKeepTheirNames
<1>1. IInv => HeadersKeepTheirNames
  BY DEF IInv, ListInv
<1> QED
  BY <1>1, Invariance, PTL
=============================================================================
