-------------------------- MODULE MCRequestParams --------------------------
(***************************************************************************)
(* Model-checking instance of RequestParams: every combination of url,     *)
(* method and headers that are absent, of a wrong type, or right, and      *)
(* lists of headers in three layouts in which no two cells are alike.      *)
(* Responses have no header, a name twice, or a name that is too long.     *)
(***************************************************************************)
EXTENDS RequestParams, FiniteSets

CONSTANTS someUrl, someBody, patch, longName, MaxRows

Absent == [type |-> "absent"]

Layouts == {<<"key", "value">>, <<"value", "key">>, <<"key", "value", "note">>}

\* A list with at most one cell that is no text.
HeaderLists ==
    UNION {{List(columns, [i \in 1 .. n |-> [j \in 1 .. Len(columns) |->
                IF <<i, j>> \in bad THEN Other ELSE Text([row |-> i, under |-> columns[j]])]]) :
              bad \in {{}} \cup {{p} : p \in (1 .. n) \X (1 .. Len(columns))}} :
           <<columns, n>> \in Layouts \X (0 .. MaxRows)}

Columns == [url : {Absent, Other, Text(NoText), Text(someUrl)},
          method : {Absent, Other} \cup {Text(m) : m \in {GetMethod, HeadMethod, PostMethod, patch}},
          body : {Absent, Other, Text(someBody)},
          body_type : {Absent, Text(someBody)},
          headers : {Absent, Other, Text(someUrl)} \cup HeaderLists]

MCResponses ==
    {<<>>, <<<<"date", 1>>, <<"cookie", 2>>>>, <<<<"cookie", 3>>, <<"cookie", 4>>, <<longName, 5>>>>}

MCLongNames == {longName}

MCRows == {[n \in {m \in DOMAIN r : r[m] # Absent} |-> r[n]] : r \in Columns}
=============================================================================
