----------------------------- MODULE MCPagedLists -----------------------------
(***************************************************************************)
(* Small instances of PagedLists.  A row's text in a column is the name of *)
(* the column and a letter of the row's own, so that an argument bound to  *)
(* the wrong placeholder finds something else.                             *)
(***************************************************************************)
EXTENDS PagedLists, TLC

Letter == <<"x", "y", "z">>
Kind == <<<<"boot">>, <<"js_error">>, <<"resource_error">>>>

\* Column c, of the given kind, in row i.
Value(c, kind, i) ==
    CASE kind \in {"like", "trimmed", "equal", "prefix"} -> <<c, Letter[i]>>
      [] c = "id"          -> i
      [] kind = "key"      -> 10 + i
      [] kind = "positive" -> 20 + i
      [] kind = "number"   -> i
      [] kind = "state"    -> i - 1
      [] kind = "flag"     -> i % 2
      [] kind = "oneOf"    -> Kind[i]
      [] kind = "all"      -> {<<"f">>, <<Letter[i]>>}
      [] kind = "days"     -> IF i = 3 THEN Nil ELSE 2 * i + 1
      [] OTHER             -> 2 * i

\* What a request may say of the column, left out or not.
Unset(kind) ==
    CASE kind \in {"like", "trimmed", "equal", "prefix"} -> <<>>
      [] kind \in {"oneOf", "all"}                       -> {}
      [] kind \in {"days", "span", "period"}             -> <<Nil, Nil>>
      [] OTHER                                           -> Nil
Values(c, kind) ==
    CASE kind \in {"like", "prefix"} -> {<<c>>, <<"y">>}
      [] kind = "equal"    -> {<<c, "x">>, <<c>>}
      [] kind = "trimmed"  -> {<<" ">>, <<" ", c, "x", " ">>}
      [] kind = "state"    -> {-1, 0, 1}
      [] kind = "positive" -> {-1, 0, 21}
      [] kind = "flag"     -> {0, 1}
      [] kind = "oneOf"    -> {{Kind[1]}, {Kind[2], Kind[3]}}
      [] kind = "all"      -> {{<<"f">>}, {<<"f">>, <<"x">>}, {<<"x">>, <<"y">>}}
      [] kind = "days"     -> {<<1, 1>>, <<1, 2>>, <<1, Nil>>}
      [] kind \in {"span", "period"} ->
            {<<Nil, 3>>, <<3, Nil>>, <<2, 4>>, <<4, 2>>, <<0, 8>>}
      [] OTHER             -> {0, Value(c, kind, 1), 7}

Columns(l) == IF l = "overview" THEN MonEventListReq ELSE FieldsOf(l)
Row(l, i) ==
    [c \in DOMAIN Columns(l) |-> Value(c, Columns(l)[c], i)] @@
    [sort_no |-> IF i = 3 THEN 0 ELSE 1, user_id |-> i % 2,
     joined |-> (l \in {"sales", "items"} => i # 2)]
Rows(l, n) == [i \in 1..n |-> Row(l, i)]

\* Requests with at most two criteria, and the page they ask for.
Blank(l) == [c \in DOMAIN FieldsOf(l) |-> Unset(FieldsOf(l)[c])]
Set(l, c) == Values(c, FieldsOf(l)[c])
Criteria(l) ==
    {Blank(l)}
    \cup UNION {{[Blank(l) EXCEPT ![c] = v] : v \in Set(l, c)} : c \in DOMAIN FieldsOf(l)}
    \cup UNION {{[Blank(l) EXCEPT ![p[1]] = v[1], ![p[2]] = v[2]] :
                    v \in Set(l, p[1]) \X Set(l, p[2])} :
                p \in {q \in (DOMAIN FieldsOf(l)) \X (DOMAIN FieldsOf(l)) : q[1] # q[2]}}
OnPage(f, index, size) == f @@ [page_index |-> index, page_size |-> size]

Pages == {-1, 0, 1, 2, 127} \X {-1, 0, 1, 2, 101}
AllRequests(l) ==
    {OnPage(f, 0, 0) : f \in Criteria(l)}
    \cup {OnPage(Blank(l), p[1], p[2]) : p \in Pages}
    \cup {Malformed}

Lists == {"products", "catalog", "orders", "points", "notifications", "teachers",
          "options", "boundUsers", "teacherDetail", "sales", "resigns", "diagnoses",
          "adminUsers", "events", "eventDetail", "overview", "alerts", "modules",
          "moduleOptions", "items"}

\* Every list as it stands, with every request.
Still(l) ==
    [name |-> "still", list |-> l, tables |-> {Rows(l, 3)}, rows |-> {},
     writes |-> 0, faults |-> 0, inners |-> {Optional}, debugs |-> {TRUE}]

\* A list that is paged through, or an overview, while rows come, change and go.
Busy(name, l, n, put, w) ==
    [Still(l) EXCEPT !.name = name, !.tables = {Rows(l, n)}, !.rows = put, !.writes = w]
WithFault(s) == [s EXCEPT !.faults = 1]
\* A driver without the interfaces that take a context.
OlderDriver(s) == [s EXCEPT !.inners = {{}}, !.debugs = BOOLEAN]

MCScopes ==
    {Still(l) : l \in Lists} \cup
    {Busy("scan", "orders", 3, {Row("orders", 2)}, 1),
     Busy("twice", "orders", 1, {Row("orders", 2)}, 2),
     WithFault(Busy("faults", "orders", 2, {}, 1)),
     OlderDriver(WithFault(Busy("older", "orders", 1, {}, 1))),
     Busy("sorted", "items", 3, {Row("items", 3)}, 1),
     Busy("counted", "overview", 3, {}, 1)}

MCRequests(s) ==
    CASE s.name = "still" -> AllRequests(s.list)
      [] s.list = "orders" ->
            {OnPage([Blank("orders") EXCEPT !.product_name = <<"product_name">>], 1, 1)}
      [] s.name = "sorted" -> {OnPage(Blank("items"), 1, 2)}
      [] s.name = "counted" -> {OnPage(Blank("overview"), 1, 1)}
===============================================================================
