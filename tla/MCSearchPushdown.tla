--------------------------- MODULE MCSearchPushdown ---------------------------
(* A small account: two nanoseconds to a millisecond, times around 1970. *)
EXTENDS SearchPushdown

Words == {<<"x">>, <<"X">>, <<"-", "x">>, <<"*">>}

AllWords == Words \cup {<<"X", "x">>}

Facets(service, status) ==
    [c \in FacetColumns |-> IF c = "service_name" THEN service ELSE status]

Account ==
    {[time |-> t, facets |-> f, other |-> t # 0] : t \in -4..4,
        f \in {Facets(s, <<"x">>) : s \in Words \cup {None}} \cup {Facets(<<"x">>, <<"X", "x">>)}}

\* "*" and "status:x OR service:X".
SomeQueries ==
    LET service == <<"service_name", <<"X">>>>
        status == <<"severity_text", <<"x">>>>
    IN {<<{}>>, <<{status}, {service}>>}

Clauses ==
    [column : {"time"}, op : Operators \ {"=", "<>"}, reversed : BOOLEAN, value : {-3, 1, 2}]
    \cup [column : FacetColumns, op : {"="}, reversed : BOOLEAN, value : Words \cup {None}]
    \cup [column : FacetColumns, op : {"<>"}, reversed : {FALSE}, value : {<<"x">>}]
    \cup {[column |-> "other"]}

Ends == [absolute : BOOLEAN, ms : {-2, 1}]
================================================================================
