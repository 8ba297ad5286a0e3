--------------------------- MODULE MCDatadogCatalog ---------------------------
(* Small instances of DatadogCatalog. *)
EXTENDS DatadogCatalog

\* Two accounts, and secrets of another type or without a key.
SmallSecrets ==
    {[type |-> "datadog", account |-> a, api_key |-> TRUE, app_key |-> TRUE] : a \in {1, 2}}
    \cup {[type |-> "other", account |-> 1, api_key |-> TRUE, app_key |-> TRUE],
          [type |-> "datadog", account |-> 1, api_key |-> TRUE, app_key |-> FALSE]}

\* Two names that differ by case, in both orders and repeated.
SmallListings == {<<>>, <<"main", "Main">>, <<"Main", "main", "Main">>}
FoldMain == [name \in {"main", "Main", "MAIN"} |-> "main"]
================================================================================
