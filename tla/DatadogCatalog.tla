---------------------------- MODULE DatadogCatalog ----------------------------
(***************************************************************************)
(* Attached catalogs: ATTACH 'datadog:' selects a secret and finds out the *)
(* log indexes, once; every query that reads a table of the catalog reads  *)
(* the secret again.  Secrets are created, replaced and dropped meanwhile, *)
(* also while the discovery request of an ATTACH is under way.             *)
(***************************************************************************)
EXTENDS Integers, Sequences

CONSTANTS
    Databases,     \* names of attachments
    SecretNames,
    Secrets,       \* contents of a secret: [type, account, api_key, app_key]
    Listings,      \* lists of index names, given by INDEXES or answered
    Names,         \* index names, and names a query may use
    Fold,          \* a name in lower case
    Connections,
    Addresses,     \* where transactions are allocated
    None

ASSUME CatalogAssumption ==
    /\ \A s \in Secrets : /\ s.type \in {"datadog", "other"}
                          /\ s.api_key \in BOOLEAN /\ s.app_key \in BOOLEAN
    /\ Listings \subseteq Seq(Names) /\ DOMAIN Fold = Names
    /\ None \notin Secrets /\ None \notin SecretNames /\ None \notin Addresses

VARIABLES
    secrets,        \* secret of a name, or None
    pc,             \* "detached", "discovering", "attached"
    secret_name,    \* secret_name, captured by the tables of an attachment
    indexes,        \* the list of indexes it was given or answered
    selected,       \* the secret whose credentials ATTACH used
    plan,           \* the table scan bound last: [database, name, index, credentials]
    starting,       \* of a connection, the transaction it has allocated ...
    running,        \* ... or runs
    transactions    \* the map of the transaction manager

attachVars == <<pc, secret_name, indexes, selected>>
transactionVars == <<starting, running, transactions>>
vars == <<secrets, attachVars, plan, transactionVars>>

Init ==
    /\ secrets = [n \in SecretNames |-> None]
    /\ pc = [d \in Databases |-> "detached"]
    /\ secret_name = [d \in Databases |-> None] /\ selected = [d \in Databases |-> None]
    /\ indexes = [d \in Databases |-> <<>>]
    /\ plan = None
    /\ starting = [c \in Connections |-> None] /\ running = [c \in Connections |-> None]
    /\ transactions = {}

--------------------------------------------------------------------------------
(* Secrets.                                                                *)

CreateSecret(n, s) ==
    /\ secrets' = [secrets EXCEPT ![n] = s]
    /\ UNCHANGED <<attachVars, plan, transactionVars>>

DropSecret(n) ==
    /\ secrets[n] # None
    /\ secrets' = [secrets EXCEPT ![n] = None]
    /\ UNCHANGED <<attachVars, plan, transactionVars>>

\* The secrets that a name selects; without a name, the first of type datadog,
\* which may be any as the order is DuckDB's.
TryGetDatadogCredentials(name) ==
    {n \in SecretNames : /\ secrets[n] # None /\ secrets[n].type = "datadog"
                         /\ name \in {None, n}}

\* Both keys are required.  Otherwise, and if nothing is selected, it throws.
GetDatadogCredentials(name) ==
    {n \in TryGetDatadogCredentials(name) : secrets[n].api_key /\ secrets[n].app_key}

--------------------------------------------------------------------------------
(* The tables of an attachment: positions in its list of indexes.          *)

\* Names that were seen are dropped, by INDEXES as by discovery.
Tables(list) == {i \in DOMAIN list : \A j \in 1..i - 1 : list[j] # list[i]}

First(S) == CHOOSE i \in S : \A j \in S : i <= j

Folded(list, name) == {i \in Tables(list) : Fold[list[i]] = Fold[name]}

\* Mutant: only the case-insensitive lookup.
LookupFolded(list, name) == IF Folded(list, name) = {} THEN 0 ELSE First(Folded(list, name))

\* An exact match first, then DuckDB's case-insensitive one; 0 if neither.
LookupEntry(list, name) ==
    LET exact == {i \in Tables(list) : list[i] = name} IN
    IF exact # {} THEN First(exact)
    ELSE IF Folded(list, name) # {} THEN First(Folded(list, name)) ELSE 0

--------------------------------------------------------------------------------
(* ATTACH.  An option that is not valid, or credentials that are not       *)
(* there, throw before anything else happens.                              *)

\* Mutant: the selection is not pinned.
PinnedAsGiven(name, n) == name

\* An implicit selection is pinned to the secret that it selected.
Pinned(name, n) == IF name = None THEN n ELSE name

AttachExplicit(d, name, list) ==
    /\ pc[d] = "detached"
    /\ \E n \in GetDatadogCredentials(name) :
        /\ pc' = [pc EXCEPT ![d] = "attached"]
        /\ secret_name' = [secret_name EXCEPT ![d] = Pinned(name, n)]
        /\ selected' = [selected EXCEPT ![d] = n]
    /\ indexes' = [indexes EXCEPT ![d] = list]
    /\ UNCHANGED <<secrets, plan, transactionVars>>

AttachDiscovering(d, name) ==
    /\ pc[d] = "detached"
    /\ \E n \in GetDatadogCredentials(name) :
        /\ pc' = [pc EXCEPT ![d] = "discovering"]
        /\ secret_name' = [secret_name EXCEPT ![d] = Pinned(name, n)]
        /\ selected' = [selected EXCEPT ![d] = n]
    /\ UNCHANGED <<secrets, indexes, plan, transactionVars>>

ListLogIndexes(d, list) ==
    /\ pc[d] = "discovering"
    /\ pc' = [pc EXCEPT ![d] = "attached"]
    /\ indexes' = [indexes EXCEPT ![d] = list]
    /\ UNCHANGED <<secrets, secret_name, selected, plan, transactionVars>>

\* Nothing is left of an attachment that ends, or never comes about.
Forget(d) ==
    /\ pc' = [pc EXCEPT ![d] = "detached"]
    /\ secret_name' = [secret_name EXCEPT ![d] = None]
    /\ selected' = [selected EXCEPT ![d] = None]
    /\ indexes' = [indexes EXCEPT ![d] = <<>>]
    /\ UNCHANGED <<secrets, plan, transactionVars>>

\* The request fails, or a name is not a non-empty string.
DiscoveryFails(d) == pc[d] = "discovering" /\ Forget(d)

Detach(d) == pc[d] = "attached" /\ Forget(d)

\* A query names a table: the scan that is bound captures its index and the
\* credentials.
GetScanFunction(d, name) ==
    /\ pc[d] = "attached" /\ LookupEntry(indexes[d], name) # 0
    /\ \E n \in GetDatadogCredentials(secret_name[d]) :
        plan' = [database |-> d, name |-> name, credentials |-> secrets[n],
                 index |-> indexes[d][LookupEntry(indexes[d], name)]]
    /\ UNCHANGED <<secrets, attachVars, transactionVars>>

--------------------------------------------------------------------------------
(* Transactions.  One is allocated before the lock is taken, and freed     *)
(* when it is erased, under the lock.                                      *)

InUse == transactions \cup {starting[c] : c \in Connections}

StartTransaction(c) ==
    /\ starting[c] = None /\ running[c] = None
    /\ \E a \in Addresses \ InUse : starting' = [starting EXCEPT ![c] = a]
    /\ UNCHANGED <<secrets, attachVars, plan, running, transactions>>

Emplace(c) ==
    /\ starting[c] # None
    /\ transactions' = transactions \cup {starting[c]}
    /\ running' = [running EXCEPT ![c] = starting[c]]
    /\ starting' = [starting EXCEPT ![c] = None]
    /\ UNCHANGED <<secrets, attachVars, plan>>

\* Mutant: a transaction that ends is only forgotten.
EndTransactionLeaking(c) ==
    /\ running[c] # None
    /\ running' = [running EXCEPT ![c] = None]
    /\ UNCHANGED <<secrets, attachVars, plan, starting, transactions>>

\* CommitTransaction and RollbackTransaction.
EndTransaction(c) ==
    /\ running[c] # None
    /\ transactions' = transactions \ {running[c]}
    /\ running' = [running EXCEPT ![c] = None]
    /\ UNCHANGED <<secrets, attachVars, plan, starting>>

--------------------------------------------------------------------------------
Attachment(d) ==
    \/ \E name \in SecretNames \cup {None} :
        AttachDiscovering(d, name) \/ \E list \in Listings : AttachExplicit(d, name, list)
    \/ \E list \in Listings : ListLogIndexes(d, list)
    \/ DiscoveryFails(d) \/ Detach(d)
    \/ \E name \in Names : GetScanFunction(d, name)

Next ==
    \/ \E n \in SecretNames : DropSecret(n) \/ \E s \in Secrets : CreateSecret(n, s)
    \/ \E d \in Databases : Attachment(d)
    \/ \E c \in Connections : StartTransaction(c) \/ Emplace(c) \/ EndTransaction(c)

Spec == Init /\ [][Next]_vars

--------------------------------------------------------------------------------
TypeOK ==
    /\ secrets \in [SecretNames -> Secrets \cup {None}]
    /\ pc \in [Databases -> {"detached", "discovering", "attached"}]
    /\ secret_name \in [Databases -> SecretNames \cup {None}]
    /\ selected \in [Databases -> SecretNames \cup {None}]
    /\ indexes \in [Databases -> Listings \cup {<<>>}]
    /\ starting \in [Connections -> Addresses \cup {None}]
    /\ running \in [Connections -> Addresses \cup {None}]
    /\ transactions \subseteq Addresses

(* Properties.                                                             *)

\* "Leaving the name empty would re-run first-secret selection at every table
\* bind and could silently switch accounts": while secrets come and go, what a
\* scan of a catalog is bound with is the secret that its ATTACH selected, as
\* it is now, with both keys; the scan fails if that secret is gone.
ScansUseSelectedSecret ==
    [][ plan' # plan =>
            LET now == secrets[selected[plan'.database]] IN
                now # None /\ plan'.credentials = now /\ now.api_key /\ now.app_key ]_vars

\* "Index names are preserved exactly": every index of an attachment, and not
\* one whose name differs by case, is read by the name it is listed with.
ScansReadTheirIndex ==
    [][ plan' # plan =>
            LET list == indexes[plan'.database] IN
                \A i \in Tables(list) : list[i] = plan'.name => plan'.index = plan'.name ]_vars

\* What attachments and transactions keep: a selection that is pinned, also
\* while the indexes are discovered, and a map of exactly the transactions that
\* run, each at an address of its own.
SelectionIsPinned ==
    \A d \in Databases :
        pc[d] # "detached" => selected[d] # None /\ secret_name[d] = selected[d]

TransactionsAreLive ==
    /\ transactions = {running[c] : c \in Connections} \ {None}
    /\ \A c \in Connections : starting[c] \notin transactions
    /\ \A c, e \in Connections :
        /\ running[c] = running[e] /\ running[c] # None => c = e
        /\ starting[c] = starting[e] /\ starting[c] # None => c = e
        /\ starting[c] = None \/ running[c] = None

IInv == TypeOK /\ SelectionIsPinned /\ TransactionsAreLive
================================================================================
