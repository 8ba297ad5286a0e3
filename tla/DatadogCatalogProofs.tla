------------------------- MODULE DatadogCatalogProofs -------------------------
(***************************************************************************)
(* Proofs about DatadogCatalog, for any secrets, attachments, lists of     *)
(* indexes and connections.                                                *)
(***************************************************************************)
EXTENDS DatadogCatalog, TLAPS

\* A name that is the name of a table is looked up as that table.
LEMMA LookupIsExact ==
    ASSUME NEW list, NEW i \in Tables(list),
           \A k \in DOMAIN list : k \in Nat \ {0}
    PROVE  LookupEntry(list, list[i]) = i
<1> DEFINE exact == {k \in Tables(list) : list[k] = list[i]}
<1>1. exact = {i}
  <2>1. ASSUME NEW k \in exact PROVE k = i
    <3>1. /\ k \in DOMAIN list /\ i \in DOMAIN list /\ list[k] = list[i]
          /\ \A j \in 1..k - 1 : list[j] # list[k]
          /\ \A j \in 1..i - 1 : list[j] # list[i]
      BY <2>1, Zenon DEF Tables
    <3>2. k \in Nat \ {0} /\ i \in Nat \ {0} BY <3>1
    <3>3. CASE k < i BY <3>1, <3>2, <3>3
    <3>4. CASE i < k BY <3>1, <3>2, <3>4
    <3> QED BY <3>2, <3>3, <3>4
  <2> QED BY <2>1
<1>2. First(exact) = i
  <2>1. i \in Nat BY Zenon DEF Tables
  <2> HIDE DEF exact
  <2> QED BY <1>1, <2>1 DEF First
<1> QED BY <1>1, <1>2 DEF LookupEntry

LEMMA Initially == Init => IInv
BY DEF Init, IInv, TypeOK, SelectionIsPinned, TransactionsAreLive, CatalogAssumption

\* Steps that leave attachments, or transactions, alone.
LEMMA SamePinned ==
    ASSUME SelectionIsPinned, UNCHANGED attachVars
    PROVE  SelectionIsPinned'
BY DEF SelectionIsPinned, attachVars

LEMMA SameTransactions ==
    ASSUME TransactionsAreLive, UNCHANGED transactionVars
    PROVE  TransactionsAreLive'
BY DEF TransactionsAreLive, transactionVars

LEMMA SecretsPreserve ==
    ASSUME IInv, NEW n \in SecretNames,
           DropSecret(n) \/ \E s \in Secrets : CreateSecret(n, s)
    PROVE  IInv'
<1>1. TypeOK'
  BY DEF IInv, TypeOK, DropSecret, CreateSecret, attachVars, transactionVars
<1> QED BY <1>1, SamePinned, SameTransactions DEF IInv, DropSecret, CreateSecret

\* What is selected is a name, and a name that was given selects itself.
LEMMA Selection ==
    ASSUME CatalogAssumption, NEW name \in SecretNames \cup {None},
           NEW n \in GetDatadogCredentials(name)
    PROVE  n \in SecretNames /\ n # None /\ Pinned(name, n) = n
BY DEF GetDatadogCredentials, TryGetDatadogCredentials, Pinned, CatalogAssumption

LEMMA AttachPreserves ==
    ASSUME IInv, NEW d \in Databases, NEW name \in SecretNames \cup {None},
           AttachDiscovering(d, name) \/ \E list \in Listings : AttachExplicit(d, name, list)
    PROVE  IInv'
<1>1. PICK n \in GetDatadogCredentials(name) :
        /\ pc' = [pc EXCEPT ![d] = pc'[d]] /\ pc'[d] \in {"attached", "discovering"}
        /\ secret_name' = [secret_name EXCEPT ![d] = Pinned(name, n)]
        /\ selected' = [selected EXCEPT ![d] = n]
  <2>1. CASE AttachDiscovering(d, name)
    BY <2>1 DEF AttachDiscovering, IInv, TypeOK
  <2>2. CASE \E list \in Listings : AttachExplicit(d, name, list)
    BY <2>2 DEF AttachExplicit, IInv, TypeOK
  <2> QED BY <2>1, <2>2
<1>2. n \in SecretNames /\ n # None /\ Pinned(name, n) = n
  BY Selection, CatalogAssumption
<1>3. TypeOK'
  BY <1>1, <1>2 DEF IInv, TypeOK, AttachDiscovering, AttachExplicit, transactionVars
<1>4. SelectionIsPinned'
  BY <1>1, <1>2 DEF IInv, TypeOK, SelectionIsPinned
<1> QED BY <1>3, <1>4, SameTransactions DEF IInv, AttachDiscovering, AttachExplicit

LEMMA ListPreserves ==
    ASSUME IInv, NEW d \in Databases, NEW list \in Listings, ListLogIndexes(d, list)
    PROVE  IInv'
<1>1. TypeOK' BY DEF IInv, TypeOK, ListLogIndexes, transactionVars
<1>2. SelectionIsPinned' BY DEF IInv, TypeOK, SelectionIsPinned, ListLogIndexes
<1> QED BY <1>1, <1>2, SameTransactions DEF IInv, ListLogIndexes

LEMMA ForgetPreserves ==
    ASSUME IInv, NEW d \in Databases, Forget(d)
    PROVE  IInv'
<1>1. TypeOK' BY DEF IInv, TypeOK, Forget, transactionVars
<1>2. SelectionIsPinned' BY DEF IInv, TypeOK, SelectionIsPinned, Forget
<1> QED BY <1>1, <1>2, SameTransactions DEF IInv, Forget

LEMMA ScanPreserves ==
    ASSUME IInv, NEW d \in Databases, NEW name \in Names, GetScanFunction(d, name)
    PROVE  IInv'
<1>1. TypeOK' BY DEF IInv, TypeOK, GetScanFunction, attachVars, transactionVars
<1> QED BY <1>1, SamePinned, SameTransactions DEF IInv, GetScanFunction

LEMMA StartPreserves ==
    ASSUME IInv, NEW c \in Connections, StartTransaction(c)
    PROVE  IInv'
<1>1. PICK a \in Addresses \ InUse : starting' = [starting EXCEPT ![c] = a]
  BY DEF StartTransaction
<1>2. TypeOK' BY <1>1 DEF IInv, TypeOK, StartTransaction, attachVars
<1>3. TransactionsAreLive'
  BY <1>1 DEF IInv, TypeOK, TransactionsAreLive, InUse, StartTransaction
<1> QED BY <1>2, <1>3, SamePinned DEF IInv, StartTransaction

LEMMA EmplacePreserves ==
    ASSUME IInv, NEW c \in Connections, Emplace(c)
    PROVE  IInv'
<1>1. TypeOK' BY DEF IInv, TypeOK, Emplace, attachVars
<1>2. TransactionsAreLive'
  <2>1. starting[c] # None /\ starting[c] \notin transactions /\ running[c] = None
    BY DEF IInv, TransactionsAreLive, Emplace
  <2>2. /\ running' = [running EXCEPT ![c] = starting[c]]
        /\ starting' = [starting EXCEPT ![c] = None]
        /\ transactions' = transactions \cup {starting[c]}
    BY DEF Emplace
  <2>3. /\ running \in [Connections -> Addresses \cup {None}]
        /\ starting \in [Connections -> Addresses \cup {None}]
    BY DEF IInv, TypeOK
  <2>4. TransactionsAreLive BY DEF IInv
  <2>5. transactions' = {running'[e] : e \in Connections} \ {None}
    BY <2>1, <2>2, <2>3, <2>4 DEF TransactionsAreLive
  <2>6. \A e \in Connections : starting'[e] \notin transactions'
    BY <2>1, <2>2, <2>3, <2>4, CatalogAssumption DEF TransactionsAreLive, CatalogAssumption
  <2>7. \A e, f \in Connections :
            /\ running'[e] = running'[f] /\ running'[e] # None => e = f
            /\ starting'[e] = starting'[f] /\ starting'[e] # None => e = f
            /\ starting'[e] = None \/ running'[e] = None
    <3>1. \A e \in Connections : running[e] # starting[c]
      BY <2>1, <2>4 DEF TransactionsAreLive
    <3> QED BY <2>1, <2>2, <2>3, <2>4, <3>1 DEF TransactionsAreLive
  <2> QED BY <2>5, <2>6, <2>7 DEF TransactionsAreLive
<1> QED BY <1>1, <1>2, SamePinned DEF IInv, Emplace

LEMMA EndPreserves ==
    ASSUME IInv, NEW c \in Connections, EndTransaction(c)
    PROVE  IInv'
<1>1. TypeOK' BY DEF IInv, TypeOK, EndTransaction, attachVars
<1>2. TransactionsAreLive'
  BY DEF IInv, TypeOK, TransactionsAreLive, EndTransaction
<1> QED BY <1>1, <1>2, SamePinned DEF IInv, EndTransaction

LEMMA StepPreserves == IInv /\ [Next]_vars => IInv'
<1> SUFFICES ASSUME IInv, [Next]_vars PROVE IInv'
  OBVIOUS
<1>1. CASE UNCHANGED vars
  BY <1>1, SamePinned, SameTransactions
  DEF vars, IInv, TypeOK, attachVars, transactionVars
<1>2. ASSUME NEW n \in SecretNames, DropSecret(n) \/ \E s \in Secrets : CreateSecret(n, s)
      PROVE IInv'
  BY <1>2, SecretsPreserve
<1>3. ASSUME NEW d \in Databases, Attachment(d) PROVE IInv'
  BY <1>3, AttachPreserves, ListPreserves, ForgetPreserves, ScanPreserves
  DEF Attachment, DiscoveryFails, Detach
<1>4. ASSUME NEW c \in Connections, StartTransaction(c) \/ Emplace(c) \/ EndTransaction(c)
      PROVE IInv'
  BY <1>4, StartPreserves, EmplacePreserves, EndPreserves
<1> QED BY <1>1, <1>2, <1>3, <1>4 DEF Next

\* The invariant: the selection of every attachment is pinned, and the map of
\* the transaction manager holds the transactions that run.
THEOREM Invariance == Spec => []IInv
BY Initially, StepPreserves, PTL DEF Spec

--------------------------------------------------------------------------------
\* Only GetScanFunction binds a plan.
LEMMA PlanStep ==
    ASSUME Next, plan' # plan
    PROVE  \E d \in Databases, name \in Names : GetScanFunction(d, name)
BY DEF Next, Attachment, DropSecret, CreateSecret, AttachDiscovering, AttachExplicit,
       ListLogIndexes, DiscoveryFails, Detach, Forget, StartTransaction, Emplace, EndTransaction

\* Scans use the secret that ATTACH selected.
THEOREM SecretsStaySelected == Spec => ScansUseSelectedSecret
<1> DEFINE Now == secrets[selected[plan'.database]]
           Uses == plan' # plan =>
                Now # None /\ plan'.credentials = Now /\ Now.api_key /\ Now.app_key
<1>1. ASSUME IInv, Next PROVE Uses
  <2> SUFFICES ASSUME plan' # plan
               PROVE  Now # None /\ plan'.credentials = Now /\ Now.api_key /\ Now.app_key
    OBVIOUS
  <2>1. PICK d \in Databases, name \in Names : GetScanFunction(d, name)
    BY <1>1, PlanStep
  <2>2. PICK n \in GetDatadogCredentials(secret_name[d]) :
            plan' = [database |-> d, name |-> name, credentials |-> secrets[n],
                     index |-> indexes[d][LookupEntry(indexes[d], name)]]
    BY <2>1 DEF GetScanFunction
  <2>3. selected[d] = n
    BY <1>1, <2>1, <2>2
    DEF IInv, SelectionIsPinned, GetScanFunction, GetDatadogCredentials, TryGetDatadogCredentials
  <2> QED BY <2>2, <2>3 DEF GetDatadogCredentials, TryGetDatadogCredentials
<1>2. IInv /\ [Next]_vars => [Uses]_vars
  BY <1>1
<1> QED BY <1>2, Invariance, PTL DEF Spec, ScansUseSelectedSecret

\* Every transaction that runs is in the manager's map, under its own address.
THEOREM TransactionsStayLive == Spec => []TransactionsAreLive
<1>1. IInv => TransactionsAreLive
  BY DEF IInv
<1> QED BY <1>1, Invariance, PTL

\* Every table of an attachment is read under the name of its index.
THEOREM IndexesAreReachable == Spec => ScansReadTheirIndex
<1> DEFINE Reads ==
        plan' # plan =>
            LET list == indexes[plan'.database] IN
                \A i \in Tables(list) : list[i] = plan'.name => plan'.index = plan'.name
<1>1. ASSUME IInv, Next PROVE Reads
  <2> SUFFICES ASSUME plan' # plan, NEW i \in Tables(indexes[plan'.database]),
                      indexes[plan'.database][i] = plan'.name
               PROVE  plan'.index = plan'.name
    OBVIOUS
  <2>1. PICK d \in Databases, name \in Names : GetScanFunction(d, name)
    BY <1>1, PlanStep
  <2>2. /\ plan'.database = d /\ plan'.name = name
        /\ plan'.index = indexes[d][LookupEntry(indexes[d], name)]
    BY <2>1 DEF GetScanFunction
  <2>3. Listings \subseteq Seq(Names)
    BY CatalogAssumption DEF CatalogAssumption
  <2>4. \A k \in DOMAIN indexes[d] : k \in Nat \ {0}
    <3>1. CASE indexes[d] \in Listings BY <2>3, <3>1
    <3>2. CASE indexes[d] = <<>> BY <3>2
    <3> QED BY <1>1, <3>1, <3>2 DEF IInv, TypeOK
  <2>5. LookupEntry(indexes[d], indexes[d][i]) = i
    BY <2>2, <2>4, LookupIsExact
  <2> QED BY <2>2, <2>5
<1>2. IInv /\ [Next]_vars => [Reads]_vars
  BY <1>1
<1> QED BY <1>2, Invariance, PTL DEF Spec, ScansReadTheirIndex
================================================================================
