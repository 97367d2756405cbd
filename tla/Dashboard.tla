----------------------------- MODULE Dashboard -----------------------------
(***************************************************************************)
(* The page of public/index.html: calls of refresh() that overlap, each    *)
(* awaiting three answers one after the other, while the server goes on.   *)
(* The server answers a GET between two handlers; the answer may overtake  *)
(* others on its way, and any fetch may fail.                              *)
(*                                                                         *)
(* Rows have the ids 1, 2, ... (LedgerIndexed) and explain the balances    *)
(* (LedgerExplainsBalances), so the number of rows stands for both.        *)
(***************************************************************************)
EXTENDS Integers

CONSTANTS Calls,        \* the calls of refresh() there may be at a time
          PageSize,     \* the 20 of findTop20Transactions()
          None,         \* no answer
          MaxRows, MaxMeshes, MaxLives, MaxFailures   \* bounds, for model checking only

ASSUME DashboardConstants ==
  /\ PageSize \in Nat \ {0}
  /\ MaxRows \in Nat /\ MaxMeshes \in Nat /\ MaxLives \in Nat /\ MaxFailures \in Nat

VARIABLES life,      \* how often the server was started
          rows,      \* how many rows its ledger has
          mesh,      \* how often its phones and claims changed
          awaits,    \* call -> the answer it awaits, or "nothing"
          answer,    \* call -> that answer, when it is on its way
          alone,     \* the running calls that no other call overlapped, a ghost
          shown,     \* what the page shows of each answer
          failures

serverVars == <<life, rows, mesh>>
dashboardVars == <<life, rows, mesh, awaits, answer, alone, shown, failures>>

\* Mutant: slice() before sort().
FindOldest(n) == {id \in 1..n : id <= PageSize}

\* The ids findTop20Transactions() returns of n rows.
FindTop(n) == {id \in 1..n : id > n - PageSize}

\* The answers of /mesh/state, /accounts and /transactions.
Get(path) ==
  CASE path = "mesh"         -> [life |-> life, mesh |-> mesh]
    [] path = "accounts"     -> [life |-> life, rows |-> rows]
    [] path = "transactions" -> [life |-> life, ids |-> FindTop(rows)]

\* Mutants: the rows fetched before the balances, and not fetched at all.
AfterReordered(path) ==
  CASE path = "mesh"         -> "transactions"
    [] path = "transactions" -> "accounts"
    [] path = "accounts"     -> "nothing"

AfterWithoutRows(path) ==
  CASE path = "mesh"         -> "accounts"
    [] path = "accounts"     -> "nothing"
    [] path = "transactions" -> "nothing"

\* What refresh() fetches next.
After(path) ==
  CASE path = "mesh"         -> "accounts"
    [] path = "accounts"     -> "transactions"
    [] path = "transactions" -> "nothing"

DashboardInit ==
  /\ life = 1 /\ rows = 0 /\ mesh = 0
  /\ awaits = [c \in Calls |-> "nothing"] /\ answer = [c \in Calls |-> None]
  /\ alone = {}
  /\ shown = [path \in {"mesh", "accounts", "transactions"} |-> None]
  /\ failures = 0

-----------------------------------------------------------------------------

\* A handler claims a packet and commits its row.
CommitRow ==
  /\ rows < MaxRows /\ rows' = rows + 1
  /\ mesh' = mesh + 1
  /\ UNCHANGED <<life, awaits, answer, alone, shown, failures>>

\* A handler changes what phones hold or what is claimed, and no row.
ChangeMesh ==
  /\ mesh < MaxMeshes /\ mesh' = mesh + 1
  /\ UNCHANGED <<life, rows, awaits, answer, alone, shown, failures>>

\* The server restarts; the page stays open.
RestartServer ==
  /\ life < MaxLives /\ life' = life + 1
  /\ rows' = 0 /\ mesh' = 0
  /\ UNCHANGED <<awaits, answer, alone, shown, failures>>

Running == {c \in Calls : awaits[c] # "nothing"}

\* refresh() is called: by the timer, or by a button once its POST is answered.
Start(c) ==
  /\ c \notin Running
  /\ awaits' = [awaits EXCEPT ![c] = "mesh"]
  /\ alone' = IF Running = {} THEN {c} ELSE {}
  /\ UNCHANGED <<serverVars, answer, shown, failures>>

\* The server's event loop gets to the request of c.
Serve(c) ==
  /\ c \in Running /\ answer[c] = None
  /\ answer' = [answer EXCEPT ![c] = Get(awaits[c])]
  /\ UNCHANGED <<serverVars, awaits, alone, shown, failures>>

\* The answer arrives: it is put on the page, and the next one asked for.
Show(c) ==
  /\ answer[c] # None
  /\ shown' = [shown EXCEPT ![awaits[c]] = answer[c]]
  /\ awaits' = [awaits EXCEPT ![c] = After(awaits[c])]
  /\ answer' = [answer EXCEPT ![c] = None]
  /\ alone' = IF After(awaits[c]) = "nothing" THEN alone \ {c} ELSE alone
  /\ UNCHANGED <<serverVars, failures>>

\* Mutant: a call that is given up on leaves its answer to come.
FailKeepingAnswer(c) ==
  /\ c \in Running
  /\ failures < MaxFailures /\ failures' = failures + 1
  /\ awaits' = [awaits EXCEPT ![c] = "nothing"]
  /\ alone' = alone \ {c}
  /\ UNCHANGED <<serverVars, answer, shown>>

\* The fetch of c fails, before or after the server saw it; the catch ends the call.
Fail(c) ==
  /\ c \in Running
  /\ failures < MaxFailures /\ failures' = failures + 1
  /\ awaits' = [awaits EXCEPT ![c] = "nothing"]
  /\ answer' = [answer EXCEPT ![c] = None]
  /\ alone' = alone \ {c}
  /\ UNCHANGED <<serverVars, shown>>

DashboardNext ==
  \/ CommitRow \/ ChangeMesh \/ RestartServer
  \/ \E c \in Calls : Start(c) \/ Serve(c) \/ Show(c) \/ Fail(c)

DashboardSpec == DashboardInit /\ [][DashboardNext]_dashboardVars

(***************************************************************************)
(* Fairness.  The timer calls refresh() every 3 s for ever, the server     *)
(* gets to every request and answers arrive, but for at most MaxFailures.  *)
(* The server's changes are not promised, and bounded, so they end.        *)
(***************************************************************************)
DashboardFairness ==
  /\ WF_dashboardVars(\E c \in Calls : Start(c))
  /\ \A c \in Calls : WF_dashboardVars(Serve(c)) /\ WF_dashboardVars(Show(c))

FairDashboardSpec == DashboardSpec /\ DashboardFairness

-----------------------------------------------------------------------------

\* Balances the server had, then or now.
WasSo(balances) ==
  /\ balances \in [life : Nat, rows : Nat]
  /\ balances.life <= life
  /\ balances.life = life => balances.rows <= rows

\* Every row the balances include is listed, or a full page of later ones is.
Explains(listing, balances) ==
  listing.life = balances.life =>
    \A id \in 1..balances.rows :
      \/ id \in listing.ids
      \/ \E first \in listing.ids : first > id /\ listing.ids = first..(first + PageSize - 1)

\* The inductive invariant, types included: answers are on their way for running calls
\* only, and a call that runs alone has shown balances no newer than its rows.
DashboardInv ==
  /\ life \in Nat /\ rows \in Nat
  /\ awaits \in [Calls -> {"mesh", "accounts", "transactions", "nothing"}]
  /\ DOMAIN answer = Calls /\ DOMAIN shown = {"mesh", "accounts", "transactions"}
  /\ alone \subseteq Running
  /\ \A c \in alone, d \in Running : c = d
  /\ \A c \in Calls : answer[c] # None =>
       c \in Running /\ (awaits[c] = "accounts" => WasSo(answer[c]))
  /\ \A c \in alone : awaits[c] = "transactions" =>
       /\ WasSo(shown["accounts"])
       /\ answer[c] # None => Explains(answer[c], shown["accounts"])

\* A call of refresh() that ran alone leaves a page on which the listed rows account
\* for the balances, although the ledger went on between the answers: accounts are
\* fetched before transactions.  (Calls that overlap may leave an old listing beside
\* newer balances, until a later call replaces it.)
LoneRefreshIsCoherent ==
  [][\A c \in alone : Show(c) /\ After(awaits[c]) = "nothing"
       => Explains(shown'["transactions"], shown'["accounts"])]_dashboardVars

\* README: "interactive real-time dashboard".  When the server has come to rest, the
\* page shows it for good, whatever answers came late, out of order, from a server
\* that is gone, or not at all.
ShowsServerInTheEnd == <>[](\A path \in DOMAIN shown : shown[path] = Get(path))
=============================================================================
