-------------------------- MODULE DashboardProofs --------------------------
(***************************************************************************)
(* What is proved of the page for any number of calls of refresh() at a    *)
(* time, any page size and any number of rows, restarts and failures.      *)
(***************************************************************************)
EXTENDS Dashboard, TLAPS

\* The list of the n rows there are now explains balances the server had before.
LEMMA ListExplains ==
  ASSUME rows \in Nat, NEW balances, WasSo(balances)
  PROVE  Explains([life |-> life, ids |-> FindTop(rows)], balances)
<1> DEFINE listing == [life |-> life, ids |-> FindTop(rows)]
<1> SUFFICES ASSUME balances.life = life, NEW id \in 1..balances.rows
             PROVE  \/ id \in FindTop(rows)
                    \/ \E first \in FindTop(rows) :
                         first > id /\ FindTop(rows) = first..(first + PageSize - 1)
  BY DEF Explains
<1>1. id \in Nat \ {0} /\ id <= rows /\ PageSize \in Nat \ {0}
  BY DashboardConstants DEF WasSo, DashboardConstants
<1>2. CASE id > rows - PageSize
  BY <1>1, <1>2 DEF FindTop
<1>3. CASE id <= rows - PageSize
  <2> DEFINE first == rows - PageSize + 1
  <2>1. first \in FindTop(rows) /\ first > id
    BY <1>1, <1>3 DEF FindTop
  <2>2. FindTop(rows) = first..(first + PageSize - 1)
    BY <1>1, <1>3 DEF FindTop
  <2> QED
    BY <2>1, <2>2
<1> QED
  BY <1>1, <1>2, <1>3

LEMMA InitDashboardInv == DashboardInit => DashboardInv
BY DEF DashboardInit, DashboardInv, Running

LEMMA ServerKeepsInv ==
  ASSUME DashboardInv, CommitRow \/ ChangeMesh \/ RestartServer
  PROVE  DashboardInv'
<1>1. /\ UNCHANGED <<awaits, answer, alone, shown>>
      /\ life' \in Nat /\ rows' \in Nat
      /\ (life' = life /\ rows <= rows') \/ life' > life
  BY DEF CommitRow, ChangeMesh, RestartServer, DashboardInv
<1>2. \A b : WasSo(b) => WasSo(b)'
  BY <1>1 DEF WasSo, DashboardInv
<1> QED
  BY <1>1, <1>2 DEF DashboardInv, Running, Explains

LEMMA StartKeepsInv ==
  ASSUME DashboardInv, NEW c \in Calls, Start(c)
  PROVE  DashboardInv'
BY DEF Start, serverVars, DashboardInv, Running, Explains, WasSo

LEMMA ServeKeepsInv ==
  ASSUME DashboardInv, NEW c \in Calls, Serve(c)
  PROVE  DashboardInv'
<1>1. /\ UNCHANGED <<life, rows, awaits, alone, shown>> /\ c \in Running
      /\ answer' = [answer EXCEPT ![c] = Get(awaits[c])]
  BY DEF Serve, serverVars
<1>2. awaits[c] = "accounts" => WasSo(Get(awaits[c]))
  BY DEF Get, WasSo, DashboardInv
<1>3. c \in alone /\ awaits[c] = "transactions" => Explains(Get(awaits[c]), shown["accounts"])
  BY ListExplains DEF Get, DashboardInv
<1>4. \A d \in Calls : answer'[d] # None =>
        /\ d \in Running /\ (awaits[d] = "accounts" => WasSo(answer'[d]))
        /\ d \in alone /\ awaits[d] = "transactions" =>
             Explains(answer'[d], shown["accounts"])
  BY <1>1, <1>2, <1>3 DEF DashboardInv
<1> QED
  BY <1>1, <1>4 DEF DashboardInv, Running, WasSo, Explains

LEMMA ShowKeepsInv ==
  ASSUME DashboardInv, NEW c \in Calls, Show(c)
  PROVE  DashboardInv'
<1>1. /\ UNCHANGED <<life, rows>> /\ c \in Running
      /\ shown' = [shown EXCEPT ![awaits[c]] = answer[c]]
      /\ awaits' = [awaits EXCEPT ![c] = After(awaits[c])]
      /\ answer' = [answer EXCEPT ![c] = None]
      /\ alone' = IF After(awaits[c]) = "nothing" THEN alone \ {c} ELSE alone
  BY DEF Show, serverVars, DashboardInv
<1>2. /\ awaits[c] \in {"mesh", "accounts", "transactions"}
      /\ After(awaits[c]) \in {"mesh", "accounts", "transactions", "nothing"}
      /\ After(awaits[c]) = "transactions" => awaits[c] = "accounts"
  BY <1>1 DEF After, Running, DashboardInv
<1>3. ASSUME NEW d \in alone', awaits'[d] = "transactions"
      PROVE  d = c /\ WasSo(shown'["accounts"]) /\ answer'[d] = None
  <2>1. d \in alone /\ c \in Running
    BY <1>1, <1>3
  <2>2. d = c
    BY <2>1 DEF DashboardInv
  <2>3. awaits[c] = "accounts" /\ answer[c] # None
    BY <1>1, <1>2, <1>3, <2>2 DEF DashboardInv, Show
  <2> QED
    BY <1>1, <2>2, <2>3 DEF DashboardInv
<1>4. \A b : WasSo(b)' = WasSo(b)
  BY <1>1 DEF WasSo
<1>5. alone' \subseteq Running' /\ \A d \in alone', e \in Running' : d = e
  BY <1>1, <1>2 DEF DashboardInv, Running
<1>6. \A d \in Calls : answer'[d] # None =>
        d \in Running' /\ (awaits'[d] = "accounts" => WasSo(answer'[d]))
  BY <1>1 DEF DashboardInv, Running
<1> QED
  BY <1>1, <1>2, <1>3, <1>4, <1>5, <1>6 DEF DashboardInv

LEMMA FailKeepsInv ==
  ASSUME DashboardInv, NEW c \in Calls, Fail(c)
  PROVE  DashboardInv'
<1>1. /\ UNCHANGED <<life, rows, shown>>
      /\ awaits' = [awaits EXCEPT ![c] = "nothing"]
      /\ answer' = [answer EXCEPT ![c] = None]
      /\ alone' = alone \ {c}
  BY DEF Fail, serverVars
<1> QED
  BY <1>1 DEF DashboardInv, Running, WasSo, Explains

LEMMA NextKeepsDashboardInv ==
  DashboardInv /\ [DashboardNext]_dashboardVars => DashboardInv'
<1> SUFFICES ASSUME DashboardInv, [DashboardNext]_dashboardVars PROVE DashboardInv'
  OBVIOUS
<1>1. CASE CommitRow \/ ChangeMesh \/ RestartServer
  BY <1>1, ServerKeepsInv
<1>2. CASE \E c \in Calls : Start(c) \/ Serve(c) \/ Show(c) \/ Fail(c)
  BY <1>2, StartKeepsInv, ServeKeepsInv, ShowKeepsInv, FailKeepsInv
<1>3. CASE UNCHANGED dashboardVars
  BY <1>3 DEF dashboardVars, DashboardInv, Running, WasSo, Explains
<1> QED
  BY <1>1, <1>2, <1>3 DEF DashboardNext

\* The invariant of the page holds whatever overlaps, overtakes, restarts and fails.
THEOREM DashboardKeepsItsInvariant == DashboardSpec => []DashboardInv
BY InitDashboardInv, NextKeepsDashboardInv, PTL DEF DashboardSpec

\* A call of refresh() that ran alone leaves rows and balances that belong together,
\* with any number of other calls before and after it.
THEOREM LoneRefreshesAreCoherent == DashboardSpec => LoneRefreshIsCoherent
<1>1. ASSUME DashboardInv, NEW c \in alone, Show(c), After(awaits[c]) = "nothing"
      PROVE  Explains(shown'["transactions"], shown'["accounts"])
  <2>1. /\ c \in Calls /\ c \in Running /\ answer[c] # None
        /\ shown' = [shown EXCEPT ![awaits[c]] = answer[c]]
    BY <1>1 DEF Show, DashboardInv, Running
  <2>2. awaits[c] = "transactions"
    BY <1>1, <2>1 DEF After, Running, DashboardInv
  <2> QED
    BY <1>1, <2>1, <2>2 DEF DashboardInv
<1>2. DashboardInv /\ [DashboardNext]_dashboardVars =>
        [\A c \in alone : Show(c) /\ After(awaits[c]) = "nothing"
           => Explains(shown'["transactions"], shown'["accounts"])]_dashboardVars
  BY <1>1
<1> QED
  BY <1>2, DashboardKeepsItsInvariant, PTL DEF DashboardSpec, LoneRefreshIsCoherent
=============================================================================
