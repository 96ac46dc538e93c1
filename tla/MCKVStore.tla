----------------------------- MODULE MCKVStore -----------------------------
(***************************************************************************)
(* KVStore with applications that do at most Fuel puts and gets together,  *)
(* any of them on any node in any order.                                   *)
(***************************************************************************)
EXTENDS KVStore

CONSTANTS k0, k1, Fuel

\* One key at node 0 and one at node 1; a third node, if there is one, has none.
MCKeys == {k0, k1}
MCHome == [k \in MCKeys |-> IF k = k0 THEN 0 ELSE 1]

\* How many puts and gets the applications may still start.
VARIABLE fuel

mcVars == <<vars, fuel>>

Access(n) ==
  /\ fuel > 0
  /\ \/ \E k \in Keys, d \in Data : Put(n, k, d)
     \/ \E k \in Keys : GetLocal(n, k) \/ GetRemote(n, k)
  /\ fuel' = fuel - 1

Free(action) == action /\ UNCHANGED fuel

\* The whole life of the nodes.  Ending run_() costs no fuel: an application can
\* always end.
LifeInit == Init /\ fuel = Fuel

LifeNext ==
  \E n \in Nodes :
    Access(n) \/ Free(StopAll(n)) \/ Free(FinishRun(n)) \/ Free(Background(n))

LifeSpec == LifeInit /\ [][LifeNext]_mcVars /\ Fairness

\* All applications have started and none ends: the traffic between them.
BusyInit ==
  /\ phase = [n \in Nodes |-> "run"]
  /\ running = [n \in Nodes |-> TRUE]
  /\ queues = [n \in Nodes |-> <<>>]
  /\ store = [n \in Nodes |-> [k \in Keys |-> Nil]]
  /\ cur = [n \in Nodes |-> Nil]
  /\ repliers = {}
  /\ want = [n \in Nodes |-> Nil]
  /\ got = [n \in Nodes |-> Nil]
  /\ toKill = [n \in Nodes |-> {}]
  /\ fuel = Fuel

BusyNext == \E n \in Nodes : Access(n) \/ Free(Background(n))

BusySpec == BusyInit /\ [][BusyNext]_mcVars

=============================================================================
