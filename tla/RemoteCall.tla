----------------------------- MODULE RemoteCall -----------------------------
(* What gem_rpc_call() promises an application, whatever happens to the      *)
(* connection: the server carries a call out at most once, a call that       *)
(* returns success returns what the server answered to that very call, and   *)
(* every call returns.                                                       *)
EXTENDS Naturals

CONSTANTS Calls

VARIABLES calls,     \* how far each call is
          served     \* how often the server has carried it out

Init ==
    /\ calls = [i \in Calls |-> "new"]
    /\ served = [i \in Calls |-> 0]

Ask(i) ==
    /\ calls[i] = "new"
    /\ calls' = [calls EXCEPT ![i] = "asked"]
    /\ UNCHANGED served

\* The server may carry out a call whose caller has given up.
Serve(i) ==
    /\ calls[i] \in {"asked", "failed"}
    /\ served[i] = 0
    /\ served' = [served EXCEPT ![i] = 1]
    /\ UNCHANGED calls

Answer(i) ==
    /\ calls[i] = "asked"
    /\ served[i] = 1
    /\ calls' = [calls EXCEPT ![i] = "answered"]
    /\ UNCHANGED served

\* A connection that is lost takes the calls that wait on it with it, a call
\* and the one made from its call-back.
Fail(S) ==
    /\ S # {}
    /\ \A i \in S : calls[i] = "asked"
    /\ calls' = [i \in Calls |-> IF i \in S THEN "failed" ELSE calls[i]]
    /\ UNCHANGED served

Next ==
    \/ \E i \in Calls : Ask(i) \/ Serve(i) \/ Answer(i)
    \/ \E S \in SUBSET Calls : Fail(S)

Spec == Init /\ [][Next]_<<calls, served>>

EveryCallReturns ==
    \A i \in Calls : calls[i] = "asked" ~> calls[i] \in {"answered", "failed"}
=============================================================================
