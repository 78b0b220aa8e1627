------------------------------- MODULE MCTunnel -----------------------------
(* Tunnel with one flow and two queries.  Flows share nothing but the      *)
(* WaitGroup, so one flow meets everything a flow can meet; two queries    *)
(* are the least that share the relay.  A flow and the relay share the     *)
(* WaitGroup only, so a flow need not meet both queries.  MCSpec starts in *)
(* two states that Spec reaches: before a flow, with one query to come and *)
(* the others gone unread, and before all queries, with the flow gone.     *)
EXTENDS Tunnel

LastQuery == CHOOSE q \in Queries : TRUE

MCInit ==
    /\ tunnel = "running"
    /\ \/ /\ flow = [f \in Flows |-> At("none")] /\ conn = [f \in Flows |-> "none"]
          /\ query = [q \in Queries |-> IF q = LastQuery THEN At("none") ELSE At("done")]
       \/ /\ flow = [f \in Flows |-> At("returned")] /\ conn = [f \in Flows |-> "closed"]
          /\ query = [q \in Queries |-> At("none")]
    /\ relay = FreshRelay
    /\ answer = [q \in Queries |-> Nothing] /\ reopenFailed = FALSE
    /\ done = [f \in Flows |-> FALSE]
    /\ up = [f \in Flows |-> Off] /\ down = [f \in Flows |-> Off]
    /\ queue = [f \in Flows |-> << >>] /\ received = [f \in Flows |-> << >>]
    /\ target = [f \in Flows |-> [result |-> "none", sent |-> 0]]
    /\ link = [f \in Flows |-> [at |-> "off", reread |-> FALSE, late |-> FALSE]]

MCSpec == MCInit /\ [][Next]_vars /\ Fairness
=============================================================================
