-------------------------------- MODULE Node --------------------------------
(***************************************************************************)
(* The parts of a client around the network it is run for: the command     *)
(* line chooses it (Startup), addresses and secrets have its version bytes *)
(* (Addresses), and replies of its server are read meanwhile (Http).       *)
(* A call that selects another network makes what was chosen outdated.     *)
(***************************************************************************)
EXTENDS Startup, Addresses, Http

nodeVars == <<startVars, addrVars, httpVars>>

NodeInit == StartInit /\ AddrInit /\ HttpInit
NodeNext ==
  \/ StartNext /\ UNCHANGED <<class, data, last, httpVars>>
  \/ AddrNext /\ chosen' = (IF network' = network THEN chosen ELSE "not called")
              /\ UNCHANGED <<vars, httpVars>>
  \/ HttpNext /\ UNCHANGED <<startVars, addrVars>>
\* One thread, which waits for nothing, walks through the map of options.
NodeSpec == NodeInit /\ [][NodeNext]_nodeVars
              /\ WF_vars(ExpandEnds \/ \E n \in Names : Expand(n))
=============================================================================
