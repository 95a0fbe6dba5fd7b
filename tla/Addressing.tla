------------------------------ MODULE Addressing ------------------------------
(***************************************************************************)
(* The addresses of the interfaces of the network functions in the subnet  *)
(* of an experiment (genIPs of ips/oai/gen_oai.py), and which of them the  *)
(* charts deploy together.  An address is its number, a subnet the number  *)
(* of its network address; the subnets of pool.json are /27.               *)
(***************************************************************************)
EXTENDS Integers

SubnetSize == 32

Offset ==
  [amf_n2 |-> 0, smf_n4 |-> 1, upf_n3 |-> 2, upf_n4 |-> 3, upf_n6 |-> 4,
   gnb_n2 |-> 5, gnb_n3 |-> 6, du_f1 |-> 7, cu_f1 |-> 8, cu_n2 |-> 9, cu_n3 |-> 10,
   cucp_e1 |-> 11, cucp_n2 |-> 12, cucp_f1 |-> 8, cuup_e1 |-> 14, cuup_n3 |-> 15,
   cuup_f1 |-> 16, trafficserver |-> 17]

Interfaces == DOMAIN Offset

\* Slip: each interface has a pair of addresses.
genIPsInPairs(net) == [i \in Interfaces |-> net + 2 + 2 * Offset[i]]

genIPs(net) == [i \in Interfaces |-> net + 2 + Offset[i]]

Core == {"amf_n2", "smf_n4", "upf_n3", "upf_n4", "upf_n6", "trafficserver"}

\* The three ways to split the radio access network, by the charts there are.
Splits ==
  [gnb  |-> {"gnb_n2", "gnb_n3"},
   cu   |-> {"cu_f1", "cu_n2", "cu_n3", "du_f1"},
   cucp |-> {"cucp_e1", "cucp_n2", "cucp_f1", "cuup_e1", "cuup_n3", "cuup_f1", "du_f1"}]

\* cuHost in the chart of the DU, whatever the central unit is
CuHost == "cu_f1"
CentralF1 == [cu |-> "cu_f1", cucp |-> "cucp_f1"]

\* The interfaces that are deployed together have an address each.
Distinct(net) ==
  \A s \in DOMAIN Splits : \A i, j \in Core \cup Splits[s] :
    genIPs(net)[i] = genIPs(net)[j] => i = j

\* The DU finds the central unit it is deployed with.
F1Connected(net) ==
  \A s \in DOMAIN CentralF1 : genIPs(net)[CuHost] = genIPs(net)[CentralF1[s]]

Addresses(ips) == {ips[i] : i \in Interfaces}
=============================================================================
