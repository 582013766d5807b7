----------------------------- MODULE MCTelescope -----------------------------
(***************************************************************************)
(* Small instances of the telescope for TLC: two shards, a source address  *)
(* routed to each, and packets chosen so that they meet in the targets and *)
(* in the scheduled resets.                                                *)
(***************************************************************************)
EXTENDS Telescope

MCLastByte == [a |-> 16, b |-> 33]
MCShardId == [s \in 0..1 |-> s + 7]

Tcp(host, port, flags, scanner) ==
  [proto |-> "tcp", flags |-> flags, saddr |-> host, sport |-> port,
   scanner |-> scanner]
Other(host, proto, flags) ==
  [proto |-> proto, flags |-> flags, saddr |-> host, sport |-> 1,
   scanner |-> FALSE]

(* Host a probes as a scanner and then as a client with two ports. *)
MCHandshakes ==
  {Tcp("a", 1, {"syn"}, TRUE), Tcp("a", 1, {"syn"}, FALSE),
   Tcp("a", 1, {"ack"}, FALSE), Tcp("a", 2, {"ack"}, FALSE),
   Tcp("b", 1, {"syn"}, FALSE)}

(* All the other kinds of packets, one of each. *)
MCMixture ==
  {Tcp("a", 1, {"syn"}, TRUE), Tcp("a", 1, {"ack"}, TRUE),
   Tcp("a", 1, {"fin"}, FALSE), Other("b", "udp", {}), Other("b", "icmp", {}),
   Other("a", "icmp", {"echo_reply"})}

MCPackets == MCHandshakes \cup MCMixture
AllProtocols == {{"tcp", "udp", "icmp"}}
SomeDisabled == {{"tcp", "udp", "icmp"}, {"tcp"}}
=============================================================================
