------------------------------- MODULE MCSocket -------------------------------
(***************************************************************************)
(* An instance of Socket: a byte has two values, so that ports 2 and 3 are *)
(* the dynamic ones.                                                       *)
(***************************************************************************)
EXTENDS Socket, TLC

(* Two protocols, one that does not fit the type, and what always fails. *)
MCKinds ==
  {<<"INET", "DGRAM", "0">>, <<"INET", "DGRAM", "ICMP">>, <<"INET", "STREAM", "UDP">>,
   <<"INET", "0", "0">>, <<"UNSPEC", "DGRAM", "UDP">>}

(* A host, any host, and an address that is too short. *)
Host(ip) == [short |-> FALSE, family |-> "INET", ip |-> ip, port |-> 1]
AnyHost == [short |-> FALSE, family |-> "UNSPEC", ip |-> ANY, port |-> 0]
MCSockAddr == {Host(1), AnyHost, [Host(1) EXCEPT !.short = TRUE]}

MCMessage ==
  {[oob |-> FALSE, addr |-> a, len |-> 5] : a \in {Host(1), AnyHost}}
    \cup {[oob |-> o, addr |-> NULL, len |-> 0] : o \in BOOLEAN}

Symmetry == Permutations(Sock)
=============================================================================
