----------------------------- MODULE MCIpConfig -----------------------------
(***************************************************************************)
(* Instances of IpConfig for TLC: two servers with different options.      *)
(***************************************************************************)
EXTENDS IpConfig, TLC

CONSTANTS s1, s2,          \* servers
          a1, a2,          \* addresses, a1 of class C and a2 of class E
          m1, g1, g2, m2, mc   \* masks and gateways

MCVal == {m1, g1, g2, m2, mc}
MCReserved == {a2}
MCClassMask == [a \in {a1, a2} |-> mc]

(* s1 sends all it has; s2 sends no options, no server identifier and is     *)
(* reached through a relay.                                                  *)
MCPool == (s1 :> {a1}) @@ (s2 :> {a2})
MCOpts == (s1 :> ("mask" :> m1 @@ "router" :> g1 @@ "dns" :> g1))
       @@ (s2 :> ("mask" :> NONE @@ "router" :> NONE @@ "dns" :> NONE))
MCSrvIdOpt == (s1 :> s1) @@ (s2 :> NONE)
MCRelay == (s1 :> NONE) @@ (s2 :> g2)

(* What the two servers send. *)
TwoDhcp == [s \in {s1, s2} |-> {"OFFER", "ACK"}]
Refusing == [s \in {s1, s2} |-> {"OFFER", "ACK", "NAK"}]
BootpOnly == [s \in {s1, s2} |-> {"BOOTP"}]
Mixed == (s1 :> {"OFFER", "ACK", "NAK"}) @@ (s2 :> {"BOOTP"})

(* ip_config() without arguments, and with a mask. *)
NoArgs == [k \in {"mask", "router", "dns"} |-> NULL]
MCCallCfgs == {NoArgs}
MCCallCfgsMask == {NoArgs, [NoArgs EXCEPT !["mask"] = m2]}

(* The safety run has no stray replies, so the xids are alike. *)
XidSymmetry == Permutations(XID)
=============================================================================
