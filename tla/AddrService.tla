----------------------------- MODULE AddrService -----------------------------
(***************************************************************************)
(* What an application may rely on when it calls ip_config()               *)
(* (src/src/net/ipconfig.c): how the address of the host can change, and   *)
(* what the address is when the call returns.  No server, message, timer   *)
(* or interrupt appears here; IpConfig is shown to implement this module.  *)
(***************************************************************************)
CONSTANTS Addr,     \* host addresses
          NONE      \* INADDR_NONE, "no address"

VARIABLES addr,     \* the address of the host, my_ip
          busy,     \* a call of ip_config() is running
          result    \* how the last call ended, "none" while one runs

vars == <<addr, busy, result>>

Results == {"none", "leased", "static", "failed", "nodev", "openfail", "reserved"}

Init == addr = NONE /\ busy = FALSE /\ result = "none"

(* The call starts; it may install the address it was given. *)
Call == /\ ~busy /\ busy' = TRUE
        /\ addr' \in Addr \cup {NONE}
        /\ result' = "none"

(* Only while a call is running may the network change the address. *)
Learn == /\ busy /\ busy' = TRUE
         /\ addr' \in Addr \cup {NONE}
         /\ UNCHANGED result

(* A successful call leaves an address behind and a failed autoconfiguration *)
(* leaves none; the other errors do not touch it.                            *)
Return == /\ busy /\ busy' = FALSE
          /\ result' \in Results \ {"none"}
          /\ result' \in {"leased", "static"} => addr' # NONE
          /\ IF result' = "failed" THEN addr' = NONE ELSE addr' = addr

Next == Call \/ Learn \/ Return

Spec == Init /\ [][Next]_vars
=============================================================================
