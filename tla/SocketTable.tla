----------------------------- MODULE SocketTable -----------------------------
(***************************************************************************)
(* What an application may rely on when it uses several sockets: a call    *)
(* changes the socket it is made on and no other one; type, protocol and,  *)
(* once there is one, the source port stay until the socket is closed.     *)
(***************************************************************************)
CONSTANTS Sock, CLOSED

VARIABLE table   \* for every socket type, protocol, port and peer, or CLOSED

Open(s) == table[s] # CLOSED

Init == table = [s \in Sock |-> CLOSED]

Others(s) == \A t \in Sock \ {s} : table'[t] = table[t]

Create(s) == ~Open(s) /\ Open(s)' /\ table'[s].port = 0 /\ Others(s)

Use(s) ==
  /\ Open(s) /\ Open(s)' /\ Others(s)
  /\ table'[s].type = table[s].type /\ table'[s].protocol = table[s].protocol
  /\ table[s].port # 0 => table'[s].port = table[s].port

Close(s) == Open(s) /\ ~Open(s)' /\ Others(s)

Next == \E s \in Sock : Create(s) \/ Use(s) \/ Close(s)

Spec == Init /\ [][Next]_table
=============================================================================
