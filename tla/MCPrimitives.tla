----------------------------- MODULE MCPrimitives -----------------------------
(***************************************************************************)
(* The building blocks of the stack on small instances: the buffer queues  *)
(* of NbQueue step by step, and the functions of Inet, which have no       *)
(* state, on one input per initial state.                                  *)
(***************************************************************************)
EXTENDS NbQueue, Inet

CONSTANTS Bytes, MaxBytes,   \* bound: the messages
          Octets             \* bound: the octets of addresses

ASSUME PrimitivesAssumption ==
  Bytes \subseteq Byte /\ MaxBytes \in Nat /\ Octets \subseteq Byte

VARIABLE input

Message == [kind : {"message"}, of : BoundedSeq(Bytes, MaxBytes)]
Address == [kind : {"address"}, of : [1 .. 4 -> Octets]]
Length  == [kind : {"length"}, of : 20 .. 1500]

MCInit == Init /\ input \in {[kind |-> "none"]} \cup Message \cup Address \cup Length

MCNext ==
  \/ input.kind = "none" /\ Next /\ UNCHANGED input
  \/ input.kind # "none" /\ UNCHANGED <<vars, input>>

MCSpec ==
  MCInit /\ [][MCNext]_<<vars, input>> /\ \A q \in Queue : WF_vars(ClearLoop(q))

-----------------------------------------------------------------------------
(* in_checksum() adds little-endian words and must still store the bytes of   *)
(* the RFC's checksum, odd lengths included; a message it was filled in       *)
(* verifies with 0, and no longer once any one byte is changed.               *)
ChecksumRight ==
  input.kind = "message" =>
    LET buf == input.of  msg == ChecksumFilled(buf) IN
    /\ in_checksum(buf) = htons(Rfc1071(buf))
    /\ Len(buf) >= 4 =>
         /\ in_checksum(msg) = 0
         /\ \A i \in 1 .. Len(buf) : \A v \in Bytes \ {msg[i]} :
              in_checksum([msg EXCEPT ![i] = v]) # 0

(* inet_addr() puts the octets of a dotted address into memory in the order   *)
(* in which they are written, however many digits each has, so that the byte  *)
(* inet_class_determine() looks at is the first one and decides the class as  *)
(* RFC 791 does.                                                              *)
AddrRight ==
  input.kind = "address" =>
    LET ip == inet_addr(Text(input.of)) IN
    ip = input.of /\ inet_class_determine(ip).class = Rfc791(input.of[1])

(* Both length tests compare a length in the wrong byte order (ip.c:47,       *)
(* ipconfig.c:129).  What they refuse for that is no more than this: IP       *)
(* datagrams of a multiple of 256 bytes; DHCP replies, whose options begin    *)
(* after 244 bytes, with a UDP length whose low byte is 0 or above 128.       *)
LengthTests ==
  input.kind = "length" =>
    LET n == input.of IN
    /\ n % 256 # 0 => ip_len_ok(n + 18, n)
    /\ n >= 248 /\ n % 256 \in 1 .. 128 => dhcp_opt_len(n) >= 4
=============================================================================
