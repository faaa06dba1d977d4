------------------------------- MODULE MCReceive -------------------------------
(* Instances of Receive for TLC: packets of every size that matters.  With a    *)
(* buffer of 8 bytes and digits in base 4, two at most, PUBLISH 3 takes 5 bytes,*)
(* PUBLISH 5, with two digits, just fits and PUBLISH 6 does not.                *)
EXTENDS Receive

Pkt(type, len) == [type |-> type, len |-> len]
MCPackets == {Pkt("CONNECT", 1), Pkt("PUBLISH", 3), Pkt("PUBLISH", 5), Pkt("PUBLISH", 6),
              Pkt("ACK", 2), Pkt("PINGREQ", 0), Pkt("PINGREQ", VbiBase ^ VbiMaxBytes)}
================================================================================
