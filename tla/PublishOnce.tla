----------------------------- MODULE PublishOnce -----------------------------
(***************************************************************************)
(* What a broker promises a QoS 2 publisher on one connection: a message   *)
(* is passed on to the subscribers at most once however often it is sent,  *)
(* and only messages that were sent are passed on or acknowledged.         *)
(***************************************************************************)
EXTENDS Naturals

CONSTANT Messages

VARIABLES
  sent,       \* messages the publisher has sent, at least once
  forwarded,  \* how often each was handed to the fan-out
  acked       \* messages the publisher was told to have arrived

once_vars == <<sent, forwarded, acked>>

OnceInit == sent = {} /\ forwarded = [m \in Messages |-> 0] /\ acked = {}

Send(m) ==
  /\ m \notin sent
  /\ sent' = sent \cup {m}
  /\ UNCHANGED <<forwarded, acked>>

Forward(m) ==
  /\ m \in sent /\ forwarded[m] = 0
  /\ forwarded' = [forwarded EXCEPT ![m] = 1]
  /\ UNCHANGED <<sent, acked>>

Acknowledge(m) ==
  /\ m \in sent \ acked
  /\ acked' = acked \cup {m}
  /\ UNCHANGED <<sent, forwarded>>

OnceNext == \E m \in Messages : Send(m) \/ Forward(m) \/ Acknowledge(m)
OnceSpec == OnceInit /\ [][OnceNext]_once_vars
================================================================================
