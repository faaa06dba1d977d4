----------------------------- MODULE Subscriptions -----------------------------
(***************************************************************************)
(* What the topic trie promises: every session holds a set of topic        *)
(* filters, which changes by one filter at a time and only for the session *)
(* that asked, ends with the session and starts empty.                     *)
(***************************************************************************)
CONSTANTS
  Slots,  \* client slots, one session each
  Keys    \* topic filters

VARIABLES
  sessions,  \* the state of every slot
  held       \* the filters every slot's session holds

vars == <<sessions, held>>

Init ==
  /\ sessions = [c \in Slots |-> "FREE"]
  /\ held = [c \in Slots |-> {}]

Open(c) ==
  /\ sessions[c] = "FREE"
  /\ sessions' = [sessions EXCEPT ![c] = "ACTIVE"]
  /\ held' = held

Subscribe(c, k) ==
  /\ sessions[c] = "ACTIVE"
  /\ held' = [held EXCEPT ![c] = @ \cup {k}]
  /\ UNCHANGED sessions

Unsubscribe(c, k) ==
  /\ sessions[c] = "ACTIVE"
  /\ held' = [held EXCEPT ![c] = @ \ {k}]
  /\ UNCHANGED sessions

Close(c) ==
  /\ sessions[c] = "ACTIVE"
  /\ sessions' = [sessions EXCEPT ![c] = "CLOSING"]
  /\ UNCHANGED held

(* A session that is not clean keeps its filters while it has no connection. *)
End(c, clean) ==
  /\ sessions[c] = "CLOSING"
  /\ sessions' = [sessions EXCEPT ![c] = IF clean THEN "FREE" ELSE "DORMANT"]
  /\ held' = IF clean THEN [held EXCEPT ![c] = {}] ELSE held

Next ==
  \E c \in Slots :
    \/ Open(c) \/ Close(c)
    \/ \E k \in Keys : Subscribe(c, k) \/ Unsubscribe(c, k)
    \/ \E clean \in BOOLEAN : End(c, clean)

Spec == Init /\ [][Next]_vars
===============================================================================
