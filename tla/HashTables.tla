------------------------------ MODULE HashTables ------------------------------
(***************************************************************************)
(* The two open-addressing tables of the broker, position by position:     *)
(* the packet-id hash of a client (src/broker/client.h), whose removal     *)
(* shifts entries back, and the client map (src/mem/hashmap.h), whose      *)
(* removal leaves a tombstone.  Module ClientSlot looks an incoming        *)
(* packet id up in the inflight table itself; HashExact says that the hash *)
(* gives the same answer.                                                  *)
(*                                                                         *)
(* The tables are independent: a behaviour exercises one of them.  Which   *)
(* free inflight slot a packet id gets is chosen (the hint of ClientSlot). *)
(***************************************************************************)
EXTENDS Integers, FiniteSets

CONSTANTS
  MaxInflight,  \* entries of an inflight table
  Ids,          \* packet ids of incoming messages
  Slots,        \* client slots, 0 .. max_clients - 1
  ClientHashes, \* hashes of the client ids
  EmptyIdHash,  \* the hash of the client id of length zero
  MapCapacity   \* capacity of the client map

ASSUME InflightAssumption == MaxInflight \in Nat \ {0} /\ Ids \subseteq Nat \ {0}
ASSUME MapAssumption ==
  /\ IsFiniteSet(Slots) /\ Slots \subseteq Nat /\ ClientHashes \subseteq Nat
  /\ EmptyIdHash \in Nat \ ClientHashes
  /\ MapCapacity \in Nat \ {0} /\ MapCapacity >= 2 * Cardinality(Slots)

VARIABLES
  table,      \* the table this behaviour is about
  hot,        \* inflight_hot: state, direction, packet id
  pkt_hash,   \* inflight_pkt_hash
  clients,    \* per slot: connection state and client_id_hash
  entries,    \* the client map's entries
  count       \* and how many are in use

vars == <<table, hot, pkt_hash, clients, entries, count>>

InflightIdx == 0 .. MaxInflight - 1
HashSize    == 2 * MaxInflight
Empty       == -1   \* INFLIGHT_HASH_EMPTY, HASHMAP_EMPTY
Deleted     == -2   \* HASHMAP_DELETED
MapIdx      == 0 .. MapCapacity - 1

FreeHot   == [used |-> FALSE, incoming |-> FALSE, packet_id |-> 0]
NoClient  == [state |-> "FREE", hash |-> Empty]
NoEntry   == [hash |-> 0, value |-> Empty]

Init ==
  /\ table \in {"inflight", "clients"}
  /\ hot = [s \in InflightIdx |-> FreeHot]
  /\ pkt_hash = [p \in 0 .. HashSize - 1 |-> Empty]
  /\ clients = [c \in Slots |-> NoClient]
  /\ entries = [p \in MapIdx |-> NoEntry]
  /\ count = 0

(* Linear probing in a table of n positions: what lies k steps after a position, *)
(* and the first step at which a search stops.                                   *)
Step(p, k, n) == (p + k) % n
First(S) == CHOOSE k \in S : \A j \in S : k <= j

-------------------------------------------------------------------------------
(* The packet-id hash.                                                         *)

(* inflight_hash_insert *)
HashInsert(h, id, s) ==
  LET gaps == {k \in 0 .. HashSize - 1 : h[Step(id, k, HashSize)] = Empty}
  IN  IF gaps = {} THEN h ELSE [h EXCEPT ![Step(id, First(gaps), HashSize)] = s]

(* Where the search for a packet id ends: at the id, or at a gap. *)
Ends(h, id) ==
  {k \in 0 .. HashSize - 1 : LET s == h[Step(id, k, HashSize)]
                             IN  s = Empty \/ hot[s].packet_id = id}
PositionOf(h, id) == Step(id, First(Ends(h, id)), HashSize)

(* The slow path of client_inflight_find. *)
HashFind(h, id) ==
  IF Ends(h, id) = {} \/ h[PositionOf(h, id)] = Empty THEN {}
  ELSE {s \in {h[PositionOf(h, id)]} : hot[s].used}

(* Fault: the wrap of the table is not considered. *)
ShouldShiftNoWrap(natural, gap, j) == natural <= gap

(* An entry at j moves into the gap unless its natural position lies between. *)
ShouldShift(natural, gap, j) ==
  IF j > gap THEN natural <= gap \/ natural > j
  ELSE natural <= gap /\ natural > j

Shifted(t, j) ==
  IF ShouldShift(hot[t.hash[j]].packet_id % HashSize, t.gap, j)
  THEN [hash |-> [t.hash EXCEPT ![t.gap] = t.hash[j]], gap |-> j] ELSE t

(* inflight_hash_remove: the entries after it, up to the next gap, are shifted. *)
HashRemove(h, id) ==
  IF Ends(h, id) = {} \/ h[PositionOf(h, id)] = Empty THEN h
  ELSE LET p == PositionOf(h, id)
           length == First({k \in 1 .. HashSize : h[Step(p, k, HashSize)] = Empty}) - 1
           t[k \in 0 .. length] == IF k = 0 THEN [hash |-> h, gap |-> p]
                                   ELSE Shifted(t[k - 1], Step(p, k, HashSize))
       IN  [t[length].hash EXCEPT ![t[length].gap] = Empty]

InflightOnly == table = "inflight" /\ UNCHANGED <<table, clients, entries, count>>

(* client_inflight_track_incoming, of an id that is not tracked. *)
TrackIncoming(id, s) ==
  /\ InflightOnly
  /\ ~hot[s].used
  /\ \A x \in InflightIdx : hot[x].used /\ hot[x].incoming => hot[x].packet_id # id
  /\ hot' = [hot EXCEPT ![s] = [used |-> TRUE, incoming |-> TRUE, packet_id |-> id]]
  /\ pkt_hash' = HashInsert(pkt_hash, id, s)

(* client_inflight_alloc: outgoing messages are not entered in the hash. *)
Alloc(s) ==
  /\ InflightOnly
  /\ ~hot[s].used
  /\ hot' = [hot EXCEPT ![s] = [used |-> TRUE, incoming |-> FALSE, packet_id |-> s + 1]]
  /\ UNCHANGED pkt_hash

(* client_inflight_free_slot: the packet id stays behind. *)
FreeSlot(s) ==
  /\ InflightOnly
  /\ hot[s].used
  /\ pkt_hash' = IF hot[s].incoming THEN HashRemove(pkt_hash, hot[s].packet_id) ELSE pkt_hash
  /\ hot' = [hot EXCEPT ![s].used = FALSE]

(* client_inflight_free_all *)
FreeAll ==
  /\ InflightOnly
  /\ \E s \in InflightIdx : hot[s].used
  /\ hot' = [s \in InflightIdx |-> FreeHot]
  /\ pkt_hash' = [p \in DOMAIN pkt_hash |-> Empty]

-------------------------------------------------------------------------------
(* The client map.                                                             *)

(* hashmap_insert, at the first position that is empty or a tombstone. *)
MapFull == count >= (MapCapacity * 3) \div 4
MapInsert(hash, value) ==
  IF MapFull THEN UNCHANGED <<entries, count>>
  ELSE LET gaps == {k \in MapIdx : entries[Step(hash, k, MapCapacity)].value < 0}
       IN  /\ entries' = [entries EXCEPT ![Step(hash, First(gaps), MapCapacity)] =
                            [hash |-> hash, value |-> value]]
           /\ count' = count + 1

(* A search passes tombstones and ends at a gap, or when it has gone round. *)
Reached(hash) ==
  {k \in MapIdx : \A j \in 0..k : entries[Step(hash, j, MapCapacity)].value # Empty}

(* hashmap_find: any slot with the hash, the caller compares the ids. *)
MapFind(hash) ==
  LET hits == {k \in Reached(hash) :
                 LET e == entries[Step(hash, k, MapCapacity)]
                 IN  e.value # Deleted /\ e.hash = hash}
  IN  IF hits = {} THEN Empty ELSE entries[Step(hash, First(hits), MapCapacity)].value

(* Faults: the position is marked empty; or another client's entry is removed. *)
MapRemoveEmpty(hash, value) ==
  LET hits == {k \in Reached(hash) : entries[Step(hash, k, MapCapacity)].value = value}
  IN  /\ entries' = [entries EXCEPT ![Step(hash, First(hits), MapCapacity)].value = Empty]
      /\ count' = count - 1
MapRemoveAny(hash, value) ==
  LET hits == {k \in Reached(hash) : entries[Step(hash, k, MapCapacity)].hash = hash}
  IN  /\ entries' = [entries EXCEPT ![Step(hash, First(hits), MapCapacity)].value = Deleted]
      /\ count' = count - 1

(* hashmap_remove, of a hash and a slot *)
MapRemove(hash, value) ==
  LET hits == {k \in Reached(hash) : entries[Step(hash, k, MapCapacity)]
                                       = [hash |-> hash, value |-> value]}
  IN  IF hits = {} THEN UNCHANGED <<entries, count>>
      ELSE /\ entries' = [entries EXCEPT ![Step(hash, First(hits), MapCapacity)].value = Deleted]
           /\ count' = count - 1

ClientsOnly == table = "clients" /\ UNCHANGED <<table, hot, pkt_hash>>

(* broker_alloc_slot: a connection has no identity before its CONNECT. *)
AllocSlot(c) ==
  /\ ClientsOnly
  /\ clients[c].state = "FREE"
  /\ clients' = [clients EXCEPT ![c] = [state |-> "ACTIVE", hash |-> Empty]]
  /\ UNCHANGED <<entries, count>>

(* broker_set_client_identity, by the first CONNECT.  Two clients may have the  *)
(* same id, and two ids the same hash; an empty id is entered as any other.     *)
SetIdentity(c, hash) ==
  /\ ClientsOnly
  /\ clients[c].state = "ACTIVE" /\ clients[c].hash = Empty
  /\ clients' = [clients EXCEPT ![c].hash = hash]
  /\ MapInsert(hash, c)

(* broker_free_slot: only an id that is not empty is removed. *)
HasId(c) == clients[c].hash \notin {Empty, EmptyIdHash}
FreeClientSlot(c) ==
  /\ ClientsOnly
  /\ clients[c].state = "ACTIVE"
  /\ clients' = [clients EXCEPT ![c] = NoClient]
  /\ IF HasId(c) THEN MapRemove(clients[c].hash, c) ELSE UNCHANGED <<entries, count>>

(* broker_slot_go_dormant: the identity stays; nothing wakes the slot again. *)
GoDormant(c) ==
  /\ ClientsOnly
  /\ clients[c].state = "ACTIVE" /\ clients[c].hash # Empty
  /\ clients' = [clients EXCEPT ![c].state = "DORMANT"]
  /\ UNCHANGED <<entries, count>>

-------------------------------------------------------------------------------
Next ==
  \/ \E s \in InflightIdx : Alloc(s) \/ FreeSlot(s) \/ \E id \in Ids : TrackIncoming(id, s)
  \/ FreeAll
  \/ \E c \in Slots : \/ AllocSlot(c) \/ FreeClientSlot(c) \/ GoDormant(c)
                      \/ \E hash \in ClientHashes \cup {EmptyIdHash} : SetIdentity(c, hash)

Spec == Init /\ [][Next]_vars

-------------------------------------------------------------------------------
(* Properties.                                                                 *)

(* After any sequence of insertions and removals, a packet id is found in the   *)
(* hash exactly when an incoming message has it, in that message's slot; a slot *)
(* is entered once at most; and a gap is left, so that no search for one runs   *)
(* round for ever.                                                              *)
HashExact ==
  /\ \A id \in Ids :
       HashFind(pkt_hash, id) =
         {s \in InflightIdx : hot[s].used /\ hot[s].incoming /\ hot[s].packet_id = id}
  /\ \A p, q \in DOMAIN pkt_hash : pkt_hash[p] # Empty /\ p # q => pkt_hash[p] # pkt_hash[q]
  /\ \E p \in DOMAIN pkt_hash : pkt_hash[p] = Empty

(* The entries of empty ids are never removed: they leave less and less room.   *)
Live == {p \in MapIdx : entries[p].value >= 0}
Leaked == {p \in Live : entries[p].hash = EmptyIdHash}
RoomLeft == Cardinality(Leaked) + Cardinality(Slots) <= (MapCapacity * 3) \div 4

(* The map holds each identity that is not empty at most once, under its slot,  *)
(* and nothing else outlives its connection; while the leaked entries leave     *)
(* room, no insertion fails.                                                    *)
MapExact ==
  /\ count = Cardinality(Live)
  /\ \A p \in Live \ Leaked : clients[entries[p].value].hash = entries[p].hash
  /\ \A p, q \in Live \ Leaked : entries[p] = entries[q] => p = q
  /\ RoomLeft => \A c \in Slots :
       HasId(c) => \E p \in Live : entries[p] = [hash |-> clients[c].hash, value |-> c]

(* Behind any tombstones a client's hash is found while a slot has it. *)
MapFinds ==
  \A hash \in ClientHashes :
    LET owners == {c \in Slots : clients[c].hash = hash}
    IN  IF owners = {} THEN MapFind(hash) = Empty
        ELSE MapFind(hash) \in owners \/ (~RoomLeft /\ MapFind(hash) = Empty)
================================================================================
