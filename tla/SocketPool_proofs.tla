-------------------------- MODULE SocketPool_proofs --------------------------
(***************************************************************************)
(* Proof, for any number of objects and any size of the table, that every  *)
(* object keeps its own traffic and that no socket or packet is forgotten. *)
(*                                                                         *)
(* Neither property is inductive.  PoolInv adds why an index may be kept:  *)
(* an open object's entry holds that object's socket (or, once "clear all" *)
(* has begun, nothing), no two entries hold the same socket, and an entry  *)
(* is in use, and has a packet, only with a socket.                        *)
(***************************************************************************)
EXTENDS SocketPool, TLAPS

Entries ==
    \A i \in Slots :
        /\ table[i].inUse <=> table[i].handle # None
        /\ table[i].packet \in {None, table[i].handle}

Apart ==
    \A i, j \in Slots :
        table[i].handle = table[j].handle /\ table[i].handle # None => i = j

Owned ==
    \A o \in Objects :
        state[o] = "open" =>
            /\ sock[o] \in Slots
            /\ table[sock[o]].handle = o
               \/ (clearing /\ table[sock[o]].handle = None)

Fresh == \A o \in Objects : state[o] = "none" => o \notin osOpen

Answered == \A a \in answers : a[1] = a[2]

Unloaded == ~loaded => table = FreshTable

(* NoneLeaked, element by element. *)
Reached ==
    /\ \A x : x \in osOpen <=>
                  x # None /\ \E i \in Slots : table[i].handle = x
    /\ \A x : x \in heap <=>
                  x # None /\ \E i \in Slots : table[i].packet = x

PoolInv ==
    /\ TypeOK
    /\ Entries /\ Apart /\ Owned /\ Fresh /\ Answered /\ Unloaded /\ Reached
    /\ OwnTraffic

-----------------------------------------------------------------------------
(* A call finds the table as it was left, also after an unloading. *)
LEMMA TableAsLeft == PoolInv => Table = table
  BY DEF PoolInv, Unloaded, Table

LEMMA FreeFields ==
    FreeEntry.handle = None /\ ~FreeEntry.inUse /\ FreeEntry.packet = None
  BY DEF FreeEntry

LEMMA ReachedIsHeld == Reached => NoneLeaked
<1> SUFFICES ASSUME Reached PROVE NoneLeaked
  OBVIOUS
<1>1. osOpen = Held("handle")
  BY DEF Reached, Held
<1>2. heap = Held("packet")
  BY DEF Reached, Held
<1> QED
  BY <1>1, <1>2 DEF NoneLeaked

LEMMA InitPool == Init => PoolInv
<1> SUFFICES ASSUME Init PROVE PoolInv
  OBVIOUS
<1>1. \A i \in Slots : table[i] = FreeEntry
  BY DEF Init, FreshTable
<1>2. TypeOK
  BY PoolAssumption DEF Init, FreshTable, FreeEntry, TypeOK, Entry, States
<1>3. \A i \in Slots : /\ table[i].handle = None
                        /\ ~table[i].inUse
                        /\ table[i].packet = None
  BY <1>1, FreeFields
<1>5. Entries /\ Apart
  BY <1>3, Zenon DEF Entries, Apart
<1>6. Reached
  BY <1>3 DEF Init, Reached
<1>4. Owned /\ Fresh /\ Answered /\ Unloaded /\ OwnTraffic
  BY DEF Init, Owned, Fresh, Answered, Unloaded, OwnTraffic
<1> QED
  BY <1>2, <1>4, <1>5, <1>6 DEF PoolInv

(* init_socket() takes an entry that holds nothing, for a new socket. *)
LEMMA TakesFree ==
    ASSUME PoolInv, NEW o \in Objects, NEW i \in 1 .. NumSlots + 1,
           state[o] = "none", InitSocket(o, i), loaded' = TRUE,
           UNCHANGED <<heap, answers, misled, clearing>>
    PROVE  /\ i \in Slots
           /\ table' = [table EXCEPT ![i] = [handle |-> o, inUse |-> TRUE,
                                             packet |-> None]]
           /\ table[i].handle = None
           /\ \A j \in Slots : table[j].handle # o
           /\ table' \in [Slots -> Entry]
           /\ Entries' /\ Apart' /\ Answered' /\ Unloaded' /\ Reached'
<1> USE DEF PoolInv
<1>1. Table = table
  BY TableAsLeft
<1>2. i \in Slots
  BY PoolAssumption DEF InitSocket, Found, Slots
<1>3. /\ ~table[i].inUse
      /\ table[i] \in Entry
  BY <1>1, <1>2 DEF InitSocket, LoopEnds, IsFree, TypeOK
<1>4. table[i].handle = None /\ table[i].packet = None
  BY <1>2, <1>3 DEF Entries, TypeOK, Entry
<1>5. table' = [table EXCEPT ![i] = [handle |-> o, inUse |-> TRUE,
                                     packet |-> None]]
  BY <1>1, <1>2, <1>3, <1>4 DEF InitSocket, TypeOK, Entry
<1>6. o \notin osOpen
  BY DEF Fresh
<1>7. \A j \in Slots : table[j].handle # o
  BY <1>6, PoolAssumption DEF Reached
<1>8. \A j \in Slots :
          table'[j] = IF j = i THEN [handle |-> o, inUse |-> TRUE,
                                     packet |-> None] ELSE table[j]
  BY <1>5 DEF TypeOK
<1>9. table' \in [Slots -> Entry]
  BY <1>5 DEF TypeOK, Entry
<1>10. Entries' /\ Apart'
  <2>1. \A j \in Slots :
            /\ j = i => /\ table'[j].handle = o
                        /\ table'[j].inUse
                        /\ table'[j].packet = None
            /\ j # i => table'[j] = table[j]
    BY <1>8
  <2>2. Entries'
    BY <2>1, PoolAssumption, Zenon DEF Entries
  <2>3. Apart'
    BY <2>1, <1>7 DEF Apart
  <2> QED
    BY <2>2, <2>3
<1>11. Reached'
  <2>1. osOpen' = osOpen \cup {o}
    BY DEF InitSocket
  <2>2. \A x : x \in osOpen' <=>
                   x # None /\ \E j \in Slots : table'[j].handle = x
    BY <2>1, <1>2, <1>4, <1>8, PoolAssumption DEF Reached
  <2>3. \A x : x \in heap' <=>
                   x # None /\ \E j \in Slots : table'[j].packet = x
    BY <1>2, <1>4, <1>8 DEF Reached
  <2> QED
    BY <2>2, <2>3 DEF Reached
<1>12. Answered' /\ Unloaded'
  BY DEF Answered, Unloaded
<1> QED
  BY <1>2, <1>4, <1>5, <1>7, <1>9, <1>10, <1>11, <1>12

LEMMA OpenKeeps ==
    ASSUME PoolInv, NEW o \in Objects, Open(o)
    PROVE  PoolInv'
<1> USE DEF PoolInv
<1>1. PICK i \in 1 .. NumSlots + 1 :
          InitSocket(o, i) /\ sock' = [sock EXCEPT ![o] = i]
  BY DEF Open
<1>2. /\ state[o] = "none" /\ loaded' = TRUE
      /\ UNCHANGED <<heap, answers, misled, clearing>>
      /\ state' = [state EXCEPT ![o] = "open"]
      /\ ~clearing
  BY DEF Open, Call, Become
<1>3. /\ i \in Slots
      /\ table' = [table EXCEPT ![i] = [handle |-> o, inUse |-> TRUE,
                                        packet |-> None]]
      /\ table[i].handle = None
      /\ table' \in [Slots -> Entry]
      /\ Entries' /\ Apart' /\ Answered' /\ Unloaded' /\ Reached'
  BY <1>1, <1>2, TakesFree
<1>4. TypeOK'
  BY <1>1, <1>2, <1>3 DEF TypeOK, InitSocket, States
<1>5. Owned'
  BY <1>1, <1>2, <1>3, PoolAssumption DEF Owned, TypeOK
<1>6. Fresh'
  BY <1>1, <1>2 DEF Fresh, TypeOK, InitSocket
<1> QED
  BY <1>2, <1>3, <1>4, <1>5, <1>6 DEF OwnTraffic

LEMMA OpenFailsKeeps ==
    ASSUME PoolInv, NEW o \in Objects, OpenFails(o)
    PROVE  PoolInv'
<1> USE DEF PoolInv
<1>1. /\ state[o] = "none" /\ loaded' = TRUE
      /\ UNCHANGED <<sock, heap, answers, misled, clearing>>
      /\ state' = [state EXCEPT ![o] = "deleted"]
      /\ ~clearing
  BY DEF OpenFails, Call, Become
<1>2. CASE table' = Table /\ UNCHANGED osOpen
  <2>1. table' = table
    BY <1>2, TableAsLeft
  <2>2. TypeOK' /\ Owned' /\ Fresh'
    BY <1>1, <1>2, <2>1 DEF TypeOK, States, Owned, Fresh
  <2>3. Entries' /\ Apart' /\ Answered' /\ Unloaded' /\ Reached'
    BY <1>1, <1>2, <2>1 DEF Entries, Apart, Answered, Unloaded, Reached
  <2> QED
    BY <1>1, <2>2, <2>3 DEF OwnTraffic
<1>3. CASE \E i \in 1 .. NumSlots + 1 : InitSocket(o, i)
  <2>1. PICK i \in 1 .. NumSlots + 1 : InitSocket(o, i)
    BY <1>3
  <2>2. /\ i \in Slots
        /\ table' = [table EXCEPT ![i] = [handle |-> o, inUse |-> TRUE,
                                          packet |-> None]]
        /\ table[i].handle = None
        /\ table' \in [Slots -> Entry]
        /\ Entries' /\ Apart' /\ Answered' /\ Unloaded' /\ Reached'
    BY <1>1, <2>1, TakesFree
  <2>3. TypeOK'
    BY <1>1, <2>1, <2>2 DEF TypeOK, InitSocket, States
  <2>4. Owned'
    BY <1>1, <2>2, PoolAssumption DEF Owned, TypeOK
  <2>5. Fresh'
    BY <1>1, <2>1 DEF Fresh, TypeOK, InitSocket
  <2> QED
    BY <1>1, <2>2, <2>3, <2>4, <2>5 DEF OwnTraffic
<1> QED
  BY <1>2, <1>3 DEF OpenFails

LEMMA SendKeeps ==
    ASSUME PoolInv, NEW o \in Objects, Send(o)
    PROVE  PoolInv'
<1> USE DEF PoolInv
<1>1. /\ table' = table /\ loaded' = TRUE
      /\ UNCHANGED <<clearing, state, sock, osOpen, heap>>
  BY TableAsLeft DEF Send, Call
<1>2. /\ sock[o] \in Slots
      /\ table[sock[o]].handle = o /\ table[sock[o]].inUse
  BY PoolAssumption DEF Send, Owned, Entries
<1>3. answers' = answers \cup {<<o, o>>} /\ misled' = misled
  BY <1>2, TableAsLeft, PoolAssumption DEF Send, SendSocket, TypeOK
<1>4. TypeOK' /\ Answered'
  BY <1>1, <1>3 DEF TypeOK, Answered
<1>5. Entries' /\ Apart' /\ Owned' /\ Fresh' /\ Unloaded' /\ Reached'
  BY <1>1 DEF Entries, Apart, Owned, Fresh, Unloaded, Reached
<1> QED
  BY <1>3, <1>4, <1>5 DEF OwnTraffic

LEMMA ReceiveKeeps ==
    ASSUME PoolInv, NEW o \in Objects, Receive(o)
    PROVE  PoolInv'
<1> USE DEF PoolInv
<1>1. /\ loaded' = TRUE
      /\ UNCHANGED <<clearing, state, sock, osOpen>>
      /\ ReceiveSocket(o, sock[o])
  BY DEF Receive, Call
<1>2. PICK i \in Slots : i = sock[o] /\ table[i].handle = o
  BY DEF Receive, Owned
<1>3. o # None
  BY PoolAssumption
<1>4. answers' \subseteq answers /\ misled' = misled
  BY <1>1, <1>2, TableAsLeft DEF ReceiveSocket, Answered, TypeOK, OwnTraffic
<1>5. \/ table' = table /\ heap' = heap
      \/ /\ table[i].packet = None
         /\ table' = [table EXCEPT ![i].packet = o]
         /\ heap' = heap \cup {o}
  BY <1>1, <1>2, TableAsLeft DEF ReceiveSocket
<1>6. table' \in [Slots -> Entry] /\ heap' \subseteq Objects
  BY <1>5 DEF TypeOK, Entry
<1>7. \A j \in Slots :
          /\ table'[j].handle = table[j].handle
          /\ table'[j].inUse = table[j].inUse
          /\ \/ table'[j].packet = table[j].packet
             \/ j = i /\ table'[j].packet = o
  BY <1>2, <1>5 DEF TypeOK, Entry
<1>8. TypeOK' /\ Answered' /\ OwnTraffic'
  BY <1>1, <1>4, <1>6 DEF TypeOK, Answered, OwnTraffic
<1>9. Entries' /\ Apart'
  BY <1>2, <1>7 DEF Entries, Apart
<1>10. Owned' /\ Fresh' /\ Unloaded'
  BY <1>1, <1>7 DEF Owned, Fresh, Unloaded
<1>11. Reached'
  <2>1. \A x : x \in osOpen' <=>
                   x # None /\ \E j \in Slots : table'[j].handle = x
    BY <1>1, <1>7 DEF Reached
  <2>2. CASE table' = table /\ heap' = heap
    BY <2>1, <2>2 DEF Reached
  <2>3. CASE /\ table[i].packet = None
             /\ table' = [table EXCEPT ![i].packet = o]
             /\ heap' = heap \cup {o}
    <3>1. \A j \in Slots :
              table'[j].packet = IF j = i THEN o ELSE table[j].packet
      BY <2>3 DEF TypeOK, Entry
    <3>2. \A x : x \in heap' <=>
                     x # None /\ \E j \in Slots : table'[j].packet = x
      BY <1>3, <2>3, <3>1 DEF Reached
    <3> QED
      BY <2>1, <3>2 DEF Reached
  <2> QED
    BY <1>5, <2>2, <2>3
<1> QED
  BY <1>8, <1>9, <1>10, <1>11

LEMMA DeleteKeeps ==
    ASSUME PoolInv, NEW o \in Objects, Delete(o)
    PROVE  PoolInv'
<1> USE DEF PoolInv
<1>1. /\ state[o] = "open" /\ loaded' = TRUE
      /\ state' = [state EXCEPT ![o] = "deleted"]
      /\ UNCHANGED <<sock, answers, misled, clearing>>
  BY DEF Delete, Call, Become
<1>2. PICK i \in Slots : i = sock[o]
  BY <1>1 DEF Owned
<1>3. table[i].handle = o \/ table[i].handle = None
  BY <1>1, <1>2 DEF Owned
<1>4. CASE table[i].handle = None
  <2>1. UNCHANGED <<table, osOpen, heap>>
    BY <1>2, <1>4, TableAsLeft DEF Delete
  <2>2. TypeOK' /\ Owned' /\ Fresh'
    BY <1>1, <2>1 DEF TypeOK, States, Owned, Fresh
  <2>3. Entries' /\ Apart' /\ Answered' /\ Unloaded' /\ Reached'
    BY <1>1, <2>1 DEF Entries, Apart, Answered, Unloaded, Reached
  <2> QED
    BY <1>1, <2>2, <2>3 DEF OwnTraffic
<1>5. CASE table[i].handle = o
  <2>1. o # None
    BY PoolAssumption
  <2>2. /\ table' = [table EXCEPT ![i] = FreeEntry]
        /\ osOpen' = osOpen \ {o}
        /\ heap' = heap \ {table[i].packet}
    BY <1>2, <1>5, <2>1, TableAsLeft DEF Delete, CloseSocket
  <2>3. \A j \in Slots : table'[j] = IF j = i THEN FreeEntry ELSE table[j]
    BY <2>2 DEF TypeOK
  <2>4. TypeOK'
    BY <1>1, <2>2 DEF TypeOK, States, Entry, FreeEntry
  <2>5. Entries' /\ Apart'
    <3>1. \A j \in Slots :
              /\ j = i => /\ table'[j].handle = None
                          /\ ~table'[j].inUse
                          /\ table'[j].packet = None
              /\ j # i => table'[j] = table[j]
      BY <2>3, FreeFields
    <3>2. Entries'
      BY <3>1, Zenon DEF Entries
    <3>3. Apart'
      BY <3>1 DEF Apart
    <3> QED
      BY <3>2, <3>3
  <2>6. \A j \in Slots : j # i => table[j].handle # o
    BY <1>5, <2>1 DEF Apart
  <2>7. Owned'
    BY <1>1, <1>5, <2>1, <2>3 DEF Owned, TypeOK, FreeEntry
  <2>8. Fresh' /\ Answered' /\ Unloaded' /\ OwnTraffic'
    BY <1>1, <2>2 DEF Fresh, Answered, Unloaded, OwnTraffic, TypeOK
  <2>9. \A x : x \in osOpen' <=>
                   x # None /\ \E j \in Slots : table'[j].handle = x
    BY <1>5, <2>1, <2>2, <2>3, <2>6 DEF Reached, FreeEntry
  <2>10. \A x : x \in heap' <=>
                    x # None /\ \E j \in Slots : table'[j].packet = x
    <3>1. \A j \in Slots :
              j # i /\ table[j].packet # None =>
                  table[j].packet # table[i].packet
      BY <1>5, <2>6 DEF Entries
    <3> QED
      BY <2>2, <2>3, <3>1 DEF Reached, FreeEntry
  <2> QED
    BY <2>4, <2>5, <2>7, <2>8, <2>9, <2>10 DEF Reached
<1> QED
  BY <1>3, <1>4, <1>5

LEMMA UnloadKeeps ==
    ASSUME PoolInv, Unload
    PROVE  PoolInv'
<1> USE DEF PoolInv
<1>1. PICK live \in SUBSET Slots :
          /\ live = {i \in Slots : table[i].handle # None}
          /\ table' = [i \in Slots |->
                          IF i \in live THEN FreeEntry ELSE table[i]]
          /\ osOpen' = osOpen \ {table[i].handle : i \in live}
          /\ heap' = heap \ {table[i].packet : i \in live}
  BY DEF Unload
<1>2. /\ loaded' = FALSE /\ (clearing \/ Opened = {})
      /\ UNCHANGED <<state, sock, answers, clearing, misled>>
  BY DEF Unload
<1>3. \A i \in Slots : i \notin live => table[i] = FreeEntry
  <2> SUFFICES ASSUME NEW i \in Slots, table[i].handle = None
               PROVE  table[i] = FreeEntry
    BY <1>1
  <2>1. table[i].inUse = FALSE /\ table[i].packet = None
    BY DEF Entries
  <2> QED
    BY <2>1 DEF TypeOK, Entry, FreeEntry
<1>4. table' = FreshTable
  BY <1>1, <1>3 DEF FreshTable
<1>5. osOpen' = {} /\ heap' = {}
  <2>1. osOpen' = {}
    BY <1>1 DEF Reached
  <2>2. \A i \in Slots : table[i].packet # None => i \in live
    BY <1>1 DEF Entries
  <2>3. heap' = {}
    BY <1>1, <2>2 DEF Reached
  <2> QED
    BY <2>1, <2>3
<1>6. \A i \in Slots : table'[i] = FreeEntry
  BY <1>4 DEF FreshTable
<1>7. TypeOK'
  BY <1>2, <1>4, <1>5 DEF TypeOK, FreshTable, FreeEntry, Entry
<1>8. Entries' /\ Apart' /\ Reached'
  <2>1. \A i \in Slots : /\ table'[i].handle = None
                          /\ ~table'[i].inUse
                          /\ table'[i].packet = None
    BY <1>6, FreeFields
  <2>2. Entries' /\ Apart'
    BY <2>1, Zenon DEF Entries, Apart
  <2>3. Reached'
    BY <1>5, <2>1 DEF Reached
  <2> QED
    BY <2>2, <2>3
<1>9. Owned'
  BY <1>2, <1>6 DEF Owned, Opened, FreeEntry
<1>10. Fresh' /\ Answered' /\ Unloaded' /\ OwnTraffic'
  BY <1>2, <1>4, <1>5 DEF Fresh, Answered, Unloaded, OwnTraffic, FreshTable
<1> QED
  BY <1>7, <1>8, <1>9, <1>10

-----------------------------------------------------------------------------
LEMMA PoolStep == PoolInv /\ [Next]_vars => PoolInv'
<1> SUFFICES ASSUME PoolInv, [Next]_vars PROVE PoolInv'
  OBVIOUS
<1>1. ASSUME NEW o \in Objects, Use(o) PROVE PoolInv'
  BY <1>1, OpenKeeps, OpenFailsKeeps, SendKeeps, ReceiveKeeps, DeleteKeeps
     DEF Use
<1>2. CASE ClearAll
  BY <1>2 DEF ClearAll, PoolInv, TypeOK, Entries, Apart, Owned, Fresh,
              Answered, Unloaded, Reached, OwnTraffic, FreshTable
<1>3. CASE ClearedAll
  BY <1>3 DEF ClearedAll, Opened, PoolInv, TypeOK, Entries, Apart, Owned,
              Fresh, Answered, Unloaded, Reached, OwnTraffic, FreshTable
<1>4. CASE Unload
  BY <1>4, UnloadKeeps
<1>5. CASE UNCHANGED vars
  BY <1>5 DEF vars, PoolInv, TypeOK, Entries, Apart, Owned, Fresh,
              Answered, Unloaded, Reached, OwnTraffic, FreshTable
<1> QED
  BY <1>1, <1>2, <1>3, <1>4, <1>5 DEF Next

(* The inductive invariant. *)
THEOREM PoolInvariant == Spec => []PoolInv
  BY InitPool, PoolStep, PTL DEF Spec

(* The state keeps its shape; an index is always within the table. *)
THEOREM TypeCorrect == Spec => []TypeOK
<1>1. PoolInv => TypeOK
  BY DEF PoolInv
<1> QED
  BY <1>1, PoolInvariant, PTL

(* No command is lost to, and no answer taken by, another object: the      *)
(* index a transport keeps is good as long as the object lives.            *)
THEOREM TrafficStaysOwn == Spec => []OwnTraffic
<1>1. PoolInv => OwnTraffic
  BY DEF PoolInv
<1> QED
  BY <1>1, PoolInvariant, PTL

(* The table holds exactly the sockets and packets that exist. *)
THEOREM NothingLeaked == Spec => []NoneLeaked
<1>1. PoolInv => NoneLeaked
  BY ReachedIsHeld DEF PoolInv
<1> QED
  BY <1>1, PoolInvariant, PTL
=============================================================================
