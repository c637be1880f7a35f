----------------------------- MODULE SocketPool -----------------------------
(***************************************************************************)
(* The socket table of the MEX transport and the MATLAB objects that hold  *)
(* indices into it.                                                        *)
(*                                                                         *)
(* Each transport object opens a socket once, sends and receives on it and *)
(* closes it when it is deleted.  What it keeps is an index.  The table is *)
(* in the MEX file, which MATLAB may unload: its exit function closes all  *)
(* sockets, and the next call finds a fresh table.  New objects are opened *)
(* before and after old ones are deleted, in any order.                    *)
(*                                                                         *)
(* The user unloads the MEX file only together with the objects ("clear    *)
(* all", which does both, in either order) or while there are none, and    *)
(* leaves it to their deletion to close the transports.                    *)
(*                                                                         *)
(* A socket of the operating system, and the packet structure that         *)
(* receive_socket() allocates, is named by the object it was made for.     *)
(***************************************************************************)
EXTENDS Integers

CONSTANTS
    Objects,        \* transport objects, those to come included
    None,           \* INVALID_SOCKET; no packet
    NumSlots        \* TRANSPORT_MAX_SOCKETS

ASSUME PoolAssumption == None \notin Objects /\ NumSlots \in Nat

Slots == 1 .. NumSlots

VARIABLES
    loaded,         \* the MEX file is loaded and initialized
    table,          \* sockets[]
    state,          \* what has become of each object
    sock,           \* the index it keeps, 0 if none
    osOpen, heap,   \* sockets that are open, packets that are allocated
    answers,        \* <<s, o>>: a node's answer to object o, sent to socket s
    clearing,       \* "clear all" is under way
    misled          \* an object has lost a command or got a foreign answer

vars == <<loaded, table, state, sock, osOpen, heap, answers, clearing, misled>>

States == {"none", "open", "deleted"}

Entry == [handle : Objects \cup {None}, inUse : BOOLEAN,
          packet : Objects \cup {None}]

TypeOK ==
    /\ loaded \in BOOLEAN /\ clearing \in BOOLEAN /\ misled \in BOOLEAN
    /\ table \in [Slots -> Entry]
    /\ state \in [Objects -> States]
    /\ sock \in [Objects -> Slots \cup {0}]
    /\ osOpen \subseteq Objects /\ heap \subseteq Objects
    /\ answers \subseteq Objects \X Objects

FreeEntry == [handle |-> None, inUse |-> FALSE, packet |-> None]

(* init_wl_mex_udp_transport() *)
FreshTable == [i \in Slots |-> FreeEntry]

Init ==
    /\ loaded = FALSE
    /\ table = FreshTable
    /\ state = [o \in Objects |-> "none"]
    /\ sock = [o \in Objects |-> 0]
    /\ osOpen = {} /\ heap = {}
    /\ answers = {}
    /\ clearing = FALSE
    /\ misled = FALSE

-----------------------------------------------------------------------------
(***************************************************************************)
(* Calls of the MEX function.  The first one after loading initializes it. *)
(***************************************************************************)
Table == IF loaded THEN table ELSE FreshTable

Call == loaded' = TRUE /\ UNCHANGED clearing

Become(o, s) == state' = [state EXCEPT ![o] = s]

(* Mutant: the status of a socket is not looked at. *)
IsFreeAny(i) == Table[i].inUse \in BOOLEAN

IsFree(i) == ~Table[i].inUse

(* The loop that looks for a free socket ends at i. *)
LoopEnds(i) ==
    /\ i \in 1 .. NumSlots + 1
    /\ i \in Slots => IsFree(i)
    /\ \A j \in 1 .. i - 1 : ~IsFree(j)

(* Mutant: it is not checked that the loop has found one. *)
FoundAlways(i) == i \in Nat

Found(i) == i # NumSlots + 1

(* init_socket(), which takes entry i *)
InitSocket(o, i) ==
    /\ LoopEnds(i) /\ Found(i)
    /\ table' = [Table EXCEPT ![i].handle = o, ![i].inUse = TRUE]
    /\ osOpen' = osOpen \cup {o}

(* open(), of an object just made *)
Open(o) ==
    /\ ~clearing /\ state[o] = "none"
    /\ Call
    /\ \E i \in 1 .. NumSlots + 1 :
           /\ InitSocket(o, i)
           /\ sock' = [sock EXCEPT ![o] = i]
    /\ Become(o, "open")
    /\ UNCHANGED <<heap, answers, misled>>

(* init_socket() dies: there is no free socket, the system has none, or    *)
(* its options cannot be read.  In the last case the entry stays in use.   *)
OpenFails(o) ==
    /\ ~clearing /\ state[o] = "none"
    /\ Call
    /\ Become(o, "deleted")
    /\ \/ table' = Table /\ UNCHANGED osOpen
       \/ \E i \in 1 .. NumSlots + 1 : InitSocket(o, i)
    /\ UNCHANGED <<sock, heap, answers, misled>>

(* send_socket(): silently nothing, if the entry is not in use.  A node's  *)
(* answer goes to the socket the command came from.                        *)
SendSocket(o, entry) ==
    LET sent == entry.inUse /\ entry.handle # None
    IN /\ answers' = IF sent THEN answers \cup {<<entry.handle, o>>}
                     ELSE answers
       /\ misled' = (misled \/ ~sent)

Send(o) ==
    /\ ~clearing /\ state[o] = "open"
    /\ Call /\ table' = Table
    /\ SendSocket(o, Table[sock[o]])
    /\ UNCHANGED <<state, sock, osOpen, heap>>

(* receive_socket(): nothing yet, or an answer.  The packet structure is   *)
(* allocated first.                                                        *)
ReceiveSocket(o, i) ==
    /\ IF Table[i].packet = None
       THEN /\ table' = [Table EXCEPT ![i].packet = o]
            /\ heap' = heap \cup {o}
       ELSE table' = Table /\ UNCHANGED heap
    /\ \/ UNCHANGED <<answers, misled>>
       \/ \E a \in answers :
              /\ a[1] = Table[i].handle
              /\ answers' = answers \ {a}
              /\ misled' = (misled \/ a[2] # o)

Receive(o) ==
    /\ ~clearing /\ state[o] = "open"
    /\ Call
    /\ ReceiveSocket(o, sock[o])
    /\ UNCHANGED <<state, sock, osOpen>>

(* Mutant: the packet is not freed. *)
CloseSocketOnly(i) ==
    /\ table' = [Table EXCEPT ![i] = FreeEntry]
    /\ osOpen' = osOpen \ {Table[i].handle}
    /\ UNCHANGED heap

(* close_socket() *)
CloseSocket(i) ==
    /\ table' = [Table EXCEPT ![i] = FreeEntry]
    /\ osOpen' = osOpen \ {Table[i].handle}
    /\ heap' = heap \ {Table[i].packet}

(* delete(), close(): nothing if the entry has been closed already.  An    *)
(* object whose open() failed keeps no index.                              *)
Delete(o) ==
    /\ state[o] = "open"
    /\ Become(o, "deleted")
    /\ Call
    /\ IF Table[sock[o]].handle # None THEN CloseSocket(sock[o])
       ELSE table' = Table /\ UNCHANGED <<osOpen, heap>>
    /\ UNCHANGED <<sock, answers, misled>>

-----------------------------------------------------------------------------
Opened == {o \in Objects : state[o] = "open"}

(* "clear all" has begun; it ends when the objects have been deleted. *)
ClearAll ==
    /\ ~clearing /\ clearing' = TRUE
    /\ UNCHANGED <<loaded, table, state, sock, osOpen, heap, answers, misled>>

ClearedAll ==
    /\ clearing /\ Opened = {}
    /\ clearing' = FALSE
    /\ UNCHANGED <<loaded, table, state, sock, osOpen, heap, answers, misled>>

(* MATLAB unloads the MEX file: cleanup() closes every socket. *)
Unload ==
    /\ loaded /\ (clearing \/ Opened = {})
    /\ loaded' = FALSE
    /\ LET live == {i \in Slots : table[i].handle # None}
       IN /\ table' = [i \in Slots |->
                          IF i \in live THEN FreeEntry ELSE table[i]]
          /\ osOpen' = osOpen \ {table[i].handle : i \in live}
          /\ heap' = heap \ {table[i].packet : i \in live}
    /\ UNCHANGED <<state, sock, answers, clearing, misled>>

Use(o) == Open(o) \/ OpenFails(o) \/ Send(o) \/ Receive(o) \/ Delete(o)

Next == (\E o \in Objects : Use(o)) \/ ClearAll \/ ClearedAll \/ Unload

Spec == Init /\ [][Next]_vars

-----------------------------------------------------------------------------
(***************************************************************************)
(* Properties.                                                             *)
(***************************************************************************)

(* Every command goes out, and every answer comes back to the object that  *)
(* sent the command: no object's socket is closed or taken over by another *)
(* one that is opened, deleted or cleared meanwhile.                       *)
OwnTraffic == ~misled

(* The sockets and packets that exist are those the table holds: none is   *)
(* forgotten by a failure, a deletion, "clear all" or the MEX file's       *)
(* unloading, and none is closed or freed and still held.                  *)
Held(field) == {table[i][field] : i \in Slots} \ {None}

NoneLeaked ==
    /\ osOpen = Held("handle")
    /\ heap = Held("packet")

=============================================================================
