----------------------------- MODULE MapTransfer -----------------------------
(***************************************************************************)
(* A string map sent over a TCP channel (spawn_net_write_strmap and        *)
(* spawn_net_read_strmap, spawn_net_util.c).  The client Owner builds its  *)
(* map and then sends it as its only message, while other clients connect, *)
(* write, disconnect and crash; the server unpacks it into a map of its    *)
(* own when the frame is complete.                                         *)
(***************************************************************************)
EXTENDS Strmap, Tcp

CONSTANTS
    Owner,      \* the client whose message is its map
    SendKeys    \* a bound: maps with other keys are built but not sent

ASSUME TransferAssumption ==
    Owner \in Clients /\ Len(Messages[Owner]) = 1 /\ SendKeys \subseteq Keys

VARIABLES
    building,   \* Owner is still building its map
    packed,     \* the buffer of spawn_net_write_strmap
    copy        \* the server's map

vars == <<map, netvars, building, packed, copy>>

Init == TreeInit /\ NetInit /\ building = TRUE /\ packed = Pack(New) /\ copy = New

\* A call of Owner that changes its map.
Edit == building /\ TreeNext /\ UNCHANGED <<netvars, building, packed, copy>>

Begin ==
    /\ building /\ Nodes(map) \subseteq SendKeys
    /\ building' = FALSE
    /\ UNCHANGED <<map, netvars, packed, copy>>


\* The map is packed when Owner starts its message, and unpacked when the server
\* has read all of it.
Buffers ==
    /\ packed' = IF written'[Owner] = written[Owner] THEN packed ELSE Pack(map)
    /\ copy' = IF inbox'[Owner] = inbox[Owner] THEN copy ELSE Unpack(packed, copy)

\* A step of the network.
Transfer(step) == ~building /\ step /\ Buffers /\ UNCHANGED <<map, building>>

Next ==
    \/ Edit
    \/ Begin
    \/ Transfer(Server)
    \/ Transfer(CloseEndpoint)
    \/ \E c \in Clients : Transfer(Works(c)) \/ Transfer(Crash(c))

\* Every process runs; nobody has to edit, to crash or to close the endpoint.
Fairness ==
    WF_vars(Transfer(Server)) /\ \A c \in Clients : WF_vars(Transfer(Works(c)))

Spec == Init /\ [][Next]_vars /\ Fairness

-----------------------------------------------------------------------------
(* Properties.                                                             *)

=============================================================================
