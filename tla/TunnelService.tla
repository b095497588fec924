--------------------------- MODULE TunnelService ---------------------------
(***************************************************************************)
(* What the control plane promises about tunnels, with no tasks, locks or  *)
(* sockets in it.  A tunnel leases one port of the pool, alone; it is      *)
(* announced to the dashboard as opened at most once, only while it holds  *)
(* its port; once announced it is announced as closed before the port can  *)
(* go back to the pool.                                                    *)
(***************************************************************************)
EXTENDS Sequences

CONSTANTS Tunnels,   \* tunnel ids
          Ports,     \* the pool of public ports
          None       \* no port

VARIABLES lease,     \* the port each tunnel holds, or None
          announced  \* the events published for each tunnel, in order

vars == <<lease, announced>>

Init == /\ lease = [t \in Tunnels |-> None]
        /\ announced = [t \in Tunnels |-> <<>>]

\* A tunnel that holds no port takes one that no other tunnel holds.
Lease(t, p) == /\ lease[t] = None
               /\ announced[t] = <<>>
               /\ \A u \in Tunnels : lease[u] # p
               /\ lease' = [lease EXCEPT ![t] = p]
               /\ UNCHANGED announced

\* The tunnel is announced while it holds its port.
Open(t) == /\ lease[t] # None
           /\ announced[t] = <<>>
           /\ announced' = [announced EXCEPT ![t] = <<"opened">>]
           /\ UNCHANGED lease

\* The end of an announced tunnel is announced while it still holds its port.
Close(t) == /\ lease[t] # None
            /\ announced[t] = <<"opened">>
            /\ announced' = [announced EXCEPT ![t] = <<"opened", "closed">>]
            /\ UNCHANGED lease

\* The port goes back: never while the dashboard believes the tunnel is open.
Return(t) == /\ lease[t] # None
             /\ announced[t] # <<"opened">>
             /\ lease' = [lease EXCEPT ![t] = None]
             /\ UNCHANGED announced

Next == \E t \in Tunnels :
          \/ \E p \in Ports : Lease(t, p)
          \/ Open(t)
          \/ Close(t)
          \/ Return(t)

Spec == Init /\ [][Next]_vars
=============================================================================
