------------------------------ MODULE SocketLease ------------------------------
(***************************************************************************)
(* What the runtime registry promises to the rest of the service, without   *)
(* goroutines, channels or maps: WhatsApp accepts one connection per        *)
(* session, so the right to be connected is a lease.  A lease is granted to *)
(* one holder at a time under a number never used before; only its holder   *)
(* is ever visible to the other services or online; and it is given back    *)
(* only when its holder is neither.                                         *)
(***************************************************************************)
EXTENDS Naturals

VARIABLES
    granted,  \* number of the last lease granted
    holder,   \* the lease in force, or NoLease
    ended,    \* leases given back
    visible,  \* the lease whose client the other services can reach
    online    \* leases whose client is connected to WhatsApp

vars == <<granted, holder, ended, visible, online>>

NoLease == 0

Init ==
    /\ granted = 0
    /\ holder = NoLease
    /\ ended = {}
    /\ visible = NoLease
    /\ online = {}

Grant ==
    /\ holder = NoLease
    /\ granted' = granted + 1
    /\ holder' = granted'
    /\ UNCHANGED <<ended, visible, online>>

Show ==
    /\ holder # NoLease
    /\ visible' = holder
    /\ UNCHANGED <<granted, holder, ended, online>>

GoOnline ==
    /\ holder # NoLease
    /\ online' = {holder}
    /\ UNCHANGED <<granted, holder, ended, visible>>

\* Out of reach, off line, or both.
Withdraw ==
    /\ visible' \in {visible, NoLease}
    /\ online' \in {online, {}}
    /\ UNCHANGED <<granted, holder, ended>>

Release ==
    /\ holder # NoLease
    /\ visible = NoLease
    /\ online = {}
    /\ ended' = ended \cup {holder}
    /\ holder' = NoLease
    /\ UNCHANGED <<granted, visible, online>>

Next == Grant \/ Show \/ GoOnline \/ Withdraw \/ Release

Spec == Init /\ [][Next]_vars
=============================================================================
