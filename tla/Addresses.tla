------------------------------ MODULE Addresses ------------------------------
(***************************************************************************)
(* SocketAddress (addr.cpp): the addresses of this machine (LocalAddress)  *)
(* and those of names that have to be looked up (RemoteAddress).           *)
(***************************************************************************)
EXTENDS LocalAddress, RemoteAddress

(***************************************************************************)
(* What SocketAddress makes of a name can be relied on: a local address is *)
(* the one that was asked for (LocalAsAsked), and a remote lookup never    *)
(* frees the shared configuration under another one (RefsAccounted).       *)
(***************************************************************************)
AddressesHold == LocalAsAsked /\ RefsAccounted
=============================================================================
