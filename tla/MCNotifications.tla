-------------------------- MODULE MCNotifications --------------------------
(* Instance of Notifications for TLC: a user with a connection.             *)
EXTENDS Notifications

CONSTANTS u1, s1

MCOwner == [s \in Sockets |-> u1]
=============================================================================
