--------------------------- MODULE MCAnnouncements ---------------------------
(* Instance of Announcements for TLC: a global administrator and the one of *)
(* a city.                                                                  *)
EXTENDS Announcements

CONSTANTS root, mayor, c1, u1, u2

MCAdminCity == [a \in Admins |-> IF a = mayor THEN c1 ELSE Global]
MCUserCity == [u \in Users |-> c1]
=============================================================================
