----------------------- MODULE MCNotificationOutbox -----------------------
(***************************************************************************)
(* NotificationOutbox for TLC.                                             *)
(***************************************************************************)
EXTENDS NotificationOutbox, TLC
=============================================================================
