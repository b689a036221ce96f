------------------------------- MODULE MCSftp -------------------------------
(* One destination, its editors and the faults of a connection. *)
EXTENDS SftpTransaction
=============================================================================
