---------------------------- MODULE MCShmSemaphore ----------------------------
(* ShmSemaphore on small instances: a daemon and one or two CGI processes. *)
EXTENDS ShmSemaphore, TLC

CgiSymmetry == Permutations(Cgi)
=============================================================================
