------------------------------ MODULE MCMailbox ------------------------------
(* Instances of Mailbox for TLC. *)
EXTENDS Mailbox

\* ip_combine of cc.c and sssp.c: keep the smaller message.
MCMin(a, b) == IF a > b THEN b ELSE a

MCMinMessages == 1 .. 3
==============================================================================
