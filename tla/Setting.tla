------------------------------- MODULE Setting -------------------------------
(* The types an application defines before it includes iPregel.h, and        *)
(* ip_combine, which it defines after it.                                    *)
EXTENDS Integers, FiniteSets

CONSTANTS
  Vertices,       \* the vertices, by identifier
  Messages,       \* the values of IP_MESSAGE_TYPE
  None,           \* no value, or memory that was never written
  Combine(_, _)   \* ip_combine: the mailbox content and the new message

ASSUME VerticesAssumption == IsFiniteSet(Vertices) /\ Vertices # {}

ASSUME NoneAssumption == None \notin Messages
==============================================================================
