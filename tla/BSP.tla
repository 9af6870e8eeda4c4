--------------------------------- MODULE BSP ---------------------------------
(***************************************************************************)
(* The computation iPregel promises, however its threads interleave: in    *)
(* every superstep each vertex that is to run does so once, on the         *)
(* messages of the superstep before (ip_compute and ip_broadcast,          *)
(* iPregel_preamble.h:151-159 and 276-283), and the run ends when no       *)
(* vertex is active.  The versions differ in two things, the constants.    *)
(***************************************************************************)
EXTENDS VertexProgram

CONSTANTS
  KeepsUnread,   \* a message that ip_compute does not read waits for a later superstep
  VotesCount     \* a vertex stays active until ip_vote_to_halt

VARIABLES
  application,      \* the application, and
  out_neighbours,   \* the graph it runs on
  superstep,
  value,            \* [v]: the value of v, None before it is set
  active,           \* [v]: v is active
  inbox,            \* [v]: the combined message v can read, or None
  sent,             \* [v]: what v broadcast in this superstep, or None
  ran,              \* the vertices that ran in this superstep
  returned          \* ip_run is over

vars == <<application, out_neighbours, superstep, value, active, inbox, sent, ran, returned>>

Init ==
  /\ \E job \in Jobs : application = job[1] /\ out_neighbours = job[2]
  /\ superstep = 0
  /\ value = [v \in Vertices |-> None]
  /\ active = [v \in Vertices |-> TRUE]
  /\ inbox = [v \in Vertices |-> None]
  /\ sent = [v \in Vertices |-> None]
  /\ ran = {}
  /\ returned = FALSE

Runnable(v) == active[v] \/ (KeepsUnread /\ inbox[v] # None)

\* A superstep takes place when a vertex is active.
InSuperstep == ~returned /\ (ran # {} \/ \E v \in Vertices : active[v])

Compute(v) ==
  /\ InSuperstep
  /\ v \notin ran
  /\ Runnable(v)
  /\ \E r \in Program(application, superstep, v, value[v], inbox[v], Len(out_neighbours[v])) :
       /\ value' = [value EXCEPT ![v] = r.value]
       /\ active' = [active EXCEPT ![v] = VotesCount /\ ~r.halts]
       /\ inbox' = [inbox EXCEPT ![v] = IF r.reads THEN None ELSE @]
       /\ sent' = [sent EXCEPT ![v] = r.message]
  /\ ran' = ran \cup {v}
  /\ UNCHANGED <<application, out_neighbours, superstep, returned>>

NextSuperstep ==
  /\ ran # {}
  /\ \A v \in Vertices : Runnable(v) => v \in ran
  /\ superstep' = superstep + 1
  /\ inbox' = [v \in Vertices |->
       LET new == Received(out_neighbours, sent, v)
       IN IF new = None /\ KeepsUnread THEN inbox[v] ELSE new]
  /\ active' = [v \in Vertices |->
       active[v] \/ Received(out_neighbours, sent, v) # None]
  /\ sent' = [v \in Vertices |-> None]
  /\ ran' = {}
  /\ UNCHANGED <<application, out_neighbours, value, returned>>

\* No vertex is active: ip_run returns.  A message nobody read is left behind.
Return ==
  /\ ~InSuperstep
  /\ ~returned
  /\ returned' = TRUE
  /\ UNCHANGED <<application, out_neighbours, superstep, value, active, inbox, sent, ran>>

Next ==
  \/ \E v \in Vertices : Compute(v)
  \/ NextSuperstep
  \/ Return
  \/ returned /\ UNCHANGED vars

Spec == Init /\ [][Next]_vars
==============================================================================
