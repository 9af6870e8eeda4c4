-------------------------------- MODULE Engine --------------------------------
(***************************************************************************)
(* What the four versions of ip_run share: the fields every ip_vertex_t    *)
(* has, the effect of ip_compute on the vertex it runs on, and the single  *)
(* region that ends a superstep.  ip_compute only touches its own vertex,  *)
(* besides what ip_broadcast does, so it is one step; what ip_broadcast    *)
(* does to other vertices is up to each version.                           *)
(***************************************************************************)
EXTENDS VertexProgram, OmpTeam

VARIABLES
  application,         \* the application that was compiled with iPregel, and
  out_neighbours,      \* [v]: the adjacency list of v in the graph it runs on
  has_message,         \* [v]: v has a message to read
  message,             \* [v]: that message
  value,               \* [v]: the user-defined value
  ip_superstep,
  sent,                \* history: what each vertex broadcast in this superstep
  ran                  \* history: the vertices that ran in this superstep

boxVars == <<has_message, message>>
historyVars == <<sent, ran>>
jobVars == <<application, out_neighbours>>
engineVars == <<jobVars, boxVars, value, ip_superstep, historyVars>>

Nothing == [v \in Vertices |-> None]

EngineTypeOK ==
  /\ jobVars \in Jobs
  /\ has_message \in [Vertices -> BOOLEAN]
  /\ message \in [Vertices -> Messages \cup {None}]
  /\ \A v \in Vertices : has_message[v] => message[v] \in Messages
  /\ value \in [Vertices -> Values \cup {None}]
  /\ ip_superstep \in Nat
  /\ sent \in [Vertices -> Messages \cup {None}]
  /\ ran \in SUBSET Vertices

\* ip_init_vertex_range for every vertex, and a graph loaded.
EngineInit ==
  /\ \E job \in Jobs : application = job[1] /\ out_neighbours = job[2]
  /\ has_message = [v \in Vertices |-> FALSE]
  /\ message = Nothing
  /\ value = Nothing
  /\ ip_superstep = 0
  /\ sent = Nothing
  /\ ran = {}

\* What ip_get_next_message gives ip_compute.
NextMessage(v) == IF has_message[v] THEN message[v] ELSE None

\* What ip_compute may do with what it reads.
Outcomes(v) ==
  Program(application, ip_superstep, v, value[v], NextMessage(v), Len(out_neighbours[v]))

\* Mutant of RunVertex: the message that was read stays in the mailbox.
RunVertexUnread(v, outcome) ==
  /\ value' = [value EXCEPT ![v] = outcome.value]
  /\ sent' = [sent EXCEPT ![v] = outcome.message]
  /\ ran' = ran \cup {v}
  /\ UNCHANGED <<jobVars, has_message, message, ip_superstep>>

\* The effect of ip_compute, with the given outcome, on the vertex itself.
RunVertex(v, outcome) ==
  /\ value' = [value EXCEPT ![v] = outcome.value]
  /\ has_message' = [has_message EXCEPT ![v] = @ /\ ~outcome.reads]
  /\ sent' = [sent EXCEPT ![v] = outcome.message]
  /\ ran' = ran \cup {v}
  /\ UNCHANGED <<jobVars, message, ip_superstep>>

\* A new compute loop: the history starts again.
NewHistory ==
  /\ sent' = Nothing
  /\ ran' = {}

\* Mutant of FinishSingle: no call of ip_increment_superstep.
FinishUncounted(t) ==
  /\ EnterSingle(t, "finish", "finish_done")
  /\ UNCHANGED engineVars

\* The single region that ends a superstep calls ip_increment_superstep.
FinishSingle(t) ==
  /\ EnterSingle(t, "finish", "finish_done")
  /\ ip_superstep' = ip_superstep + 1
  /\ UNCHANGED <<jobVars, boxVars, value, historyVars>>

SkipFinish(t) ==
  /\ SkipSingle(t, "finish", "finish_done")
  /\ UNCHANGED engineVars

\* total and the shares of the threads together count the vertices of tally, each
\* one once: in merged, which total counts, or in the share of one thread.
Counts(tally, total, shares) ==
  \E merged \in SUBSET tally, by \in [Vertices -> Threads] :
    /\ total = Cardinality(merged)
    /\ \A t \in Threads : shares[t] = Cardinality({v \in tally \ merged : by[v] = t})

\* The team has left the parallel region of ip_run.
Terminated == AllAt("exit")
==============================================================================
