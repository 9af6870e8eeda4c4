------------------------------- MODULE OmpTeam -------------------------------
(***************************************************************************)
(* The OpenMP constructs that the four versions of ip_run are made of: a   *)
(* team of threads, barriers, single regions and work-sharing loops, each  *)
(* with the barrier OpenMP puts at its end.  Nothing here is iPregel code. *)
(***************************************************************************)
EXTENDS Team

VARIABLES
  pc,        \* pc[t]: where thread t is in ip_run
  claimed,   \* a thread has entered the single region of this phase
  todo       \* the iterations of the current loop that nobody took yet

teamVars == <<pc, claimed, todo>>

TeamInit(start) ==
  /\ pc = [t \in Threads |-> start]
  /\ claimed = FALSE
  /\ todo = {}

AllAt(label) == \A t \in Threads : pc[t] = label
AnyAt(labels) == \E t \in Threads : pc[t] \in labels

\* No thread is past a barrier that another one has not reached: the labels of
\* all threads are within one of the given sets.
Together(phases) == \E P \in phases : \A t \in Threads : pc[t] \in P

Move(t, from, to) ==
  /\ pc[t] = from
  /\ pc' = [pc EXCEPT ![t] = to]

\* A barrier lets the threads go when all have reached it; the next single
\* region is then free to be entered, and the next loop has its iterations.
Barrier(from, to, iterations) ==
  /\ AllAt(from)
  /\ pc' = [t \in Threads |-> to]
  /\ claimed' = FALSE
  /\ todo' = iterations

\* The first thread to arrive executes a single region...
EnterSingle(t, from, to) ==
  /\ ~claimed
  /\ claimed' = TRUE
  /\ Move(t, from, to)
  /\ UNCHANGED todo

\* ... and the others go on to the barrier at its end.
SkipSingle(t, from, to) ==
  /\ claimed
  /\ Move(t, from, to)
  /\ UNCHANGED <<claimed, todo>>

\* The schedule is chosen at run time (static, dynamic, guided): here any thread
\* may take any iteration that is left.
TakeIteration(i) ==
  /\ i \in todo
  /\ todo' = todo \ {i}
  /\ UNCHANGED claimed

\* A thread leaves a loop when no iteration is left, or when the schedule gives
\* those that are left to other threads of the loop.
LeaveLoop(t, from, to, inLoop) ==
  /\ todo = {} \/ \E u \in Threads \ {t} : pc[u] \in inLoop
  /\ Move(t, from, to)
  /\ UNCHANGED <<claimed, todo>>
==============================================================================
