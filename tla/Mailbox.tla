------------------------------- MODULE Mailbox -------------------------------
(***************************************************************************)
(* The mailboxes of the push versions (combiner_postamble.h and            *)
(* combiner_spread_postamble.h): ip_send_message takes the lock of the     *)
(* destination only to write the first message of the superstep, and       *)
(* combines every later one into it with a compare-and-swap loop.  Each    *)
(* action is one access to memory that other threads can see.              *)
(***************************************************************************)
EXTENDS Setting, Team

CONSTANT
  Unit   \* messages count fractions: Unit of them make the integer 1

\* ip_cas declares its parameter as IP_VERTEX_ID_TYPE, an unsigned integer:
\* passing a message converts it, which drops a fraction.
AsVertexId(m) == (m \div Unit) * Unit

\* In these types, ip_combine never leaves the range of the messages.
ASSUME CombineAssumption == \A a, b \in Messages : Combine(a, b) \in Messages

ASSUME UnitAssumption ==
  /\ Unit \in Nat \ {0}
  /\ \A m \in Messages : m \in Nat /\ AsVertexId(m) \in Messages

VARIABLES
  has_message_next,  \* [d]: d received a message in this superstep (atomic_bool)
  message_next,      \* [d]: the messages received so far, combined
  lock,              \* [d]: 1 while a thread holds the lock of d
  send               \* [t]: the call of ip_send_message t is in

mailboxVars == <<has_message_next, message_next, lock, send>>

Idle == [at |-> "idle", to |-> None, msg |-> None, old |-> None]

Labels == {"idle", "acquire", "recheck", "write", "flag", "unlock",
           "unlock_cas", "cas_load", "cas"}

MailboxShape ==
  /\ has_message_next \in [Vertices -> BOOLEAN]
  /\ message_next \in [Vertices -> Messages \cup {None}]
  /\ lock \in [Vertices -> {0, 1}]
  /\ send \in [Threads -> [at : Labels, to : Vertices \cup {None},
                           msg : Messages \cup {None},
                           old : Messages \cup {None}]]

\* ip_init_vertex_range leaves message_next as malloc returned it.
MailboxInit ==
  /\ has_message_next = [d \in Vertices |-> FALSE]
  /\ message_next = [d \in Vertices |-> None]
  /\ lock = [d \in Vertices |-> 0]
  /\ send = [t \in Threads |-> Idle]

AllIdle == \A t \in Threads : send[t] = Idle

At(t, label) == send[t].at = label
Goto(t, label) == send' = [send EXCEPT ![t].at = label]
Return(t) == send' = [send EXCEPT ![t] = Idle]

------------------------------------------------------------------------------
(* ip_send_message and ip_cas.                                             *)

\* Mutant of SendMessage: the flag is not read: every message is combined.
SendUntested(t, d, m) ==
  /\ send[t] = Idle
  /\ send' = [send EXCEPT ![t] = [at |-> "cas_load", to |-> d, msg |-> m, old |-> None]]
  /\ UNCHANGED <<has_message_next, message_next, lock>>

\* The call, up to its first read of the atomic flag.
SendMessage(t, d, m) ==
  /\ send[t] = Idle
  /\ send' = [send EXCEPT ![t] =
       [at |-> IF has_message_next[d] THEN "cas_load" ELSE "acquire",
        to |-> d, msg |-> m, old |-> None]]
  /\ UNCHANGED <<has_message_next, message_next, lock>>

\* Mutant of Acquire: the lock is counted, not waited for.
AcquireUnguarded(t) ==
  /\ At(t, "acquire")
  /\ lock' = [lock EXCEPT ![send[t].to] = @ + 1]
  /\ Goto(t, "recheck")
  /\ UNCHANGED <<has_message_next, message_next>>

\* ip_lock_acquire spins on a compare-and-swap from 0 to 1.
Acquire(t) ==
  /\ At(t, "acquire")
  /\ lock[send[t].to] = 0
  /\ lock' = [lock EXCEPT ![send[t].to] = 1]
  /\ Goto(t, "recheck")
  /\ UNCHANGED <<has_message_next, message_next>>

\* Mutant of Recheck: no second read of the flag.
RecheckUntested(t) ==
  /\ At(t, "recheck")
  /\ Goto(t, "write")
  /\ UNCHANGED <<has_message_next, message_next, lock>>

\* The second read of the flag, under the lock.
Recheck(t) ==
  /\ At(t, "recheck")
  /\ Goto(t, IF has_message_next[send[t].to] THEN "unlock_cas" ELSE "write")
  /\ UNCHANGED <<has_message_next, message_next, lock>>

Write(t) ==
  /\ At(t, "write")
  /\ message_next' = [message_next EXCEPT ![send[t].to] = send[t].msg]
  /\ Goto(t, "flag")
  /\ UNCHANGED <<has_message_next, lock>>

Flag(t) ==
  /\ At(t, "flag")
  /\ has_message_next' = [has_message_next EXCEPT ![send[t].to] = TRUE]
  /\ Goto(t, "unlock")
  /\ UNCHANGED <<message_next, lock>>

\* ip_lock_release by the thread that wrote the first message.
Unlock(t) ==
  /\ At(t, "unlock")
  /\ lock' = [lock EXCEPT ![send[t].to] = 0]
  /\ Return(t)
  /\ UNCHANGED <<has_message_next, message_next>>

\* ip_lock_release by a thread that found the mailbox in use.
UnlockToCas(t) ==
  /\ At(t, "unlock_cas")
  /\ lock' = [lock EXCEPT ![send[t].to] = 0]
  /\ Goto(t, "cas_load")
  /\ UNCHANGED <<has_message_next, message_next>>

\* The message combined by ip_cas into the value it read.
NewValueOf(old, msg) == Combine(old, AsVertexId(msg))

\* The read of message_next and the local test that ends the loop early when
\* combining changes nothing.
CasLoad(t) ==
  /\ At(t, "cas_load")
  /\ LET old == message_next[send[t].to]
     IN IF NewValueOf(old, send[t].msg) = old
        THEN Return(t)
        ELSE send' = [send EXCEPT ![t].at = "cas", ![t].old = old]
  /\ UNCHANGED <<has_message_next, message_next, lock>>

\* Mutant of Cas: a store in the place of the compare-and-swap.
CasBlind(t) ==
  /\ At(t, "cas")
  /\ message_next' = [message_next EXCEPT ![send[t].to] =
                        NewValueOf(send[t].old, send[t].msg)]
  /\ Return(t)
  /\ UNCHANGED <<has_message_next, lock>>

\* Mutant of Cas: when it fails, the loop tries the same value again.
CasSameValue(t) ==
  /\ At(t, "cas")
  /\ IF message_next[send[t].to] = send[t].old
     THEN /\ message_next' = [message_next EXCEPT ![send[t].to] =
                                NewValueOf(send[t].old, send[t].msg)]
          /\ Return(t)
     ELSE UNCHANGED <<message_next, send>>
  /\ UNCHANGED <<has_message_next, lock>>

\* The compare-and-swap; when it fails the loop reads message_next again.
Cas(t) ==
  /\ At(t, "cas")
  /\ IF message_next[send[t].to] = send[t].old
     THEN /\ message_next' = [message_next EXCEPT ![send[t].to] =
                                NewValueOf(send[t].old, send[t].msg)]
          /\ Return(t)
     ELSE /\ send' = [send EXCEPT ![t].at = "cas_load", ![t].old = None]
          /\ UNCHANGED message_next
  /\ UNCHANGED <<has_message_next, lock>>

\* A step of a call that has begun.
SendStep(t) ==
  \/ Acquire(t) \/ Recheck(t) \/ Write(t) \/ Flag(t) \/ Unlock(t)
  \/ UnlockToCas(t) \/ CasLoad(t) \/ Cas(t)

\* What the mailbox update of ip_run does to the mailbox of d.
ClearNext(d) ==
  /\ has_message_next[d]
  /\ has_message_next' = [has_message_next EXCEPT ![d] = FALSE]
  /\ UNCHANGED <<message_next, lock, send>>

------------------------------------------------------------------------------
(* Threads that send anything to anyone; the barriers of ip_run keep the   *)
(* mailbox update apart from every call.                                   *)
MailboxNext ==
  \/ \E t \in Threads, d \in Vertices, m \in Messages : SendMessage(t, d, m)
  \/ \E t \in Threads : SendStep(t)
  \/ AllIdle /\ \E d \in Vertices : ClearNext(d)

MailboxSpec == MailboxInit /\ [][MailboxNext]_mailboxVars

\* A thread inside a call keeps running.
MailboxFairSpec == MailboxSpec /\ \A t \in Threads : WF_mailboxVars(SendStep(t))

------------------------------------------------------------------------------
(* Properties.                                                             *)

Holding == {"recheck", "write", "flag", "unlock", "unlock_cas"}
Combining == {"unlock_cas", "cas_load", "cas"}

\* The lock of a mailbox is 1 exactly while one thread is between
\* ip_lock_acquire and ip_lock_release for it, and never two are.
MutualExclusion ==
  /\ \A d \in Vertices :
       lock[d] = 1 <=> \E t \in Threads : send[t].at \in Holding /\ send[t].to = d
  /\ \A t, u \in Threads :
       /\ send[t].at \in Holding
       /\ send[u].at \in Holding
       /\ send[t].to = send[u].to
       => t = u

\* A thread that is about to write or to announce the first message does so
\* into a mailbox that is still empty, and the message it announces is the one
\* it wrote: no first message is ever overwritten by another one.
FirstWriterAlone ==
  \A t \in Threads :
    /\ send[t].at \in {"write", "flag"} => ~has_message_next[send[t].to]
    /\ At(t, "flag") => message_next[send[t].to] = send[t].msg

\* A thread combines only into a mailbox that holds a message of this
\* superstep, and a mailbox marked full was written: neither uninitialised
\* memory nor a message of an earlier superstep is ever combined or delivered.
CombinesIntoFullBox ==
  /\ \A t \in Threads : send[t].at \in Combining \cup {"unlock"} =>
       has_message_next[send[t].to]
  /\ \A d \in Vertices : has_message_next[d] => message_next[d] \in Messages

\* A call carries its arguments until it returns.
CallWellFormed ==
  \A t \in Threads :
    /\ At(t, "idle") => send[t] = Idle
    /\ ~At(t, "idle") => send[t].to \in Vertices /\ send[t].msg \in Messages
    /\ At(t, "cas") => send[t].old \in Messages

\* The types of the variables, and what a call under way carries.
MailboxTypeOK == MailboxShape /\ CallWellFormed

MailboxInv ==
  MailboxTypeOK /\ MutualExclusion /\ FirstWriterAlone /\ CombinesIntoFullBox

\* The mailboxes deliver every message exactly once, at one instant: the first
\* one when its flag is set, any other when its compare-and-swap succeeds or
\* when it reads a value that already includes it.
Abstract == INSTANCE AtomicMailbox WITH
  box <- [d \in Vertices |->
            IF has_message_next[d] THEN message_next[d] ELSE None],
  pending <- [t \in Threads |->
            IF send[t].at \in {"idle", "unlock"} THEN [to |-> None, msg |-> None]
            ELSE [to |-> send[t].to, msg |-> send[t].msg]]

\* Every message is an integer, as in the benchmarks cc and sssp.
IntegralMessages == \A m \in Messages : AsVertexId(m) = m

\* Every message is delivered (postcondition of ip_send_message).
DeliversAtomically == Abstract!Spec

\* Every call of ip_send_message returns: the lock and the retry loop starve
\* nobody, because a mailbox sees one first writer per superstep and because a
\* failed compare-and-swap means another message was combined.
SendReturns == \A t \in Threads : ~At(t, "idle") ~> At(t, "idle")
==============================================================================
