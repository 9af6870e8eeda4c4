# iPregel in TLA+

A model of iPregel, the shared-memory, vertex-centric framework of this
repository: its four versions of the superstep loop, the lock-free mailboxes of
the push versions, the parallel graph loader, the three benchmark applications,
and the programs that generate, renumber and convert graphs. Line numbers refer to the files under `src/` of the repository
(`src/src/...` and `src/benchmarks/...` in `PROJECT.json`).

## 1. The system

An application defines its types, includes `iPregel.h`, and defines `ip_compute`
and `ip_combine`. Macros choose one of four versions of the framework at
compile time; each is a preamble (structures) and a postamble (code). A program
calls `ip_init`, which loads the graph, then `ip_run`, then `ip_dump`.

| Component | State it keeps | Operations | What makes it correct |
|---|---|---|---|
| API and globals (`iPregel_preamble.h`) | superstep, counts, `ip_active_vertices`, the vertices | the documented contract | every active vertex runs once per superstep, on the combination of the messages of the superstep before |
| Mailboxes (push) | per vertex: `has_message_next`, `message_next`, `lock` | `ip_send_message`, `ip_cas`, `ip_lock_*` | each message is combined exactly once, whatever the interleaving; nothing uninitialised or old is combined; every call returns |
| `combiner` (push) | per vertex: `active`, `has_message`, `message`; the counter | `ip_run`, `ip_broadcast`, `ip_vote_to_halt` | threads agree to stop; the counter is exact; the run implements the supersteps and ends |
| `combiner_spread` (push, list of vertices to run) | a list per thread and a merged list | the same, `ip_add_spread_vertex` | the merged list has each receiver exactly once and room for them |
| `combiner_single_broadcast` (pull) | an outbox per vertex | the same, `ip_fetch_broadcast_messages` | exactly the broadcasts of this superstep are fetched |
| `combiner_spread_single_broadcast` (pull, list of targets) | outboxes, a mark per vertex, the list of targets | the same, `ip_add_target` | unprotected marks lose nothing; the list is exact; no mark and no outbox survives |
| Graph loader (`ip_load_graph`) | offsets, edges, a shared `FILE`, the adjacency of each vertex | `tmp_init_vertices`, `tmp_load_graph_offsets`, `tmp_load_graph_edges` | the shares cover the graph without gap or overlap; every vertex has its list; in-neighbours mirror out-neighbours; nothing the vertices use is given back |
| Applications (`cc.c`, `sssp.c`, `pagerank.c`) | the value of each vertex | `ip_compute`, `ip_combine`, `main` | components, distances, ranks |
| OpenMP run-time (external) | the team, barriers, single regions, loops | | |
| Graph generators | the exclusions of the current vertex, the files | `nextID`, `startGenerating`, `main` | neighbours are other vertices, offsets and counts agree with the lists, the file is complete |
| Renumbering (`contiguouer*.cpp`) | a table of identifiers, the next one, a string stream | `getContiguousId`, `main` | equal identifiers stay equal, different ones different, 0, 1, 2, ... without a gap |
| Converters (`graph_converter*.cpp`) | the lists of every vertex | `main` | the lists written are those of the edges read, and every write is inside the array |
| `xthi.h`, `template.c`, build files | | | not modelled, section 7 |

**Interaction.** All threads of a team execute `ip_run`. They share memory only:
the mailboxes of a vertex are written by any thread during the compute loop and
moved by one thread behind the barrier; the counter is read by all threads at
the head of the loop. The application is called back by `ip_run` and calls back
into `ip_broadcast`. The loader runs before, with teams of its own, on files that
the generator `graph_generator_ligra.cpp` or another tool wrote. The remaining
programs are a chain of their own: a converter reads the text file that
`contiguouerASCII.cpp` wrote, and trusts the numbers in its first line.

**What is hard.** Interleavings of the double-checked lock with the
compare-and-swap loop; agreement of the threads on leaving the loop; a counter
reset, reduced and incremented by different phases; flags and lists that have to
be reset in the phase that is allowed to; messages that the application does not
read, and vertices that do not vote to halt; shares of threads at the borders of
the graph; files that one program writes and another one reads. No persistence, no messages between processes, no time-outs: crashes
and lost messages do not exist here. `PROJECT.json` lists the hazards by line.

## 2. The modules

| Module | Models |
|---|---|
| `Team`, `Setting`, `VertexProgram` | threads; types and `ip_combine`; `ip_compute` and the graph, as CONSTANTS with named assumptions |
| `OmpTeam` | the OpenMP constructs (external) |
| `BSP` | **abstract specification**: the supersteps the API documents |
| `AtomicMailbox` | **abstract specification**: a send is one atomic combination |
| `Mailbox` | `ip_send_message`, `ip_cas`, locks: one action per access to shared memory |
| `Engine` | what the four `ip_run` share; extended by the four below |
| `Broadcasts` | `ip_broadcast` of the push versions: a loop of sends, on top of `Engine` and `Mailbox` |
| `Combiner` | `combiner_*.h`, on top of `Broadcasts` |
| `CombinerSpread` | `combiner_spread_*.h`, on top of `Broadcasts` |
| `InNeighbours` | what a fetch walks over: in-neighbours, their messages combined |
| `Outbox` | outboxes and the fetch of both pull versions |
| `SingleBroadcast` | `combiner_single_broadcast_*.h` |
| `SpreadSingleBroadcast` | `combiner_spread_single_broadcast_*.h` |
| `Apps`, `GraphSets` | the applications, their reference results, and sets of graphs |
| `AppResults` | what `cc.c` and `sssp.c` have computed when `ip_run` returns |
| `GraphFiles` | the three files of a graph, as sequences of words |
| `GraphLoader` | `ip_load_graph` |
| `NextID` | `nextID`, which the generators share |
| `LigraGenerator` | `graph_generator_ligra.cpp` |
| `GenerateAndLoad` | `LigraGenerator` or files of another tool, then `GraphLoader` |
| `EdgeListGenerator` | `graph_generator_femtograph.cpp` and `graph_generator_graphchi.cpp` |
| `Contiguouer` | `contiguouerASCII.cpp` and `contiguouer.cpp` |
| `GraphConverter` | `graph_converter.cpp` and `graph_converter_ligra.cpp` |
| `GraphTools` | the generator of edge lists, and the chain of the two before |
| `SSSPMain` | the command line of `sssp.c` |
| `MC*` | instances for TLC |
| `X_proofs` | theorems about module `X`; `Engine_proofs` has the lemmas that several of them cite |

```
Team ── OmpTeam ─┐                    Setting, Team ── AtomicMailbox
Setting ─ VertexProgram ─ BSP           ▲ implements
                 └─ Engine ─┬─ Mailbox ─┴─ Broadcasts ─> Combiner, CombinerSpread ─┐
           InNeighbours ────└─ Outbox ─> SingleBroadcast, SpreadSingleBroadcast ───┴ implement BSP

GraphFiles ─┬─ GraphLoader ───────┬─ GenerateAndLoad
            └─ LigraGenerator ────┘
NextID ─────┬─ LigraGenerator       Contiguouer, GraphConverter ─┐
            └─ EdgeListGenerator ────────────────────────────────┴─ GraphTools
```

### State and actions

`pc[t]` names where thread *t* is in `ip_run`. The end of each OpenMP construct
is one barrier action (`EnterLoop`, `BeginCompute`, `BeginSwap`, ...) and each
single region a pair of actions, for the thread that executes it and for those
that skip it. An iteration of a work-sharing loop is an action that takes an
element of `todo`; `OMP_SCHEDULE` is chosen at run time and any thread may take
any iteration, which includes every static, dynamic and guided schedule.

* `ComputeVertex` is `ip_compute` on one vertex. It touches only that vertex,
  which no other thread touches in that loop, and so is one step; what it
  broadcasts is done step by step by `BroadcastNext`/`BroadcastStep` (push) or
  `MarkTarget` (pull with targets). The pull version without targets writes only
  the vertex's own outbox.
* `SendMessage`, `Acquire`, `Recheck`, `Write`, `Flag`, `Unlock`,
  `UnlockToCas`, `CasLoad` and `Cas` are the accesses of `ip_send_message` to
  shared memory, in the order of the code.
* `SwapMailbox`/`PassMailbox` are the mailbox update, `Reduce` the end of a loop
  with a reduction, `FinishSingle` the call of `ip_increment_superstep`.
* `MergeSingle` and `FilterSingle` are one step each: all other threads wait.
* `sent` and `ran` are history variables; nothing in the code depends on them.
  So is `graph`, the lists that the files were written from.
* Which application runs on which graph is a pair chosen in `Init` from `Jobs`, so
  that one run covers several applications and every graph of a set.
* In the loader, `build` is what the application was compiled with: the
  `IP_NEEDS_` macros, the direction, and the width of `IP_NEIGHBOUR_COUNT_TYPE`.

Definitions introduced by a comment "Mutant of ..." are deliberate bugs. No
specification uses them; they are substituted for the definition they name to
show that a property would notice.

### Abstractions

* Memory is sequentially consistent. `has_message_next` and `lock` are C atomics;
  `message_next` is a plain field read outside the lock (`combiner_postamble.h:43`)
  and changed by compare-and-swap: its read is modelled as atomic, as on the
  machines the project targets for types of at most a word.
* An `ip_compute` is a set of results for what it can read, so that it may depend
  on what the model does not show; it broadcasts at most once in a superstep, as
  all benchmarks do. `AnyCompute` is the arbitrary one: up to superstep `ROUND` it
  may or may not read its message, broadcast, and vote to halt.
* `UINT_MAX` is a number larger than every distance. Ranks are fixed-point
  numbers, rounded down; the conversion of a double to an identifier type in
  `ip_cas` is `AsVertexId`.
* The versions differ in what an application sees, and `BSP` has a constant for
  each difference. `KeepsUnread`: a message that was not read stays in the mailbox
  of the push version `combiner` (and keeps its vertex running, as long as another
  vertex is active), and is lost in the three other versions at the next fetch or
  update. `VotesCount`: the versions with lists run receivers only; a vertex that
  does not vote to halt and gets no message is not run again.
* The loader reads complete files; a range of vertices outside the array has no
  defined behaviour and leads to the label `"undefined"`. An `.idx` file is a
  sequence of words, and an application with 8-byte counts reads two of them as one
  offset, wherever its thread starts.
* `rand` and the uniform distribution may return any number of their range. The
  generators ignore the return values of their writes, and so does the model.
* A line of a text file is its identifiers and whether white space follows them,
  which decides whether the string stream of `contiguouerASCII.cpp` reaches its
  end; that is all the stream's state depends on. `src` and `dest` may have any of
  a few values before they are assigned. The header lines of the input are skipped
  by the program and by the model.
* A converter that writes outside its array ends in `"undefined"`; the hash table
  and the sorting are a function and a sorted sequence.

## 3. What the runs check

Every engine runs on graphs of three vertices, each with an application of the
repository and with the arbitrary one, `any`, on a graph in which two vertices lead
to each other and a third one to one of them.

| Run | Threads, applications and graphs | States | Shows |
|---|---|---|---|
| `mailbox_min` | 3 threads, 1 mailbox, 3 messages | 8,854 | mutual exclusion, one first writer, no stale message, atomic delivery, every call returns |
| `combiner` | 2 threads; `cc` on every connected graph; `any` | 403,153 | `Combiner` implements `BSP` with kept messages and votes, uses `Mailbox` as specified, counts exactly, and ends with the components |
| `single_broadcast` | 2 threads; `pagerank` on a ring, repeated edges, an isolated vertex; `any` | 81,395 | the outboxes fetched are exactly those of the superstep; the counter of two loops; unread messages are dropped; the end |
| `spread_single_broadcast` | 2 threads; `sssp` on every directed graph; `any` | 23,530 | marks, list and resets; no barrier behind the loop test is needed; only receivers run; distances |
| `combiner_spread` | 3 threads; `cc` on every connected graph; `any` | 254,601 | exact lists, room for the merge, only receivers run, the end |
| `loader` | 3 threads, 4 vertices: every undirected graph, a ring, repeated edges and a self-loop, and every graph of up to 3 edges the generator draws with a maximum degree of 2 or 4 | 725,238 | loading and mirroring under every interleaving, with a remainder; what the generator writes can be loaded; offsets of the wrong width are refused |
| `graph_tools` | edge lists of 2 to 4 vertices; files of up to 3 lines or records with 3 sparse identifiers, the numbers given right, too small or too large | 110,876 | the generator's edges join two different vertices up to as many as exist, and only tiny graphs end it early; the renumbering keeps the graph up to the first line without white space behind it, and contiguous identifiers always; the converter stays in bounds exactly when the number of vertices suffices, and writes the edges given |

What `ImplementsBSP` says of each version is decided by the two constants of
`BSP`: `combiner` has both, `combiner_single_broadcast` only `VotesCount`, and the
versions with lists neither.

Five more runs end in a violation; each states what a comment or a usage line of
the repository says, and the code does not do:

| Run | Disagreement |
|---|---|
| `combiner_pagerank_loss` | `ip_cas` takes the message as `IP_VERTEX_ID_TYPE` (`combiner_postamble.h:41`, `combiner_spread_postamble.h:59`): a fraction sent to a mailbox in use becomes 0. PageRank in the push version loses all but the first message of a vertex. |
| `loader_few_vertices` | fewer vertices than threads: the last identifier of an empty share wraps (`iPregel_postamble.h:287`) |
| `loader_count_only` | the mirroring tests `IP_NEEDS_IN_NEIGHBOURS_COUNT` (`iPregel_postamble.h:436`), the spelling of `README.md:146`; the fields and the rest of the loader test `IP_NEEDS_IN_NEIGHBOUR_COUNT`, so with that one the count of a directed graph stays 0 |
| `generator_repeats` | `nextID` "returns the next ID available, taking in considerations the exclusions given" (`graph_generator_ligra.cpp:34`), but its loop needs the exclusions in ascending order and gets them in the order they were drawn: with exclusions 0, 2, 1 the random number 0 gives 1 again. Only earlier neighbours come back, never the vertex itself (`ProperNeighbours`). |
| `sssp_main` | the source is read from `argv[4]`, the schedule, instead of `argv[6]` (`sssp.c:101`) |

Smaller disagreements are noted here and have no run:

* `ip_safe_fread` is called with count 0 by a thread whose vertices have no edge,
  against its documented precondition (`iPregel_preamble.h:234`); harmless.
* In the versions with lists a vertex that did not vote to halt and got no message
  does not run, although `combiner_spread_preamble.h:19` and `README.md:105` say
  that every active vertex does. The makefile builds no PageRank with them.
* `ip_vote_to_halt` does nothing in these versions, against its postcondition "The
  vertex v is inactive" (`iPregel_preamble.h:164`), as the vertex is inactive anyway.
* `combiner_preamble.h:63` describes `has_message` as a message of the superstep
  before; a message that was left unread may be older.
* `graph_generator_ligra.cpp` writes offsets of 4 bytes, and the three benchmark
  applications read offsets of 8 bytes: they end with "Failed to read". Only an
  application that counts in 4 bytes, as `template.c` does, loads these files.
* `graph_converter_ligra.cpp` writes where the list of each vertex ends, not where
  it starts, under the heading `AdjacencyGraph`, Ligra's name for a format with
  starts (as `graph_generator_ligra.cpp:78` writes and the loader reads them).
  `ConvertsGraph` does not read these offsets: it places the lists by the edges
  given, so it holds with either, and no property covers this line.
* `femtograph` and `graphchi` divide by zero for two to nine vertices (the
  report of the progress) and for two vertices without `--maxOutDegree`.
* Behind a line that ends right behind its second identifier no line is read any
  more (`contiguouerASCII.cpp:93`): `src` and `dest`, which hold new identifiers
  already, are renumbered again for each of them.

The last three are behaviours that no sentence of the repository excludes; the
properties state what holds in spite of them. `EdgesJoinVertices` bounds where the
generator may fail: in the edges of a vertex beyond the number of the other
vertices, and for fewer than `CHUNK_PERCENT` vertices. `RenumbersGraph` claims the
shape of the graph only for the lines that were read, and contiguous identifiers
for the whole file. `ConvertsGraph` has no precondition: every file and every pair of
numbers is included, the copies of the last line that too large a number of edges
makes are counted, and too small a number of vertices is exactly what leads out of
bounds.

PageRank has no passing run in the push version because of `combiner_pagerank_loss`;
the arbitrary program takes its place, with vertices that stay active without a
message. `single_broadcast` has rank messages that meet, and no such loss.

### Bounds

Two threads show every race between a first and a second sender, and between a
sender and the update. Three are used where a thread that is neither first nor
last matters: a second sender that waits for the lock while a third combines, the
merge of the lists, the loader's middle share. Three vertices allow a path on
which a label needs two supersteps, a triangle with two senders to each vertex,
and isolated vertices; the graphs are enumerated, not sampled. The runs end, and so
do the counters. The sets of messages are closed under `ip_combine`.

* `ROUND`: the arbitrary program chooses freely in this many supersteps, and reads
  and halts from then on; two are enough for a message that is left unread in one
  superstep and meets, or does not meet, a new one in the next.
* `EdgeBound`: the generator draws at most this many edges in all; 3 allow a vertex
  with all other vertices as neighbours, and an empty list behind a full one.
* `IdLimit` and `UnsignedLimit` stand for 2^32: larger than every number that is
  computed, so that what wraps is what wraps in the code.
* `CHUNK_PERCENT` is 10 in the code and 3 in the run, so that graphs of two and of
  three vertices are below and above it.

### Fairness

A thread that is not waiting keeps running: `WF(ThreadStep(t))` for each thread,
and `WF(BarrierStep)`, since OpenMP lets a barrier go when all have arrived. Every
thread has a processor or is scheduled by a preemptive operating system; nothing
more is assumed. In particular a thread waiting for a lock has no strong fairness:
the lock of a mailbox is taken once per superstep by each sender at most, so
`SendReturns` holds with weak fairness. `SendReturns` is checked with the
minimum: for an operation that always changes the mailbox the compare-and-swap
loop lets one thread fail as long as others succeed (lock-free, not wait-free);
in a superstep others succeed finitely often, which `Termination` of the
engines covers. The loader assumes the same of its threads, of the thread that is
alone between the parallel regions, and of the generator; `graph_tools` checks
safety only, its programs are sequential loops.

## 4. What is proved

`Mailbox_proofs` proves, for every finite set of threads and vertices, every set
of messages and every `ip_combine` closed on it:

| Theorem | States |
|---|---|
| `MailboxInvariant` | `MailboxInv` is inductive, hence always true |
| `MailboxTyping`, `LockExcludes`, `FirstMessageKept`, `NoStaleMessage` | its conjuncts |
| `MailboxRefinement` | with integral messages, `MailboxSpec` implements `AtomicMailbox` |

Mutual exclusion alone is not inductive: which thread holds a lock follows from
its label, and that the holder may write needs that the flag of the mailbox is
still clear between `Recheck` and `Flag` (`FirstWriterAlone`). That in turn needs
that nobody else sets the flag, which is mutual exclusion; and that a thread that
combines finds a message needs that the flag is set and stays set
(`CombinesIntoFullBox`). The four together are inductive. One lemma per action
proves that a step keeps them.

The refinement maps a mailbox to its content if its flag is set and a call to a
pending message until its flag is set or its compare-and-swap succeeds. Its
linearisation points are `Flag`, a successful `Cas`, and `CasLoad` when combining
changes nothing (then delivering the message changes nothing either). The
assumptions are those named in `Setting`, `Team` and `Mailbox`
(`VerticesAssumption`, `NoneAssumption`, `ThreadsAssumption`, `CombineAssumption`,
`UnitAssumption`), and `IntegralMessages` for the refinement: without it
`combiner_pagerank_loss` shows it to be false. TLC evaluates the assumptions in
every run of these modules.

The proofs about the engines are for every team of threads, every set of vertices,
every set of applications and graphs (`JobsAssumption`) and every `ip_compute` that
keeps to its types (`ProgramTyped`: every result it may have is in its types;
`Apps_proofs` proves it of `cc.c` and of the arbitrary program, and of `sssp.c` and
`pagerank.c` when their types are the natural numbers). Two more hypotheses appear
where the order of messages is not that of the graph: `OrderFree`, `ip_combine` is
commutative and associative, which the push versions and the superstep semantics
need alike, as nobody says which sender comes first (`LeastOrderFree` proves it of the
minimum, `SumOrderFree` of the sum in fixed point); and `IntegralMessages`, for the
reason above.

Each engine has a chain of invariants, each inductive given those before it:

| Module | Theorem | States | Follows from |
|---|---|---|---|
| `Combiner_proofs` | `CombinerTyping`, `ThreadsAgree` | `TypeOK`, `LoopAgreement` | `CombinerInv` |
| | `CombinerUsesMailboxes`, `CombinerDelivers` | every run is a run of `Mailbox`, and of `AtomicMailbox` | `CombinerInv` |
| | `CounterExact` | `ActiveCount` | `CombinerInv`, `CountInv` |
| | `BroadcastsArrive` | `BroadcastDelivered` | and `DeliveryInv` |
| | `CombinerImplementsBSP` | `ImplementsBSP` | all three |
| `CombinerSpread_proofs` | `CombinerSpreadTyped` | `TypeOK` | `TeamInv`, `SpreadInv` |
| | `SpreadListIsExact`, `MergeHasRoom` | `SpreadListExact`, `MergeFits` | the same |
| | `CombinerSpreadImplementsBSP` | `ImplementsBSP` | and `DeliveryInv` |
| `SingleBroadcast_proofs` | `SingleBroadcastTyped`, `SingleBroadcastCounterExact` | `TypeOK`, `ActiveCount` | `CountInv` |
| | `EverythingFetched` | `FetchedEverything` | and `FetchInv` |
| | `SingleBroadcastImplementsBSP` | `ImplementsBSP` | both |
| `SpreadSingleBroadcast_proofs` | `SpreadSingleBroadcastTyped` | `TypeOK` | `TeamInv` |
| | `TargetsRebuilt`, `SuperstepsStartClean` | `TargetsAreReceivers`, `CleanStart` | and `TargetInv` |
| | `SpreadSingleBroadcastImplementsBSP` | `ImplementsBSP` | both |
| each of them | `XFindsComponents`, `XFindsDistances` | `CCResult`, `SSSPResult` | `XImplementsBSP` and `Apps_proofs` |

*Where the threads are.* The first invariant of each chain has `SamePhase`: no thread
is past a barrier that another one has not reached. All else is said phase by phase.
`LoopAgreement` is not inductive: it follows from `SamePhase` and `HeadAgrees` (who
tested the counter saw the value it still has), which is kept because the counter is
only written in phases that no thread at the head of the loop is in. `UsesMailboxes`
needs `SendsInLoop` (a call of `ip_send_message` is open only at the label `send`), so
that nobody sends while mailboxes are emptied, and `BroadcastHasMessage`, so that
what is sent is a message.

*The counter.* `ActiveCount` speaks of one moment only. In between, what
`ip_active_vertices` lacks is in the shares of the threads (`partial`) that have not
been added yet. `Counts` says that there is a set of vertices already added and, for
each other vertex that counts, one thread that has counted it; `CountInv` says which
vertices these are (`Tally`) at each point of the loop. `CountMerged`,
`CountOneMore` and the other lemmas of `Engine_proofs` do the arithmetic, without
sums over the threads.

*What arrives (push versions).* Half-way through the compute loop a mailbox holds the
combination of what was sent along some of the edges into its vertex. `ArrivedExact`
names them: the edges behind a thread's position in its broadcast, and all edges of
the senders that are done; `SendsForBroadcast` relates the calls that are open to the
broadcasts. The steps that deliver are those of the atomic mailbox, so the proof
rests on `MailboxRefinement`, and not on the lock. Both versions broadcast in the
same way: these definitions are in `Broadcasts`, the lemmas about them in
`Mailbox_proofs`, and each version adds which vertices run.

*What is fetched (pull versions).* `OutboxCurrent` says which outboxes are those of
this superstep and which are left from the one before; `Fetched` says what the
mailboxes behind the fetch hold. `MarksRight` is the core of the version with
targets: a mark is never taken back while a broadcast goes on, so that marks set
without protection lose nothing.

*The lists (`combiner_spread`).* A thread lists a vertex after it has released the
lock, one step after it set the flag. `FullAreListed` therefore counts the vertex that
a thread is about to list; `CollectedOnce` says that it is in no list yet, which
follows from `FirstWriterAlone` of the mailboxes. `CountExact` says what the counter
counts while only some of the threads have added the length of their lists, and
`MergeFits` follows at the merge. Typing needs `SpreadInv`: that what the update
copies is a message holds because the flag, which it does not test, is set.
`DeliveryInv` adds that the vertices of the list run once each (`RunsOnce`), that
what has arrived stays in the mailboxes until the update (`AllArrived`), and that a
superstep with nobody to run is never begun (`SomeToRun`, from `CountExact`).

*The refinements.* The mapping of each engine to `BSP` is in its module. The steps of
a phase map to steps of the abstract superstep (`Compute`, `NextSuperstep`, `Return`) or to
stutters; the one that ends the superstep is the barrier or the single region at
which the mapped superstep number changes, and its step says what was proved of the
whole phase before (`BroadcastsArrive`, `EverythingFetched`, `TargetsRebuilt`).

*The results.* `Apps_proofs` proves what `cc.c` and `sssp.c` compute in the superstep
semantics (`ComponentsInSupersteps`, `DistancesInSupersteps`), for each value of
`KeepsUnread` and `VotesCount`; each engine's refinement then carries it to its own
`ip_run`. The two applications are one algorithm there, with a first label (`Start`),
the cost of an edge (`Cost`) and the label that is not told (`Unset`). The invariant is
`Labelling`: a label is the end of some path (`Right`), and none is forgotten
(`NoneForgotten`): along every edge the label at its end takes the one at its source into
account, or the message that will make it do so is in the mailbox, or was just broadcast.
When no vertex is active there are no such messages (`Rounds`), so labels differ along
an edge by at most its cost; by induction along paths they are least. `RunsCC` and
`RunsSSSP` name the hypotheses: `ip_combine` is the minimum, the application is `CCCompute`
or `SSSPCompute`, `cc.c` runs on undirected graphs, `sssp.c` from a vertex of the graph
and with every number up to `UINT_MAX` a message. `ProgramTyped` of `sssp.c` is known
for the natural numbers (`SSSPKeepsTypes`). In machine integers the code compares before
it adds, so that a distance never passes `UINT_MAX`.

*Folds.* A combination over a set of edges and a merge of lists are recursive
functions. The library's induction theorems take an operator as a parameter, which
the installed provers cannot instantiate; the proofs take a least counterexample
instead (`SmallestSet`, `SmallestNumber` in `Engine_proofs`) and refute it. `Induction` in
`Apps_proofs` is the same for a set of numbers; with it `WithinSteps` shows that the
recursive function `Within` has a value, and `WithinAll` that a path never needs more
edges than there are vertices.

`GenerateAndLoad_proofs` proves of the binary generator and the loader, for every
number of vertices and of threads, every choice of `IP_NEEDS_` macros and every
graph that is drawn or stored:

| Theorem | States |
|---|---|
| `InvHolds` | `Inv` is inductive, hence always true |
| `TypeCorrect` | `TypeOK` |
| `NeighboursAreProper` | `ProperNeighbours`: what `nextID` draws |
| `GraphIsLoaded`, `EdgesAreMirrored` | `LoadsGraph`, `MirrorsEdges` |
| `CountsNeverDiffer` | `CountsAgree` |

*The draws.* Typing rests on `NextIDProper`: while there are fewer exclusions than
other vertices, `nextID` returns a vertex, and never the first exclusion, which is the
source. The other exclusions it may return (`generator_repeats`), so the lemma is about the
first, and `Drawing` says that the source is that one and how many there are. `Drawing` also says that what is in
the file so far is what was drawn: an offset per source begun, the lists one behind the
other. At the end of the generator it becomes `Complete`, which is also how stored files start.

*The load.* `LoadsGraph` says nothing before the last barrier. The invariant says what each
region has done for the share of each thread, label by label (`OffsetsInv`,
`ConnectInv`), and that no thread is past a barrier that another one has not reached
(`SamePhase`); at a barrier the shares, which cover the vertices (`SharesCover`) and
lie one behind the other (`ShareBounds`), make it a fact about the graph. `SharesInv`: when
there are fewer vertices than threads the range of some thread wraps around and no load
gets past the first region (`loader_few_vertices`), so from the second on every thread
has a vertex. `CriticalInv` says that the position in the shared file is the
reader's own between its seek and its read. Two threads set the count of the vertex before a share;
`CountsInv` says that it is 0 or right at all times, from which `CountsAgree` follows.

*The mirroring.* `MirrorInv` counts: the list of in-neighbours built so far has every
source as often as the edges passed so far lead from it (`EdgesDone`). What one edge changes is
in `OccurrencesAppend`, about `Cardinality` of a set of positions. For an undirected graph
nothing is mirrored; the list of a vertex serves as both, and `MirrorsEdges` follows from the
symmetry of the graph.

The assumptions are those of `GraphFiles`, `GraphLoader` and `GenerateAndLoad`:
identifiers have room for the number of vertices (`VertexCountAssumption`); what is stored is lists of
vertices with offsets that fit in their words, and an undirected graph is symmetric
(`StoredAssumption`); an application that asks for the identifiers of in-neighbours
asks for their number (the mirroring writes the number with no guard,
`iPregel_postamble.h:436-490`, and does not compile without it); the generator's graphs are directed and
its number of edges fits in a word (`GeneratorAssumption`). TLC evaluates them in every run
of `MCGraphLoader`.

Only model-checked:

* liveness (`Termination`, `Loads`), which the prover does not handle;
* the text generators and the converters (`MCGraphTools`): the converters are
  folds over the lines of a file, and what a fold returns for every file needs
  induction over data.

## 5. Plan

Sections 2 to 4 are done; every component with behaviour of its own is modelled, and
every safety property of the engines, the mailboxes and the loader that a run checks is
proved. What is left is the text generators and the converters.

## 6. Running

`tlc -config MCCombiner.cfg MCCombiner` checks a run; `tlapm X_proofs.tla`
checks the proofs about module `X`. `PROJECT.json` gives the module and the cfg of each run.

## 7. Not modelled

* `ip_init`, `ip_dump`, `ip_safe_*`: output, timing and termination on failure. The
  one failure that complete files can cause is modelled, the short `.idx` file.
* The frees at the end of `ip_run`, behind which nothing runs.
* Edge weights: declared, loaded by nothing.
* `ip_send_message` in the pull versions: it ends the program.
* The command lines of the tools, beyond the numbers they set; files that cannot be
  opened; input lines that are no pairs of numbers; a text file of header lines only.
* `IP_ENABLE_THREAD_PROFILING`: timers only.
