------------------------------ MODULE Pipeline ------------------------------
(***************************************************************************)
(* The producer-consumer pipeline of lang/classes/pipeline.py as kernels   *)
(* use it: producers fill the stages of a ring in shared memory with       *)
(* asynchronous copies, consumers read them, and two rings of mbarriers    *)
(* order the two.  In the code a producer waits on _full_barriers, which   *)
(* the consumers arrive at, and a consumer on _empty_barriers, which the   *)
(* producers and their copies complete.                                    *)
(*                                                                         *)
(* Every thread (or group of threads that arrives once) holds its own      *)
(* stage and phase in registers.  An mbarrier is modelled by the number of *)
(* phases it has completed; its phase bit is that number modulo 2, and a   *)
(* wait sees only the bit.                                                 *)
(***************************************************************************)
EXTENDS Integers, FiniteSetsExt

CONSTANTS
    Producers,   \* each copies its own part of every tile
    Consumers,   \* each reads every tile
    NumStages,   \* num_stages
    NumTiles,    \* bound: tiles that go through the pipeline
    Nothing      \* content of a part of a stage before the first copy

ASSUME StagesAssumption ==
    /\ NumStages \in Nat \ {0} /\ NumTiles \in Nat
    /\ IsFiniteSet(Producers) /\ IsFiniteSet(Consumers)
    /\ Producers # {} /\ Consumers # {} /\ Producers \cap Consumers = {}
ASSUME NothingAssumption == Nothing \notin Nat

VARIABLES
    full,      \* _full_barriers: [stages -> mbarrier]
    empty,     \* _empty_barriers: [stages -> mbarrier]
    stage,     \* [threads -> producer_stage or consumer_stage]
    phase,     \* [threads -> _producer_phase or _consumer_phase]
    pc,        \* [threads -> next step of its loop body]
    tile,      \* [threads -> number of completed iterations]
    copies,    \* copies in flight: [by, stage, tile]
    smem       \* [stages -> [Producers -> tile whose part is stored]]

vars == <<full, empty, stage, phase, pc, tile, copies, smem>>

Agents == Producers \union Consumers
Stages  == 0 .. NumStages - 1
Tiles   == 0 .. NumTiles - 1

\* Mutant: one stage too few is drained.
DrainRounds_OneShort == Min({NumStages, NumTiles}) - 1

\* How often a producer waits once more after its last tile.
DrainRounds == Min({NumStages, NumTiles})

NewBarrier(count) == [turns |-> 0, pending |-> count, tx |-> 0]

\* Mutant: the first consumer to arrive completes the phase.
FullCount_One == 1

FullCount  == Cardinality(Consumers)  \* consumer_arrive_count
EmptyCount == Cardinality(Producers)  \* producer_arrive_count

\* Mutant: the producer begins with the phase the barrier is in.
InitialPhase_SameForAll(t) == 0

InitialPhase(t) == IF t \in Producers THEN 1 ELSE 0

Init ==
    /\ full = [s \in Stages |-> NewBarrier(FullCount)]
    /\ empty = [s \in Stages |-> NewBarrier(EmptyCount)]
    /\ stage = [t \in Agents |-> 0]
    /\ phase = [t \in Agents |-> InitialPhase(t)]
    /\ pc = [t \in Agents |-> "acquire"]
    /\ tile = [t \in Agents |-> 0]
    /\ copies = {}
    /\ smem = [s \in Stages |-> [p \in Producers |-> Nothing]]
-----------------------------------------------------------------------------
\* The barrier after so many arrivals and a change of its tx-count: when nothing is
\* outstanding the phase completes and the arrivals are counted anew.
Settled(bar, arrivals, tx, count) ==
    IF bar.pending = arrivals /\ bar.tx + tx = 0
      THEN [turns |-> bar.turns + 1, pending |-> count, tx |-> 0]
      ELSE [turns |-> bar.turns, pending |-> bar.pending - arrivals, tx |-> bar.tx + tx]

\* mbarrier.wait: the threads go on when the current phase bit is not the given one.
WaitDone(bar, ph) == bar.turns % 2 # ph

Goto(t, label) == pc' = [pc EXCEPT ![t] = label]

\* Mutant: the phase is never flipped.
Advance_SamePhase(t) ==
    /\ pc[t] = "advance"
    /\ stage' = [stage EXCEPT ![t] = (@ + 1) % NumStages]
    /\ tile' = [tile EXCEPT ![t] = @ + 1]
    /\ Goto(t, "acquire")
    /\ UNCHANGED <<full, empty, phase, copies, smem>>

\* producer_advance and consumer_advance: the phase flips when the ring wraps.
Advance(t) ==
    /\ pc[t] = "advance"
    /\ stage' = [stage EXCEPT ![t] = (@ + 1) % NumStages]
    /\ phase' = [phase EXCEPT ![t] = IF stage'[t] = 0 THEN 1 - @ ELSE @]
    /\ tile' = [tile EXCEPT ![t] = @ + 1]
    /\ Goto(t, "acquire")
    /\ UNCHANGED <<full, empty, copies, smem>>

ProducerAcquire(p) ==
    /\ pc[p] = "acquire" /\ tile[p] < NumTiles
    /\ WaitDone(full[stage[p]], phase[p])
    /\ Goto(p, "expect")
    /\ UNCHANGED <<full, empty, stage, phase, tile, copies, smem>>

\* Mutant: the producer arrives without announcing the copy.
Expect_OnlyArrive(p) ==
    /\ pc[p] = "expect"
    /\ empty' = [empty EXCEPT ![stage[p]] = Settled(@, 1, 0, EmptyCount)]
    /\ Goto(p, "copy")
    /\ UNCHANGED <<full, stage, phase, tile, copies, smem>>

\* arrive_and_expect_tx at producer_release_barrier(): one arrival, one copy announced.
Expect(p) ==
    /\ pc[p] = "expect"
    /\ empty' = [empty EXCEPT ![stage[p]] = Settled(@, 1, 1, EmptyCount)]
    /\ Goto(p, "copy")
    /\ UNCHANGED <<full, stage, phase, tile, copies, smem>>

\* tma.global_to_shared into the stage: the copy is started.
StartCopy(p) ==
    /\ pc[p] = "copy"
    /\ copies' = copies \union {[by |-> p, stage |-> stage[p], tile |-> tile[p]]}
    /\ Goto(p, "advance")
    /\ UNCHANGED <<full, empty, stage, phase, tile, smem>>

\* The copy engine finishes any copy in flight and takes it off the barrier's tx-count.
CopyDone(c) ==
    /\ copies' = copies \ {c}
    /\ smem' = [smem EXCEPT ![c.stage][c.by] = c.tile]
    /\ empty' = [empty EXCEPT ![c.stage] = Settled(@, 0, -1, EmptyCount)]
    /\ UNCHANGED <<full, stage, phase, pc, tile>>

\* The drain: wait until the consumers have released a stage, and go on to the next.
ProducerDrain(p) ==
    /\ pc[p] = "acquire" /\ tile[p] \in NumTiles .. NumTiles + DrainRounds - 1
    /\ WaitDone(full[stage[p]], phase[p])
    /\ Goto(p, "advance")
    /\ UNCHANGED <<full, empty, stage, phase, tile, copies, smem>>

\* Mutant: the consumer does not wait.
ConsumerAcquire_NoWait(c) ==
    /\ pc[c] = "acquire" /\ tile[c] < NumTiles
    /\ Goto(c, "read")
    /\ UNCHANGED <<full, empty, stage, phase, tile, copies, smem>>

ConsumerAcquire(c) ==
    /\ pc[c] = "acquire" /\ tile[c] < NumTiles
    /\ WaitDone(empty[stage[c]], phase[c])
    /\ Goto(c, "read")
    /\ UNCHANGED <<full, empty, stage, phase, tile, copies, smem>>

\* The consumer works on the stage; reads by the tensor core end before the release.
Read(c) ==
    /\ pc[c] = "read"
    /\ Goto(c, "release")
    /\ UNCHANGED <<full, empty, stage, phase, tile, copies, smem>>

\* arrive at consumer_release_barrier().
Release(c) ==
    /\ pc[c] = "release"
    /\ full' = [full EXCEPT ![stage[c]] = Settled(@, 1, 0, FullCount)]
    /\ Goto(c, "advance")
    /\ UNCHANGED <<empty, stage, phase, tile, copies, smem>>

Producer(p) == \/ ProducerAcquire(p) \/ Expect(p) \/ StartCopy(p)
               \/ ProducerDrain(p) \/ Advance(p)
Consumer(c) == ConsumerAcquire(c) \/ Read(c) \/ Release(c) \/ Advance(c)
CopyEngine  == \E c \in copies : CopyDone(c)

Drained(p) == tile[p] = NumTiles + DrainRounds

Finished == (\A p \in Producers : Drained(p)) /\ (\A c \in Consumers : tile[c] = NumTiles)

Next == \/ \E p \in Producers : Producer(p)
        \/ \E c \in Consumers : Consumer(c)
        \/ CopyEngine

Spec == Init /\ [][Next]_vars

\* The warps of a resident block all make progress, and copies complete.
FairSpec == /\ Spec
            /\ \A p \in Producers : WF_vars(Producer(p))
            /\ \A c \in Consumers : WF_vars(Consumer(c))
            /\ WF_vars(CopyEngine)
-----------------------------------------------------------------------------
\* A consumer at work on a stage finds there every part of the very tile it is
\* at, complete: never the previous round's, the next round's or a mixture.
ReadsItsTile == \A c \in Consumers :
    pc[c] \in {"read", "release"} => \A p \in Producers : smem[stage[c]][p] = tile[c]

\* No copy is in flight into a stage a consumer is at work on, and none into
\* a part another copy is in flight to.
StageExclusive ==
    /\ \A copy \in copies, c \in Consumers :
          pc[c] \in {"read", "release"} => copy.stage # stage[c]
    /\ \A copy, other \in copies :
          copy.stage = other.stage /\ copy.by = other.by => copy = other

\* A waiting thread is never so far behind its barrier that the phase bit has
\* come round again: the wait can only be ended by the turn it is meant for.
Rounds(t) == tile[t] \div NumStages
PhaseNotAliased ==
    /\ \A p \in Producers : pc[p] = "acquire" => Rounds(p) - full[stage[p]].turns \in {0, 1}
    /\ \A c \in Consumers : pc[c] = "acquire" => empty[stage[c]].turns - Rounds(c) \in {0, 1}

\* A producer that has drained the ring leaves only when every consumer has
\* released its last stage ("wait for consumer to finish processing all in-flight
\* stages"), so nobody needs the barriers any more.
DrainComplete == \A p \in Producers, c \in Consumers :
    Drained(p) => tile[c] = NumTiles \/ (tile[c] = NumTiles - 1 /\ pc[c] = "advance")

Ring == INSTANCE BroadcastRing
          WITH N <- NumStages,
               landed <- {k \in Tiles : empty[k % NumStages].turns > k \div NumStages},
               taken <- [c \in Consumers |-> tile[c] + (IF pc[c] = "advance" THEN 1 ELSE 0)]

\* The barriers implement a bounded ring that broadcasts every tile in order.
ImplementsRing == Ring!Spec

\* Every consumer gets through all the tiles: nobody waits for ever.
AllConsumed == <>[]Finished
=============================================================================
