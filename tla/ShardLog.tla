------------------------------ MODULE ShardLog ------------------------------
(***************************************************************************)
(* What log application promises (spec 4.5 and 5): the shard's state is    *)
(* the result of applying the first `applied` entries of the log, one at a *)
(* time and in order.  An entry whose handler fails still counts as        *)
(* applied, with no effect on the data.  A prefix of the applied entries   *)
(* is durable; a crash may lose the applied entries past it, which are     *)
(* then applied again from the log.                                        *)
(*                                                                         *)
(* The data is abstract: the sequence of entries that took effect.  An     *)
(* entry fails when it already took effect, as a retried request that the  *)
(* handler refuses; what matters is only that the outcome depends on the   *)
(* state.                                                                  *)
(***************************************************************************)
EXTENDS Naturals, Sequences

CONSTANTS
  Entries,   \* log entry bodies
  MaxIndex   \* bound on the length of the log

VARIABLES
  log,       \* the replicated log, outside the shard
  applied,   \* the index of the last entry applied
  durable,   \* the index of the last entry that survives a crash
  state      \* the data

vars == <<log, applied, durable, state>>

\* the handler's outcome: an entry fails on a state it already took effect in
Fails(s, e) == \E i \in 1..Len(s) : s[i] = e

\* one entry applied to the data: its effects, or none if the handler failed
Step(s, e) == IF Fails(s, e) THEN s ELSE Append(s, e)

\* the data after applying a sequence of entries to the initial data
RECURSIVE ApplyAll(_)
ApplyAll(es) ==
  IF es = <<>> THEN <<>>
  ELSE Step(ApplyAll(SubSeq(es, 1, Len(es) - 1)), es[Len(es)])

Init ==
  /\ log = <<>>
  /\ applied = 0
  /\ durable = 0
  /\ state = <<>>

\* the replication layer commits another entry
AppendEntry(e) ==
  /\ Len(log) < MaxIndex
  /\ log' = Append(log, e)
  /\ UNCHANGED <<applied, durable, state>>

\* the next entry is applied
Apply ==
  /\ applied < Len(log)
  /\ applied' = applied + 1
  /\ state' = Step(state, log[applied + 1])
  /\ UNCHANGED <<log, durable>>

\* applied entries become durable
Persist ==
  /\ durable < applied
  /\ durable' \in durable + 1 .. applied
  /\ UNCHANGED <<log, applied, state>>

\* a crash keeps a durable prefix at least as long as the durable one
Lose ==
  \E k \in durable .. applied :
    /\ k < applied
    /\ applied' = k
    /\ durable' = k
    /\ state' = ApplyAll(SubSeq(log, 1, k))
    /\ UNCHANGED log

Next ==
  \/ \E e \in Entries : AppendEntry(e)
  \/ Apply
  \/ Persist
  \/ Lose

Spec == Init /\ [][Next]_vars

====
