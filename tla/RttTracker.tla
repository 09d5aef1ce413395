----------------------------- MODULE RttTracker -----------------------------
(***************************************************************************)
(* The SYN / SYN-ACK round-trip estimator of rustnet-core (RttTracker in   *)
(* crates/rustnet-core/src/network/types.rs), as operators on one record   *)
(*                                                                         *)
(*     [pending |-> when the SYN of each flow was seen, or NoTime,         *)
(*      recent  |-> the sequence of samples, oldest first]                 *)
(*                                                                         *)
(* The tracker keeps the record behind a Mutex, so each operator is one    *)
(* atomic step of the module that owns the record.  Instants are natural   *)
(* numbers; a sample is the pair of the instant it was taken and the RTT.  *)
(***************************************************************************)
EXTENDS Integers, Sequences

CONSTANTS
  Keys,           \* 4-tuples; ConnectionKey in the code
  MaxPendingAge,  \* max_pending_age (30 s)
  MaxRecentRtts,  \* max_recent_rtts (100)
  NoTime          \* None, for an instant or a duration

ASSUME RttAssumption ==
  /\ MaxPendingAge \in Nat
  /\ MaxRecentRtts \in Nat \ {0}
  /\ NoTime \notin Int

Sample == [at : Nat, rtt : Nat]

RttState == [pending : [Keys -> Nat \cup {NoTime}], recent : Seq(Sample)]

RttNew == [pending |-> [k \in Keys |-> NoTime], recent |-> << >>]

(* cleanup_stale: keep the SYNs recorded strictly after now - max age.     *)
Fresh(ts, now) == ts # NoTime /\ now < ts + MaxPendingAge

CleanupStale(pending, now) ==
  [k \in Keys |-> IF Fresh(pending[k], now) THEN pending[k] ELSE NoTime]

(* A later SYN of the same flow replaces the recorded instant.             *)
RecordSyn(r, k, now) ==
  [r EXCEPT !.pending = CleanupStale([@ EXCEPT ![k] = now], now)]

(* add_rtt_sample: the oldest sample makes room at the cap.                *)
AddRttSample(recent, s) ==
  Append(IF Len(recent) >= MaxRecentRtts THEN Tail(recent) ELSE recent, s)

(* The RTT that record_syn_ack returns, NoTime for None.                   *)
MeasuredRtt(r, k, now) ==
  IF r.pending[k] = NoTime THEN NoTime ELSE now - r.pending[k]

RecordSynAck(r, k, now) ==
  IF r.pending[k] = NoTime
  THEN r
  ELSE [pending |-> [r.pending EXCEPT ![k] = NoTime],
        recent  |-> AddRttSample(r.recent,
                                 [at |-> now, rtt |-> now - r.pending[k]])]

(* Faulty: the window is ignored.                                          *)
BugInWindowAll(r, now, window) == 1..Len(r.recent)

(* The samples take_average_rtt averages over.                             *)
InWindow(r, now, window) ==
  {i \in 1..Len(r.recent) : now <= r.recent[i].at + window}

(* take_average_rtt computes the average of InWindow and leaves the record *)
(* as it is.                                                               *)
TakeAverageRtt(r, now, window) == r
=============================================================================
