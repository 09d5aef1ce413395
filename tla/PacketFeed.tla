----------------------------- MODULE PacketFeed -----------------------------
(***************************************************************************)
(* What the capture pipeline promises of the packets it reads, numbered in *)
(* that order: a queue that may lose packets.  A packet waits until it is  *)
(* given to a processor, which finishes it once; packets are given out     *)
(* oldest first; and the packets that are given up instead, because there  *)
(* is no room or a thread ends, are the youngest or the oldest that wait.  *)
(* Pipeline implements it.                                                 *)
(***************************************************************************)
EXTENDS Naturals

VARIABLES
  nread,    \* packets read
  waiting,  \* packets that wait for a processor
  given,    \* packets a processor has and is not done with
  done,     \* packets that were handled
  gone      \* packets that were given up

feedVars == <<nread, waiting, given, done, gone>>

Older(S, T) == \A x \in S, y \in T : x < y

Init == nread = 0 /\ waiting = {} /\ given = {} /\ done = {} /\ gone = {}

(* A packet is read.  For want of room it may take the youngest with it.   *)
Read ==
  \E S \in SUBSET (waiting \cup {nread + 1}) :
    LET rest == (waiting \cup {nread + 1}) \ S
    IN  /\ Older(rest, S)
        /\ nread' = nread + 1
        /\ waiting' = rest
        /\ gone' = gone \cup S
        /\ UNCHANGED <<given, done>>

(* Packets that wait are given up.                                         *)
GiveUp ==
  \E S \in SUBSET waiting :
    /\ S # {}
    /\ Older(S, waiting \ S) \/ Older(waiting \ S, S)
    /\ waiting' = waiting \ S
    /\ gone' = gone \cup S
    /\ UNCHANGED <<nread, given, done>>

(* A processor gets the oldest packets.                                    *)
Give ==
  \E S \in SUBSET waiting :
    /\ S # {}
    /\ Older(S, waiting \ S)
    /\ waiting' = waiting \ S
    /\ given' = given \cup S
    /\ UNCHANGED <<nread, done, gone>>

Finish ==
  \E x \in given :
    /\ given' = given \ {x}
    /\ done' = done \cup {x}
    /\ UNCHANGED <<nread, waiting, gone>>

Next == Read \/ GiveUp \/ Give \/ Finish

Spec == Init /\ [][Next]_feedVars
=============================================================================
