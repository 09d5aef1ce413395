-------------------------- MODULE ConnectionTable ---------------------------
(***************************************************************************)
(* What ConnectionTracker promises of connections, whatever its threads do *)
(* to each other: a bounded table whose entries keep their identity and    *)
(* leave it in one of two ways.  They expire, having been silent for their *)
(* timeout, and are then kept in an archive just as they were, from which  *)
(* the oldest go when there are too many; or a clear takes them.           *)
(* ConnectionTracker implements it.                                        *)
(***************************************************************************)
EXTENDS Integers, FiniteSets

CONSTANTS
  Keys,            \* the keys of the table
  NoConn, NoTime,  \* no connection, no duration
  LiveLimit,       \* the connections the table may hold
  KeptLimit,       \* the connections the archive should hold
  KeepHistoric,    \* whether there is an archive
  IdleTimeout,     \* how long a connection may be silent,
  ClosedTimeout    \* and one that has ended

VARIABLES
  now,      \* the clock
  live,     \* the table: per key its connection, or NoConn
  leaving,  \* the entries that have expired and are not yet in the archive
  kept,     \* the archive
  clearing, \* what a clear is taking: "nothing", "live" or "kept"
  cleared   \* whether a clear was ever called

tableVars == <<now, live, leaving, kept, clearing, cleared>>

Present == {k \in Keys : live[k] # NoConn}

Timeout(c) == IF c.closing THEN ClosedTimeout ELSE IdleTimeout

(* Only the entry of k changes.                                            *)
Only(k) == live' = [live EXCEPT ![k] = live'[k]]

Init ==
  /\ now = 0
  /\ live = [k \in Keys |-> NoConn]
  /\ leaving = {} /\ kept = {}
  /\ clearing = "nothing" /\ cleared = FALSE

(* A new connection, if there is room.                                     *)
Admit(k) ==
  /\ live[k] = NoConn /\ live'[k] # NoConn /\ Only(k)
  /\ live'[k].created = live'[k].last /\ live'[k].last <= now
  /\ Cardinality(Present') <= LiveLimit
  /\ UNCHANGED <<now, leaving, kept, clearing, cleared>>

(* What a connection may become: it keeps its identity, an end is final,   *)
(* and so is the initial round-trip time.                                  *)
MayBecome(c, d) ==
  /\ d.addr = c.addr /\ d.created = c.created
  /\ d.last <= now
  /\ c.closing => d.closing
  /\ c.rtt # NoTime => d.rtt = c.rtt

Update(k) ==
  /\ live[k] # NoConn /\ live'[k] # NoConn /\ Only(k)
  /\ MayBecome(live[k], live'[k])
  /\ UNCHANGED <<now, leaving, kept, clearing, cleared>>

(* A connection that was silent for longer than its timeout at a moment    *)
(* that is past leaves the table as it is.                                 *)
Expire(k) ==
  /\ live[k] # NoConn
  /\ \E t \in 0..now :
       /\ t - live[k].last > Timeout(live[k])
       /\ live' = [live EXCEPT ![k] = NoConn]
       /\ leaving' = leaving \cup (IF KeepHistoric
                                   THEN {[key |-> k, conn |-> live[k], closed |-> t]} ELSE {})
  /\ UNCHANGED <<now, kept, clearing, cleared>>

(* It is archived.  It takes the place of the entry for the same key that  *)
(* was created at the same time, and of no other.                          *)
Keep(h) ==
  /\ leaving' = leaving \ {h}
  /\ kept' = {g \in kept : ~(g.key = h.key /\ g.conn.created = h.conn.created)} \cup {h}
  /\ UNCHANGED <<now, live, clearing, cleared>>

(* The archive is full: the entries that expired first go, and never more  *)
(* than are too many.  Only if a clear has made it shorter may more go.    *)
Evict ==
  /\ kept' \subseteq kept
  /\ \A g \in kept \ kept', h \in kept' : g.closed <= h.closed
  /\ \/ Cardinality(kept') >= KeptLimit
     \/ cleared /\ Cardinality(kept) < KeptLimit
  /\ UNCHANGED <<now, live, leaving, clearing, cleared>>

(* A clear takes connections from the table, and then from the archive.    *)
CallClear ==
  /\ clearing = "nothing" /\ clearing' = "live" /\ cleared' = TRUE
  /\ UNCHANGED <<now, live, leaving, kept>>

ClearLive ==
  /\ clearing = "live" /\ clearing' \in {"live", "kept"}
  /\ \E S \in SUBSET Keys : live' = [k \in Keys |-> IF k \in S THEN NoConn ELSE live[k]]
  /\ UNCHANGED <<now, leaving, kept, cleared>>

ClearKept ==
  /\ clearing = "kept" /\ clearing' \in {"kept", "nothing"}
  /\ kept' \subseteq kept
  /\ UNCHANGED <<now, live, leaving, cleared>>

Tick == now' > now /\ UNCHANGED <<live, leaving, kept, clearing, cleared>>

Next ==
  \/ \E k \in Keys : Admit(k) \/ Update(k) \/ Expire(k)
  \/ \E h \in leaving : Keep(h)
  \/ Evict
  \/ CallClear
  \/ ClearLive
  \/ ClearKept
  \/ Tick

Spec == Init /\ [][Next]_tableVars
=============================================================================
