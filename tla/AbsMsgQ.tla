------------------------------ MODULE AbsMsgQ ------------------------------
(***************************************************************************)
(* What a message queue promises: a FIFO of at most MaxMsgs messages.      *)
(* Readers wait only while it is empty and writers only while it is full;  *)
(* which of several waiters is served is left open.                        *)
(***************************************************************************)
EXTENDS Naturals, Sequences

CONSTANTS Procs, Items, MaxMsgs

VARIABLES
    buf,       \* the messages, first in first out
    readers,   \* processes waiting for a message
    writers,   \* <<process, message>> waiting for space
    delivered  \* <<process, message>> handed to a reader, not yet collected

vars == <<buf, readers, writers, delivered>>

Init == buf = <<>> /\ readers = {} /\ writers = {} /\ delivered = {}

\* A message goes to a waiting reader, or to the end of the FIFO.
Put(m) ==
    /\ Len(buf) < MaxMsgs
    /\ \/ /\ readers = {}
          /\ buf' = Append(buf, m)
          /\ UNCHANGED <<readers, delivered>>
       \/ \E p \in readers : /\ readers' = readers \ {p}
                             /\ delivered' = delivered \cup {<<p, m>>}
                             /\ UNCHANGED buf
    /\ UNCHANGED writers

\* The oldest message is taken; a waiting writer's message takes the space.
Get ==
    /\ buf # <<>>
    /\ \/ writers = {} /\ buf' = Tail(buf) /\ UNCHANGED writers
       \/ \E w \in writers : /\ writers' = writers \ {w}
                             /\ buf' = Append(Tail(buf), w[2])
    /\ UNCHANGED <<readers, delivered>>

WaitPut(p, m) ==
    /\ Len(buf) = MaxMsgs
    /\ writers' = writers \cup {<<p, m>>}
    /\ UNCHANGED <<buf, readers, delivered>>

WaitGet(p) ==
    /\ buf = <<>>
    /\ readers' = readers \cup {p}
    /\ UNCHANGED <<buf, writers, delivered>>

\* A timeout or an abort ends the wait.
GiveUp ==
    /\ \/ \E p \in readers : readers' = readers \ {p} /\ UNCHANGED writers
       \/ \E w \in writers : writers' = writers \ {w} /\ UNCHANGED readers
    /\ UNCHANGED <<buf, delivered>>

Collect(d) ==
    /\ delivered' = delivered \ {d}
    /\ UNCHANGED <<buf, readers, writers>>

\* Everything is dropped and everyone is sent away.
Purge ==
    /\ buf' = <<>> /\ readers' = {} /\ writers' = {}
    /\ UNCHANGED delivered

Next ==
    \/ Get \/ GiveUp \/ Purge
    \/ \E m \in Items : Put(m) \/ \E p \in Procs : WaitPut(p, m)
    \/ \E p \in Procs : WaitGet(p)
    \/ \E d \in delivered : Collect(d)

Spec == Init /\ [][Next]_vars

=============================================================================
