---- MODULE UpdateChannel ----
(***************************************************************************)
(* What a forwarder of updates promises its clients: every update it       *)
(* accepted is delivered to the master at most once.  An update may be     *)
(* dropped (a connection broke, a process ended), but a dropped update is  *)
(* never delivered afterwards and a delivered one is never dropped.        *)
(* Updates are numbered in the order in which they were accepted; the      *)
(* order of delivery is not promised.                                      *)
(***************************************************************************)
EXTENDS Naturals, Sequences, Functions

VARIABLES
    accepted,   \* how many updates were accepted so far
    delivered,  \* the updates the master processed, in its order
    dropped     \* the updates that will never be processed

channelVars == <<accepted, delivered, dropped>>

\* The updates that are neither delivered nor dropped yet.
Waiting == (1 .. accepted) \ (Range(delivered) \cup dropped)

Init ==
    /\ accepted = 0
    /\ delivered = <<>>
    /\ dropped = {}

Accept ==
    /\ accepted' = accepted + 1
    /\ UNCHANGED <<delivered, dropped>>

Deliver ==
    /\ \E u \in Waiting : delivered' = Append(delivered, u)
    /\ UNCHANGED <<accepted, dropped>>

Drop ==
    /\ \E S \in SUBSET Waiting : dropped' = dropped \cup S
    /\ UNCHANGED <<accepted, delivered>>

Next == Accept \/ Deliver \/ Drop

Spec == Init /\ [][Next]_channelVars

----------------------------------------------------------------------------
\* The promise: only accepted updates are delivered, none twice, none that was
\* dropped.
AtMostOnce ==
    /\ delivered \in Seq(1 .. accepted) /\ IsInjective(delivered)
    /\ dropped \subseteq (1 .. accepted) \ Range(delivered)

====
