------------------------------ MODULE EventFeed ------------------------------
(***************************************************************************)
(* What a client of the generated bindings is promised by an iterator      *)
(* (FilterX) or a subscription (WatchX) for one kind of event: the events  *)
(* of the chain in their order, from the first on, none twice and none     *)
(* left out, until the feed is over; then no more.                         *)
(***************************************************************************)
EXTENDS Naturals, Sequences

VARIABLES emitted,     \* the number of logs the feed is to deliver, so far
          delivered,   \* the logs handed to the client, by their numbers
          over         \* has the feed ended

vars == <<emitted, delivered, over>>

Init == emitted \in Nat /\ delivered = <<>> /\ over = FALSE

Emit ==
    /\ emitted' = emitted + 1
    /\ UNCHANGED <<delivered, over>>

Deliver ==
    /\ ~over
    /\ Len(delivered) < emitted
    /\ delivered' = Append(delivered, Len(delivered) + 1)
    /\ UNCHANGED <<emitted, over>>

End ==
    /\ over' = TRUE
    /\ UNCHANGED <<emitted, delivered>>

Next == Emit \/ Deliver \/ End

Spec == Init /\ [][Next]_vars
=============================================================================
