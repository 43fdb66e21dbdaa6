---------------------------- MODULE EventWatcher ----------------------------
(***************************************************************************)
(* The subscription that every WatchX of the Go bindings returns           *)
(* (src/bindings/go-go-ethereum, one copy per event; the lines mapped are  *)
(* those of SetGenesis in i_settlement.go).  A goroutine of the binding    *)
(* takes raw logs from the subscription at the node, decodes each and      *)
(* hands it to the client through `sink`.  The subscription at the node    *)
(* and the wrapper event.NewSubscription are go-ethereum's, modelled from  *)
(* how the binding uses them.                                              *)
(***************************************************************************)
EXTENDS Naturals, Sequences

CONSTANTS MaxLogs,       \* bound: the logs the chain emits, numbered in order
          Capacity       \* what the channel of raw logs buffers

WatcherAssumption == MaxLogs \in Nat /\ Capacity \in Nat \ {0}

VARIABLES
    emitted,     \* how many logs the chain has emitted
    forwarded,   \* how many of them the node has forwarded to the channel
    logs,        \* the channel of raw logs
    node,        \* the node's subscription: "alive", "failed" with an error
                 \* to read, or "quit" with a nil error to read
    dropped,     \* has the goroutine unsubscribed from the node
    watcher,     \* the goroutine: "receiving", "handing" an event, "ended"
    event,       \* the event in hand, 0 when there is none
    result,      \* what the goroutine returned: "none", "nil" or "error"
    delivered,   \* history: the events the client took from sink
    client       \* "listening" at sink, "away", "unsubscribing" or "gone"

vars == <<emitted, forwarded, logs, node, dropped, watcher, event, result,
          delivered, client>>

chain == <<emitted, forwarded>>
work == <<logs, dropped, watcher, event, result, delivered>>

TypeOK ==
    /\ forwarded \in 0..MaxLogs /\ emitted \in forwarded..MaxLogs
    /\ logs \in Seq(1..MaxLogs) /\ Len(logs) <= Capacity
    /\ node \in {"alive", "failed", "quit"} /\ dropped \in BOOLEAN
    /\ watcher \in {"receiving", "handing", "ended"}
    /\ event \in 0..MaxLogs
    /\ result \in {"none", "nil", "error"}
    /\ delivered \in Seq(1..MaxLogs)
    /\ client \in {"listening", "away", "unsubscribing", "gone"}

Init ==
    /\ emitted = 0 /\ forwarded = 0 /\ logs = <<>>
    /\ node = "alive" /\ dropped = FALSE
    /\ watcher = "receiving" /\ event = 0 /\ result = "none"
    /\ delivered = <<>>
    /\ client = "listening"

-----------------------------------------------------------------------------
(* The chain and the node.  The node sends logs in order while the         *)
(* subscription lives, and waits when the channel is full; the connection  *)
(* may break, or the application close it (a nil error).                   *)
Emit ==
    /\ emitted < MaxLogs
    /\ emitted' = emitted + 1
    /\ UNCHANGED <<forwarded, work, node, client>>

Forward ==
    /\ node = "alive" /\ ~dropped /\ forwarded < emitted /\ Len(logs) < Capacity
    /\ forwarded' = forwarded + 1
    /\ logs' = Append(logs, forwarded + 1)
    /\ UNCHANGED <<emitted, node, dropped, watcher, event, result, delivered, client>>

Disconnect ==
    /\ node = "alive" /\ ~dropped
    /\ node' \in {"failed", "quit"}
    /\ UNCHANGED <<chain, work, client>>

-----------------------------------------------------------------------------
(* Mutant: the subscription at the node is left behind.                    *)
ReturnKeepsSubscription(outcome) ==
    /\ watcher' = "ended" /\ event' = 0 /\ result' = outcome
    /\ UNCHANGED <<dropped, delivered>>

(* The goroutine returns, and drops the subscription at the node.          *)
Return(outcome) ==
    /\ watcher' = "ended" /\ event' = 0 /\ result' = outcome
    /\ dropped' = TRUE
    /\ UNCHANGED delivered

(* A log arrives: it is decoded and taken in hand, or ends the goroutine   *)
(* when UnpackLog refuses it.                                              *)
Receive ==
    /\ watcher = "receiving" /\ logs # <<>>
    /\ logs' = Tail(logs)
    /\ \/ /\ watcher' = "handing" /\ event' = Head(logs)
          /\ UNCHANGED <<dropped, result, delivered>>
       \/ Return("error")
    /\ UNCHANGED <<chain, node, client>>

(* The client takes the event.                                             *)
HandOver ==
    /\ watcher = "handing" /\ client = "listening"
    /\ delivered' = Append(delivered, event)
    /\ watcher' = "receiving" /\ event' = 0
    /\ UNCHANGED <<chain, logs, node, dropped, result, client>>

(* Both selects also wait for an error of the node's subscription and for  *)
(* the client to unsubscribe.                                              *)
NodeError ==
    /\ watcher # "ended" /\ node \in {"failed", "quit"}
    /\ Return(IF node = "failed" THEN "error" ELSE "nil")
    /\ UNCHANGED <<chain, logs, node, client>>

(* Mutant: with an event in hand the goroutine does not look at quit.      *)
QuitWhenReceiving ==
    /\ watcher = "receiving" /\ client = "unsubscribing"
    /\ Return("nil")
    /\ UNCHANGED <<chain, logs, node, client>>

Quit ==
    /\ watcher # "ended" /\ client = "unsubscribing"
    /\ Return("nil")
    /\ UNCHANGED <<chain, logs, node, client>>

Goroutine == Receive \/ HandOver \/ NodeError \/ Quit

-----------------------------------------------------------------------------
(* The client reads sink or does something else; it may unsubscribe at any *)
(* moment, and while it does it no longer reads sink.                      *)
TurnAway ==
    /\ client = "listening"
    /\ client' = "away"
    /\ UNCHANGED <<chain, work, node>>

Listen ==
    /\ client = "away"
    /\ client' = "listening"
    /\ UNCHANGED <<chain, work, node>>

Unsubscribe ==
    /\ client \in {"listening", "away"}
    /\ client' = IF watcher = "ended" THEN "gone" ELSE "unsubscribing"
    /\ UNCHANGED <<chain, work, node>>

UnsubscribeReturns ==
    /\ client = "unsubscribing" /\ watcher = "ended"
    /\ client' = "gone"
    /\ UNCHANGED <<chain, work, node>>

Next ==
    \/ Emit \/ Forward \/ Disconnect
    \/ Goroutine
    \/ TurnAway \/ Listen \/ Unsubscribe \/ UnsubscribeReturns

(* Goroutines are scheduled and the node forwards what it has.  The chain  *)
(* need not emit, nor the client read.                                     *)
Fairness == WF_vars(Goroutine) /\ WF_vars(Forward) /\ WF_vars(UnsubscribeReturns)

Spec == Init /\ [][Next]_vars /\ Fairness

-----------------------------------------------------------------------------
(* A watcher that ends leaves no subscription behind at the node, and      *)
(* without an error only when the client unsubscribed or the application   *)
(* closed its connection.  What was forwarded and not delivered is at most *)
(* what the channel and the goroutine hold.                                *)
EndIsExplained ==
    /\ watcher = "ended" <=> dropped
    /\ result = "nil" => node = "quit" \/ client \in {"unsubscribing", "gone"}
    /\ forwarded - Len(delivered) <= Capacity + 1

Feed == INSTANCE EventFeed WITH over <- watcher = "ended"

(* In order, each once, and nothing after the goroutine ended.             *)
ImplementsFeed == Feed!Spec

(* A client that goes on listening gets every log the chain has emitted,   *)
(* or the subscription ends.                                               *)
LogsArrive ==
    \A n \in 1..MaxLogs :
        emitted >= n ~> \/ Len(delivered) >= n
                        \/ watcher = "ended"
                        \/ client # "listening"

(* Unsubscribe returns, even with an event in hand that nobody will take.  *)
UnsubscribeAlwaysReturns == client = "unsubscribing" ~> client = "gone"
=============================================================================
