---------------------------- MODULE EventIterator ----------------------------
(***************************************************************************)
(* The iterator that every FilterX of the Go bindings returns              *)
(* (src/bindings/go-go-ethereum, one copy per event; the lines mapped are  *)
(* those of SetGenesis in i_settlement.go).  The logs are found before     *)
(* FilterX returns; a goroutine of go-ethereum sends them through a        *)
(* buffered channel, and the client's loop over Next takes them from it.   *)
(* Close may be called at any moment, from the loop's goroutine or from    *)
(* another.  What go-ethereum does (bind.FilterLogs and the subscription   *)
(* of event.NewSubscription) is modelled from how the iterator uses it.    *)
(***************************************************************************)
EXTENDS Naturals, Sequences

CONSTANTS NumLogs,       \* the logs found, numbered in the order of the chain
          Capacity       \* what the channel buffers (128 in go-ethereum)

ASSUME IteratorAssumption == NumLogs \in Nat /\ Capacity \in Nat \ {0}

VARIABLES
    logs,        \* it.logs: the channel
    next,        \* the log the goroutine sends next
    sender,      \* the goroutine: "sending", or "ended" with sub.Err() closed
    subscription,\* it.sub: "open", "closing" (Close waits) or "closed"
    done,        \* it.done
    fail,        \* it.fail # nil
    delivered,   \* history: the events Next has answered true for
    over,        \* history: has Next answered false
    left         \* has the client left its loop

vars == <<logs, next, sender, subscription, done, fail, delivered, over, left>>

goroutine == <<next, sender>>
iterator == <<done, fail, delivered, over>>

TypeOK ==
    /\ logs \in Seq(1..NumLogs) /\ Len(logs) <= Capacity
    /\ next \in 1..(NumLogs + 1)
    /\ sender \in {"sending", "ended"}
    /\ subscription \in {"open", "closing", "closed"}
    /\ delivered \in Seq(1..NumLogs)
    /\ <<done, fail, over, left>> \in BOOLEAN \X BOOLEAN \X BOOLEAN \X BOOLEAN

(* FilterX: the logs are known and the goroutine is about to send them.    *)
Init ==
    /\ logs = <<>> /\ next = 1 /\ sender = "sending"
    /\ subscription = "open"
    /\ done = FALSE /\ fail = FALSE
    /\ delivered = <<>> /\ over = FALSE /\ left = FALSE

-----------------------------------------------------------------------------
(* The goroutine of the subscription: for every log, select between the    *)
(* channel and quit; it then ends without an error.                        *)
Send ==
    /\ sender = "sending" /\ next <= NumLogs /\ Len(logs) < Capacity
    /\ logs' = Append(logs, next)
    /\ next' = next + 1
    /\ UNCHANGED <<sender, subscription, iterator, left>>

Quit ==
    /\ sender = "sending" /\ next <= NumLogs /\ subscription # "open"
    /\ sender' = "ended"
    /\ UNCHANGED <<logs, next, subscription, iterator, left>>

Finish ==
    /\ sender = "sending" /\ next > NumLogs
    /\ sender' = "ended"
    /\ UNCHANGED <<logs, next, subscription, iterator, left>>

Goroutine == Send \/ Quit \/ Finish

-----------------------------------------------------------------------------
(* Next takes a log from the channel: an event, or the reason to stop when *)
(* UnpackLog refuses it, which any log may be.                             *)
TakeLog ==
    /\ logs # <<>>
    /\ logs' = Tail(logs)
    /\ \/ delivered' = Append(delivered, Head(logs)) /\ UNCHANGED <<fail, over>>
       \/ fail' = TRUE /\ over' = TRUE /\ UNCHANGED delivered

(* Mutant: a failed iteration goes on at the next log.                     *)
NextLogAfterFailure ==
    /\ ~done
    /\ TakeLog
    /\ UNCHANGED <<goroutine, subscription, done, left>>

(* Next, the iteration being in progress: a log, or the end of sub.Err(),  *)
(* whichever select picks when both are there.                             *)
NextLog ==
    /\ ~fail /\ ~done
    /\ TakeLog
    /\ UNCHANGED <<goroutine, subscription, done, left>>

(* Mutant: Next only waits for logs.                                       *)
NextEndUnseen ==
    /\ ~fail /\ ~done /\ sender = "ended"
    /\ TakeLog
    /\ UNCHANGED <<goroutine, subscription, done, left>>

(* Mutant: the end of the subscription ends the iteration at once.         *)
NextEndDropsRest ==
    /\ ~fail /\ ~done /\ sender = "ended"
    /\ done' = TRUE /\ over' = TRUE
    /\ UNCHANGED <<logs, goroutine, subscription, fail, delivered, left>>

(* The goroutine ended: Next remembers it and calls itself, which delivers *)
(* what the channel still holds or answers false.                          *)
NextEnd ==
    /\ ~fail /\ ~done /\ sender = "ended"
    /\ done' = TRUE
    /\ \/ TakeLog
       \/ logs = <<>> /\ over' = TRUE /\ UNCHANGED <<logs, fail, delivered>>
    /\ UNCHANGED <<goroutine, subscription, left>>

(* Next, the subscription having completed: what is left, then false.      *)
NextDrain ==
    /\ ~fail /\ done
    /\ \/ TakeLog
       \/ logs = <<>> /\ over' = TRUE /\ UNCHANGED <<logs, fail, delivered>>
    /\ UNCHANGED <<goroutine, subscription, done, left>>

(* Once it has failed, Next answers false; Error tells why.                *)
NextFailed ==
    /\ fail
    /\ over' = TRUE
    /\ UNCHANGED <<logs, goroutine, subscription, done, fail, delivered, left>>

CallNext == NextLog \/ NextEnd \/ NextDrain \/ NextFailed

-----------------------------------------------------------------------------
(* The client may leave its loop before Next answers false.                *)
Leave ==
    /\ left' = TRUE
    /\ UNCHANGED <<logs, goroutine, subscription, iterator>>

(* Close unsubscribes: it closes quit, and returns when the goroutine has  *)
(* ended, at once if it already has.                                       *)
Close ==
    /\ subscription = "open"
    /\ subscription' = IF sender = "ended" THEN "closed" ELSE "closing"
    /\ UNCHANGED <<logs, goroutine, iterator, left>>

CloseReturns ==
    /\ subscription = "closing" /\ sender = "ended"
    /\ subscription' = "closed"
    /\ UNCHANGED <<logs, goroutine, iterator, left>>

Next == Goroutine \/ CallNext \/ Leave \/ Close \/ CloseReturns

(* Goroutines are scheduled; a client in its loop calls Next again.  It    *)
(* need not stay in the loop, nor close the iterator.                      *)
LoopStep == ~left /\ CallNext

Fairness == WF_vars(Goroutine) /\ WF_vars(CloseReturns) /\ WF_vars(LoopStep)

Spec == Init /\ [][Next]_vars /\ Fairness

-----------------------------------------------------------------------------
(* The iteration stops for a reason: at a log that cannot be decoded, or   *)
(* after everything that was sent; and unless the iterator was closed,     *)
(* everything the filter found was sent.  The last logs wait in a channel  *)
(* whose sender is gone: answering false at the end of the subscription    *)
(* would lose them.                                                        *)
NothingLost ==
    over /\ ~fail => /\ Len(delivered) = next - 1
                     /\ subscription = "open" => Len(delivered) = NumLogs

Feed == INSTANCE EventFeed WITH emitted <- NumLogs

(* In order, each once, and nothing after false.                           *)
ImplementsFeed == Feed!Spec

(* A loop over Next ends.                                                  *)
LoopEnds == <>(over \/ left)

(* Close returns, even when the channel is full and nobody reads it.       *)
CloseAlwaysReturns == subscription = "closing" ~> subscription = "closed"
=============================================================================
