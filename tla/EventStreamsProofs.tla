------------------------- MODULE EventStreamsProofs -------------------------
(***************************************************************************)
(* For any number of logs and any capacity of the channel: the iterator    *)
(* keeps its types and loses nothing silently, a watch that ends tells why *)
(* and leaves no subscription behind, and both implement EventFeed.        *)
(*                                                                         *)
(* What makes both feeds is where a log can be: delivered, in the hand of  *)
(* the goroutine, in the channel, or not sent yet, in this order and with  *)
(* nothing between (Between, InTransit).                                   *)
(***************************************************************************)
EXTENDS EventStreams, TLAPS

(* The events delivered are the first logs, in order.                      *)
InOrder == \A i \in 1..Len(delivered) : delivered[i] = i

(* Until a log cannot be decoded, the channel holds what comes between     *)
(* those delivered and the one sent next.                                  *)
Between ==
    ~fail => /\ Len(delivered) + Len(logs) = next - 1
             /\ \A i \in 1..Len(logs) : logs[i] = Len(delivered) + i

(* Why an iterator is done, why it is over and why its sender has ended.   *)
Reasons ==
    /\ done => sender = "ended"
    /\ over /\ ~fail => done /\ logs = <<>>
    /\ sender = "ended" /\ subscription = "open" => next = NumLogs + 1

IInv == TypeOK /\ InOrder /\ Between /\ Reasons

LEMMA InitHolds == Init => IInv
<1> SUFFICES ASSUME Init PROVE IInv OBVIOUS
<1>1. TypeOK
  <2>1. <<>> \in Seq(1..NumLogs) /\ Len(<<>>) <= Capacity /\ 1 \in 1..(NumLogs + 1)
    BY IteratorAssumption DEF IteratorAssumption
  <2> QED BY <2>1 DEF Init, TypeOK
<1>2. InOrder BY DEF Init, InOrder
<1>3. Between BY DEF Init, Between
<1>4. Reasons BY DEF Init, Reasons
<1> QED BY <1>1, <1>2, <1>3, <1>4 DEF IInv

(* Taking a log keeps what is said of the logs, whatever else a step of    *)
(* Next does; and a log is only taken while the iteration is not over.     *)
LEMMA TakingKeepsOrder ==
    ASSUME IInv, ~fail, TakeLog, next' = next
    PROVE  /\ ~over
           /\ logs' \in Seq(1..NumLogs) /\ Len(logs') <= Capacity
           /\ delivered' \in Seq(1..NumLogs)
           /\ InOrder' /\ Between'
<1> USE IteratorAssumption
<1>1. logs \in Seq(1..NumLogs) /\ delivered \in Seq(1..NumLogs) /\ next \in Nat
  BY DEF IInv, TypeOK
<1>2. logs # <<>> /\ logs' = Tail(logs)
  BY DEF TakeLog
<1>3. ~over
  BY <1>2 DEF IInv, Reasons
<1>4. /\ logs' \in Seq(1..NumLogs)
      /\ Len(logs') = Len(logs) - 1
      /\ \A i \in 1..Len(logs') : logs'[i] = logs[i + 1]
      /\ Head(logs) = logs[1] /\ Head(logs) \in 1..NumLogs
  BY <1>1, <1>2
<1>5. /\ Len(delivered) + Len(logs) = next - 1
      /\ \A i \in 1..Len(logs) : logs[i] = Len(delivered) + i
  BY DEF IInv, Between
<1>6. Head(logs) = Len(delivered) + 1
  BY <1>1, <1>2, <1>4, <1>5
<1>7. CASE delivered' = Append(delivered, Head(logs)) /\ UNCHANGED <<fail, over>>
  <2>1. /\ delivered' \in Seq(1..NumLogs)
        /\ Len(delivered') = Len(delivered) + 1
        /\ delivered'[Len(delivered) + 1] = Len(delivered) + 1
        /\ \A i \in 1..Len(delivered) : delivered'[i] = delivered[i]
    BY <1>1, <1>4, <1>6, <1>7
  <2>2. InOrder'
    <3>1. Len(delivered) \in Nat /\ \A i \in 1..Len(delivered) : delivered[i] = i
      BY <1>1 DEF IInv, InOrder
    <3>2. ASSUME NEW i \in 1..Len(delivered') PROVE delivered'[i] = i
      <4>1. CASE i = Len(delivered) + 1
        BY <2>1, <4>1
      <4>2. CASE i # Len(delivered) + 1
        BY <2>1, <3>1, <3>2, <4>2
      <4> QED BY <4>1, <4>2
    <3> QED BY <3>2 DEF InOrder
  <2>3. Between'
    BY <1>1, <1>4, <1>5, <2>1 DEF Between
  <2> QED BY <1>1, <1>3, <1>4, <2>1, <2>2, <2>3 DEF IInv, TypeOK
<1>8. CASE fail' = TRUE /\ over' = TRUE /\ UNCHANGED delivered
  BY <1>1, <1>3, <1>4, <1>8 DEF IInv, TypeOK, InOrder, Between
<1> QED BY <1>7, <1>8 DEF TakeLog

LEMMA StepHolds == IInv /\ [Next]_vars => IInv'
<1> SUFFICES ASSUME IInv, [Next]_vars PROVE IInv' OBVIOUS
<1> USE IteratorAssumption
<1>1. CASE Send
  <2>1. /\ logs \in Seq(1..NumLogs) /\ next \in 1..NumLogs
        /\ logs' = Append(logs, next)
    BY <1>1 DEF Send, IInv, TypeOK
  <2>2. /\ logs' \in Seq(1..NumLogs) /\ Len(logs') = Len(logs) + 1
        /\ logs'[Len(logs) + 1] = next
        /\ \A i \in 1..Len(logs) : logs'[i] = logs[i]
    BY <2>1
  <2>3. TypeOK'
    BY <1>1, <2>1, <2>2 DEF Send, iterator, IInv, TypeOK
  <2>4. InOrder'
    BY <1>1 DEF Send, iterator, IInv, InOrder
  <2>5. delivered \in Seq(1..NumLogs) /\ Len(delivered) \in Nat
    BY DEF IInv, TypeOK
  <2>6. Between'
    BY <1>1, <2>1, <2>2, <2>5 DEF Send, iterator, IInv, Between
  <2>7. Reasons'
    BY <1>1 DEF Send, iterator, IInv, Reasons
  <2> QED BY <2>3, <2>4, <2>6, <2>7 DEF IInv
<1>2. CASE Quit \/ Finish
  <2>1. UNCHANGED <<logs, next, subscription, iterator, left>> /\ sender' = "ended"
    BY <1>2 DEF Quit, Finish
  <2>2. TypeOK' /\ InOrder' /\ Between'
    BY <2>1 DEF iterator, IInv, TypeOK, InOrder, Between
  <2>3. Reasons'
    BY <1>2, <2>1 DEF Quit, Finish, iterator, IInv, TypeOK, Reasons
  <2> QED BY <2>2, <2>3 DEF IInv
<1>3. CASE NextLog
  <2>1. ~fail /\ TakeLog /\ UNCHANGED <<next, sender, subscription, done, left>>
    BY <1>3 DEF NextLog, goroutine
  <2>2. /\ ~over /\ logs' \in Seq(1..NumLogs) /\ Len(logs') <= Capacity
        /\ delivered' \in Seq(1..NumLogs) /\ InOrder' /\ Between'
    BY <2>1, TakingKeepsOrder
  <2>3. TypeOK'
    BY <2>1, <2>2 DEF TakeLog, IInv, TypeOK
  <2>4. Reasons'
    BY <2>1, <2>2 DEF TakeLog, IInv, Reasons
  <2> QED BY <2>2, <2>3, <2>4 DEF IInv
<1>4. CASE NextEnd \/ NextDrain
  <2>1. /\ ~fail /\ done' = TRUE /\ sender = "ended"
        /\ UNCHANGED <<next, sender, subscription, left>>
    BY <1>4 DEF NextEnd, NextDrain, goroutine, IInv, Reasons, TypeOK
  <2>2. CASE TakeLog
    <3>1. /\ ~over /\ logs' \in Seq(1..NumLogs) /\ Len(logs') <= Capacity
          /\ delivered' \in Seq(1..NumLogs) /\ InOrder' /\ Between'
      BY <2>1, <2>2, TakingKeepsOrder
    <3>2. TypeOK'
      BY <2>1, <2>2, <3>1 DEF TakeLog, IInv, TypeOK
    <3>3. Reasons'
      BY <2>1, <2>2, <3>1 DEF TakeLog, IInv, Reasons
    <3> QED BY <3>1, <3>2, <3>3 DEF IInv
  <2>3. CASE logs = <<>> /\ over' = TRUE /\ UNCHANGED <<logs, fail, delivered>>
    BY <2>1, <2>3 DEF IInv, TypeOK, InOrder, Between, Reasons
  <2> QED BY <1>4, <2>2, <2>3 DEF NextEnd, NextDrain
<1>5. CASE NextFailed
  BY <1>5 DEF NextFailed, goroutine, IInv, TypeOK, InOrder, Between, Reasons
<1>6. CASE Leave
  BY <1>6 DEF Leave, goroutine, iterator, IInv, TypeOK, InOrder, Between, Reasons
<1>7. CASE Close \/ CloseReturns
  <2>1. /\ UNCHANGED <<logs, next, sender, done, fail, delivered, over, left>>
        /\ subscription # "closed" /\ subscription' \in {"closing", "closed"}
    BY <1>7 DEF Close, CloseReturns, goroutine, iterator
  <2>2. TypeOK'
    BY <2>1 DEF IInv, TypeOK
  <2>3. InOrder' /\ Between'
    BY <2>1 DEF IInv, InOrder, Between
  <2>4. Reasons'
    BY <2>1 DEF IInv, Reasons
  <2> QED BY <2>2, <2>3, <2>4 DEF IInv
<1>8. CASE UNCHANGED vars
  BY <1>8 DEF vars, IInv, TypeOK, InOrder, Between, Reasons
<1> QED BY <1>1, <1>2, <1>3, <1>4, <1>5, <1>6, <1>7, <1>8
        DEF Next, Goroutine, CallNext

LEMMA InvariantHolds == Spec => []IInv
<1>1. Init => IInv BY InitHolds
<1>2. IInv /\ [Next]_vars => IInv' BY StepHolds
<1> QED BY <1>1, <1>2, PTL DEF Spec

(* The iterator keeps its types; the channel never holds more than it      *)
(* buffers.                                                                *)
THEOREM TypesHold == Spec => []TypeOK
<1>1. IInv => TypeOK BY DEF IInv
<1> QED BY <1>1, InvariantHolds, PTL

(* An iteration that ends without an error delivered everything that was   *)
(* sent, and everything that was found unless it was closed.               *)
THEOREM NothingLostHolds == Spec => []NothingLost
<1>1. ASSUME IInv PROVE NothingLost
  <2>1. CASE over /\ ~fail
    <3>1. done /\ logs = <<>> /\ sender = "ended"
      BY <1>1, <2>1 DEF IInv, Reasons
    <3>2. Len(delivered) + Len(logs) = next - 1 /\ Len(delivered) \in Nat
      BY <1>1, <2>1 DEF IInv, TypeOK, Between
    <3>3. Len(delivered) = next - 1
      BY <3>1, <3>2
    <3> QED BY <1>1, <3>1, <3>3, IteratorAssumption
            DEF IInv, TypeOK, Reasons, NothingLost
  <2> QED BY <2>1 DEF NothingLost
<1> QED BY <1>1, InvariantHolds, PTL

LEMMA StepIsFeedStep == IInv /\ [Next]_vars => [Feed!Next]_(Feed!vars)
<1> SUFFICES ASSUME IInv, [Next]_vars PROVE [Feed!Next]_(Feed!vars) OBVIOUS
<1> USE IteratorAssumption
<1>1. ASSUME TakeLog, ~fail, next' = next PROVE Feed!Deliver \/ Feed!End
  <2>1. /\ ~over /\ delivered' \in Seq(1..NumLogs)
    BY <1>1, TakingKeepsOrder
  <2>2. /\ logs # <<>> /\ logs \in Seq(1..NumLogs) /\ delivered \in Seq(1..NumLogs)
        /\ next \in 1..(NumLogs + 1)
        /\ Len(delivered) + Len(logs) = next - 1
        /\ \A i \in 1..Len(logs) : logs[i] = Len(delivered) + i
    BY <1>1 DEF TakeLog, IInv, TypeOK, Between
  <2>3. Head(logs) = Len(delivered) + 1 /\ Len(delivered) < NumLogs
    BY <2>2
  <2>4. CASE delivered' = Append(delivered, Head(logs)) /\ UNCHANGED <<fail, over>>
    BY <2>1, <2>3, <2>4 DEF Feed!Deliver
  <2>5. CASE fail' = TRUE /\ over' = TRUE /\ UNCHANGED delivered
    BY <2>5 DEF Feed!End
  <2> QED BY <1>1, <2>4, <2>5 DEF TakeLog
<1>2. CASE Goroutine \/ Leave \/ Close \/ CloseReturns \/ UNCHANGED vars
  BY <1>2 DEF Goroutine, Send, Quit, Finish, Leave, Close, CloseReturns, iterator,
              vars, Feed!vars
<1>3. CASE CallNext
  <2>1. CASE TakeLog /\ ~fail /\ next' = next
    BY <1>1, <2>1 DEF Feed!Next
  <2>2. CASE over' = TRUE /\ UNCHANGED delivered
    BY <2>2 DEF Feed!End, Feed!Next
  <2> QED BY <1>3, <2>1, <2>2
          DEF CallNext, NextLog, NextEnd, NextDrain, NextFailed, goroutine
<1> QED BY <1>2, <1>3 DEF Next

(* The iterator is a feed of the logs found: in order, each once, nothing  *)
(* after it answered false.                                                *)
THEOREM ImplementsFeedHolds == Spec => ImplementsFeed
<1>1. Init => Feed!Init
  BY IteratorAssumption DEF Init, Feed!Init
<1>2. IInv /\ [Next]_vars => [Feed!Next]_(Feed!vars)
  BY StepIsFeedStep
<1> QED BY <1>1, <1>2, InvariantHolds, PTL DEF Spec, Feed!Spec, ImplementsFeed

-----------------------------------------------------------------------------
(* The watch.  Until the goroutine ends, the event in its hand is the next *)
(* to deliver, the channel holds those after it, and together they are     *)
(* what the node has forwarded.                                            *)
InHand == IF watcher = "handing" THEN 1 ELSE 0

InTransit ==
    watcher # "ended" =>
        /\ forwarded = Len(delivered) + InHand + Len(logs)
        /\ \A i \in 1..Len(logs) : logs[i] = Len(delivered) + InHand + i
        /\ watcher = "handing" => event = Len(delivered) + 1

WatchInv == Watch!TypeOK /\ Watch!EndIsExplained /\ InTransit

LEMMA WatchInitHolds == Watch!Init => WatchInv
<1> SUFFICES ASSUME Watch!Init PROVE WatchInv OBVIOUS
<1> USE IteratorAssumption
<1>1. Watch!TypeOK
  <2>1. logs \in Seq(1..NumLogs) /\ Len(logs) <= Capacity /\ delivered \in Seq(1..NumLogs)
    BY DEF Watch!Init
  <2>2. forwarded \in 0..NumLogs /\ emitted \in forwarded..NumLogs /\ event \in 0..NumLogs
    BY DEF Watch!Init
  <2>3. dropped \in BOOLEAN
    BY Zenon DEF Watch!Init
  <2> QED BY <2>1, <2>2, <2>3 DEF Watch!Init, Watch!TypeOK
<1>2. Watch!EndIsExplained
  BY DEF Watch!Init, Watch!EndIsExplained
<1>3. InTransit
  BY DEF Watch!Init, InTransit, InHand
<1> QED BY <1>1, <1>2, <1>3 DEF WatchInv

(* A step of the client or the chain, or the end of the goroutine, moves   *)
(* no log.                                                                 *)
LEMMA WatchReturns ==
    ASSUME WatchInv, NEW outcome \in {"nil", "error"}, Watch!Return(outcome),
           watcher # "ended", UNCHANGED <<emitted, forwarded, node, client>>,
           logs' \in Seq(1..NumLogs), Len(logs') <= Len(logs),
           outcome = "nil" => node = "quit" \/ client = "unsubscribing"
    PROVE  WatchInv'
<1> USE IteratorAssumption
<1>1. /\ watcher' = "ended" /\ dropped' = TRUE /\ event' = 0
      /\ result' = outcome /\ delivered' = delivered
  BY DEF Watch!Return
<1>2. Len(logs) \in Nat /\ Len(logs') \in Nat /\ Len(logs) <= Capacity
  BY DEF WatchInv, Watch!TypeOK
<1>3. Watch!TypeOK'
  BY <1>1, <1>2 DEF WatchInv, Watch!TypeOK
<1>4. Watch!EndIsExplained'
  BY <1>1 DEF WatchInv, Watch!EndIsExplained
<1>5. InTransit'
  BY <1>1 DEF InTransit
<1> QED BY <1>3, <1>4, <1>5 DEF WatchInv

LEMMA WatchStepHolds == WatchInv /\ [Watch!Next]_(Watch!vars) => WatchInv'
<1> SUFFICES ASSUME WatchInv, [Watch!Next]_(Watch!vars) PROVE WatchInv' OBVIOUS
<1> USE IteratorAssumption DEF Watch!chain, Watch!work
<1>0. /\ logs \in Seq(1..NumLogs) /\ delivered \in Seq(1..NumLogs)
      /\ Len(logs) \in Nat /\ Len(logs) <= Capacity /\ Len(delivered) \in Nat
      /\ forwarded \in Nat /\ emitted \in Nat /\ forwarded <= emitted
      /\ emitted <= NumLogs /\ Capacity \in Nat
  BY DEF WatchInv, Watch!TypeOK
<1>1. CASE Watch!Emit
  <2>1. Watch!TypeOK'
    BY <1>0, <1>1 DEF Watch!Emit, WatchInv, Watch!TypeOK
  <2>2. Watch!EndIsExplained' /\ InTransit'
    BY <1>1 DEF Watch!Emit, WatchInv, Watch!EndIsExplained, InTransit, InHand
  <2> QED BY <2>1, <2>2 DEF WatchInv
<1>2. CASE Watch!Forward
  <2>1. /\ ~dropped /\ forwarded < emitted /\ Len(logs) < Capacity
        /\ forwarded' = forwarded + 1 /\ logs' = Append(logs, forwarded + 1)
        /\ UNCHANGED <<emitted, node, dropped, watcher, event, result,
                       delivered, client>>
    BY <1>2 DEF Watch!Forward
  <2>2. /\ logs' \in Seq(1..NumLogs) /\ Len(logs') = Len(logs) + 1
        /\ logs'[Len(logs) + 1] = forwarded + 1
        /\ \A i \in 1..Len(logs) : logs'[i] = logs[i]
    BY <1>0, <2>1
  <2>3. Watch!TypeOK'
    BY <1>0, <2>1, <2>2 DEF WatchInv, Watch!TypeOK
  <2>4. /\ watcher # "ended" /\ InHand \in 0..1 /\ InHand' = InHand
        /\ forwarded = Len(delivered) + InHand + Len(logs)
        /\ \A i \in 1..Len(logs) : logs[i] = Len(delivered) + InHand + i
        /\ watcher = "handing" => event = Len(delivered) + 1
    BY <2>1 DEF WatchInv, Watch!EndIsExplained, InTransit, InHand
  <2>5. InTransit'
    <3>1. forwarded' = Len(delivered) + InHand + Len(logs')
      BY <1>0, <2>1, <2>2, <2>4
    <3>2. ASSUME NEW i \in 1..Len(logs')
          PROVE  logs'[i] = Len(delivered) + InHand + i
      <4>1. CASE i = Len(logs) + 1
        BY <1>0, <2>2, <2>4, <4>1
      <4>2. CASE i # Len(logs) + 1
        <5>1. i \in 1..Len(logs)
          BY <1>0, <2>2, <4>2
        <5> QED BY <2>2, <2>4, <5>1
      <4> QED BY <4>1, <4>2
    <3> QED BY <2>1, <2>4, <3>1, <3>2 DEF InTransit
  <2>6. Watch!EndIsExplained'
    <3>1. forwarded' - Len(delivered') <= Capacity + 1
      BY <1>0, <2>1, <2>4
    <3> QED BY <2>1, <3>1 DEF WatchInv, Watch!EndIsExplained
  <2> QED BY <2>3, <2>5, <2>6 DEF WatchInv
<1>3. CASE Watch!Disconnect
  <2>1. Watch!TypeOK'
    BY <1>3 DEF Watch!Disconnect, WatchInv, Watch!TypeOK
  <2>2. Watch!EndIsExplained' /\ InTransit'
    BY <1>3 DEF Watch!Disconnect, WatchInv, Watch!EndIsExplained, InTransit, InHand
  <2> QED BY <2>1, <2>2 DEF WatchInv
<1>4. CASE Watch!Receive
  <2>1. /\ watcher = "receiving" /\ logs # <<>> /\ logs' = Tail(logs)
        /\ UNCHANGED <<emitted, forwarded, node, client>>
    BY <1>4 DEF Watch!Receive
  <2>2. /\ logs' \in Seq(1..NumLogs) /\ Len(logs') = Len(logs) - 1
        /\ \A i \in 1..Len(logs') : logs'[i] = logs[i + 1]
        /\ Head(logs) = logs[1] /\ Head(logs) \in 1..NumLogs
    BY <1>0, <2>1
  <2>3. CASE /\ watcher' = "handing" /\ event' = Head(logs)
             /\ UNCHANGED <<dropped, result, delivered>>
    <3>1. Watch!TypeOK'
      BY <1>0, <2>1, <2>2, <2>3 DEF WatchInv, Watch!TypeOK
    <3>2. Watch!EndIsExplained'
      BY <2>1, <2>3 DEF WatchInv, Watch!EndIsExplained
    <3>3. /\ forwarded = Len(delivered) + Len(logs)
          /\ \A i \in 1..Len(logs) : logs[i] = Len(delivered) + i
      BY <1>0, <2>1 DEF WatchInv, InTransit, InHand
    <3>4. forwarded' = Len(delivered) + 1 + Len(logs') /\ Head(logs) = Len(delivered) + 1
      BY <1>0, <2>1, <2>2, <3>3
    <3>5. ASSUME NEW i \in 1..Len(logs') PROVE logs'[i] = Len(delivered) + 1 + i
      BY <1>0, <2>2, <3>3
    <3>6. InTransit'
      BY <2>3, <3>4, <3>5 DEF InTransit, InHand
    <3> QED BY <3>1, <3>2, <3>6 DEF WatchInv
  <2>4. CASE Watch!Return("error")
    BY <1>0, <2>1, <2>2, <2>4, WatchReturns
  <2> QED BY <1>4, <2>3, <2>4 DEF Watch!Receive
<1>5. CASE Watch!HandOver
  <2>1. /\ watcher = "handing" /\ watcher' = "receiving" /\ event' = 0
        /\ delivered' = Append(delivered, event)
        /\ UNCHANGED <<emitted, forwarded, logs, node, dropped, result, client>>
    BY <1>5 DEF Watch!HandOver
  <2>2. /\ event = Len(delivered) + 1
        /\ forwarded = Len(delivered) + 1 + Len(logs)
        /\ \A i \in 1..Len(logs) : logs[i] = Len(delivered) + 1 + i
    BY <2>1 DEF WatchInv, InTransit, InHand
  <2>3. event \in 1..NumLogs
    BY <1>0, <2>2
  <2>4. delivered' \in Seq(1..NumLogs) /\ Len(delivered') = Len(delivered) + 1
    BY <1>0, <2>1, <2>3
  <2>5. Watch!TypeOK'
    BY <2>1, <2>4 DEF WatchInv, Watch!TypeOK
  <2>6. Watch!EndIsExplained'
    BY <1>0, <2>1, <2>2, <2>4 DEF WatchInv, Watch!EndIsExplained
  <2>7. InTransit'
    BY <1>0, <2>1, <2>2, <2>4 DEF InTransit, InHand
  <2> QED BY <2>5, <2>6, <2>7 DEF WatchInv
<1>6. CASE Watch!NodeError
  BY <1>0, <1>6, WatchReturns DEF Watch!NodeError
<1>7. CASE Watch!Quit
  BY <1>0, <1>7, WatchReturns DEF Watch!Quit
<1>8. CASE Watch!TurnAway \/ Watch!Listen \/ Watch!Unsubscribe \/ Watch!UnsubscribeReturns
  <2>1. /\ UNCHANGED <<emitted, forwarded, logs, node, dropped, watcher, event,
                       result, delivered>>
        /\ client' \in {"listening", "away", "unsubscribing", "gone"}
        /\ client \in {"unsubscribing", "gone"} => client' \in {"unsubscribing", "gone"}
    BY <1>8 DEF Watch!TurnAway, Watch!Listen, Watch!Unsubscribe, Watch!UnsubscribeReturns
  <2>2. Watch!TypeOK'
    BY <2>1 DEF WatchInv, Watch!TypeOK
  <2>3. Watch!EndIsExplained' /\ InTransit'
    BY <2>1 DEF WatchInv, Watch!EndIsExplained, InTransit, InHand
  <2> QED BY <2>2, <2>3 DEF WatchInv
<1>9. CASE UNCHANGED Watch!vars
  BY <1>9 DEF Watch!vars, WatchInv, Watch!TypeOK, Watch!EndIsExplained,
              InTransit, InHand
<1> QED BY <1>1, <1>2, <1>3, <1>4, <1>5, <1>6, <1>7, <1>8, <1>9
        DEF Watch!Next, Watch!Goroutine

-----------------------------------------------------------------------------
(* A client keeps the invariant of what it uses.                           *)
StreamsInv ==
    /\ kind \in {"filter", "watch"}
    /\ kind = "filter" => IInv
    /\ kind = "watch" => WatchInv

LEMMA StreamsInvariant == StreamsSpec => []StreamsInv
<1>1. StreamsInit => StreamsInv
  BY InitHolds, WatchInitHolds DEF StreamsInit, StreamsInv
<1>2. StreamsInv /\ [StreamsNext]_streamVars => StreamsInv'
  <2> SUFFICES ASSUME StreamsInv, [StreamsNext]_streamVars PROVE StreamsInv'
    OBVIOUS
  <2>1. kind' = kind
    BY DEF StreamsNext, streamVars
  <2>2. CASE kind = "filter"
    <3>1. [Next]_vars
      BY <2>2 DEF StreamsNext, streamVars, filterVars, vars
    <3> QED BY <2>1, <2>2, <3>1, StepHolds DEF StreamsInv
  <2>3. CASE kind = "watch"
    <3>1. [Watch!Next]_(Watch!vars)
      BY <2>3 DEF StreamsNext, streamVars, watchVars, Watch!vars
    <3> QED BY <2>1, <2>3, <3>1, WatchStepHolds DEF StreamsInv
  <2> QED BY <2>2, <2>3 DEF StreamsInv
<1> QED BY <1>1, <1>2, PTL DEF StreamsSpec

(* The goroutine of a watch that has ended has dropped the subscription at *)
(* the node, and without an error only for a reason; what was forwarded    *)
(* and never delivered is at most what the channel and one hand hold.      *)
THEOREM EndHolds == StreamsSpec => []EndIsExplained
<1>1. StreamsInv => EndIsExplained
  BY DEF StreamsInv, WatchInv, EndIsExplained
<1> QED BY <1>1, StreamsInvariant, PTL

LEMMA WatchStepIsStreamStep ==
    ASSUME WatchInv, kind = "watch", kind' = "watch", [Watch!Next]_(Watch!vars)
    PROVE  [Stream!Next]_(Stream!vars)
<1> USE IteratorAssumption DEF Watch!chain, Watch!work
<1>1. CASE Watch!Emit
  BY <1>1 DEF Watch!Emit, Stream!Next, Stream!Emit
<1>2. CASE Watch!HandOver
  <2>1. /\ watcher = "handing" /\ watcher' = "receiving"
        /\ delivered' = Append(delivered, event) /\ emitted' = emitted
    BY <1>2 DEF Watch!HandOver
  <2>2. /\ event = Len(delivered) + 1
        /\ forwarded = Len(delivered) + 1 + Len(logs)
    BY <2>1 DEF WatchInv, InTransit, InHand
  <2>3. Len(delivered) < emitted
    <3>1. /\ Len(delivered) \in Nat /\ Len(logs) \in Nat
          /\ forwarded \in Nat /\ emitted \in Nat /\ forwarded <= emitted
      BY DEF WatchInv, Watch!TypeOK
    <3> QED BY <2>2, <3>1
  <2> QED BY <2>1, <2>2, <2>3 DEF Stream!Next, Stream!Deliver
<1>3. CASE UNCHANGED <<emitted, delivered, watcher>>
  BY <1>3 DEF Stream!vars
<1>4. CASE UNCHANGED <<emitted, delivered>> /\ watcher' = "ended"
  BY <1>4 DEF Stream!Next, Stream!End
<1>5. CASE UNCHANGED <<emitted, delivered>> /\ watcher = "receiving" /\ watcher' = "handing"
  BY <1>5 DEF Stream!vars
<1> QED BY <1>1, <1>2, <1>3, <1>4, <1>5
        DEF Watch!Next, Watch!Goroutine, Watch!Forward, Watch!Disconnect,
            Watch!Receive, Watch!NodeError, Watch!Quit, Watch!Return,
            Watch!TurnAway, Watch!Listen, Watch!Unsubscribe,
            Watch!UnsubscribeReturns, Watch!vars

(* Whichever it uses, a client gets the events in their order and each     *)
(* once, and nothing after the end.                                        *)
THEOREM StreamsFeedHolds == StreamsSpec => StreamsAreFeeds
<1>1. StreamsInit => Stream!Init
  <2>1. StreamsInit => kind \in {"filter", "watch"} /\ Init /\ Watch!Init
    BY DEF StreamsInit
  <2> QED BY <2>1, IteratorAssumption DEF Init, Watch!Init, Stream!Init
<1>2. StreamsInv /\ [StreamsNext]_streamVars => [Stream!Next]_(Stream!vars)
  <2> SUFFICES ASSUME StreamsInv, [StreamsNext]_streamVars
               PROVE  [Stream!Next]_(Stream!vars)
    OBVIOUS
  <2>1. kind' = kind
    BY DEF StreamsNext, streamVars
  <2>2. CASE kind = "filter"
    <3>1. [Next]_vars /\ IInv
      BY <2>2 DEF StreamsNext, streamVars, filterVars, vars, StreamsInv
    <3>2. [Feed!Next]_(Feed!vars)
      BY <3>1, StepIsFeedStep
    <3> QED BY <2>1, <2>2, <3>2
            DEF Feed!Next, Feed!Emit, Feed!Deliver, Feed!End, Feed!vars,
                Stream!Next, Stream!Emit, Stream!Deliver, Stream!End, Stream!vars
  <2>3. CASE kind = "watch"
    <3>1. [Watch!Next]_(Watch!vars) /\ WatchInv
      BY <2>3 DEF StreamsNext, streamVars, watchVars, Watch!vars, StreamsInv
    <3> QED BY <2>1, <2>3, <3>1, WatchStepIsStreamStep
  <2> QED BY <2>2, <2>3 DEF StreamsInv
<1> QED BY <1>1, <1>2, StreamsInvariant, PTL
        DEF StreamsSpec, Stream!Spec, StreamsAreFeeds
=============================================================================
