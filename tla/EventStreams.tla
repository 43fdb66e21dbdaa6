----------------------------- MODULE EventStreams -----------------------------
(***************************************************************************)
(* A client of the Go bindings that either iterates over past events (the  *)
(* variables and constants of EventIterator) or watches for new ones.  The *)
(* two modules share the channel and the history of deliveries.            *)
(***************************************************************************)
EXTENDS EventIterator

VARIABLES kind                        \* "filter" or "watch"

VARIABLES emitted, forwarded, node, dropped, watcher, event, result, client

Watch == INSTANCE EventWatcher WITH MaxLogs <- NumLogs

filterVars == <<next, sender, subscription, done, fail, over, left>>
watchVars ==
    <<emitted, forwarded, node, dropped, watcher, event, result, client>>
streamVars == <<kind, logs, delivered, filterVars, watchVars>>

StreamsInit == kind \in {"filter", "watch"} /\ Init /\ Watch!Init

StreamsNext ==
    \/ kind = "filter" /\ Next /\ UNCHANGED <<kind, watchVars>>
    \/ kind = "watch" /\ Watch!Next /\ UNCHANGED <<kind, filterVars>>

(* The fairness of the two modules, each for the behaviours it is about.    *)
Filtering(A) == kind = "filter" /\ A /\ UNCHANGED <<kind, watchVars>>
Watching(A) == kind = "watch" /\ A /\ UNCHANGED <<kind, filterVars>>

StreamsFairness ==
    /\ WF_streamVars(Filtering(Goroutine))
    /\ WF_streamVars(Filtering(CloseReturns))
    /\ WF_streamVars(Filtering(LoopStep))
    /\ WF_streamVars(Watching(Watch!Goroutine))
    /\ WF_streamVars(Watching(Watch!Forward))
    /\ WF_streamVars(Watching(Watch!UnsubscribeReturns))

StreamsSpec == StreamsInit /\ [][StreamsNext]_streamVars /\ StreamsFairness

-----------------------------------------------------------------------------
(* A watch that ends tells why, and leaves no subscription behind.          *)
EndIsExplained == kind = "watch" => Watch!EndIsExplained

(* Either way the client gets the events in order and each once.            *)
Stream == INSTANCE EventFeed WITH
            emitted <- IF kind = "filter" THEN NumLogs ELSE emitted,
            over <- IF kind = "filter" THEN over ELSE watcher = "ended"
StreamsAreFeeds == Stream!Spec

(* Closing an iterator and unsubscribing from a watch return.               *)
ShutdownReturns ==
    /\ kind = "filter" => CloseAlwaysReturns
    /\ kind = "watch" => Watch!UnsubscribeAlwaysReturns

(* A loop over Next ends, and what is emitted reaches a client that listens.*)
LogsArrive ==
    /\ kind = "filter" => LoopEnds
    /\ kind = "watch" => Watch!LogsArrive
=============================================================================
