------------------------------ MODULE EpochClock ------------------------------
(***************************************************************************)
(* What the epoch schedule promises.  Time is cut into consecutive epochs. *)
(* The start of every epoch up to the next one is settled and never moves; *)
(* a change of the duration only decides how long the epochs after the     *)
(* current one will last.                                                  *)
(***************************************************************************)
EXTENDS Integers

CONSTANT Durations

VARIABLES time,        \* block.timestamp
          starts,      \* starts[e]: when epoch e starts, up to the next epoch
          duration     \* how long the next epoch will last

vars == <<time, starts, duration>>

next == CHOOSE e \in DOMAIN starts : e + 1 \notin DOMAIN starts

Init ==
    /\ time \in Nat /\ duration \in Durations
    /\ starts[0] >= time
    /\ IF starts[0] > time
       THEN DOMAIN starts = {0}
       ELSE DOMAIN starts = {0, 1} /\ starts[1] = starts[0] + duration

(* Before the first epoch the next epoch is epoch 0.  When the next epoch  *)
(* starts, the start of the one after it is settled.                       *)
Tick ==
    /\ time' = time + 1
    /\ starts' = IF time' = starts[next]
                 THEN [e \in DOMAIN starts \cup {next + 1} |->
                         IF e = next + 1 THEN starts[next] + duration
                                         ELSE starts[e]]
                 ELSE starts
    /\ UNCHANGED duration

SetDuration(d) == duration' = d /\ UNCHANGED <<time, starts>>

Next == Tick \/ \E d \in Durations : SetDuration(d)

Spec == Init /\ [][Next]_vars
=============================================================================
