------------------------------ MODULE Journal ------------------------------
(***************************************************************************)
(* What a client may rely on of a batch that became durable: it may be     *)
(* recorded in the history, and it may be announced, at most once each,    *)
(* the record first, and both while it is the latest.                      *)
(***************************************************************************)
EXTENDS Integers, Sequences

VARIABLES
    version,    \* the latest durable batch
    history,    \* the versions recorded by commits
    announced   \* the versions announced by events

Newest(s) == IF s = <<>> THEN 0 ELSE s[Len(s)]

Init == version = 0 /\ history = <<>> /\ announced = <<>>

Apply == version' = version + 1 /\ UNCHANGED <<history, announced>>

Record ==
    /\ version > Newest(history) /\ version > Newest(announced)
    /\ history' = Append(history, version)
    /\ UNCHANGED <<version, announced>>

Announce ==
    /\ version > Newest(announced)
    /\ announced' = Append(announced, version)
    /\ UNCHANGED <<version, history>>

Next == Apply \/ Record \/ Announce

Spec == Init /\ [][Next]_<<version, history, announced>>
=============================================================================
