--------------------------- MODULE SlaveChannelC ---------------------------
(***************************************************************************)
(* What channel C (channel 2) of the SLAVE promises the guest, without     *)
(* channels, timers or interrupts: status queries are answered once each   *)
(* and in the order they were asked, and keyboard reports arrive in the    *)
(* order they happened, whatever order the two streams share the channel.  *)
(* Slave implements it (docs/slave-protocol.md, ch2 `/kb1' path).          *)
(***************************************************************************)
EXTENDS Sequences

CONSTANTS Answers, Reports

VARIABLES owed,     \* answers not completely read by the guest yet
          reports   \* keyboard reports not completely read yet

vars == <<owed, reports>>

Init == owed = <<>> /\ reports = <<>>

\* The guest asks; a full report may be in front of the answer or behind it.
Ask(a) == owed' = Append(owed, a) /\ UNCHANGED reports

\* The guest has read the last byte of the oldest answer.
Answer == owed # <<>> /\ owed' = Tail(owed) /\ UNCHANGED reports

Report(r) == reports' = Append(reports, r) /\ UNCHANGED owed

Deliver == reports # <<>> /\ reports' = Tail(reports) /\ UNCHANGED owed

\* Reports may be given up, save perhaps the one already shown; answers never.
Forget ==
    /\ reports' \in {<<>>} \cup {<<r>> : r \in {reports[i] : i \in {1} \cap DOMAIN reports}}
    /\ UNCHANGED owed

\* Only a reset of the controller forgets an answer.
Restart == owed' = <<>> /\ reports' = <<>>

Next ==
    \/ \E a \in Answers : Ask(a)
    \/ Answer
    \/ \E r \in Reports : Report(r)
    \/ Deliver
    \/ Forget
    \/ Restart

Spec == Init /\ [][Next]_vars

\* Every answer owed is given in the end.
FairSpec == Spec /\ WF_owed(Answer \/ Restart)
=============================================================================
