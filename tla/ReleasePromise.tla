--------------------------- MODULE ReleasePromise ---------------------------
(***************************************************************************)
(* What a release handoff promises its owner, without the watcher, its     *)
(* reads or its commits (RELEASE_HANDOFF_SPEC.md sections 2, 3 and 6).     *)
(*                                                                         *)
(* The gate gets one verdict; PyPI has the package only after an approval; *)
(* a handoff only moves forward and never ahead of those facts; and each   *)
(* of the three mails is sent once, about the stage the handoff is at.     *)
(***************************************************************************)
EXTENDS Integers

CONSTANT Handoffs

VARIABLES
    verdict,     \* the gate's: "none", "approved" or "rejected"
    published,   \* PyPI has the package
    stage,       \* of each handoff
    mails        \* of each handoff, how many mails of each kind were sent

vars == <<verdict, published, stage, mails>>

Order == [none |-> 0, requested |-> 1, running |-> 2, at_gate |-> 3,
          approved |-> 4, published |-> 5, done |-> 6, failed |-> 7]
Kinds == {"at_gate", "done", "failed"}

Init ==
    /\ verdict = "none" /\ published = FALSE
    /\ stage = [h \in Handoffs |-> "none"]
    /\ mails = [h \in Handoffs |-> [k \in Kinds |-> 0]]

GateDecided ==
    /\ verdict = "none"
    /\ verdict' \in {"approved", "rejected"}
    /\ UNCHANGED <<published, stage, mails>>

Publish ==
    /\ verdict = "approved" /\ ~published
    /\ published' = TRUE
    /\ UNCHANGED <<verdict, stage, mails>>

HandOff(h) ==
    /\ stage[h] = "none"
    /\ stage' = [stage EXCEPT ![h] = "requested"]
    /\ UNCHANGED <<verdict, published, mails>>

Move(h, s) ==
    /\ stage[h] \notin {"none", "done", "failed"}
    /\ Order[stage[h]] < Order[s]
    /\ s = "approved" => verdict = "approved"
    /\ s \in {"published", "done"} => published
    /\ stage' = [stage EXCEPT ![h] = s]
    /\ UNCHANGED <<verdict, published, mails>>

Mail(h, k) ==
    /\ stage[h] = k /\ mails[h][k] = 0
    /\ mails' = [mails EXCEPT ![h][k] = 1]
    /\ UNCHANGED <<verdict, published, stage>>

Next ==
    \/ GateDecided \/ Publish
    \/ \E h \in Handoffs : HandOff(h) \/ (\E s \in DOMAIN Order : Move(h, s))
                                      \/ (\E k \in Kinds : Mail(h, k))

Spec == Init /\ [][Next]_vars
=============================================================================
