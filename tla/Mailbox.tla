------------------------------ MODULE Mailbox ------------------------------
(***************************************************************************)
(* What the mail queue promises to those who call EmailService.send, in    *)
(* terms of mails and tries, without ticks, batches, locks, recovery or    *)
(* crashes: an accepted mail is tried at most as often as its limit says,  *)
(* each try hands it to the relay at most once, it is called sent only     *)
(* when the relay took it, and what is settled stays settled.  Each mail   *)
(* has this promise for itself, unless it is waived.                       *)
(***************************************************************************)
EXTENDS Naturals

CONSTANTS
    Mails,
    Limits      \* how often a mail may be tried

VARIABLES
    mail,       \* of each mail:
                \*   state: "absent", "queued", "sent", "failed" or, at the end, "pruned"
                \*   limit
                \*   tries: the tries that are over
                \*   taken: how often the relay took it
    waived      \* mails of which nothing is promised any more

vars == <<mail, waived>>

Init ==
    /\ mail = [m \in Mails |-> [state |-> "absent", limit |-> 1, tries |-> 0, taken |-> 0]]
    /\ waived = {}

Accept(m, n) ==
    /\ mail[m].state = "absent"
    /\ mail'[m] = [state |-> "queued", limit |-> n,
                   tries |-> mail[m].tries, taken |-> mail[m].taken]

\* A mail without a content is filed as failed at once.
Refuse(m) ==
    /\ mail[m].state = "absent"
    /\ mail'[m] = [mail[m] EXCEPT !.state = "failed"]

\* The relay takes the mail, which nobody may notice.
Deliver(m) ==
    /\ mail[m].state = "queued"
    /\ mail[m].taken <= mail[m].tries
    /\ mail'[m] = [mail[m] EXCEPT !.taken = @ + 1]

Succeed(m) ==
    /\ mail[m].state = "queued"
    /\ mail[m].taken > 0
    /\ mail'[m] = [mail[m] EXCEPT !.state = "sent"]

\* A try is over without success; the last one fails the mail.
Charge(m) ==
    /\ mail[m].state = "queued"
    /\ mail'[m] = [state |-> IF mail[m].tries + 1 >= mail[m].limit THEN "failed" ELSE "queued",
                   limit |-> mail[m].limit, tries |-> mail[m].tries + 1, taken |-> mail[m].taken]

\* Old mails are forgotten.
Prune(m) ==
    /\ mail[m].state \in {"sent", "failed"}
    /\ mail'[m] = [mail[m] EXCEPT !.state = "pruned"]

Step(m) ==
    \/ \E n \in Limits : Accept(m, n)
    \/ Refuse(m) \/ Deliver(m) \/ Succeed(m) \/ Charge(m) \/ Prune(m)

Next ==
    /\ waived \subseteq waived'
    /\ \A m \in Mails \ waived' : Step(m) \/ UNCHANGED mail[m]

Spec == Init /\ [][Next]_vars

=============================================================================
