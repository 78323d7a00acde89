---------------------------- MODULE EmailHistory ----------------------------
(***************************************************************************)
(* EmailQueue with a history variable, and the Mailbox it implements: for  *)
(* ticks that overlap, up to the rows that two of them had in hand.        *)
(***************************************************************************)
EXTENDS EmailQueue

VARIABLE
    contested  \* rows that a recovery read as stuck while another tick was at them

HistoryInit == contested = {}

\* The recovery of t reads a row that another tick has in its batch or its recovery.
Contests(t, j) == RecoverFind(t) /\ j \in Stuck /\ \E u \in Ticks \ {t} : j \in todo[u]

Record == contested' = contested \cup {j \in Jobs : \E t \in Ticks : Contests(t, j)}

HistorySpec == Init /\ HistoryInit /\ [][Next /\ Record]_<<vars, contested>>

-----------------------------------------------------------------------------
(* The inductive invariant behind the properties below, in named parts.    *)

Calm == {"idle", "fetch", "recover", "cleanup"}
Handling == {"send", "markSent", "markFailed"}

\* The rows a tick has in hand: the one it sends, or those it recovers.
At(t, j) == pc[t] = "recovering" \/ (pc[t] \in Handling /\ IsNext(t, j))

\* How often the relay may have taken a mail by now.
Bound(j) == CASE status[j] = "processing" -> attempts[j] + 1
              [] status[j] \in {"absent", "pending"} -> attempts[j]
              [] OTHER -> Budget(j)

RelayInv == \A j \in Jobs \ contested : delivered[j] <= Bound(j)

\* What t has read of a row is still so, and the mail it is about to send has not been
\* taken in this try.
Fresh(t, j) ==
    /\ seen[t][j] = attempts[j]
    /\ status[j] = IF At(t, j) THEN "processing" ELSE "pending"
    /\ pc[t] = "send" /\ At(t, j) => delivered[j] <= attempts[j]

\* An uncontested row is read by one tick at a time, and stays as it was read.
HandsInv ==
    \A t \in Ticks :
        /\ pc[t] \in Calm => todo[t] = {}
        /\ \A j \in todo[t] \ contested :
            Fresh(t, j) /\ \A u \in Ticks \ {t} : j \notin todo[u]

HistoryInv ==
    /\ QueueInv
    /\ contested \subseteq Jobs
    /\ RelayInv
    /\ HandsInv

-----------------------------------------------------------------------------
(* Properties.                                                             *)

\* At-least-once delivery is bounded: the retries, the lost updates and the
\* crashes together send a message at most as often as its budget says, unless
\* its row was contested.
DeliveriesWithinBudget ==
    \A j \in Jobs \ contested : delivered[j] <= Budget(j)

\* A row that is pending or in processing is a mail in the queue.
MailState(j) == IF status[j] \in {"pending", "processing"} THEN "queued" ELSE status[j]

MailOf(j) == [state |-> MailState(j), limit |-> Budget(j),
              tries |-> attempts[j], taken |-> delivered[j]]

Mail == INSTANCE Mailbox WITH
            Mails  <- Jobs,
            Limits <- RetryLimits \cup {1},
            mail   <- [j \in Jobs |-> MailOf(j)],
            waived <- contested

\* The queue is a mailbox: whatever is lost, recovered, tried again or crashes, every
\* step of it settles, charges or delivers a mail as Mailbox allows, or changes
\* nothing a caller can see.  "Sent" and "failed" are terminal (queue.ts:32 and 183).
\* The one exception is a row that a recovery reads as stuck while another tick still
\* has it in its batch or its recovery: both then write it by id.
QueueIsAMailbox == Mail!Spec
=============================================================================
