------------------------- MODULE NotificationOutbox -------------------------
(***************************************************************************)
(* The sending half of the transactional outbox: runNotificationLoop of    *)
(* the worker and ProcessPending of internal/service/notification.  The    *)
(* rows come from ConfirmPayment (OrderFlow!MarkPaid enqueues them).       *)
(*                                                                         *)
(* A tick lists a batch of pending rows; each is sent and then marked by   *)
(* another statement.  A transport may report an error for a mail it has   *)
(* delivered.  The statement that marks a row may fail, with or without    *)
(* effect: so it does when the worker is told to stop, because the loop's  *)
(* context is cancelled.  A failure with effect is no different from a     *)
(* success, because ProcessPending goes on with the next row either way.   *)
(* Failures are counted, so that there are only so many of them.           *)
(***************************************************************************)
EXTENDS Integers, FiniteSets, FiniteSetsExt

CONSTANTS
    Note,       \* notifications, numbers in the order of created_at
    Bad,        \* notifications that cannot be rendered or delivered
    Worker,     \* worker instances, each running one dispatch loop
    BatchSize,  \* NotificationBatchSize
    MaxFaults,  \* bound: calls that fail and workers that die
    MaxMails    \* bound: deliveries of one notification

ASSUME ConstantsAssumption ==
    /\ Note \subseteq Nat /\ Bad \subseteq Note
    /\ BatchSize \in Nat \ {0} /\ MaxMails \in Nat \ {0}
    /\ MaxFaults \in Nat

VARIABLES
    status,  \* status[n]: the row's status, "none" before it is inserted
    mails,   \* mails[n]: how often the mail was delivered
    job,     \* job[w]: where ProcessPending is, and the rows still to process
    faults,  \* how many calls have failed and workers have died
    unmarked \* history: the rows that were tried and then not marked

vars == <<status, mails, job, faults, unmarked>>

failVars == <<faults, unmarked>>

NoJob == [pc |-> "idle", batch |-> {}]

Init ==
    /\ status = [n \in Note |-> "none"]
    /\ mails = [n \in Note |-> 0]
    /\ job = [w \in Worker |-> NoJob]
    /\ faults = 0
    /\ unmarked = {}

At(w, pc) == job[w].pc = pc

\* The row at hand: the batch is processed in the order of the listing.
Current(w) == Min(job[w].batch)

Goto(w, pc) == job' = [job EXCEPT ![w].pc = pc]

\* On to the next row of the batch, or to the end of the tick.  Mutant: the end of
\* the batch is not noticed.
ContinueAlways(w) ==
    job' = [job EXCEPT ![w] = [pc |-> "send", batch |-> @.batch \ {Current(w)}]]

Continue(w) ==
    job' = [job EXCEPT ![w] = IF @.batch = {Current(w)} THEN NoJob
                              ELSE [pc |-> "send", batch |-> @.batch \ {Current(w)}]]

\* NotificationRepo.Create, inside the transaction of ConfirmPayment.
Create(n) ==
    /\ status[n] = "none"
    /\ status' = [status EXCEPT ![n] = "pending"]
    /\ UNCHANGED <<mails, job, failVars>>

-----------------------------------------------------------------------------
\* WHERE status = 'pending'.  Mutant: every row qualifies.
EveryRow == {n \in Note : status[n] # "none"}

PendingRows == {n \in Note : status[n] = "pending"}

\* ORDER BY created_at LIMIT BatchSize
Oldest(S) == {n \in S : Cardinality({k \in S : k < n}) < BatchSize}

ListPending(w) ==
    /\ At(w, "idle")
    /\ PendingRows # {}
    /\ job' = [job EXCEPT ![w] = [pc |-> "send", batch |-> Oldest(PendingRows)]]
    /\ UNCHANGED <<status, mails, failVars>>

\* A call returns an error, or a worker dies.
Fault == faults < MaxFaults /\ faults' = faults + 1

Delivered(n) ==
    /\ mails[n] < MaxMails
    /\ mails' = [mails EXCEPT ![n] = @ + 1]

\* processOne: look up the recipient, render, Send.  Mutants: the row is marked
\* before the mail is sent; an error ends the batch.
SendAfterMarking(w) ==
    LET n == Current(w) IN
    /\ At(w, "send")
    /\ status[n] # "sent"
    /\ status' = [status EXCEPT ![n] = "sent"]
    /\ UNCHANGED <<mails, job, failVars>>

SendOrStop(w) ==
    LET n == Current(w) IN
    /\ At(w, "send")
    /\ \/ n \notin Bad /\ Delivered(n) /\ Goto(w, "markSent")
       \/ n \in Bad /\ job' = [job EXCEPT ![w] = NoJob] /\ UNCHANGED mails
    /\ UNCHANGED <<status, failVars>>

Send(w) ==
    LET n == Current(w) IN
    /\ At(w, "send")
    /\ \/ n \notin Bad /\ Delivered(n) /\ Goto(w, "markSent") /\ UNCHANGED faults
       \/ n \in Bad /\ Goto(w, "markFailed") /\ UNCHANGED <<mails, faults>>
       \/ n \notin Bad /\ Fault /\ Goto(w, "markFailed") /\ (Delivered(n) \/ UNCHANGED mails)
    /\ UNCHANGED <<status, unmarked>>

\* UPDATE ... WHERE id = $1, whatever the status is by now.
MarkSent(w) ==
    /\ At(w, "markSent")
    /\ status' = [status EXCEPT ![Current(w)] = "sent"]
    /\ Continue(w)
    /\ UNCHANGED <<mails, failVars>>

MarkFailed(w) ==
    /\ At(w, "markFailed")
    /\ status' = [status EXCEPT ![Current(w)] = "failed"]
    /\ Continue(w)
    /\ UNCHANGED <<mails, failVars>>

\* The marking statement returns an error and had no effect: the row stays as it
\* is, the batch goes on.
MarkErrs(w) ==
    /\ job[w].pc \in {"markSent", "markFailed"}
    /\ Fault
    /\ unmarked' = unmarked \cup {Current(w)}
    /\ Continue(w)
    /\ UNCHANGED <<status, mails>>

\* The worker dies and is started again.
Crash(w) ==
    /\ ~At(w, "idle")
    /\ Fault
    /\ unmarked' = IF At(w, "send") THEN unmarked ELSE unmarked \cup {Current(w)}
    /\ job' = [job EXCEPT ![w] = NoJob]
    /\ UNCHANGED <<status, mails>>

WorkerStep(w) == ListPending(w) \/ Send(w) \/ MarkSent(w) \/ MarkFailed(w) \/ MarkErrs(w)

Next ==
    \/ \E n \in Note : Create(n)
    \/ \E w \in Worker : WorkerStep(w) \/ Crash(w)

Spec == Init /\ [][Next]_vars

\* The ticker of runNotificationLoop fires again and again, and a tick ends.
FairSpec == Spec /\ \A w \in Worker : WF_vars(WorkerStep(w))

-----------------------------------------------------------------------------
\* Types, and a dispatch loop is at work exactly while its batch has rows left.
TypeOK ==
    /\ status \in [Note -> {"none", "pending", "sent", "failed"}]
    /\ mails \in [Note -> 0 .. MaxMails]
    /\ job \in [Worker -> [pc : {"idle", "send", "markSent", "markFailed"},
                           batch : SUBSET Note]]
    /\ \A w \in Worker : At(w, "idle") <=> job[w].batch = {}
    /\ faults \in 0 .. MaxFaults
    /\ unmarked \subseteq Note

\* A row says 'sent' only when its mail has been delivered, whatever failed or
\* died between Send and MarkSent.
SentWasDelivered == \A n \in Note : status[n] = "sent" => mails[n] > 0

\* A row that MarkSent or MarkFailed has marked is not marked otherwise later.  It
\* holds while one worker runs.
MarkedIsFinal ==
    [][\A n \in Note : status[n] \in {"sent", "failed"} => status'[n] = status[n]]_vars

\* Nobody gets the confirmation twice, unless the worker died or the mark failed
\* after the mail had left.  It holds while one worker runs.
OneMailEach == \A n \in Note \ unmarked : mails[n] <= 1

\* "one bad row must not block everything behind it": a row that can be delivered
\* is, or an error of its own is recorded, whatever rows precede it in the outbox.
GoodMailIsDelivered ==
    \A n \in Note \ Bad : status[n] = "pending" ~> mails[n] > 0 \/ status[n] = "failed"

-----------------------------------------------------------------------------
(***************************************************************************)
(* A sentence of the repository that the code does not keep; the README    *)
(* says how it is broken.                                                  *)
(***************************************************************************)

\* What ProcessPending says of MarkFailed, "a 'failed' row is currently terminal":
\* with two workers one may mark 'sent' what the other has marked 'failed'.
FailedIsTerminal ==
    [][\A n \in Note : status[n] = "failed" => status'[n] = "failed"]_vars
=============================================================================
