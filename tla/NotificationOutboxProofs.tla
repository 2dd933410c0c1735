---------------------- MODULE NotificationOutboxProofs ----------------------
(***************************************************************************)
(* Proofs about NotificationOutbox, for any number of notifications and    *)
(* any batch size: 'sent' is never a lie, with any number of workers; with *)
(* one worker a marked row is never marked otherwise, and no mail goes out *)
(* twice unless its mark was lost.                                         *)
(***************************************************************************)
EXTENDS NotificationOutbox, FiniteSetTheorems, WellFoundedInduction, TLAPS

\* A set of row numbers that is not empty has a least one.
LEMMA MinInSet ==
    ASSUME NEW S, S \subseteq Nat, S # {}
    PROVE  Min(S) \in S /\ \A y \in S : Min(S) <= y
<1>1. PICK x \in S : \A y \in S : ~(<<y, x>> \in OpToRel(<, Nat))
  BY NatLessThanWellFounded, WFMin
<1>2. \A y \in S : y < x => <<y, x>> \in OpToRel(<, Nat)
  BY DEF OpToRel
<1>3. \A y \in S : ~(y < x)
  BY <1>1, <1>2, Zenon
<1>4. \A y \in S : x <= y
  BY <1>3
<1> QED
  BY <1>4 DEF Min

\* The LIMIT leaves at least the oldest row of the rows that qualify.
LEMMA OldestNotEmpty ==
    ASSUME NEW S, S \subseteq Nat, S # {}
    PROVE  Oldest(S) \subseteq S /\ Oldest(S) # {}
<1>1. Min(S) \in S /\ \A y \in S : Min(S) <= y
  BY MinInSet
<1>2. {k \in S : k < Min(S)} = {}
  <2> DEFINE m == Min(S)
  <2>1. m \in S /\ \A y \in S : m <= y
    BY <1>1
  <2> HIDE DEF m
  <2>2. \A k \in S : ~(k < m)
    BY <2>1
  <2> QED
    BY <2>2 DEF m
<1>3. Cardinality({k \in S : k < Min(S)}) = 0
  BY <1>2, FS_EmptySet
<1>4. Min(S) \in Oldest(S)
  BY <1>1, <1>3, ConstantsAssumption DEF Oldest
<1> QED
  BY <1>4 DEF Oldest

Job == [pc : {"idle", "send", "markSent", "markFailed"}, batch : SUBSET Note]

\* Between Send and MarkSent the mail is out.
MailIsOut == \A w \in Worker : At(w, "markSent") => mails[Current(w)] > 0

\* The inductive invariant.
IInv == TypeOK /\ MailIsOut /\ SentWasDelivered

\* The row at hand is a row of the batch.
LEMMA CurrentInBatch ==
    ASSUME TypeOK, NEW w \in Worker, ~At(w, "idle")
    PROVE  Current(w) \in job[w].batch /\ Current(w) \in Note
<1>1. job[w].batch # {} /\ job[w].batch \subseteq Note
  BY DEF TypeOK
<1> QED
  BY <1>1, ConstantsAssumption, MinInSet DEF Current

\* What Continue makes of a job: it drops the row at hand, and the loop is idle once
\* nothing is left.
LEMMA ContinueJob ==
    ASSUME TypeOK, NEW w \in Worker, ~At(w, "idle"), Continue(w)
    PROVE  /\ job' \in [Worker -> Job]
           /\ \A v \in Worker : v # w => job'[v] = job[v]
           /\ job'[w].pc \in {"idle", "send"}
           /\ job'[w].batch = job[w].batch \ {Current(w)}
           /\ job'[w].pc = "idle" <=> job'[w].batch = {}
<1>0. job \in [Worker -> Job] /\ job[w] \in Job
  BY DEF TypeOK, Job
<1>1. Current(w) \in job[w].batch
  BY CurrentInBatch
<1>2. CASE job[w].batch = {Current(w)}
  <2>1. job' = [job EXCEPT ![w] = NoJob]
    BY <1>0, <1>2 DEF Continue
  <2>2. NoJob \in Job /\ NoJob.pc = "idle" /\ NoJob.batch = {}
    BY DEF NoJob, Job
  <2> QED
    BY <1>0, <1>2, <2>1, <2>2
<1>3. CASE job[w].batch # {Current(w)}
  <2> DEFINE j == [pc |-> "send", batch |-> job[w].batch \ {Current(w)}]
  <2>1. job' = [job EXCEPT ![w] = j]
    BY <1>0, <1>3 DEF Continue
  <2>2. j \in Job /\ j.pc = "send" /\ j.batch = job[w].batch \ {Current(w)}
    BY <1>0 DEF Job
  <2>3. job[w].batch \ {Current(w)} # {}
    BY <1>1, <1>3
  <2> QED
    BY <1>0, <2>1, <2>2, <2>3
<1> QED
  BY <1>2, <1>3

\* The empty outbox satisfies the inductive invariant.
LEMMA InitIInv == Init => IInv
  BY ConstantsAssumption DEF Init, IInv, TypeOK, MailIsOut, SentWasDelivered, NoJob, At

\* Counting a failure stays within the bound.
LEMMA FaultTyped ==
    ASSUME TypeOK, Fault
    PROVE  faults' \in 0 .. MaxFaults
BY ConstantsAssumption DEF TypeOK, Fault

\* A step of one worker keeps the inductive invariant when the worker only moves on
\* in its batch, and marks the row at hand 'sent' only after Send.
LEMMA MarkIInv ==
    ASSUME IInv, NEW w \in Worker, MarkSent(w) \/ MarkFailed(w) \/ MarkErrs(w)
    PROVE  IInv'
<1> USE ConstantsAssumption DEF IInv
<1>1. ~At(w, "idle") /\ Continue(w) /\ mails' = mails
  BY DEF MarkSent, MarkFailed, MarkErrs, At
<1>2. /\ job' \in [Worker -> Job]
      /\ \A v \in Worker : v # w => job'[v] = job[v]
      /\ job'[w].pc \in {"idle", "send"}
      /\ job'[w].pc = "idle" <=> job'[w].batch = {}
  BY <1>1, ContinueJob
<1>3. Current(w) \in Note
  BY <1>1, CurrentInBatch
<1>4. /\ status' \in [Note -> {"none", "pending", "sent", "failed"}]
      /\ \A n \in Note : status'[n] = "sent" =>
            status[n] = "sent" \/ (n = Current(w) /\ At(w, "markSent"))
  BY <1>3 DEF TypeOK, MarkSent, MarkFailed, MarkErrs
<1>5. \/ faults' = faults /\ unmarked' = unmarked
      \/ Fault /\ unmarked' = unmarked \cup {Current(w)}
  BY DEF MarkSent, MarkFailed, MarkErrs, failVars
<1>6. faults' \in 0 .. MaxFaults /\ unmarked' \subseteq Note
  BY <1>3, <1>5, FaultTyped DEF TypeOK
<1>7. TypeOK'
  BY <1>1, <1>2, <1>4, <1>6 DEF TypeOK, Job, At
<1>8. MailIsOut'
  BY <1>1, <1>2 DEF MailIsOut, At, Current
<1>9. SentWasDelivered'
  BY <1>1, <1>4 DEF SentWasDelivered, MailIsOut
<1> QED
  BY <1>7, <1>8, <1>9

\* Send keeps the inductive invariant: only a delivered mail leads to MarkSent.
LEMMA SendIInv ==
    ASSUME IInv, NEW w \in Worker, Send(w)
    PROVE  IInv'
<1> USE ConstantsAssumption DEF IInv
<1>0. /\ job \in [Worker -> Job] /\ job[w] \in Job /\ job[w].pc = "send"
      /\ Current(w) \in Note
  BY CurrentInBatch DEF TypeOK, Job, Send, At
<1>1. PICK pc \in {"markSent", "markFailed"} :
          Goto(w, pc) /\ (pc = "markSent" => Delivered(Current(w)))
  BY DEF Send
<1>2. status' = status /\ (mails' = mails \/ Delivered(Current(w)))
  BY DEF Send
<1>3. /\ job' \in [Worker -> Job]
      /\ \A v \in Worker : v # w => job'[v] = job[v]
      /\ job'[w].pc = pc /\ job'[w].batch = job[w].batch
  BY <1>0, <1>1 DEF Goto, Job
<1>4. /\ mails' \in [Note -> 0 .. MaxMails]
      /\ \A n \in Note : mails'[n] >= mails[n]
      /\ pc = "markSent" => mails'[Current(w)] > 0
  <2> DEFINE n == Current(w)
  <2>0. n \in Note /\ mails \in [Note -> 0 .. MaxMails]
    BY <1>0 DEF TypeOK
  <2>1. CASE Delivered(n)
    <3>1. mails[n] < MaxMails /\ mails' = [mails EXCEPT ![n] = mails[n] + 1]
      BY <2>1 DEF Delivered
    <3> HIDE DEF n
    <3>2. mails[n] \in 0 .. MaxMails /\ mails[n] + 1 \in 0 .. MaxMails /\ mails[n] + 1 > 0
      BY <2>0, <3>1
    <3> QED
      BY <2>0, <3>1, <3>2 DEF n
  <2>2. CASE ~Delivered(n)
    BY <2>0, <2>2, <1>1, <1>2
  <2> QED
    BY <2>1, <2>2
<1>5. faults' \in 0 .. MaxFaults /\ unmarked' \subseteq Note
  BY DEF TypeOK, Send, Fault
<1>6. TypeOK'
  BY <1>0, <1>2, <1>3, <1>4, <1>5 DEF TypeOK, Job, At
<1>7. MailIsOut'
  <2> SUFFICES ASSUME NEW v \in Worker, job'[v].pc = "markSent"
               PROVE  mails'[Min(job'[v].batch)] > 0
    BY DEF MailIsOut, At, Current
  <2>1. CASE v = w
    BY <2>1, <1>3, <1>4 DEF Current
  <2>2. CASE v # w
    <3>1. ~At(v, "idle") /\ mails[Current(v)] > 0
      BY <2>2, <1>3 DEF MailIsOut, At
    <3>2. Current(v) \in Note
      BY <3>1, CurrentInBatch
    <3>3. mails'[Current(v)] > 0
      <4> DEFINE n == Current(v)
      <4>1. n \in Note /\ mails[n] > 0
        BY <3>1, <3>2
      <4> HIDE DEF n
      <4>2. mails'[n] > 0
        BY <4>1, <1>4 DEF TypeOK
      <4> QED
        BY <4>2 DEF n
    <3> QED
      BY <3>3, <2>2, <1>3 DEF Current
  <2> QED
    BY <2>1, <2>2
<1>8. SentWasDelivered'
  BY <1>2, <1>4 DEF SentWasDelivered, TypeOK
<1> QED
  BY <1>6, <1>7, <1>8

\* Listing a batch, dying, and a new row keep the inductive invariant.
LEMMA OtherIInv ==
    ASSUME IInv,
           \/ \E n \in Note : Create(n)
           \/ \E w \in Worker : ListPending(w) \/ Crash(w)
    PROVE  IInv'
<1> USE ConstantsAssumption DEF IInv
<1>1. CASE \E n \in Note : Create(n)
  <2>1. /\ mails' = mails /\ job' = job
        /\ status' \in [Note -> {"none", "pending", "sent", "failed"}]
        /\ \A n \in Note : status'[n] = "sent" => status[n] = "sent"
        /\ UNCHANGED <<faults, unmarked>>
    BY <1>1 DEF Create, TypeOK, failVars
  <2> QED
    BY <2>1 DEF TypeOK, MailIsOut, SentWasDelivered, At, Current
<1>2. CASE \E w \in Worker : ListPending(w) \/ Crash(w)
  <2>1. PICK w \in Worker : ListPending(w) \/ Crash(w)
    BY <1>2
  <2>2. status' = status /\ mails' = mails /\ job \in [Worker -> Job]
    BY <2>1 DEF ListPending, Crash, TypeOK, Job
  <2>3. PICK j \in Job : /\ job' = [job EXCEPT ![w] = j] /\ j.pc # "markSent"
                         /\ j.pc = "idle" <=> j.batch = {}
    <3>1. CASE Crash(w)
      <4>1. NoJob \in Job /\ NoJob.pc = "idle" /\ NoJob.batch = {}
        BY DEF NoJob, Job
      <4> QED
        BY <3>1, <4>1 DEF Crash
    <3>2. CASE ListPending(w)
      <4> DEFINE j == [pc |-> "send", batch |-> Oldest(PendingRows)]
      <4>1. PendingRows \subseteq Note /\ PendingRows # {}
        BY <3>2 DEF ListPending, PendingRows
      <4>2. Oldest(PendingRows) \subseteq Note /\ Oldest(PendingRows) # {}
        BY <4>1, OldestNotEmpty
      <4>3. j \in Job /\ j.pc = "send" /\ j.batch # {}
        BY <4>2 DEF Job
      <4> QED
        BY <3>2, <4>3 DEF ListPending
    <3> QED
      BY <2>1, <3>1, <3>2
  <2>4. \A v \in Worker : job'[v] = IF v = w THEN j ELSE job[v]
    BY <2>2, <2>3
  <2>7. faults' \in 0 .. MaxFaults /\ unmarked' \subseteq Note
    <3>1. CASE ListPending(w)
      BY <3>1 DEF TypeOK, ListPending, failVars
    <3>2. CASE Crash(w)
      <4>1. Current(w) \in Note /\ Fault
        BY <3>2, CurrentInBatch DEF Crash
      <4> QED
        BY <3>2, <4>1, FaultTyped DEF TypeOK, Crash
    <3> QED
      BY <2>1, <3>1, <3>2
  <2>5. TypeOK'
    BY <2>2, <2>3, <2>4, <2>7 DEF TypeOK, Job, At
  <2>6. MailIsOut' /\ SentWasDelivered'
    BY <2>2, <2>3, <2>4 DEF MailIsOut, SentWasDelivered, At, Current
  <2> QED
    BY <2>5, <2>6
<1> QED
  BY <1>1, <1>2

\* Every step keeps the inductive invariant.
LEMMA NextIInv == IInv /\ [Next]_vars => IInv'
<1> SUFFICES ASSUME IInv, [Next]_vars PROVE IInv'
  OBVIOUS
<1>1. CASE UNCHANGED vars
  BY <1>1 DEF vars, IInv, TypeOK, MailIsOut, SentWasDelivered, At, Current
<1> QED
  BY <1>1, MarkIInv, SendIInv, OtherIInv DEF Next, WorkerStep

\* The inductive invariant holds of every reachable state.
THEOREM Invariance == Spec => []IInv
  BY InitIInv, NextIInv, PTL DEF Spec

\* A row says 'sent' only when its mail was delivered, with any number of workers
\* dying or failing anywhere in ProcessPending.
THEOREM SentIsTrue == Spec => []SentWasDelivered
<1>1. IInv => SentWasDelivered
  BY DEF IInv
<1> QED
  BY <1>1, Invariance, PTL

\* Types, and ProcessPending is at work exactly while its batch has rows left.
THEOREM TypeCorrect == Spec => []TypeOK
<1>1. IInv => TypeOK
  BY DEF IInv
<1> QED
  BY <1>1, Invariance, PTL

-----------------------------------------------------------------------------
\* One dispatch loop is running.
OneWorker == \A v, w \in Worker : v = w

\* The rows a lone worker has listed are still pending.
BatchIsPending == \A w \in Worker : \A n \in job[w].batch : status[n] = "pending"

\* With one worker, a step marks only a row that is pending, and the batch stays
\* pending: the row just marked leaves it.
LEMMA LoneStep ==
    ASSUME OneWorker, IInv, BatchIsPending, [Next]_vars
    PROVE  /\ BatchIsPending'
           /\ \A n \in Note : status[n] \in {"sent", "failed"} => status'[n] = status[n]
<1> USE ConstantsAssumption DEF BatchIsPending
<1>0. TypeOK /\ status \in [Note -> {"none", "pending", "sent", "failed"}]
      /\ job \in [Worker -> Job]
  BY DEF IInv, TypeOK, Job
<1>1. ASSUME NEW w \in Worker, MarkSent(w) \/ MarkFailed(w) \/ MarkErrs(w)
      PROVE  /\ BatchIsPending'
             /\ \A n \in Note : status[n] \in {"sent", "failed"} => status'[n] = status[n]
  <2>1. ~At(w, "idle") /\ Continue(w)
    BY <1>1 DEF MarkSent, MarkFailed, MarkErrs, At
  <2>2. job'[w].batch = job[w].batch \ {Current(w)}
    BY <1>0, <2>1, ContinueJob
  <2>3. Current(w) \in job[w].batch /\ Current(w) \in Note
    BY <1>0, <2>1, CurrentInBatch
  <2>4. \A n \in Note : n # Current(w) => status'[n] = status[n]
    BY <1>0, <1>1 DEF MarkSent, MarkFailed, MarkErrs
  <2>5. job[w].batch \subseteq Note
    BY <1>0 DEF Job
  <2> QED
    BY <2>2, <2>3, <2>4, <2>5 DEF OneWorker
<1>2. ASSUME NEW w \in Worker, Send(w) \/ Crash(w)
      PROVE  BatchIsPending' /\ status' = status
  <2>1. status' = status /\ job'[w].batch \subseteq job[w].batch
    BY <1>0, <1>2 DEF Send, Crash, Goto, NoJob, Job
  <2> QED
    BY <2>1 DEF OneWorker
<1>3. ASSUME NEW w \in Worker, ListPending(w)
      PROVE  BatchIsPending' /\ status' = status
  <2>1. status' = status /\ job'[w].batch = Oldest(PendingRows)
    BY <1>0, <1>3 DEF ListPending
  <2> QED
    BY <2>1 DEF OneWorker, Oldest, PendingRows
<1>4. ASSUME NEW n \in Note, Create(n)
      PROVE  /\ BatchIsPending'
             /\ \A k \in Note : status[k] \in {"sent", "failed"} => status'[k] = status[k]
  <2>1. job' = job /\ \A k \in Note : k # n => status'[k] = status[k]
    BY <1>0, <1>4 DEF Create
  <2>2. status[n] = "none" /\ \A w \in Worker : job[w].batch \subseteq Note
    BY <1>0, <1>4 DEF Create, Job
  <2> QED
    BY <2>1, <2>2
<1>5. CASE UNCHANGED vars
  BY <1>5 DEF vars
<1> QED
  BY <1>1, <1>2, <1>3, <1>4, <1>5 DEF Next, WorkerStep

\* With one worker a row that MarkSent or MarkFailed has marked is never marked
\* otherwise, whatever fails.
THEOREM MarkedStaysMarked ==
    ASSUME OneWorker
    PROVE  Spec => MarkedIsFinal
<1>1. Init => BatchIsPending
  BY DEF Init, BatchIsPending, NoJob
<1>2. IInv /\ BatchIsPending /\ [Next]_vars => BatchIsPending'
  BY LoneStep
<1>3. IInv /\ BatchIsPending /\ [Next]_vars =>
        [\A n \in Note : status[n] \in {"sent", "failed"} => status'[n] = status[n]]_vars
  BY LoneStep
<1> QED
  BY <1>1, <1>2, <1>3, Invariance, PTL DEF Spec, MarkedIsFinal

\* The worker has tried the row at hand and is about to mark it.
Marking(w) == job[w].pc \in {"markSent", "markFailed"}

\* A mail whose mark was never lost goes out at most once; when it has and the row
\* is not marked yet, the worker is about to mark it.
OutOnce ==
    \A n \in Note \ unmarked :
        /\ mails[n] <= 1
        /\ status[n] \in {"none", "pending"} /\ mails[n] > 0 =>
              \E w \in Worker : Marking(w) /\ Current(w) = n

\* The lone worker sends a mail only when it has not been sent, or when the mark
\* after the last attempt was lost.
LEMMA OutOnceStep ==
    ASSUME OneWorker, IInv, BatchIsPending, OutOnce, [Next]_vars
    PROVE  OutOnce'
<1> USE ConstantsAssumption DEF OutOnce
<1>0. /\ TypeOK /\ status \in [Note -> {"none", "pending", "sent", "failed"}]
      /\ job \in [Worker -> Job] /\ mails \in [Note -> 0 .. MaxMails]
  BY DEF IInv, TypeOK, Job
<1>1. ASSUME NEW w \in Worker, MarkSent(w) \/ MarkFailed(w) PROVE OutOnce'
  <2>1. ~At(w, "idle") /\ UNCHANGED <<mails, unmarked>>
    BY <1>1 DEF MarkSent, MarkFailed, At, failVars
  <2>2. Current(w) \in Note
    BY <1>0, <2>1, CurrentInBatch
  <2>3. /\ \A n \in Note : n # Current(w) => status'[n] = status[n]
        /\ status'[Current(w)] \in {"sent", "failed"}
    BY <1>0, <1>1, <2>2 DEF MarkSent, MarkFailed
  <2>4. \A n \in Note \ unmarked : status'[n] \in {"none", "pending"} => mails[n] = 0
    BY <1>0, <2>3 DEF OneWorker
  <2> QED
    BY <2>1, <2>4
<1>2. ASSUME NEW w \in Worker, Send(w) PROVE OutOnce'
  <2> DEFINE c == Current(w)
  <2>1. ~At(w, "idle") /\ At(w, "send") /\ UNCHANGED <<status, unmarked>>
    BY <1>2 DEF Send, At
  <2>2. c \in Note
    BY <1>0, <2>1, CurrentInBatch
  <2>3. status[c] = "pending"
    BY <1>0, <2>1, CurrentInBatch DEF BatchIsPending
  <2>4. \A n \in Note \ unmarked : status[n] \in {"none", "pending"} => mails[n] = 0
    BY <1>0, <2>1 DEF OneWorker, At, Marking
  <2>5. PICK pc \in {"markSent", "markFailed"} : Goto(w, pc)
    BY <1>2 DEF Send
  <2>6. job'[w].pc = pc /\ job'[w].batch = job[w].batch
    BY <1>0, <2>5 DEF Goto, Job
  <2>7. Marking(w)' /\ Current(w)' = c
    BY <2>6 DEF Marking, Current
  <2>8. mails' = mails \/ Delivered(c)
    BY <1>2 DEF Send
  <2> HIDE DEF c
  <2>9. CASE mails' = mails
    BY <2>1, <2>4, <2>9
  <2>10. CASE Delivered(c)
    <3>1. mails' = [mails EXCEPT ![c] = mails[c] + 1]
      BY <2>10 DEF Delivered
    <3>2. \A n \in Note : n # c => mails'[n] = mails[n]
      BY <1>0, <3>1
    <3>3. c \notin unmarked => mails'[c] = 1
      BY <1>0, <2>2, <2>3, <2>4, <3>1
    <3> QED
      BY <2>1, <2>4, <2>7, <3>2, <3>3
  <2> QED
    BY <2>8, <2>9, <2>10
<1>3. ASSUME NEW w \in Worker, ListPending(w) PROVE OutOnce'
  <2>1. At(w, "idle") /\ UNCHANGED <<status, mails, unmarked>>
    BY <1>3 DEF ListPending, failVars
  <2>2. \A n \in Note \ unmarked : status[n] \in {"none", "pending"} => mails[n] = 0
    BY <1>0, <2>1 DEF OneWorker, At, Marking
  <2> QED
    BY <2>1, <2>2
<1>4. ASSUME NEW w \in Worker, MarkErrs(w) \/ Crash(w) PROVE OutOnce'
  <2>1. /\ UNCHANGED <<status, mails>>
        /\ unmarked \subseteq unmarked'
        /\ Marking(w) => Current(w) \in unmarked'
    BY <1>4 DEF MarkErrs, Crash, Marking, At
  <2>2. \A n \in Note \ unmarked' : status[n] \in {"none", "pending"} => mails[n] = 0
    BY <1>0, <2>1 DEF OneWorker
  <2> QED
    BY <2>1, <2>2
<1>5. ASSUME NEW n \in Note, Create(n) PROVE OutOnce'
  <2>1. UNCHANGED <<mails, job, unmarked>> /\ status[n] = "none"
    BY <1>5 DEF Create, failVars
  <2>2. \A k \in Note : status'[k] \in {"none", "pending"} => status[k] \in {"none", "pending"}
    BY <1>0, <1>5, <2>1 DEF Create
  <2> QED
    BY <2>1, <2>2 DEF Marking, Current
<1>6. CASE UNCHANGED vars
  BY <1>6 DEF vars, Marking, Current
<1> QED
  BY <1>1, <1>2, <1>3, <1>4, <1>5, <1>6 DEF Next, WorkerStep

\* With one worker, nobody gets a confirmation twice unless its mark was lost: the
\* mark failed, or the worker died between Send and the mark.
THEOREM NoMailTwice ==
    ASSUME OneWorker
    PROVE  Spec => []OneMailEach
<1>1. Init => BatchIsPending /\ OutOnce
  BY ConstantsAssumption DEF Init, BatchIsPending, OutOnce, NoJob
<1>2. IInv /\ BatchIsPending /\ OutOnce /\ [Next]_vars => BatchIsPending' /\ OutOnce'
  BY LoneStep, OutOnceStep
<1>3. OutOnce => OneMailEach
  BY DEF OutOnce, OneMailEach
<1> QED
  BY <1>1, <1>2, <1>3, Invariance, PTL DEF Spec
=============================================================================
