---------------------------- MODULE MessageSend ----------------------------
(***************************************************************************)
(* The life of outreach messages (agent/messages): a request drafts one    *)
(* for a lead, the operator approves or cancels it, and a request or a     *)
(* worker's message.send job gives it to the e-mail provider and records   *)
(* the contact.  The provider is outside the database: between the checks  *)
(* of a send and the status it leaves behind anything may be committed,    *)
(* and the answer of the provider may be lost after the mail has gone out. *)
(*                                                                         *)
(* A single request reads the row again for every status it sets.  A batch *)
(* keeps the rows it selected, and its session (expire_on_commit=False)    *)
(* answers every later SELECT of them with the status they had then.  A    *)
(* status that equals the loaded one is not written.                       *)
(***************************************************************************)
EXTENDS Integers, FiniteSets, Functions

CONSTANTS
    Session,      \* API requests and message.send jobs under way
    Lead,         \* leads with a verified, reachable address
    NoLead,       \* the recipient of a message that is not drafted yet
    MaxMessages,  \* bound: messages ever drafted
    MaxMails,     \* bound: mails ever sent
    MaxApprovals, \* bound: approvals ever written
    MaxCrashes,   \* bound: crashes of sessions
    Compliance,   \* email.compliance_enabled: the provider has a cap
    DailySendCap  \* email.daily_send_cap; all sends fall on one day

ASSUME MessageAssumption ==
    /\ IsFiniteSet(Session)
    /\ NoLead \notin Lead
    /\ MaxMessages \in Nat \ {0}
    /\ MaxMails \in Nat
    /\ MaxApprovals \in Nat
    /\ MaxCrashes \in Nat
    /\ Compliance \in BOOLEAN
    /\ DailySendCap \in Nat \ {0}

Message == 1..MaxMessages

VARIABLES
    status,      \* MessageModel.status, "absent" before the draft
    recipient,   \* the message's lead
    blocked,     \* contact_policy_status of each lead is a suppressed one
    shortlisted, \* shortlisted_at is set and the review allows it
    outcomes,    \* outcomes recorded for each lead
    pc,          \* where each session is
    batch,       \* the batch it runs: "send", "approve" or "none"
    todo,        \* the messages its batch has yet to handle
    draftee,     \* the lead it drafts a message for
    msg,         \* the message it works on, 0 for none
    target,      \* the status it is about to write
    seen,        \* the status it loaded the message with
    mailed,      \* history: mails the provider sent for each message
    approvals,   \* history: approvals written for each message
    contended,   \* history: messages two senders held at once or one crashed on
    overtaken,   \* history: sessions whose lead was blocked after their check
    crashes

rowVars == <<status, recipient>>
leadVars == <<blocked, shortlisted, outcomes>>
localVars == <<pc, batch, todo, draftee, msg, target, seen>>
historyVars == <<mailed, approvals, contended, overtaken, crashes>>
vars == <<rowVars, leadVars, localVars, historyVars>>

MessageStatus == {"draft", "pending_approval", "approved", "sent", "failed", "replied", "cancelled"}

AllowedTransitions ==
    [draft            |-> {"pending_approval", "cancelled"},
     pending_approval |-> {"approved", "cancelled"},
     approved         |-> {"sent", "failed", "cancelled"},
     sent             |-> {"replied", "failed"},
     replied          |-> {},
     failed           |-> {"approved", "cancelled"},
     cancelled        |-> {}]

TransitionAllowed(from, to) == from = to \/ to \in AllowedTransitions[from]

Drafted == {m \in Message : status[m] # "absent"}

Init ==
    /\ status = [m \in Message |-> "absent"]
    /\ recipient = [m \in Message |-> NoLead]
    /\ blocked = [l \in Lead |-> FALSE]
    /\ shortlisted = [l \in Lead |-> FALSE]
    /\ outcomes = [l \in Lead |-> {}]
    /\ pc = [s \in Session |-> "idle"]
    /\ batch = [s \in Session |-> "none"]
    /\ todo = [s \in Session |-> {}]
    /\ draftee = [s \in Session |-> NoLead]
    /\ msg = [s \in Session |-> 0]
    /\ target = [s \in Session |-> "absent"]
    /\ seen = [s \in Session |-> "absent"]
    /\ mailed = [m \in Message |-> 0]
    /\ approvals = [m \in Message |-> 0]
    /\ contended = {}
    /\ overtaken = {}
    /\ crashes = 0
-----------------------------------------------------------------------------
(* Sessions *)

Goto(s, l) == pc' = [pc EXCEPT ![s] = l]

\* The session is done with m: a batch goes on, a single request ends.
Finish(s, m) ==
    LET rest == todo[s] \ {m} IN
    /\ todo' = [todo EXCEPT ![s] = rest]
    /\ IF rest = {}
       THEN Goto(s, "idle") /\ batch' = [batch EXCEPT ![s] = "none"]
       ELSE Goto(s, "next") /\ UNCHANGED batch
    /\ msg' = [msg EXCEPT ![s] = 0]
    /\ target' = [target EXCEPT ![s] = "absent"]
    /\ seen' = [seen EXCEPT ![s] = "absent"]
    /\ overtaken' = overtaken \ {s}
    /\ UNCHANGED draftee

\* A request of its own, or the next message of a batch.
Turn(s, m, kind) == pc[s] = "idle" \/ (pc[s] = "next" /\ batch[s] = kind /\ m \in todo[s])

\* What a SELECT of m gives the session: a batch sees what it selected.
View(s, m) ==
    CASE batch[s] = "send" -> "approved"
      [] batch[s] = "approve" -> "pending_approval"
      [] OTHER -> status[m]

\* MessageRepository.approve and set_status up to the transition check, which
\* raises for a transition the table does not have.
Load(s, m, to) ==
    /\ TransitionAllowed(View(s, m), to)
    /\ Goto(s, "store")
    /\ msg' = [msg EXCEPT ![s] = m]
    /\ target' = [target EXCEPT ![s] = to]
    /\ seen' = [seen EXCEPT ![s] = View(s, m)]

\* ... and from the assignment to the COMMIT.
Store(s) ==
    /\ pc[s] = "store"
    /\ LET m == msg[s] IN
       /\ status' = [status EXCEPT ![m] = IF seen[s] = target[s] THEN @ ELSE target[s]]
       /\ approvals' = [approvals EXCEPT ![m] = IF target[s] = "approved" THEN @ + 1 ELSE @]
       /\ IF target[s] \in {"sent", "replied"}
          THEN /\ Goto(s, "recording")
               /\ UNCHANGED <<batch, todo, draftee, msg, target, seen, overtaken>>
          ELSE Finish(s, m)
    /\ UNCHANGED <<recipient, leadVars, mailed, contended, crashes>>

\* Every session that is sending m or has it in its batch.
Senders(m) ==
    {s \in Session : \/ msg[s] = m /\ (pc[s] \in {"checked", "accepted", "raised"} \/ target[s] \in {"sent", "failed"})
                     \/ batch[s] = "send" /\ m \in todo[s]}

\* The sender takes messages another one is working on.
Contend(s, ms) == contended' = contended \cup {m \in ms : Senders(m) \ {s} # {}}
\* Bounds: what is under way is counted with what has been done.
Total(f) == FoldFunction(LAMBDA x, y : x + y, 0, f)
Mailing == {s \in Session : pc[s] = "checked"}
MailsBounded == Total(mailed) + Cardinality(Mailing) < MaxMails
Approving == {s \in Session : target[s] = "approved"}
ApprovalsBounded == Total(approvals) + Cardinality(Approving) < MaxApprovals
-----------------------------------------------------------------------------
(* Drafting *)

OutreachReady(l) == shortlisted[l] /\ ~blocked[l]

LatestForLead(l) ==
    LET own == {m \in Drafted : recipient[m] = l} IN
    IF own = {} THEN "absent" ELSE status[CHOOSE m \in own : \A n \in own : n <= m]

\* The lead is ready and has no message that is still alive; the LLM is called.
DraftSelect(s, l) ==
    /\ pc[s] = "idle"
    /\ OutreachReady(l)
    /\ LatestForLead(l) \in {"absent", "cancelled", "failed"}
    /\ Drafted # Message
    /\ Goto(s, "drafting")
    /\ draftee' = [draftee EXCEPT ![s] = l]
    /\ UNCHANGED <<rowVars, leadVars, batch, todo, msg, target, seen, historyVars>>

\* Whatever has become of the lead since; beyond the bound nothing is drafted.
DraftInsert(s) ==
    /\ pc[s] = "drafting"
    /\ IF Drafted = Message
       THEN UNCHANGED rowVars
       ELSE LET m == Cardinality(Drafted) + 1 IN
            /\ status' = [status EXCEPT ![m] = "pending_approval"]
            /\ recipient' = [recipient EXCEPT ![m] = draftee[s]]
    /\ Goto(s, "idle")
    /\ draftee' = [draftee EXCEPT ![s] = NoLead]
    /\ UNCHANGED <<leadVars, batch, todo, msg, target, seen, historyVars>>
-----------------------------------------------------------------------------
(* The operator *)

Approve(s, m) ==
    /\ Turn(s, m, "approve")
    /\ m \in Drafted
    /\ ApprovalsBounded
    /\ Load(s, m, "approved")
    /\ UNCHANGED <<rowVars, leadVars, batch, todo, draftee, historyVars>>

Cancel(s, m) ==
    /\ pc[s] = "idle"
    /\ m \in Drafted
    /\ Load(s, m, "cancelled")
    /\ UNCHANGED <<rowVars, leadVars, batch, todo, draftee, historyVars>>

MarkReplied(s, m) ==
    /\ pc[s] = "idle"
    /\ m \in Drafted
    /\ Load(s, m, "replied")
    /\ UNCHANGED <<rowVars, leadVars, batch, todo, draftee, historyVars>>

\* The selection of a batch; what it does not select by status it skips.
StartBatch(s, kind, ms) ==
    LET status0 == IF kind = "send" THEN "approved" ELSE "pending_approval"
        chosen == {m \in ms : status[m] = status0}
    IN
    /\ pc[s] = "idle"
    /\ chosen # {}
    /\ Goto(s, "next")
    /\ batch' = [batch EXCEPT ![s] = kind]
    /\ todo' = [todo EXCEPT ![s] = chosen]
    /\ IF kind = "send" THEN Contend(s, chosen) ELSE UNCHANGED contended
    /\ UNCHANGED <<rowVars, leadVars, draftee, msg, target, seen, mailed, approvals, overtaken, crashes>>

\* update_contact_policy and the unsubscribe link: the lead is blocked and loses
\* its place on the shortlist.
Block(l) ==
    /\ blocked' = [blocked EXCEPT ![l] = TRUE]
    /\ shortlisted' = [shortlisted EXCEPT ![l] = FALSE]
    /\ overtaken' = overtaken \cup {s \in Session : pc[s] = "checked" /\ recipient[msg[s]] = l}
    /\ UNCHANGED <<rowVars, outcomes, localVars, mailed, approvals, contended, crashes>>

Unblock(l) ==
    /\ blocked' = [blocked EXCEPT ![l] = FALSE]
    /\ UNCHANGED <<rowVars, shortlisted, outcomes, localVars, historyVars>>

\* LeadRepository.update: "shortlisted" is refused for a blocked lead.
Shortlist(l, to) ==
    /\ to => ~blocked[l]
    /\ shortlisted' = [shortlisted EXCEPT ![l] = to]
    /\ UNCHANGED <<rowVars, blocked, outcomes, localVars, historyVars>>
-----------------------------------------------------------------------------
(* Sending *)

SentToday == Cardinality({m \in Message : status[m] = "sent"})

\* _assert_daily_send_cap.
CapAllows == Compliance => SentToday < DailySendCap

\* Mutant: a failed message may be sent again as it is.
MutSendAllowedFailed(s, m) ==
    /\ View(s, m) \in {"approved", "failed"}
    /\ OutreachReady(recipient[m])
    /\ CapAllows
\* Mutant: a batch relies on the leads it saw when it was approved.
MutSendAllowedBatch(s, m) ==
    /\ View(s, m) = "approved"
    /\ batch[s] = "none" => OutreachReady(recipient[m])
    /\ CapAllows
\* Every check of send; the message and the lead are read for each message.
SendAllowed(s, m) ==
    /\ View(s, m) = "approved"
    /\ OutreachReady(recipient[m])
    /\ CapAllows

SendCheck(s, m) ==
    /\ Turn(s, m, "send")
    /\ SendAllowed(s, m)
    /\ MailsBounded
    /\ Goto(s, "checked")
    /\ msg' = [msg EXCEPT ![s] = m]
    /\ Contend(s, {m})
    /\ UNCHANGED <<rowVars, leadVars, batch, todo, draftee, target, seen, mailed, approvals, overtaken, crashes>>

\* A batch goes on after a message whose checks raise.
SendSkip(s, m) ==
    /\ batch[s] = "send" /\ pc[s] = "next" /\ m \in todo[s]
    /\ ~SendAllowed(s, m)
    /\ Finish(s, m)
    /\ UNCHANGED <<rowVars, leadVars, mailed, approvals, contended, crashes>>

\* The provider sends the mail and answers; its answer is lost; it refuses.
Provider(s) ==
    /\ pc[s] = "checked"
    /\ \E sends, answers \in BOOLEAN :
        /\ answers \/ sends
        /\ mailed' = [mailed EXCEPT ![msg[s]] = IF sends THEN @ + 1 ELSE @]
        /\ Goto(s, IF sends /\ answers THEN "accepted" ELSE "raised")
    /\ overtaken' = overtaken \ {s}
    /\ UNCHANGED <<rowVars, leadVars, batch, todo, draftee, msg, target, seen, approvals, contended, crashes>>

\* set_status(SENT) or, from the except block, set_status(FAILED).
LoadResult(s) ==
    /\ pc[s] \in {"accepted", "raised"}
    /\ Load(s, msg[s], IF pc[s] = "accepted" THEN "sent" ELSE "failed")
    /\ UNCHANGED <<rowVars, leadVars, batch, todo, draftee, historyVars>>

\* The message has meanwhile left the states that can become SENT or FAILED.
LoadResultRaises(s) ==
    /\ pc[s] \in {"accepted", "raised"}
    /\ ~TransitionAllowed(View(s, msg[s]), IF pc[s] = "accepted" THEN "sent" ELSE "failed")
    /\ Finish(s, msg[s])
    /\ UNCHANGED <<rowVars, leadVars, mailed, approvals, contended, crashes>>

\* Mutant: the message's status is taken for the outcome.
MutRecordStatus(s) ==
    /\ pc[s] = "recording"
    /\ LET l == recipient[msg[s]] IN outcomes' = [outcomes EXCEPT ![l] = @ \cup {target[s]}]
    /\ Finish(s, msg[s])
    /\ UNCHANGED <<rowVars, blocked, shortlisted, mailed, approvals, contended, crashes>>
\* Mutant: nothing is recorded on a lead that has left the shortlist meanwhile.
MutRecordShortlisted(s) ==
    /\ pc[s] = "recording"
    /\ LET l == recipient[msg[s]]
           outcome == IF target[s] = "sent" THEN "contacted" ELSE "replied"
       IN outcomes' = IF OutreachReady(l) THEN [outcomes EXCEPT ![l] = @ \cup {outcome}] ELSE outcomes
    /\ Finish(s, msg[s])
    /\ UNCHANGED <<rowVars, blocked, shortlisted, mailed, approvals, contended, crashes>>
\* The lead's status, its contact and its outcome, after the status is committed.
Record(s) ==
    /\ pc[s] = "recording"
    /\ LET l == recipient[msg[s]]
           outcome == IF target[s] = "sent" THEN "contacted" ELSE "replied"
       IN outcomes' = [outcomes EXCEPT ![l] = @ \cup {outcome}]
    /\ Finish(s, msg[s])
    /\ UNCHANGED <<rowVars, blocked, shortlisted, mailed, approvals, contended, crashes>>

\* The process of a session dies: whatever it was sending, nobody records.
Crash(s) ==
    /\ crashes < MaxCrashes
    /\ pc[s] # "idle"
    /\ crashes' = crashes + 1
    /\ contended' = contended \cup {m \in Message : s \in Senders(m)}
    /\ Goto(s, "idle")
    /\ batch' = [batch EXCEPT ![s] = "none"]
    /\ todo' = [todo EXCEPT ![s] = {}]
    /\ draftee' = [draftee EXCEPT ![s] = NoLead]
    /\ msg' = [msg EXCEPT ![s] = 0]
    /\ target' = [target EXCEPT ![s] = "absent"]
    /\ seen' = [seen EXCEPT ![s] = "absent"]
    /\ overtaken' = overtaken \ {s}
    /\ UNCHANGED <<rowVars, leadVars, mailed, approvals>>
-----------------------------------------------------------------------------

\* What a session that has begun does next.
Continue(s) ==
    \/ Store(s)
    \/ DraftInsert(s)
    \/ batch[s] = "approve" /\ \E m \in Message : Approve(s, m)
    \/ batch[s] = "send" /\ \E m \in Message : SendCheck(s, m)
    \/ \E m \in Message : SendSkip(s, m)
    \/ Provider(s)
    \/ LoadResult(s)
    \/ LoadResultRaises(s)
    \/ Record(s)

Start(s) ==
    \/ \E l \in Lead : DraftSelect(s, l)
    \/ \E m \in Message :
        \/ batch[s] = "none" /\ (Approve(s, m) \/ SendCheck(s, m))
        \/ Cancel(s, m)
        \/ MarkReplied(s, m)
    \/ \E kind \in {"send", "approve"}, ms \in SUBSET Message : StartBatch(s, kind, ms)

Next ==
    \/ \E s \in Session : Start(s) \/ Continue(s) \/ Crash(s)
    \/ \E l \in Lead : Block(l) \/ Unblock(l) \/ \E to \in BOOLEAN : Shortlist(l, to)

Spec == Init /\ [][Next]_vars

\* A request or a job that has begun goes on: the provider answers or times out.
FairSpec == Spec /\ \A s \in Session : WF_vars(Continue(s))
-----------------------------------------------------------------------------

TypeOK ==
    /\ status \in [Message -> MessageStatus \cup {"absent"}]
    /\ recipient \in [Message -> Lead \cup {NoLead}]
    /\ blocked \in [Lead -> BOOLEAN]
    /\ shortlisted \in [Lead -> BOOLEAN]
    /\ outcomes \in [Lead -> SUBSET {"contacted", "replied"}]
    /\ pc \in [Session -> {"idle", "next", "drafting", "checked", "accepted", "raised", "store", "recording"}]
    /\ batch \in [Session -> {"none", "send", "approve"}]
    /\ todo \in [Session -> SUBSET Message]
    /\ draftee \in [Session -> Lead \cup {NoLead}]
    /\ msg \in [Session -> 0..MaxMessages]
    /\ target \in [Session -> MessageStatus \cup {"absent"}]
    /\ seen \in [Session -> MessageStatus \cup {"absent"}]
    /\ mailed \in [Message -> Nat]
    /\ approvals \in [Message -> Nat]
    /\ contended \subseteq Message
    /\ overtaken \subseteq Session
    /\ crashes \in 0..MaxCrashes

\* However statuses are overwritten by sessions that loaded them earlier, a message
\* goes out at most once for each time it was approved, unless two senders held it
\* at once or one crashed while it did (send and the status it leaves behind).
OneMailPerApproval ==
    \A m \in Message : m \notin contended => mailed[m] <= approvals[m]

\* Only a block that comes after the check of that very message can be too late: a
\* batch does not carry its view of a lead from one message to the next.
BlockedLeadGetsNoMail ==
    \A s \in Session : pc[s] = "checked" /\ blocked[recipient[msg[s]]] => s \in overtaken

\* What has been sent is on the lead's record in the end, unless a process crashed
\* between the COMMIT of SENT and that of the outcome.
SentIsRecorded ==
    \A l \in Lead :
        (\E m \in Message : status[m] = "sent" /\ recipient[m] = l)
            ~> ("contacted" \in outcomes[l] \/ crashes > 0)
=============================================================================
