------------------------- MODULE MessageSend_proofs -------------------------
(***************************************************************************)
(* Theorems about the sending of messages, for any number of sessions,     *)
(* leads and messages and any daily cap.                                   *)
(***************************************************************************)
EXTENDS MessageSend, FiniteSetTheorems, TLAPS

\* What is drafted is drafted in the order of its ids.
Consecutive == \E n \in 0..MaxMessages : Drafted = 1..n

\* Who a drafted message is for.
Addressed == \A m \in Drafted : recipient[m] \in Lead

\* What a session works on: a lead it drafts for, messages that are drafted, and a
\* status a message may be given; a session without work has no batch.
Working ==
    \A s \in Session :
        /\ pc[s] = "idle" => batch[s] = "none" /\ todo[s] = {}
        /\ pc[s] = "drafting" => draftee[s] \in Lead /\ batch[s] = "none" /\ todo[s] = {}
        /\ todo[s] \subseteq Drafted
        /\ pc[s] \in {"checked", "accepted", "raised", "store", "recording"} => msg[s] \in Drafted
        /\ pc[s] = "store" => target[s] \in MessageStatus
        /\ pc[s] = "recording" => target[s] \in {"sent", "replied"}

(***************************************************************************)
(* The invariant under each kind of step                                   *)
(***************************************************************************)

Kept == TypeOK /\ Consecutive /\ Addressed /\ Working

\* Nothing that a step leaves of the rows disturbs what is drafted.
LEMMA RowsStay ==
    ASSUME Kept, UNCHANGED rowVars
    PROVE  Drafted' = Drafted /\ Consecutive' /\ Addressed'
BY DEF Kept, rowVars, Drafted, Consecutive, Addressed

\* A drafted message is a message.
LEMMA DraftedIsMessage == Drafted \subseteq Message /\ Message \subseteq 0..MaxMessages
BY MessageAssumption DEF Drafted, Message

\* The values everything starts with are what they should be.
LEMMA InitKept == Init => Kept /\ BlockedLeadGetsNoMail
<1> SUFFICES ASSUME Init PROVE Kept /\ BlockedLeadGetsNoMail
  OBVIOUS
<1>1. Drafted = {} /\ Drafted = 1..0 /\ 0 \in 0..MaxMessages /\ 0 \in 0..MaxCrashes
  BY MessageAssumption DEF Init, Drafted
<1>2. Consecutive /\ Addressed
  BY <1>1 DEF Consecutive, Addressed
<1>3. Working /\ BlockedLeadGetsNoMail
  BY DEF Init, Working, BlockedLeadGetsNoMail
<1>4. TypeOK
  BY <1>1 DEF Init, TypeOK
<1> QED
  BY <1>2, <1>3, <1>4 DEF Kept

\* A session that is done with a message goes on with its batch or ends.
LEMMA FinishKept ==
    ASSUME Kept, BlockedLeadGetsNoMail, NEW s \in Session, NEW m, Finish(s, m),
           Drafted' = Drafted, recipient' = recipient, blocked' = blocked
    PROVE  /\ pc' \in [Session -> {"idle", "next", "drafting", "checked", "accepted", "raised",
                                   "store", "recording"}]
           /\ batch' \in [Session -> {"none", "send", "approve"}]
           /\ todo' \in [Session -> SUBSET Message]
           /\ draftee' \in [Session -> Lead \cup {NoLead}]
           /\ msg' \in [Session -> 0..MaxMessages]
           /\ target' \in [Session -> MessageStatus \cup {"absent"}]
           /\ seen' \in [Session -> MessageStatus \cup {"absent"}]
           /\ overtaken' \subseteq Session
           /\ Working'
           /\ BlockedLeadGetsNoMail'
<1> DEFINE rest == todo[s] \ {m}
<1>1. /\ todo' = [todo EXCEPT ![s] = rest]
      /\ msg' = [msg EXCEPT ![s] = 0]
      /\ target' = [target EXCEPT ![s] = "absent"]
      /\ seen' = [seen EXCEPT ![s] = "absent"]
      /\ overtaken' = overtaken \ {s}
      /\ draftee' = draftee
      /\ \/ rest = {} /\ pc' = [pc EXCEPT ![s] = "idle"] /\ batch' = [batch EXCEPT ![s] = "none"]
         \/ pc' = [pc EXCEPT ![s] = "next"] /\ batch' = batch
  BY DEF Finish, Goto
<1>2. 0 \in 0..MaxMessages
  BY MessageAssumption
<1>3. /\ pc' \in [Session -> {"idle", "next", "drafting", "checked", "accepted", "raised",
                              "store", "recording"}]
      /\ batch' \in [Session -> {"none", "send", "approve"}]
      /\ todo' \in [Session -> SUBSET Message]
      /\ draftee' \in [Session -> Lead \cup {NoLead}]
      /\ msg' \in [Session -> 0..MaxMessages]
      /\ target' \in [Session -> MessageStatus \cup {"absent"}]
      /\ seen' \in [Session -> MessageStatus \cup {"absent"}]
      /\ overtaken' \subseteq Session
  BY <1>1, <1>2 DEF Kept, TypeOK
<1>4. Working'
  BY <1>1 DEF Kept, TypeOK, Working
<1>5. BlockedLeadGetsNoMail'
  BY <1>1 DEF Kept, TypeOK, BlockedLeadGetsNoMail
<1> QED
  BY <1>3, <1>4, <1>5

\* The read of a status to change.
LEMMA LoadKept ==
    ASSUME Kept, BlockedLeadGetsNoMail, NEW s \in Session, NEW m \in Drafted,
           NEW to \in MessageStatus, Load(s, m, to),
           UNCHANGED <<rowVars, leadVars, batch, todo, draftee, historyVars>>
    PROVE  Kept' /\ BlockedLeadGetsNoMail'
<1>1. /\ pc' = [pc EXCEPT ![s] = "store"]
      /\ msg' = [msg EXCEPT ![s] = m]
      /\ target' = [target EXCEPT ![s] = to]
      /\ seen' = [seen EXCEPT ![s] = View(s, m)]
  BY DEF Load, Goto
<1>2. View(s, m) \in MessageStatus \cup {"absent"}
  BY DraftedIsMessage DEF View, Kept, TypeOK, MessageStatus
<1>3. Drafted' = Drafted /\ Consecutive' /\ Addressed'
  BY RowsStay
<1>4. TypeOK'
  BY <1>1, <1>2, DraftedIsMessage DEF Kept, TypeOK, rowVars, leadVars, historyVars
<1>5. Working'
  BY <1>1, <1>3 DEF Kept, TypeOK, Working
<1>6. BlockedLeadGetsNoMail'
  BY <1>1 DEF Kept, TypeOK, BlockedLeadGetsNoMail, rowVars, leadVars, historyVars
<1> QED
  BY <1>3, <1>4, <1>5, <1>6 DEF Kept

\* The requests that only change a status: their reads.
LEMMA OperatorKept ==
    ASSUME Kept, BlockedLeadGetsNoMail, NEW s \in Session, NEW m \in Message,
           Approve(s, m) \/ Cancel(s, m) \/ MarkReplied(s, m)
    PROVE  Kept' /\ BlockedLeadGetsNoMail'
<1> {"approved", "cancelled", "replied"} \subseteq MessageStatus
  BY DEF MessageStatus
<1> QED
  BY LoadKept DEF Approve, Cancel, MarkReplied

\* The write of a status.
LEMMA StoreKept ==
    ASSUME Kept, BlockedLeadGetsNoMail, NEW s \in Session, Store(s)
    PROVE  Kept' /\ BlockedLeadGetsNoMail'
<1> DEFINE m == msg[s]
<1>1. /\ pc[s] = "store" /\ m \in Drafted /\ m \in Message /\ target[s] \in MessageStatus
      /\ status' = [status EXCEPT ![m] = IF seen[s] = target[s] THEN status[m] ELSE target[s]]
      /\ approvals' = [approvals EXCEPT ![m] = IF target[s] = "approved" THEN approvals[m] + 1 ELSE approvals[m]]
      /\ UNCHANGED <<recipient, leadVars, mailed, contended, crashes>>
  BY DraftedIsMessage DEF Store, Kept, Working
<1>2. /\ status' \in [Message -> MessageStatus \cup {"absent"}]
      /\ approvals' \in [Message -> Nat]
  BY <1>1 DEF Kept, TypeOK
<1>3. Drafted' = Drafted
  <2>1. \A n \in Message : status'[n] # "absent" <=> status[n] # "absent"
    BY <1>1 DEF Kept, TypeOK, Drafted, MessageStatus
  <2> QED
    BY <2>1 DEF Drafted
<1>4. Consecutive' /\ Addressed'
  BY <1>1, <1>3 DEF Kept, Consecutive, Addressed
<1>5. CASE /\ target[s] \in {"sent", "replied"}
           /\ pc' = [pc EXCEPT ![s] = "recording"]
           /\ UNCHANGED <<batch, todo, draftee, msg, target, seen, overtaken>>
  <2>1. TypeOK'
    BY <1>1, <1>2, <1>5 DEF Kept, TypeOK, leadVars
  <2>2. Working'
    BY <1>1, <1>3, <1>5 DEF Kept, TypeOK, Working
  <2>3. BlockedLeadGetsNoMail'
    BY <1>1, <1>5 DEF Kept, TypeOK, BlockedLeadGetsNoMail, leadVars
  <2> QED
    BY <1>4, <2>1, <2>2, <2>3 DEF Kept
<1>6. CASE Finish(s, m)
  <2>1. Drafted' = Drafted /\ recipient' = recipient /\ blocked' = blocked
    BY <1>1, <1>3 DEF leadVars
  <2>2. TypeOK'
    BY <1>1, <1>2, <1>6, <2>1, FinishKept DEF Kept, TypeOK, leadVars
  <2> QED
    BY <1>4, <1>6, <2>1, <2>2, FinishKept DEF Kept
<1> QED
  BY <1>5, <1>6 DEF Store, Goto

\* The number of drafted messages names the last of them.
LEMMA NextDraft ==
    ASSUME Kept, Drafted # Message
    PROVE  /\ Cardinality(Drafted) + 1 \in Message
           /\ Cardinality(Drafted) + 1 \notin Drafted
           /\ Drafted \cup {Cardinality(Drafted) + 1} = 1..(Cardinality(Drafted) + 1)
           /\ Cardinality(Drafted) + 1 \in 0..MaxMessages
<1>1. PICK n \in 0..MaxMessages : Drafted = 1..n
  BY DEF Kept, Consecutive
<1>2. Cardinality(Drafted) = n
  BY <1>1, FS_Interval, MessageAssumption
<1>3. n # MaxMessages
  BY <1>1 DEF Message
<1> QED
  BY <1>1, <1>2, <1>3, MessageAssumption DEF Message

\* A draft begins for a lead that is ready.
LEMMA DraftSelectKept ==
    ASSUME Kept, BlockedLeadGetsNoMail, NEW s \in Session, NEW l \in Lead, DraftSelect(s, l)
    PROVE  Kept' /\ BlockedLeadGetsNoMail'
<1>1. /\ pc[s] = "idle"
      /\ pc' = [pc EXCEPT ![s] = "drafting"]
      /\ draftee' = [draftee EXCEPT ![s] = l]
      /\ UNCHANGED <<rowVars, leadVars, batch, todo, msg, target, seen, historyVars>>
  BY DEF DraftSelect, Goto
<1>2. Drafted' = Drafted /\ Consecutive' /\ Addressed'
  BY <1>1, RowsStay
<1>3. TypeOK'
  BY <1>1 DEF Kept, TypeOK, rowVars, leadVars, historyVars
<1>4. Working'
  BY <1>1, <1>2 DEF Kept, TypeOK, Working
<1>5. BlockedLeadGetsNoMail'
  BY <1>1 DEF Kept, TypeOK, BlockedLeadGetsNoMail, rowVars, leadVars, historyVars
<1> QED
  BY <1>2, <1>3, <1>4, <1>5 DEF Kept

\* A draft is inserted after the others and changes the lead of none of them.
LEMMA DraftInsertKept ==
    ASSUME Kept, BlockedLeadGetsNoMail, NEW s \in Session, DraftInsert(s)
    PROVE  Kept' /\ BlockedLeadGetsNoMail'
<1> DEFINE m == Cardinality(Drafted) + 1
<1>1. /\ pc[s] = "drafting" /\ draftee[s] \in Lead
      /\ pc' = [pc EXCEPT ![s] = "idle"]
      /\ draftee' = [draftee EXCEPT ![s] = NoLead]
      /\ UNCHANGED <<leadVars, batch, todo, msg, target, seen, historyVars>>
  BY DEF DraftInsert, Goto, Kept, Working
<1>2. /\ Drafted \subseteq Drafted'
      /\ \A n \in Drafted : recipient'[n] = recipient[n]
      /\ Consecutive' /\ Addressed'
      /\ status' \in [Message -> MessageStatus \cup {"absent"}]
      /\ recipient' \in [Message -> Lead \cup {NoLead}]
  <2>1. CASE Drafted = Message
    <3>1. UNCHANGED rowVars
      BY <2>1 DEF DraftInsert
    <3> QED
      BY <3>1, RowsStay DEF Kept, TypeOK, rowVars
  <2>2. CASE Drafted # Message
    <3>1. /\ status' = [status EXCEPT ![m] = "pending_approval"]
          /\ recipient' = [recipient EXCEPT ![m] = draftee[s]]
      BY <2>2 DEF DraftInsert
    <3>2. m \in Message /\ m \notin Drafted /\ Drafted \cup {m} = 1..m /\ m \in 0..MaxMessages
      BY <2>2, NextDraft
    <3> HIDE DEF m
    <3>3. Drafted' = Drafted \cup {m}
      BY <3>1, <3>2 DEF Kept, TypeOK, Drafted
    <3>4. Consecutive'
      BY <3>2, <3>3 DEF Consecutive
    <3>5. \A n \in Drafted : recipient'[n] = recipient[n]
      BY <3>1, <3>2, DraftedIsMessage DEF Kept, TypeOK
    <3>6. Addressed'
      BY <1>1, <3>1, <3>2, <3>3, <3>5 DEF Kept, TypeOK, Addressed
    <3> QED
      BY <1>1, <3>1, <3>2, <3>3, <3>4, <3>5, <3>6 DEF Kept, TypeOK, MessageStatus
  <2> QED
    BY <2>1, <2>2
<1>3. TypeOK'
  BY <1>1, <1>2 DEF Kept, TypeOK, leadVars, historyVars
<1>4. Working'
  BY <1>1, <1>2 DEF Kept, TypeOK, Working
<1>5. BlockedLeadGetsNoMail'
  BY <1>1, <1>2 DEF Kept, TypeOK, Working, BlockedLeadGetsNoMail, leadVars, historyVars
<1> QED
  BY <1>2, <1>3, <1>4, <1>5 DEF Kept

\* A batch holds messages that are drafted.
LEMMA StartBatchKept ==
    ASSUME Kept, BlockedLeadGetsNoMail, NEW s \in Session, NEW kind \in {"send", "approve"},
           NEW ms \in SUBSET Message, StartBatch(s, kind, ms)
    PROVE  Kept' /\ BlockedLeadGetsNoMail'
<1>1. PICK chosen \in SUBSET Drafted :
        /\ todo' = [todo EXCEPT ![s] = chosen]
        /\ contended' = contended \/ contended' = contended \cup {m \in chosen : Senders(m) \ {s} # {}}
  <2> DEFINE status0 == IF kind = "send" THEN "approved" ELSE "pending_approval"
             chosen == {m \in ms : status[m] = status0}
  <2>1. chosen \in SUBSET Drafted
    BY DEF Drafted
  <2> QED
    BY <2>1 DEF StartBatch, Contend
<1>2. /\ pc[s] = "idle"
      /\ pc' = [pc EXCEPT ![s] = "next"]
      /\ batch' = [batch EXCEPT ![s] = kind]
      /\ UNCHANGED <<rowVars, leadVars, draftee, msg, target, seen, mailed, approvals, overtaken, crashes>>
  BY DEF StartBatch, Goto
<1>3. Drafted' = Drafted /\ Consecutive' /\ Addressed'
  BY <1>2, RowsStay
<1>4. contended' \subseteq Message
  BY <1>1, DraftedIsMessage DEF Kept, TypeOK
<1>5. TypeOK'
  BY <1>1, <1>2, <1>4, DraftedIsMessage DEF Kept, TypeOK, rowVars, leadVars
<1>6. Working'
  BY <1>1, <1>2, <1>3 DEF Kept, TypeOK, Working
<1>7. BlockedLeadGetsNoMail'
  BY <1>2 DEF Kept, TypeOK, BlockedLeadGetsNoMail, rowVars, leadVars
<1> QED
  BY <1>3, <1>5, <1>6, <1>7 DEF Kept

\* The checks of send let no message pass whose lead is blocked at that moment.
LEMMA SendCheckKept ==
    ASSUME Kept, BlockedLeadGetsNoMail, NEW s \in Session, NEW m \in Message, SendCheck(s, m)
    PROVE  Kept' /\ BlockedLeadGetsNoMail'
<1>1. /\ pc' = [pc EXCEPT ![s] = "checked"]
      /\ msg' = [msg EXCEPT ![s] = m]
      /\ contended' = contended \cup {n \in {m} : Senders(n) \ {s} # {}}
      /\ UNCHANGED <<rowVars, leadVars, batch, todo, draftee, target, seen, mailed, approvals, overtaken, crashes>>
  BY DEF SendCheck, Goto, Contend
<1>2. m \in Drafted
  <2>1. CASE pc[s] = "idle"
    <3>1. batch[s] = "none"
      BY <2>1 DEF Kept, Working
    <3>2. status[m] = "approved"
      BY <3>1 DEF SendCheck, SendAllowed, View
    <3> QED
      BY <3>2 DEF Drafted
  <2>2. CASE m \in todo[s]
    BY <2>2 DEF Kept, Working
  <2> QED
    BY <2>1, <2>2 DEF SendCheck, Turn
<1>3. ~blocked[recipient[m]]
  BY DEF SendCheck, SendAllowed, OutreachReady
<1>4. Drafted' = Drafted /\ Consecutive' /\ Addressed'
  BY <1>1, RowsStay
<1>5. pc[s] \in {"idle", "next"}
  BY DEF SendCheck, Turn
<1>6. TypeOK'
  BY <1>1, DraftedIsMessage DEF Kept, TypeOK, rowVars, leadVars
<1>7. Working'
  BY <1>1, <1>2, <1>4, <1>5 DEF Kept, TypeOK, Working
<1>8. BlockedLeadGetsNoMail'
  BY <1>1, <1>3 DEF Kept, TypeOK, BlockedLeadGetsNoMail, rowVars, leadVars
<1> QED
  BY <1>4, <1>6, <1>7, <1>8 DEF Kept

\* A step of a batch or a send that ends with the message and leaves every row.
LEMMA LetGoKept ==
    ASSUME Kept, BlockedLeadGetsNoMail, NEW s \in Session, NEW m, Finish(s, m),
           UNCHANGED <<rowVars, blocked, shortlisted, mailed, approvals, contended, crashes>>,
           outcomes' \in [Lead -> SUBSET {"contacted", "replied"}]
    PROVE  Kept' /\ BlockedLeadGetsNoMail'
<1>1. Drafted' = Drafted /\ Consecutive' /\ Addressed' /\ recipient' = recipient
  BY RowsStay DEF rowVars
<1>2. TypeOK'
  BY <1>1, FinishKept DEF Kept, TypeOK, rowVars
<1> QED
  BY <1>1, <1>2, FinishKept DEF Kept

\* The ends of a send: skipped by its batch, refused by the table, recorded.
LEMMA EndKept ==
    ASSUME Kept, BlockedLeadGetsNoMail, NEW s \in Session,
           LoadResultRaises(s) \/ Record(s) \/ \E m \in Message : SendSkip(s, m)
    PROVE  Kept' /\ BlockedLeadGetsNoMail'
<1>1. CASE LoadResultRaises(s) \/ \E m \in Message : SendSkip(s, m)
  <2>1. PICK m : Finish(s, m)
    BY <1>1 DEF LoadResultRaises, SendSkip
  <2>2. /\ UNCHANGED <<rowVars, blocked, shortlisted, mailed, approvals, contended, crashes>>
        /\ outcomes' = outcomes
    BY <1>1 DEF LoadResultRaises, SendSkip, leadVars
  <2> QED
    BY <2>1, <2>2, LetGoKept DEF Kept, TypeOK
<1>2. CASE Record(s)
  <2>1. recipient[msg[s]] \in Lead
    BY <1>2 DEF Record, Kept, Working, Addressed
  <2>2. outcomes' \in [Lead -> SUBSET {"contacted", "replied"}]
    BY <1>2, <2>1 DEF Record, Kept, TypeOK
  <2> QED
    BY <1>2, <2>2, LetGoKept DEF Record
<1> QED
  BY <1>1, <1>2

\* What the provider does touches no row.
LEMMA ProviderKept ==
    ASSUME Kept, BlockedLeadGetsNoMail, NEW s \in Session, Provider(s)
    PROVE  Kept' /\ BlockedLeadGetsNoMail'
<1>1. /\ pc[s] = "checked"
      /\ overtaken' = overtaken \ {s}
      /\ UNCHANGED <<rowVars, leadVars, batch, todo, draftee, msg, target, seen, approvals, contended, crashes>>
  BY DEF Provider
<1>2. PICK n \in {mailed[msg[s]], mailed[msg[s]] + 1} : mailed' = [mailed EXCEPT ![msg[s]] = n]
  BY DEF Provider
<1>3. pc' = [pc EXCEPT ![s] = "accepted"] \/ pc' = [pc EXCEPT ![s] = "raised"]
  BY DEF Provider, Goto
<1>4. Drafted' = Drafted /\ Consecutive' /\ Addressed'
  BY <1>1, RowsStay
<1>5. mailed' \in [Message -> Nat]
  BY <1>1, <1>2, DraftedIsMessage DEF Kept, TypeOK, Working
<1>6. TypeOK'
  BY <1>1, <1>3, <1>5 DEF Kept, TypeOK, rowVars, leadVars
<1>7. Working'
  BY <1>1, <1>3, <1>4 DEF Kept, TypeOK, Working
<1>8. BlockedLeadGetsNoMail'
  BY <1>1, <1>3 DEF Kept, TypeOK, BlockedLeadGetsNoMail, rowVars, leadVars
<1> QED
  BY <1>4, <1>6, <1>7, <1>8 DEF Kept

\* The read before SENT or FAILED is written.
LEMMA LoadResultKept ==
    ASSUME Kept, BlockedLeadGetsNoMail, NEW s \in Session, LoadResult(s)
    PROVE  Kept' /\ BlockedLeadGetsNoMail'
<1>1. msg[s] \in Drafted /\ {"sent", "failed"} \subseteq MessageStatus
  BY DEF LoadResult, Kept, Working, MessageStatus
<1>2. PICK to \in {"sent", "failed"} : Load(s, msg[s], to)
  BY DEF LoadResult
<1> QED
  BY <1>1, <1>2, LoadKept DEF LoadResult

\* A process that dies holds nothing.
LEMMA CrashKept ==
    ASSUME Kept, BlockedLeadGetsNoMail, NEW s \in Session, Crash(s)
    PROVE  Kept' /\ BlockedLeadGetsNoMail'
<1>1. /\ pc' = [pc EXCEPT ![s] = "idle"]
      /\ batch' = [batch EXCEPT ![s] = "none"]
      /\ todo' = [todo EXCEPT ![s] = {}]
      /\ draftee' = [draftee EXCEPT ![s] = NoLead]
      /\ msg' = [msg EXCEPT ![s] = 0]
      /\ target' = [target EXCEPT ![s] = "absent"]
      /\ seen' = [seen EXCEPT ![s] = "absent"]
      /\ overtaken' = overtaken \ {s}
      /\ UNCHANGED <<rowVars, leadVars, mailed, approvals>>
  BY DEF Crash, Goto
<1>2. crashes' \in 0..MaxCrashes /\ contended' \subseteq Message /\ 0 \in 0..MaxMessages
  BY MessageAssumption DEF Crash, Kept, TypeOK
<1>3. Drafted' = Drafted /\ Consecutive' /\ Addressed'
  BY <1>1, RowsStay
<1>4. TypeOK'
  BY <1>1, <1>2 DEF Kept, TypeOK, rowVars, leadVars
<1>5. Working'
  BY <1>1, <1>3 DEF Kept, TypeOK, Working
<1>6. BlockedLeadGetsNoMail'
  BY <1>1 DEF Kept, TypeOK, BlockedLeadGetsNoMail, rowVars, leadVars
<1> QED
  BY <1>3, <1>4, <1>5, <1>6 DEF Kept

\* A block that comes while a session is between its check and the provider is
\* noted; the other changes of a lead's policy and shortlist block nobody.
LEMMA LeadKept ==
    ASSUME Kept, BlockedLeadGetsNoMail, NEW l \in Lead,
           Block(l) \/ Unblock(l) \/ \E to \in BOOLEAN : Shortlist(l, to)
    PROVE  Kept' /\ BlockedLeadGetsNoMail'
<1>1. UNCHANGED rowVars /\ UNCHANGED localVars
  BY DEF Block, Unblock, Shortlist
<1>2. Drafted' = Drafted /\ Consecutive' /\ Addressed'
  BY <1>1, RowsStay
<1>3. Working'
  BY <1>1, <1>2 DEF Kept, Working, localVars
<1>4. TypeOK'
  <2>1. CASE Block(l)
    BY <1>1, <2>1 DEF Block, Kept, TypeOK, rowVars, localVars, historyVars
  <2>2. CASE Unblock(l)
    BY <1>1, <2>2 DEF Unblock, Kept, TypeOK, rowVars, localVars, historyVars
  <2>3. CASE \E to \in BOOLEAN : Shortlist(l, to)
    BY <1>1, <2>3 DEF Shortlist, Kept, TypeOK, rowVars, localVars, historyVars
  <2> QED
    BY <2>1, <2>2, <2>3
<1>5. BlockedLeadGetsNoMail'
  <2>1. CASE Block(l)
    BY <1>1, <2>1 DEF Block, Kept, TypeOK, BlockedLeadGetsNoMail, rowVars, localVars
  <2>2. CASE Unblock(l)
    BY <1>1, <2>2 DEF Unblock, Kept, TypeOK, BlockedLeadGetsNoMail, rowVars, localVars, historyVars
  <2>3. CASE \E to \in BOOLEAN : Shortlist(l, to)
    BY <1>1, <2>3 DEF Shortlist, BlockedLeadGetsNoMail, rowVars, localVars, historyVars
  <2> QED
    BY <2>1, <2>2, <2>3
<1> QED
  BY <1>2, <1>3, <1>4, <1>5 DEF Kept

(***************************************************************************)
(* The theorems                                                            *)
(***************************************************************************)

\* Every step keeps the invariant.
LEMMA StepKept ==
    ASSUME Kept, BlockedLeadGetsNoMail, [Next]_vars
    PROVE  Kept' /\ BlockedLeadGetsNoMail'
<1>1. ASSUME NEW s \in Session, Continue(s)
      PROVE  Kept' /\ BlockedLeadGetsNoMail'
  BY <1>1, StoreKept, DraftInsertKept, OperatorKept, SendCheckKept, EndKept, ProviderKept,
     LoadResultKept DEF Continue
<1>2. ASSUME NEW s \in Session, Start(s)
      PROVE  Kept' /\ BlockedLeadGetsNoMail'
  BY <1>2, DraftSelectKept, OperatorKept, SendCheckKept, StartBatchKept DEF Start
<1>3. CASE UNCHANGED vars
  <2>1. Drafted' = Drafted /\ Consecutive' /\ Addressed'
    BY <1>3, RowsStay DEF vars
  <2>2. TypeOK' /\ Working' /\ BlockedLeadGetsNoMail'
    BY <1>3, <2>1 DEF vars, rowVars, leadVars, localVars, historyVars, Kept, TypeOK, Working,
                     BlockedLeadGetsNoMail
  <2> QED
    BY <2>1, <2>2 DEF Kept
<1> QED
  BY <1>1, <1>2, <1>3, CrashKept, LeadKept DEF Next

\* Every variable keeps its type, in every behaviour of the sending of messages.
THEOREM TypeCorrect == Spec => []TypeOK
<1>1. Kept /\ BlockedLeadGetsNoMail /\ [Next]_vars => (Kept /\ BlockedLeadGetsNoMail)'
  BY StepKept
<1>2. Kept => TypeOK
  BY DEF Kept
<1> QED
  BY InitKept, <1>1, <1>2, PTL DEF Spec

\* A lead that is blocked is mailed only when the block came after the check of
\* that very message, for any number of sessions and however long their batches.
THEOREM BlockIsNotOverlooked == Spec => []BlockedLeadGetsNoMail
<1>1. Kept /\ BlockedLeadGetsNoMail /\ [Next]_vars => (Kept /\ BlockedLeadGetsNoMail)'
  BY StepKept
<1> QED
  BY InitKept, <1>1, PTL DEF Spec

(***************************************************************************)
(* One mail per approval                                                   *)
(***************************************************************************)

\* s is sending m, or its batch has m.
Sends(s, m) ==
    \/ msg[s] = m /\ (pc[s] \in {"checked", "accepted", "raised"} \/ target[s] \in {"sent", "failed"})
    \/ batch[s] = "send" /\ m \in todo[s]

\* It may still mail m: checked, or not looked at by the batch yet.
Pending(s, m) ==
    \/ pc[s] = "checked" /\ msg[s] = m
    \/ batch[s] = "send" /\ m \in todo[s] /\ msg[s] # m

\* It has written what became of m.
Done(s, m) == pc[s] = "recording" /\ msg[s] = m

\* It would leave m as it is because it loaded it with the status it writes.
Void(s, m) ==
    /\ pc[s] = "store" /\ msg[s] = m
    /\ target[s] \in {"sent", "failed"} /\ seen[s] = target[s]

\* A message nobody contended for: every mail is paid by an approval, and one more
\* approval is there for a mail that may still go out, by the sender there is or,
\* once that sender is done, by the next one, who finds the message APPROVED.  SENT
\* and FAILED are written by senders alone.
Accounted(m) ==
    /\ mailed[m] <= approvals[m]
    /\ \A s, t \in Session : Sends(s, m) /\ Sends(t, m) => s = t
    /\ \A s \in Session : Pending(s, m) => mailed[m] < approvals[m]
    /\ status[m] = "approved" /\ (\A s \in Session : Sends(s, m) => Done(s, m))
          => mailed[m] < approvals[m]
    /\ \A s \in Session : Sends(s, m) /\ ~Done(s, m) => status[m] \notin {"sent", "failed"}
    /\ \A s \in Session : ~Void(s, m)

Tickets == \A m \in Message \ contended : Accounted(m)

\* A session between two messages holds none; batches of approvals send nothing,
\* and batches of sends write nothing but SENT and FAILED.
Occupied ==
    \A s \in Session :
        /\ pc[s] \in {"idle", "next", "drafting"} => msg[s] = 0 /\ target[s] = "absent"
        /\ pc[s] \in {"checked", "accepted", "raised"} => batch[s] # "approve"
        /\ pc[s] \in {"store", "recording"} /\ target[s] \notin {"sent", "failed"}
              => batch[s] # "send"

Counted == Kept /\ Occupied /\ Tickets

\* A step that leaves session t alone.
Same(t) ==
    /\ pc'[t] = pc[t] /\ msg'[t] = msg[t] /\ target'[t] = target[t]
    /\ seen'[t] = seen[t] /\ batch'[t] = batch[t] /\ todo'[t] = todo[t]

\* A step that leaves what message m has behind it.
SameRow(m) == status'[m] = status[m] /\ mailed'[m] = mailed[m] /\ approvals'[m] = approvals[m]

\* A session that is left alone does to a message what it did.
LEMMA SameSends ==
    ASSUME NEW t \in Session, Same(t), NEW m
    PROVE  /\ Sends(t, m)' <=> Sends(t, m)
           /\ Pending(t, m)' <=> Pending(t, m)
           /\ Done(t, m)' <=> Done(t, m)
           /\ Void(t, m)' <=> Void(t, m)
BY DEF Same, Sends, Pending, Done, Void

\* A message that a step neither writes nor hands to somebody stays accounted for.
LEMMA AccountedStays ==
    ASSUME NEW m, Accounted(m), SameRow(m),
           \A t \in Session : /\ Sends(t, m)' <=> Sends(t, m)
                              /\ Pending(t, m)' => Pending(t, m)
                              /\ Done(t, m)' <=> Done(t, m)
                              /\ ~Void(t, m)'
    PROVE  Accounted(m)'
BY DEF Accounted, SameRow

\* A session that finishes with m keeps the rest of its batch as it was.
LEMMA FinishSends ==
    ASSUME Kept, NEW s \in Session, NEW m, Finish(s, m), msg[s] \in {0, m},
           pc[s] # "checked" \/ msg[s] = m
    PROVE  /\ \A t \in Session \ {s} : Same(t)
           /\ ~Sends(s, m)' /\ ~Pending(s, m)' /\ ~Done(s, m)' /\ ~Void(s, m)'
           /\ \A n \in Message \ {m} :
                 /\ Sends(s, n)' <=> Sends(s, n)
                 /\ Pending(s, n)' <=> Pending(s, n)
                 /\ ~Done(s, n) /\ ~Done(s, n)' /\ ~Void(s, n)'
<1> DEFINE rest == todo[s] \ {m}
<1>1. /\ todo' = [todo EXCEPT ![s] = rest]
      /\ msg' = [msg EXCEPT ![s] = 0]
      /\ target' = [target EXCEPT ![s] = "absent"]
      /\ seen' = [seen EXCEPT ![s] = "absent"]
      /\ \/ rest = {} /\ pc' = [pc EXCEPT ![s] = "idle"] /\ batch' = [batch EXCEPT ![s] = "none"]
         \/ pc' = [pc EXCEPT ![s] = "next"] /\ batch' = batch
  BY DEF Finish, Goto
<1>2. \A t \in Session \ {s} : Same(t)
  BY <1>1 DEF Kept, TypeOK, Same
<1>3. /\ msg'[s] = 0 /\ target'[s] = "absent" /\ todo'[s] = rest /\ pc'[s] \in {"idle", "next"}
      /\ rest # {} => batch'[s] = batch[s]
  BY <1>1 DEF Kept, TypeOK
<1>4. 0 \notin Message
  BY DEF Message
<1>5. ~Sends(s, m)' /\ ~Pending(s, m)' /\ ~Done(s, m)' /\ ~Void(s, m)'
  BY <1>3 DEF Sends, Pending, Done, Void
<1>6. ASSUME NEW n \in Message \ {m}
      PROVE  /\ Sends(s, n)' <=> Sends(s, n)
             /\ Pending(s, n)' <=> Pending(s, n)
             /\ ~Done(s, n) /\ ~Done(s, n)' /\ ~Void(s, n)'
  <2>1. n # msg[s] /\ n # 0 /\ (n \in rest <=> n \in todo[s])
    BY <1>4, <1>6
  <2> QED
    BY <1>3, <2>1 DEF Sends, Pending, Done, Void
<1> QED
  BY <1>2, <1>5, <1>6

\* The initial values.
LEMMA InitCounted == Init => Occupied /\ Tickets
<1> SUFFICES ASSUME Init PROVE Occupied /\ Tickets
  OBVIOUS
<1>1. \A s \in Session, m \in Message : ~Sends(s, m) /\ ~Pending(s, m) /\ ~Void(s, m)
  BY DEF Init, Sends, Pending, Void, Message
<1>2. Tickets
  BY <1>1 DEF Init, Tickets, Accounted
<1> QED
  BY <1>2 DEF Init, Occupied

\* What a session holds between two messages is kept by every step.
LEMMA OccupiedStep ==
    ASSUME Kept, Occupied, [Next]_vars
    PROVE  Occupied'
<1>1. ASSUME NEW s \in Session, NEW m, Finish(s, m)
      PROVE  Occupied'
  BY <1>1 DEF Finish, Goto, Kept, TypeOK, Occupied
<1>2. ASSUME NEW s \in Session, NEW m \in Message, Approve(s, m) \/ Cancel(s, m) \/ MarkReplied(s, m)
      PROVE  Occupied'
  <2>1. /\ pc' = [pc EXCEPT ![s] = "store"]
        /\ \E to \in {"approved", "cancelled", "replied"} : target' = [target EXCEPT ![s] = to]
        /\ msg' = [msg EXCEPT ![s] = m]
        /\ batch' = batch
    BY <1>2 DEF Approve, Cancel, MarkReplied, Load, Goto
  <2>2. batch[s] # "send"
    BY <1>2 DEF Approve, Cancel, MarkReplied, Turn, Kept, Working
  <2> QED
    BY <2>1, <2>2 DEF Kept, TypeOK, Occupied
<1>3. ASSUME NEW s \in Session, NEW m \in Message, SendCheck(s, m)
      PROVE  Occupied'
  <2>1. /\ pc' = [pc EXCEPT ![s] = "checked"]
        /\ msg' = [msg EXCEPT ![s] = m]
        /\ UNCHANGED <<target, batch>>
    BY <1>3 DEF SendCheck, Goto
  <2>2. batch[s] # "approve"
    BY <1>3 DEF SendCheck, Turn, Kept, Working
  <2> QED
    BY <2>1, <2>2 DEF Kept, TypeOK, Occupied
<1>4. ASSUME NEW s \in Session, Continue(s)
      PROVE  Occupied'
  <2>1. CASE Store(s)
    BY <1>1, <2>1 DEF Store, Goto, Kept, TypeOK, Occupied
  <2>2. CASE DraftInsert(s)
    BY <2>2 DEF DraftInsert, Goto, Kept, TypeOK, Occupied
  <2>3. CASE \E m \in Message : Approve(s, m) \/ SendCheck(s, m)
    BY <1>2, <1>3, <2>3
  <2>4. CASE LoadResultRaises(s) \/ Record(s) \/ \E m \in Message : SendSkip(s, m)
    BY <1>1, <2>4 DEF LoadResultRaises, Record, SendSkip
  <2>5. CASE Provider(s)
    BY <2>5 DEF Provider, Goto, Kept, TypeOK, Occupied
  <2>6. CASE LoadResult(s)
    <3>1. /\ pc' = [pc EXCEPT ![s] = "store"]
          /\ \E to \in {"sent", "failed"} : target' = [target EXCEPT ![s] = to]
          /\ msg' = [msg EXCEPT ![s] = msg[s]]
          /\ batch' = batch
      BY <2>6 DEF LoadResult, Load, Goto
    <3> QED
      BY <3>1 DEF Kept, TypeOK, Occupied
  <2> QED
    BY <1>4, <2>1, <2>2, <2>3, <2>4, <2>5, <2>6 DEF Continue
<1>5. ASSUME NEW s \in Session, Start(s)
      PROVE  Occupied'
  <2>1. CASE \E l \in Lead : DraftSelect(s, l)
    BY <2>1 DEF DraftSelect, Goto, Kept, TypeOK, Occupied
  <2>2. CASE \E kind \in {"send", "approve"}, ms \in SUBSET Message : StartBatch(s, kind, ms)
    BY <2>2 DEF StartBatch, Goto, Kept, TypeOK, Occupied
  <2>3. CASE \E m \in Message : Approve(s, m) \/ Cancel(s, m) \/ MarkReplied(s, m) \/ SendCheck(s, m)
    BY <1>2, <1>3, <2>3
  <2> QED
    BY <1>5, <2>1, <2>2, <2>3 DEF Start
<1>6. ASSUME NEW s \in Session, Crash(s)
      PROVE  Occupied'
  BY <1>6 DEF Crash, Goto, Kept, TypeOK, Occupied
<1>7. CASE UNCHANGED localVars
  BY <1>7 DEF localVars, Occupied
<1> QED
  BY <1>4, <1>5, <1>6, <1>7 DEF Next, Block, Unblock, Shortlist, vars

\* Drafting and the operator's reads leave every message as accounted for.
LEMMA DraftingTickets ==
    ASSUME Counted, NEW s \in Session,
           \/ \E l \in Lead : DraftSelect(s, l)
           \/ DraftInsert(s)
    PROVE  Tickets'
<1>1. /\ UNCHANGED <<batch, todo, msg, target, seen, mailed, approvals, contended>>
      /\ \/ pc[s] = "idle" /\ pc' = [pc EXCEPT ![s] = "drafting"]
         \/ pc[s] = "drafting" /\ pc' = [pc EXCEPT ![s] = "idle"]
  BY DEF DraftSelect, DraftInsert, Goto, historyVars
<1> SUFFICES ASSUME NEW n \in Message \ contended
             PROVE  Accounted(n)'
  BY <1>1 DEF Tickets
<1>2. Accounted(n)
  BY DEF Counted, Tickets
<1>3. /\ \A t \in Session \ {s} : Same(t)
      /\ pc'[s] \in {"idle", "drafting"} /\ msg'[s] = 0
      /\ msg[s] = 0 /\ todo'[s] = todo[s] /\ batch'[s] = batch[s]
  BY <1>1 DEF Counted, Kept, TypeOK, Occupied, Same
<1>4. \A t \in Session : /\ Sends(t, n)' <=> Sends(t, n)
                         /\ Pending(t, n)' => Pending(t, n)
                         /\ Done(t, n)' <=> Done(t, n)
                         /\ ~Void(t, n)'
  <2>1. \A t \in Session \ {s} : /\ Sends(t, n)' <=> Sends(t, n)
                                 /\ Pending(t, n)' => Pending(t, n)
                                 /\ Done(t, n)' <=> Done(t, n)
                                 /\ ~Void(t, n)'
    BY <1>2, <1>3, SameSends DEF Accounted
  <2>2. n # 0
    BY DEF Message
  <2>3. /\ Sends(s, n)' <=> Sends(s, n)
        /\ Pending(s, n)' => Pending(s, n)
        /\ Done(s, n)' <=> Done(s, n)
        /\ ~Void(s, n)'
    BY <1>1, <1>3, <2>2 DEF Sends, Pending, Done, Void
  <2> QED
    BY <2>1, <2>3
<1>5. CASE SameRow(n)
  BY <1>2, <1>4, <1>5, AccountedStays
<1>6. CASE ~SameRow(n)
  <2>1. status'[n] = "pending_approval"
    <3>1. DraftInsert(s) /\ Drafted # Message
      BY <1>1, <1>6 DEF DraftSelect, DraftInsert, SameRow, rowVars
    <3>2. status' = [status EXCEPT ![Cardinality(Drafted) + 1] = "pending_approval"]
      BY <3>1 DEF DraftInsert
    <3>3. n = Cardinality(Drafted) + 1
      BY <1>1, <1>6, <3>2 DEF SameRow, Counted, Kept, TypeOK
    <3> QED
      BY <3>2, <3>3 DEF Counted, Kept, TypeOK
  <2>2. mailed'[n] = mailed[n] /\ approvals'[n] = approvals[n]
    BY <1>1
  <2> QED
    BY <1>2, <1>4, <2>1, <2>2 DEF Accounted
<1> QED
  BY <1>5, <1>6

\* A session about to write a status sends no message it did not send before.
LEMMA OperatorTickets ==
    ASSUME Counted, NEW s \in Session, NEW m \in Message,
           Approve(s, m) \/ Cancel(s, m) \/ MarkReplied(s, m)
    PROVE  Tickets'
<1>1. /\ pc' = [pc EXCEPT ![s] = "store"]
      /\ \E to \in {"approved", "cancelled", "replied"} : target' = [target EXCEPT ![s] = to]
      /\ msg' = [msg EXCEPT ![s] = m]
      /\ seen' = [seen EXCEPT ![s] = View(s, m)]
      /\ pc[s] \in {"idle", "next"}
      /\ UNCHANGED <<rowVars, batch, todo, mailed, approvals, contended>>
  BY DEF Approve, Cancel, MarkReplied, Load, Goto, Turn, historyVars
<1>2. batch[s] # "send"
  BY DEF Approve, Cancel, MarkReplied, Turn, Counted, Kept, Working
<1>3. /\ \A t \in Session \ {s} : Same(t)
      /\ msg[s] = 0 /\ pc'[s] = "store" /\ batch'[s] # "send"
      /\ target'[s] \in {"approved", "cancelled", "replied"}
  BY <1>1, <1>2 DEF Counted, Kept, TypeOK, Occupied, Same
<1> SUFFICES ASSUME NEW n \in Message \ contended
             PROVE  Accounted(n)'
  BY <1>1 DEF Tickets
<1>4. Accounted(n) /\ SameRow(n)
  BY <1>1 DEF Counted, Tickets, SameRow, rowVars
<1>5. ASSUME NEW t \in Session
      PROVE  /\ Sends(t, n)' <=> Sends(t, n)
             /\ Pending(t, n)' => Pending(t, n)
             /\ Done(t, n)' <=> Done(t, n)
             /\ ~Void(t, n)'
  <2>1. CASE t = s
    <3>1. n # 0
      BY DEF Message
    <3> QED
      BY <1>1, <1>2, <1>3, <2>1, <3>1 DEF Sends, Pending, Done, Void
  <2>2. CASE t # s
    BY <1>3, <1>4, <2>2, SameSends DEF Accounted
  <2> QED
    BY <2>1, <2>2
<1> QED
  BY <1>4, <1>5, AccountedStays

\* A batch of sends takes messages that are approved and that nobody else sends.
LEMMA StartBatchTickets ==
    ASSUME Counted, NEW s \in Session, NEW kind \in {"send", "approve"},
           NEW ms \in SUBSET Message, StartBatch(s, kind, ms)
    PROVE  Tickets'
<1> DEFINE status0 == IF kind = "send" THEN "approved" ELSE "pending_approval"
           chosen == {m \in ms : status[m] = status0}
<1>1. /\ pc[s] = "idle"
      /\ pc' = [pc EXCEPT ![s] = "next"]
      /\ batch' = [batch EXCEPT ![s] = kind]
      /\ todo' = [todo EXCEPT ![s] = chosen]
      /\ IF kind = "send" THEN contended' = contended \cup {m \in chosen : Senders(m) \ {s} # {}}
                          ELSE contended' = contended
      /\ UNCHANGED <<rowVars, msg, target, seen, mailed, approvals>>
  BY DEF StartBatch, Goto, Contend
<1>2. /\ \A t \in Session \ {s} : Same(t)
      /\ msg[s] = 0 /\ msg'[s] = 0 /\ target'[s] = "absent" /\ pc'[s] = "next"
      /\ batch[s] = "none" /\ batch'[s] = kind /\ todo'[s] = chosen
  BY <1>1 DEF Counted, Kept, TypeOK, Occupied, Working, Same
<1> SUFFICES ASSUME NEW n \in Message \ contended'
             PROVE  Accounted(n)'
  BY DEF Tickets
<1>3. Accounted(n) /\ SameRow(n)
  BY <1>1 DEF Counted, Tickets, SameRow, rowVars
<1>4. n # 0
  BY DEF Message
<1>5. /\ ~Sends(s, n) /\ ~Pending(s, n) /\ ~Done(s, n) /\ ~Done(s, n)' /\ ~Void(s, n)'
      /\ Sends(s, n)' <=> kind = "send" /\ n \in chosen
      /\ Pending(s, n)' <=> kind = "send" /\ n \in chosen
  BY <1>1, <1>2, <1>4 DEF Sends, Pending, Done, Void
<1> HIDE DEF chosen
<1>6. \A t \in Session \ {s} : /\ Sends(t, n)' <=> Sends(t, n)
                               /\ Pending(t, n)' => Pending(t, n)
                               /\ Done(t, n)' <=> Done(t, n)
                               /\ ~Void(t, n)'
  BY <1>2, <1>3, SameSends DEF Accounted
<1>7. CASE kind = "send" /\ n \in chosen
  <2>1. status[n] = "approved"
    BY <1>7 DEF chosen
  <2>2. \A t \in Session \ {s} : ~Sends(t, n)
    BY <1>1, <1>7 DEF Senders, Sends
  <2>3. mailed[n] < approvals[n]
    BY <1>3, <1>5, <2>1, <2>2 DEF Accounted
  <2> QED
    BY <1>3, <1>5, <1>6, <2>1, <2>2, <2>3 DEF Accounted, SameRow
<1>8. CASE ~(kind = "send" /\ n \in chosen)
  BY <1>3, <1>5, <1>6, <1>8, AccountedStays
<1> QED
  BY <1>7, <1>8

\* What passes the checks of send uncontended has an approval that is not used up.
LEMMA SendCheckTickets ==
    ASSUME Counted, NEW s \in Session, NEW m \in Message, SendCheck(s, m)
    PROVE  Tickets'
<1>1. /\ pc' = [pc EXCEPT ![s] = "checked"]
      /\ msg' = [msg EXCEPT ![s] = m]
      /\ contended' = contended \cup {n \in {m} : Senders(n) \ {s} # {}}
      /\ UNCHANGED <<rowVars, batch, todo, target, seen, mailed, approvals>>
  BY DEF SendCheck, Goto, Contend
<1>2. /\ \A t \in Session \ {s} : Same(t)
      /\ msg[s] = 0 /\ msg'[s] = m /\ pc'[s] = "checked"
      /\ pc[s] \in {"idle", "next"} /\ target[s] = "absent" /\ target'[s] = "absent"
      /\ batch'[s] = batch[s] /\ todo'[s] = todo[s]
  BY <1>1 DEF SendCheck, Turn, Counted, Kept, TypeOK, Occupied, Same
<1> SUFFICES ASSUME NEW n \in Message \ contended'
             PROVE  Accounted(n)'
  BY DEF Tickets
<1>3. Accounted(n) /\ SameRow(n)
  BY <1>1 DEF Counted, Tickets, SameRow, rowVars
<1>4. n # 0
  BY DEF Message
<1>5. \A t \in Session \ {s} : /\ Sends(t, n)' <=> Sends(t, n)
                               /\ Pending(t, n)' => Pending(t, n)
                               /\ Done(t, n)' <=> Done(t, n)
                               /\ ~Void(t, n)'
  BY <1>2, <1>3, SameSends DEF Accounted
<1>6. CASE n = m
  <2>1. \A t \in Session \ {s} : ~Sends(t, n)
    BY <1>1, <1>6 DEF Senders, Sends
  <2>2. mailed[n] < approvals[n] /\ status[n] \notin {"sent", "failed"}
    <3>1. CASE pc[s] = "idle"
      <4>1. batch[s] = "none" /\ todo[s] = {}
        BY <3>1 DEF Counted, Kept, Working
      <4>2. status[n] = "approved"
        BY <1>6, <4>1 DEF SendCheck, SendAllowed, View
      <4>3. ~Sends(s, n)
        BY <1>2, <1>4, <4>1 DEF Sends
      <4> QED
        BY <1>3, <2>1, <4>2, <4>3 DEF Accounted
    <3>2. CASE pc[s] = "next"
      <4>1. batch[s] = "send" /\ n \in todo[s]
        BY <1>6, <3>2 DEF SendCheck, Turn
      <4>2. Sends(s, n) /\ Pending(s, n) /\ ~Done(s, n)
        BY <1>2, <1>4, <4>1 DEF Sends, Pending, Done
      <4> QED
        BY <1>3, <4>2 DEF Accounted
    <3> QED
      BY <1>2, <3>1, <3>2
  <2>3. Sends(s, n)' /\ ~Done(s, n)' /\ ~Void(s, n)'
    BY <1>2, <1>6 DEF Sends, Done, Void
  <2> QED
    BY <1>3, <1>5, <2>1, <2>2, <2>3 DEF Accounted, SameRow
<1>7. CASE n # m
  <2>1. /\ Sends(s, n)' <=> Sends(s, n)
        /\ Pending(s, n)' => Pending(s, n)
        /\ Done(s, n)' <=> Done(s, n)
        /\ ~Void(s, n)'
    BY <1>2, <1>4, <1>7 DEF Sends, Pending, Done, Void
  <2> QED
    BY <1>3, <1>5, <2>1, AccountedStays
<1> QED
  BY <1>6, <1>7

\* A mail takes the approval that was there for it.
LEMMA ProviderTickets ==
    ASSUME Counted, NEW s \in Session, Provider(s)
    PROVE  Tickets'
<1> DEFINE m == msg[s]
<1>1. /\ pc[s] = "checked" /\ m \in Message
      /\ UNCHANGED <<rowVars, batch, todo, msg, target, seen, approvals, contended>>
  BY DraftedIsMessage DEF Provider, Counted, Kept, Working
<1>2. PICK k \in {mailed[m], mailed[m] + 1} : mailed' = [mailed EXCEPT ![m] = k]
  BY DEF Provider
<1>3. pc' = [pc EXCEPT ![s] = "accepted"] \/ pc' = [pc EXCEPT ![s] = "raised"]
  BY DEF Provider, Goto
<1>4. /\ \A t \in Session \ {s} : Same(t)
      /\ pc'[s] \in {"accepted", "raised"} /\ msg'[s] = msg[s] /\ target'[s] = target[s]
      /\ batch'[s] = batch[s] /\ todo'[s] = todo[s]
  BY <1>1, <1>3 DEF Counted, Kept, TypeOK, Same
<1> SUFFICES ASSUME NEW n \in Message \ contended
             PROVE  Accounted(n)'
  BY <1>1 DEF Tickets
<1>5. Accounted(n)
  BY DEF Counted, Tickets
<1>6. \A t \in Session \ {s} : /\ Sends(t, n)' <=> Sends(t, n)
                               /\ Pending(t, n)' => Pending(t, n)
                               /\ Done(t, n)' <=> Done(t, n)
                               /\ ~Void(t, n)'
  BY <1>4, <1>5, SameSends DEF Accounted
<1>7. /\ Sends(s, n)' <=> Sends(s, n)
      /\ Pending(s, n)' => Pending(s, n)
      /\ Done(s, n)' <=> Done(s, n)
      /\ ~Void(s, n)'
  BY <1>1, <1>4 DEF Sends, Pending, Done, Void
<1>8. CASE n # m
  <2>1. SameRow(n)
    BY <1>1, <1>2, <1>8 DEF SameRow, rowVars, Counted, Kept, TypeOK
  <2> QED
    BY <1>5, <1>6, <1>7, <2>1, AccountedStays
<1>9. CASE n = m
  <2>1. Sends(s, n) /\ Pending(s, n) /\ ~Done(s, n) /\ ~Pending(s, n)'
    BY <1>1, <1>4, <1>9 DEF Sends, Pending, Done
  <2>2. /\ status'[n] = status[n] /\ approvals'[n] = approvals[n]
        /\ mailed'[n] \in {mailed[n], mailed[n] + 1}
        /\ mailed[n] \in Nat /\ approvals[n] \in Nat
    BY <1>1, <1>2, <1>9 DEF rowVars, Counted, Kept, TypeOK
  <2>3. mailed'[n] <= approvals'[n]
    BY <1>5, <2>1, <2>2 DEF Accounted
  <2>4. \A t \in Session \ {s} : ~Sends(t, n) /\ ~Pending(t, n)
    BY <1>5, <2>1 DEF Accounted, Pending, Sends
  <2> QED
    BY <1>5, <1>6, <1>7, <2>1, <2>2, <2>3, <2>4 DEF Accounted
<1> QED
  BY <1>8, <1>9

\* The result of a send is written over a status that is neither SENT nor FAILED.
LEMMA LoadResultTickets ==
    ASSUME Counted, NEW s \in Session, LoadResult(s)
    PROVE  Tickets'
<1> DEFINE m == msg[s]
<1>1. /\ pc[s] \in {"accepted", "raised"}
      /\ pc' = [pc EXCEPT ![s] = "store"]
      /\ msg' = [msg EXCEPT ![s] = m]
      /\ seen' = [seen EXCEPT ![s] = View(s, m)]
      /\ \E to \in {"sent", "failed"} : target' = [target EXCEPT ![s] = to]
      /\ UNCHANGED <<rowVars, batch, todo, mailed, approvals, contended>>
  BY DEF LoadResult, Load, Goto, historyVars
<1>2. /\ \A t \in Session \ {s} : Same(t)
      /\ pc'[s] = "store" /\ msg'[s] = m /\ target'[s] \in {"sent", "failed"}
      /\ seen'[s] = View(s, m) /\ batch'[s] = batch[s] /\ todo'[s] = todo[s]
  BY <1>1 DEF Counted, Kept, TypeOK, Same
<1> SUFFICES ASSUME NEW n \in Message \ contended
             PROVE  Accounted(n)'
  BY <1>1 DEF Tickets
<1>3. Accounted(n) /\ SameRow(n)
  BY <1>1 DEF Counted, Tickets, SameRow, rowVars
<1>4. /\ Sends(s, n)' <=> Sends(s, n)
      /\ Pending(s, n)' => Pending(s, n)
      /\ Done(s, n)' <=> Done(s, n)
  BY <1>1, <1>2 DEF Sends, Pending, Done
<1>5. ~Void(s, n)'
  <2>1. CASE n = m
    <3>1. Sends(s, n) /\ ~Done(s, n)
      BY <1>1, <2>1 DEF Sends, Done
    <3>2. status[n] \notin {"sent", "failed"}
      BY <1>3, <3>1 DEF Accounted
    <3>3. View(s, n) \notin {"sent", "failed"}
      BY <3>2 DEF View
    <3> QED
      BY <1>2, <2>1, <3>3 DEF Void
  <2>2. CASE n # m
    BY <1>2, <2>2 DEF Void
  <2> QED
    BY <2>1, <2>2
<1>6. \A t \in Session \ {s} : /\ Sends(t, n)' <=> Sends(t, n)
                               /\ Pending(t, n)' => Pending(t, n)
                               /\ Done(t, n)' <=> Done(t, n)
                               /\ ~Void(t, n)'
  BY <1>2, <1>3, SameSends DEF Accounted
<1> QED
  BY <1>3, <1>4, <1>5, <1>6, AccountedStays

\* A sender that finishes with m without writing its status leaves no approval
\* unaccounted for, if m is not APPROVED or one more approval is there.
LEMMA FinishTickets ==
    ASSUME Counted, NEW s \in Session, NEW m \in Message, Finish(s, m), msg[s] \in {0, m},
           pc[s] # "checked" \/ msg[s] = m,
           UNCHANGED <<status, mailed, approvals, contended>>,
           m \notin contended /\ status[m] = "approved" /\ Sends(s, m)
              => mailed[m] < approvals[m]
    PROVE  Tickets'
<1>1. /\ \A t \in Session \ {s} : Same(t)
      /\ ~Sends(s, m)' /\ ~Pending(s, m)' /\ ~Done(s, m)' /\ ~Void(s, m)'
      /\ \A n \in Message \ {m} :
            /\ Sends(s, n)' <=> Sends(s, n)
            /\ Pending(s, n)' <=> Pending(s, n)
            /\ ~Done(s, n) /\ ~Done(s, n)' /\ ~Void(s, n)'
  BY FinishSends DEF Counted
<1> SUFFICES ASSUME NEW n \in Message \ contended
             PROVE  Accounted(n)'
  BY DEF Tickets
<1>2. Accounted(n) /\ SameRow(n)
  BY DEF Counted, Tickets, SameRow
<1>3. \A t \in Session \ {s} : /\ Sends(t, n)' <=> Sends(t, n)
                               /\ Pending(t, n)' => Pending(t, n)
                               /\ Done(t, n)' <=> Done(t, n)
                               /\ ~Void(t, n)'
  BY <1>1, <1>2, SameSends DEF Accounted
<1>4. CASE n # m
  BY <1>1, <1>2, <1>3, <1>4, AccountedStays
<1>5. CASE n = m
  <2>1. ~Sends(s, n)' /\ ~Pending(s, n)' /\ ~Done(s, n)' /\ ~Void(s, n)'
    BY <1>1, <1>5
  <2>2. status'[n] = "approved" /\ (\A t \in Session : Sends(t, n)' => Done(t, n)')
           => mailed[n] < approvals[n]
    <3>1. CASE Sends(s, n)
      BY <1>2, <1>5, <3>1 DEF SameRow
    <3>2. CASE ~Sends(s, n)
      BY <1>2, <1>3, <3>2 DEF Accounted, SameRow
    <3> QED
      BY <3>1, <3>2
  <2> QED
    BY <1>2, <1>3, <2>1, <2>2 DEF Accounted, SameRow
<1> QED
  BY <1>4, <1>5

\* The ends of a send.
LEMMA EndTickets ==
    ASSUME Counted, NEW s \in Session,
           LoadResultRaises(s) \/ Record(s) \/ \E m \in Message : SendSkip(s, m)
    PROVE  Tickets'
<1>1. CASE \E m \in Message : SendSkip(s, m)
  <2>1. PICK m \in Message : SendSkip(s, m)
    BY <1>1
  <2>2. msg[s] = 0 /\ m # 0
    BY <2>1 DEF SendSkip, Counted, Occupied, Message
  <2>3. Pending(s, m)
    BY <2>1, <2>2 DEF SendSkip, Pending
  <2>4. m \notin contended => mailed[m] < approvals[m]
    BY <2>3 DEF Counted, Tickets, Accounted
  <2> QED
    BY <2>1, <2>2, <2>4, FinishTickets DEF SendSkip, rowVars
<1>2. CASE LoadResultRaises(s)
  <2> DEFINE m == msg[s]
  <2>1. m \in Message /\ Finish(s, m) /\ pc[s] \in {"accepted", "raised"} /\ batch[s] # "approve"
    BY <1>2, DraftedIsMessage DEF LoadResultRaises, Counted, Kept, Working, Occupied
  <2>2. status[m] # "approved"
    <3>1. TransitionAllowed("approved", "sent") /\ TransitionAllowed("approved", "failed")
      BY DEF TransitionAllowed, AllowedTransitions
    <3>2. View(s, m) # "approved"
      BY <1>2, <3>1 DEF LoadResultRaises
    <3>3. batch[s] = "none"
      BY <2>1, <3>2 DEF View, Counted, Kept, TypeOK
    <3> QED
      BY <3>2, <3>3 DEF View
  <2> QED
    BY <1>2, <2>1, <2>2, FinishTickets DEF LoadResultRaises, rowVars
<1>3. CASE Record(s)
  <2> DEFINE m == msg[s]
  <2>1. m \in Message /\ Finish(s, m) /\ pc[s] = "recording"
    BY <1>3, DraftedIsMessage DEF Record, Counted, Kept, Working
  <2>2. ASSUME m \notin contended, status[m] = "approved", Sends(s, m)
        PROVE  mailed[m] < approvals[m]
    <3>1. Accounted(m)
      BY <2>1, <2>2 DEF Counted, Tickets
    <3>2. Done(s, m)
      BY <2>1 DEF Done
    <3>3. \A t \in Session : Sends(t, m) => Done(t, m)
      BY <2>2, <3>1, <3>2 DEF Accounted
    <3> QED
      BY <2>2, <3>1, <3>3 DEF Accounted
  <2> QED
    BY <1>3, <2>1, <2>2, FinishTickets DEF Record, rowVars
<1> QED
  BY <1>1, <1>2, <1>3

\* A session that writes a status does to the other messages what it did, and is
\* done with this one or about to record it.
LEMMA StoreSends ==
    ASSUME Counted, NEW s \in Session, Store(s), NEW m, m = msg[s]
    PROVE  /\ \A t \in Session \ {s} : Same(t)
           /\ ~Void(s, m)' /\ ~Pending(s, m)'
           /\ Sends(s, m)' => Sends(s, m) /\ Done(s, m)' /\ target[s] \in {"sent", "replied"}
           /\ \A n \in Message \ {m} :
                 /\ Sends(s, n)' <=> Sends(s, n)
                 /\ Pending(s, n)' => Pending(s, n)
                 /\ Done(s, n)' <=> Done(s, n)
                 /\ ~Void(s, n)'
<1>1. pc[s] = "store"
  BY DEF Store
<1>2. CASE Finish(s, m)
  BY <1>1, <1>2, FinishSends DEF Counted
<1>3. CASE /\ target[s] \in {"sent", "replied"}
           /\ pc' = [pc EXCEPT ![s] = "recording"]
           /\ UNCHANGED <<batch, todo, msg, target, seen>>
  <2>1. /\ \A t \in Session \ {s} : Same(t)
        /\ pc'[s] = "recording"
    BY <1>3 DEF Counted, Kept, TypeOK, Same
  <2>2. /\ ~Void(s, m)' /\ ~Pending(s, m)' /\ Done(s, m)'
        /\ Sends(s, m)' => Sends(s, m)
    BY <1>1, <1>3, <2>1 DEF Sends, Pending, Done, Void
  <2>3. ASSUME NEW n \in Message \ {m}
        PROVE  /\ Sends(s, n)' <=> Sends(s, n)
               /\ Pending(s, n)' => Pending(s, n)
               /\ Done(s, n)' <=> Done(s, n)
               /\ ~Void(s, n)'
    BY <1>1, <1>3, <2>1, <2>3 DEF Sends, Pending, Done, Void
  <2> QED
    BY <1>3, <2>1, <2>2, <2>3
<1> QED
  BY <1>2, <1>3 DEF Store, Goto

\* A status is written: APPROVED with one more approval, SENT and FAILED by the
\* sender, who loaded the message with another status.
LEMMA StoreTickets ==
    ASSUME Counted, NEW s \in Session, Store(s)
    PROVE  Tickets'
<1>1. PICK m \in Message : m = msg[s]
  BY DraftedIsMessage DEF Store, Counted, Kept, Working
<1>2. /\ pc[s] = "store" /\ target[s] \in MessageStatus
      /\ status' = [status EXCEPT ![m] = IF seen[s] = target[s] THEN status[m] ELSE target[s]]
      /\ approvals' = [approvals EXCEPT ![m] = IF target[s] = "approved" THEN approvals[m] + 1 ELSE approvals[m]]
      /\ UNCHANGED <<mailed, contended>>
  BY <1>1 DEF Store, Counted, Kept, Working
<1>3. /\ status'[m] = IF seen[s] = target[s] THEN status[m] ELSE target[s]
      /\ approvals'[m] = IF target[s] = "approved" THEN approvals[m] + 1 ELSE approvals[m]
      /\ mailed'[m] = mailed[m] /\ mailed[m] \in Nat /\ approvals[m] \in Nat
  BY <1>2 DEF Counted, Kept, TypeOK
<1>4. /\ \A t \in Session \ {s} : Same(t)
      /\ ~Void(s, m)' /\ ~Pending(s, m)'
      /\ Sends(s, m)' => Sends(s, m) /\ Done(s, m)' /\ target[s] \in {"sent", "replied"}
      /\ \A n \in Message \ {m} :
            /\ Sends(s, n)' <=> Sends(s, n)
            /\ Pending(s, n)' => Pending(s, n)
            /\ Done(s, n)' <=> Done(s, n)
            /\ ~Void(s, n)'
  BY <1>1, StoreSends
<1> SUFFICES ASSUME NEW n \in Message \ contended
             PROVE  Accounted(n)'
  BY <1>2 DEF Tickets
<1>5. Accounted(n)
  BY DEF Counted, Tickets
<1>6. \A t \in Session \ {s} : /\ Sends(t, n)' <=> Sends(t, n)
                               /\ Pending(t, n)' => Pending(t, n)
                               /\ Done(t, n)' <=> Done(t, n)
                               /\ ~Void(t, n)'
  BY <1>4, <1>5, SameSends DEF Accounted
<1>7. CASE n # m
  <2>1. SameRow(n)
    BY <1>2, <1>7 DEF SameRow, Counted, Kept, TypeOK
  <2> QED
    BY <1>4, <1>5, <1>6, <1>7, <2>1, AccountedStays
<1>8. CASE n = m /\ target[s] \in {"sent", "failed"}
  <2>1. Sends(s, n) /\ status'[n] = target[s]
    BY <1>1, <1>2, <1>3, <1>5, <1>8 DEF Sends, Void, Accounted
  <2>2. \A t \in Session \ {s} : ~Sends(t, n) /\ ~Pending(t, n)
    BY <1>5, <2>1 DEF Accounted, Pending, Sends
  <2>3. mailed'[n] <= approvals'[n] /\ status'[n] # "approved"
    BY <1>3, <1>5, <1>8, <2>1 DEF Accounted
  <2> QED
    BY <1>4, <1>6, <1>8, <2>2, <2>3 DEF Accounted
<1>9. CASE n = m /\ target[s] \notin {"sent", "failed"}
  <2>1. ~Sends(s, n) /\ ~Sends(s, n)'
    BY <1>1, <1>2, <1>4, <1>9 DEF Sends, Counted, Occupied
  <2>2. CASE target[s] = "approved"
    <3>1. mailed'[n] < approvals'[n] /\ status'[n] \in {status[n], "approved"}
      BY <1>3, <1>5, <1>9, <2>2 DEF Accounted
    <3> QED
      BY <1>3, <1>4, <1>5, <1>6, <1>9, <2>1, <3>1 DEF Accounted
  <2>3. CASE target[s] # "approved"
    <3>1. /\ mailed'[n] = mailed[n] /\ approvals'[n] = approvals[n]
          /\ status'[n] = status[n] \/ status'[n] \notin {"approved", "sent", "failed"}
      BY <1>3, <1>9, <2>3
    <3> QED
      BY <1>4, <1>5, <1>6, <1>9, <2>1, <3>1 DEF Accounted
  <2> QED
    BY <2>2, <2>3
<1> QED
  BY <1>7, <1>8, <1>9

\* What a process was sending when it died is contended from then on.
LEMMA CrashTickets ==
    ASSUME Counted, NEW s \in Session, Crash(s)
    PROVE  Tickets'
<1>1. /\ pc' = [pc EXCEPT ![s] = "idle"]
      /\ batch' = [batch EXCEPT ![s] = "none"]
      /\ todo' = [todo EXCEPT ![s] = {}]
      /\ msg' = [msg EXCEPT ![s] = 0]
      /\ target' = [target EXCEPT ![s] = "absent"]
      /\ seen' = [seen EXCEPT ![s] = "absent"]
      /\ contended' = contended \cup {m \in Message : s \in Senders(m)}
      /\ UNCHANGED <<rowVars, mailed, approvals>>
  BY DEF Crash, Goto
<1>2. /\ \A t \in Session \ {s} : Same(t)
      /\ pc'[s] = "idle" /\ batch'[s] = "none" /\ msg'[s] = 0
  BY <1>1 DEF Counted, Kept, TypeOK, Same
<1> SUFFICES ASSUME NEW n \in Message \ contended'
             PROVE  Accounted(n)'
  BY DEF Tickets
<1>3. Accounted(n) /\ SameRow(n)
  BY <1>1 DEF Counted, Tickets, SameRow, rowVars
<1>4. ~Sends(s, n)
  BY <1>1 DEF Senders, Sends
<1>5. ~Sends(s, n)' /\ ~Pending(s, n)' /\ ~Done(s, n)' /\ ~Void(s, n)'
  BY <1>2 DEF Sends, Pending, Done, Void, Message
<1>6. \A t \in Session \ {s} : /\ Sends(t, n)' <=> Sends(t, n)
                               /\ Pending(t, n)' => Pending(t, n)
                               /\ Done(t, n)' <=> Done(t, n)
                               /\ ~Void(t, n)'
  BY <1>2, <1>3, SameSends DEF Accounted
<1> QED
  BY <1>3, <1>4, <1>5, <1>6 DEF Accounted, SameRow

\* Every step keeps the account.
LEMMA TicketsStep ==
    ASSUME Counted, [Next]_vars
    PROVE  Tickets'
<1>1. ASSUME NEW s \in Session, Continue(s)
      PROVE  Tickets'
  BY <1>1, StoreTickets, DraftingTickets, OperatorTickets, SendCheckTickets, EndTickets,
     ProviderTickets, LoadResultTickets DEF Continue
<1>2. ASSUME NEW s \in Session, Start(s)
      PROVE  Tickets'
  BY <1>2, DraftingTickets, OperatorTickets, SendCheckTickets, StartBatchTickets DEF Start
<1>3. CASE UNCHANGED <<rowVars, localVars, mailed, approvals, contended>>
  BY <1>3 DEF rowVars, localVars, Counted, Tickets, Accounted, Sends, Pending, Done, Void
<1> QED
  BY <1>1, <1>2, <1>3, CrashTickets DEF Next, Block, Unblock, Shortlist, vars, historyVars

\* A message goes out at most once for each approval, unless two senders held it
\* at once or one crashed while it did, for any number of sessions, batches and
\* messages, and however outdated the statuses that are written.
THEOREM OneMailPerApprovalHolds == Spec => []OneMailPerApproval
<1>1. Init => Kept /\ BlockedLeadGetsNoMail /\ Occupied /\ Tickets
  BY InitKept, InitCounted
<1>2. Kept /\ BlockedLeadGetsNoMail /\ Occupied /\ Tickets /\ [Next]_vars
         => (Kept /\ BlockedLeadGetsNoMail /\ Occupied /\ Tickets)'
  BY StepKept, OccupiedStep, TicketsStep DEF Counted
<1>3. Tickets => OneMailPerApproval
  BY DEF Tickets, Accounted, OneMailPerApproval
<1> QED
  BY <1>1, <1>2, <1>3, PTL DEF Spec
(***************************************************************************)
(* What is recorded on a lead, and what went out                           *)
(***************************************************************************)

Outcome(st) == IF st = "sent" THEN "contacted" ELSE "replied"

\* s has written st to m and has yet to record it on the lead.
Recorder(s, m, st) == pc[s] = "recording" /\ msg[s] = m /\ target[s] = st

\* What is SENT or REPLIED is on the lead's record, or a session is about to record
\* it, unless a process crashed: what SentIsRecorded promises cannot be lost by any
\* order of the steps, only by a crash.
SentIsOwed ==
    \A m \in Drafted : status[m] \in {"sent", "replied"} =>
        \/ Outcome(status[m]) \in outcomes[recipient[m]]
        \/ crashes > 0
        \/ \E s \in Session : Recorder(s, m, status[m])

\* The record of a lead says nothing unless a mail has gone out to it.
OutcomeIsEarned ==
    \A l \in Lead : outcomes[l] # {} => \E m \in Drafted : recipient[m] = l /\ mailed[m] > 0

\* The session is to write SENT or REPLIED, or has.
Charged(s) == \/ pc[s] = "accepted"
              \/ pc[s] \in {"store", "recording"} /\ target[s] \in {"sent", "replied"}

\* Only what was mailed is SENT or REPLIED, and so written by a session.
Paid ==
    /\ \A m \in Drafted : status[m] \in {"sent", "replied"} => mailed[m] > 0
    /\ \A s \in Session : Charged(s) => mailed[msg[s]] > 0

Ledger == SentIsOwed /\ OutcomeIsEarned /\ Paid

\* A step that leaves the rows, the mails and the outcomes alone keeps the ledger if
\* no session that is recording is lost without a crash, and none is charged
\* with a message that was not mailed.
LEMMA LedgerStays ==
    ASSUME Kept, Ledger, UNCHANGED <<rowVars, mailed, outcomes>>,
           \/ crashes' > 0
           \/ /\ crashes' = crashes
              /\ \A s \in Session : pc[s] = "recording" => /\ pc'[s] = pc[s] /\ msg'[s] = msg[s]
                                                           /\ target'[s] = target[s],
           \A s \in Session : Charged(s)' => mailed[msg'[s]] > 0
    PROVE  Ledger'
<1>1. Drafted' = Drafted /\ status' = status /\ recipient' = recipient
  BY RowsStay DEF rowVars
<1>2. SentIsOwed'
  BY <1>1 DEF Ledger, SentIsOwed, Recorder
<1>3. OutcomeIsEarned'
  BY <1>1 DEF Ledger, OutcomeIsEarned
<1>4. Paid'
  BY <1>1 DEF Ledger, Paid
<1> QED
  BY <1>2, <1>3, <1>4 DEF Ledger

\* A session that is done with a message is charged with nothing.
LEMMA FinishLedger ==
    ASSUME Kept, Ledger, NEW s \in Session, NEW m, Finish(s, m), pc[s] # "recording",
           UNCHANGED <<rowVars, mailed, outcomes, crashes>>
    PROVE  Ledger'
<1>1. /\ msg' = [msg EXCEPT ![s] = 0]
      /\ target' = [target EXCEPT ![s] = "absent"]
      /\ pc' = [pc EXCEPT ![s] = "idle"] \/ pc' = [pc EXCEPT ![s] = "next"]
  BY DEF Finish, Goto
<1>2. \A t \in Session : Charged(t)' => mailed[msg'[t]] > 0
  BY <1>1 DEF Kept, TypeOK, Ledger, Paid, Charged
<1>3. \A t \in Session : pc[t] = "recording" => /\ pc'[t] = pc[t] /\ msg'[t] = msg[t]
                                                /\ target'[t] = target[t]
  BY <1>1 DEF Kept, TypeOK
<1> QED
  BY <1>2, <1>3, LedgerStays

\* A status other than SENT and REPLIED may be written to any message, these two to
\* one that was mailed.
LEMMA LoadLedger ==
    ASSUME Kept, Ledger, NEW s \in Session, NEW m, NEW to, Load(s, m, to), pc[s] # "recording",
           to \in {"sent", "replied"} => mailed[m] > 0,
           UNCHANGED <<rowVars, mailed, outcomes, crashes>>
    PROVE  Ledger'
<1>1. /\ pc' = [pc EXCEPT ![s] = "store"]
      /\ msg' = [msg EXCEPT ![s] = m]
      /\ target' = [target EXCEPT ![s] = to]
  BY DEF Load, Goto
<1>2. \A t \in Session : Charged(t)' => mailed[msg'[t]] > 0
  BY <1>1 DEF Kept, TypeOK, Ledger, Paid, Charged
<1>3. \A t \in Session : pc[t] = "recording" => /\ pc'[t] = pc[t] /\ msg'[t] = msg[t]
                                                /\ target'[t] = target[t]
  BY <1>1 DEF Kept, TypeOK
<1> QED
  BY <1>2, <1>3, LedgerStays

\* What the operator marks as REPLIED is SENT or REPLIED already.
LEMMA OperatorLedger ==
    ASSUME Kept, Ledger, NEW s \in Session, NEW m \in Message,
           Approve(s, m) \/ Cancel(s, m) \/ MarkReplied(s, m)
    PROVE  Ledger'
<1>1. CASE Approve(s, m) \/ Cancel(s, m)
  <2>1. PICK to \in {"approved", "cancelled"} : Load(s, m, to)
    BY <1>1 DEF Approve, Cancel
  <2> QED
    BY <1>1, <2>1, LoadLedger DEF Approve, Cancel, Turn, leadVars, historyVars
<1>2. CASE MarkReplied(s, m)
  <2>1. batch[s] = "none" /\ m \in Drafted
    BY <1>2 DEF MarkReplied, Kept, Working
  <2>2. TransitionAllowed(status[m], "replied")
    BY <1>2, <2>1 DEF MarkReplied, Load, View
  <2>3. status[m] \in {"sent", "replied"}
    BY <2>1, <2>2, DraftedIsMessage
       DEF TransitionAllowed, AllowedTransitions, Kept, TypeOK, MessageStatus, Drafted
  <2>4. mailed[m] > 0
    BY <2>1, <2>3 DEF Ledger, Paid
  <2> QED
    BY <1>2, <2>4, LoadLedger DEF MarkReplied, leadVars, historyVars
<1> QED
  BY <1>1, <1>2

\* The beginnings of a draft, a batch and a send charge nobody.
LEMMA BeginLedger ==
    ASSUME Kept, Ledger, NEW s \in Session,
           \/ \E l \in Lead : DraftSelect(s, l)
           \/ \E kind \in {"send", "approve"}, ms \in SUBSET Message : StartBatch(s, kind, ms)
           \/ \E m \in Message : SendCheck(s, m)
    PROVE  Ledger'
<1>1. /\ pc[s] \in {"idle", "next"} /\ target' = target
      /\ UNCHANGED <<rowVars, mailed, outcomes, crashes>>
      /\ \E l \in {"drafting", "next", "checked"} : pc' = [pc EXCEPT ![s] = l]
      /\ \E m \in Nat : msg' = [msg EXCEPT ![s] = m]
  <2>1. msg[s] \in Nat /\ msg = [msg EXCEPT ![s] = msg[s]] /\ Message \subseteq Nat
    BY MessageAssumption DEF Kept, TypeOK, Message
  <2> QED
    BY <2>1 DEF DraftSelect, StartBatch, SendCheck, Turn, Goto, leadVars, historyVars
<1>2. \A t \in Session : Charged(t)' => mailed[msg'[t]] > 0
  BY <1>1 DEF Kept, TypeOK, Ledger, Paid, Charged
<1>3. \A t \in Session : pc[t] = "recording" => /\ pc'[t] = pc[t] /\ msg'[t] = msg[t]
                                                /\ target'[t] = target[t]
  BY <1>1 DEF Kept, TypeOK
<1> QED
  BY <1>1, <1>2, <1>3, LedgerStays

\* A new draft is neither SENT nor REPLIED.
LEMMA DraftInsertLedger ==
    ASSUME Kept, Ledger, NEW s \in Session, DraftInsert(s)
    PROVE  Ledger'
<1>1. /\ pc[s] = "drafting"
      /\ pc' = [pc EXCEPT ![s] = "idle"]
      /\ UNCHANGED <<outcomes, mailed, msg, target, crashes>>
  BY DEF DraftInsert, Goto, leadVars, historyVars
<1>2. \A t \in Session : /\ Charged(t)' <=> Charged(t)
                         /\ \A m, st : Recorder(t, m, st)' <=> Recorder(t, m, st)
  BY <1>1 DEF Kept, TypeOK, Charged, Recorder
<1>3. CASE Drafted = Message
  <2>1. UNCHANGED rowVars
    BY <1>3 DEF DraftInsert
  <2>2. Drafted' = Drafted /\ status' = status /\ recipient' = recipient
    BY <2>1, RowsStay DEF rowVars
  <2> QED
    BY <1>1, <1>2, <2>2 DEF Ledger, SentIsOwed, OutcomeIsEarned, Paid
<1>4. CASE Drafted # Message
  <2> DEFINE m == Cardinality(Drafted) + 1
  <2>1. /\ status' = [status EXCEPT ![m] = "pending_approval"]
        /\ recipient' = [recipient EXCEPT ![m] = draftee[s]]
    BY <1>4 DEF DraftInsert
  <2>2. m \in Message /\ m \notin Drafted
    BY <1>4, NextDraft
  <2> HIDE DEF m
  <2>3. /\ \A n \in Drafted : status'[n] = status[n] /\ recipient'[n] = recipient[n]
        /\ \A n \in Drafted' : n \in Drafted \/ status'[n] = "pending_approval"
        /\ Drafted \subseteq Drafted'
    BY <2>1, <2>2 DEF Kept, TypeOK, Drafted
  <2>4. SentIsOwed'
    BY <1>1, <1>2, <2>3 DEF Ledger, SentIsOwed
  <2>5. OutcomeIsEarned'
    BY <1>1, <2>3 DEF Ledger, OutcomeIsEarned
  <2>6. Paid'
    BY <1>1, <1>2, <2>3 DEF Ledger, Paid
  <2> QED
    BY <2>4, <2>5, <2>6 DEF Ledger
<1> QED
  BY <1>3, <1>4

\* Who the provider accepts a mail from is charged with a message that was mailed.
LEMMA ProviderLedger ==
    ASSUME Kept, Ledger, NEW s \in Session, Provider(s)
    PROVE  Ledger'
<1> DEFINE m == msg[s]
<1>1. /\ pc[s] = "checked" /\ m \in Drafted /\ m \in Message
      /\ UNCHANGED <<rowVars, outcomes, msg, target, crashes>>
  BY DraftedIsMessage DEF Provider, Kept, Working, leadVars
<1>2. /\ \A n \in Message : mailed[n] > 0 => mailed'[n] > 0
      /\ pc' = [pc EXCEPT ![s] = "raised"] \/ (pc' = [pc EXCEPT ![s] = "accepted"] /\ mailed'[m] > 0)
  <2>1. PICK sends, answers \in BOOLEAN :
          /\ mailed' = [mailed EXCEPT ![m] = IF sends THEN mailed[m] + 1 ELSE mailed[m]]
          /\ pc' = [pc EXCEPT ![s] = IF sends /\ answers THEN "accepted" ELSE "raised"]
    BY DEF Provider, Goto
  <2>2. mailed \in [Message -> Nat]
    BY DEF Kept, TypeOK
  <2>3. \A n \in Message : mailed[n] > 0 => mailed'[n] > 0
    BY <1>1, <2>1, <2>2
  <2>4. sends => mailed'[m] > 0
    BY <1>1, <2>1, <2>2
  <2> QED
    BY <2>1, <2>3, <2>4
<1>3. Drafted' = Drafted /\ status' = status /\ recipient' = recipient
  BY <1>1, RowsStay DEF rowVars
<1>4. \A t \in Session : \A n, st : Recorder(t, n, st)' <=> Recorder(t, n, st)
  BY <1>1, <1>2 DEF Kept, TypeOK, Recorder
<1>5. SentIsOwed'
  BY <1>1, <1>3, <1>4 DEF Ledger, SentIsOwed
<1>6. OutcomeIsEarned'
  BY <1>1, <1>2, <1>3, DraftedIsMessage DEF Ledger, OutcomeIsEarned
<1>7. ASSUME NEW t \in Session, Charged(t)'
      PROVE  mailed'[msg[t]] > 0
  <2>1. CASE t = s
    BY <1>1, <1>2, <1>7, <2>1 DEF Kept, TypeOK, Charged
  <2>2. CASE t # s
    <3>1. pc'[t] = pc[t]
      BY <1>2, <2>2 DEF Kept, TypeOK
    <3>2. Charged(t) /\ msg[t] \in Message
      BY <1>1, <1>7, <3>1, DraftedIsMessage DEF Charged, Kept, Working
    <3> QED
      BY <1>2, <3>2 DEF Ledger, Paid
  <2> QED
    BY <2>1, <2>2
<1>8. Paid'
  BY <1>1, <1>2, <1>3, <1>7, DraftedIsMessage DEF Ledger, Paid
<1> QED
  BY <1>5, <1>6, <1>8 DEF Ledger

\* SENT is to be written after the provider has accepted the mail.
LEMMA LoadResultLedger ==
    ASSUME Kept, Ledger, NEW s \in Session, LoadResult(s)
    PROVE  Ledger'
<1>1. PICK to \in {"sent", "failed"} : Load(s, msg[s], to) /\ (to = "sent" => pc[s] = "accepted")
  BY DEF LoadResult
<1>2. to \in {"sent", "replied"} => mailed[msg[s]] > 0
  BY <1>1 DEF Ledger, Paid, Charged
<1> QED
  BY <1>1, <1>2, LoadLedger DEF LoadResult, leadVars, historyVars

\* Who writes SENT or REPLIED records it next; a status of another message stays.
LEMMA StoreLedger ==
    ASSUME Kept, Ledger, NEW s \in Session, Store(s)
    PROVE  Ledger'
<1> DEFINE m == msg[s]
<1>1. /\ pc[s] = "store" /\ m \in Drafted /\ m \in Message /\ target[s] \in MessageStatus
      /\ status' = [status EXCEPT ![m] = IF seen[s] = target[s] THEN status[m] ELSE target[s]]
      /\ UNCHANGED <<recipient, outcomes, mailed, crashes>>
  BY DraftedIsMessage DEF Store, Kept, Working, leadVars
<1>2. Drafted' = Drafted
  BY <1>1 DEF Kept, TypeOK, Drafted, MessageStatus
<1>3. /\ \A t \in Session \ {s} : pc'[t] = pc[t] /\ msg'[t] = msg[t] /\ target'[t] = target[t]
      /\ IF target[s] \in {"sent", "replied"}
         THEN pc'[s] = "recording" /\ msg'[s] = m /\ target'[s] = target[s]
         ELSE pc'[s] \in {"idle", "next"}
  BY DEF Store, Finish, Goto, Kept, TypeOK
<1>4. ASSUME NEW n \in Drafted, status'[n] \in {"sent", "replied"}
      PROVE  \/ n = m /\ status'[n] = target[s]
             \/ status'[n] = status[n]
  BY <1>1 DEF Kept, TypeOK
<1>5. SentIsOwed'
  <2> SUFFICES ASSUME NEW n \in Drafted, status'[n] \in {"sent", "replied"}, ~(crashes > 0),
                      ~(Outcome(status'[n]) \in outcomes[recipient[n]])
               PROVE  \E t \in Session : Recorder(t, n, status[n])'
    BY <1>1, <1>2 DEF SentIsOwed, Outcome
  <2>1. CASE n = m /\ status'[n] = target[s]
    BY <1>3, <2>1 DEF Recorder
  <2>2. CASE status'[n] = status[n]
    <3>1. PICK t \in Session : Recorder(t, n, status[n])
      BY <2>2 DEF Ledger, SentIsOwed
    <3>2. t # s
      BY <1>1, <3>1 DEF Recorder
    <3> QED
      BY <1>3, <2>2, <3>1, <3>2 DEF Recorder
  <2> QED
    BY <1>4, <2>1, <2>2
<1>6. OutcomeIsEarned'
  BY <1>1, <1>2 DEF Ledger, OutcomeIsEarned
<1>7. Paid'
  <2>1. ASSUME NEW t \in Session, Charged(t)'
        PROVE  mailed[msg'[t]] > 0
    <3>1. Charged(t) /\ msg'[t] = msg[t]
      BY <1>1, <1>3, <2>1 DEF Charged
    <3> QED
      BY <3>1 DEF Ledger, Paid
  <2>2. ASSUME NEW n \in Drafted, status'[n] \in {"sent", "replied"}
        PROVE  mailed[n] > 0
    BY <1>1, <1>4, <2>2 DEF Ledger, Paid, Charged
  <2> QED
    BY <1>1, <1>2, <2>1, <2>2 DEF Paid
<1> QED
  BY <1>5, <1>6, <1>7 DEF Ledger

\* What a session was to record is on the record of the lead it was sent to.
LEMMA RecordLedger ==
    ASSUME Kept, Ledger, NEW s \in Session, Record(s)
    PROVE  Ledger'
<1> DEFINE m == msg[s]
           l == recipient[m]
<1>1. /\ pc[s] = "recording" /\ m \in Drafted /\ l \in Lead
      /\ outcomes' = [outcomes EXCEPT ![l] = outcomes[l] \cup {Outcome(target[s])}]
      /\ UNCHANGED <<rowVars, mailed, crashes>>
  BY DEF Record, Kept, Working, Addressed, Outcome
<1>2. Drafted' = Drafted /\ status' = status /\ recipient' = recipient
  BY <1>1, RowsStay DEF rowVars
<1>3. /\ \A t \in Session \ {s} : pc'[t] = pc[t] /\ msg'[t] = msg[t] /\ target'[t] = target[t]
      /\ pc'[s] \in {"idle", "next"}
  BY DEF Record, Finish, Goto, Kept, TypeOK
<1>4. /\ \A k \in Lead : outcomes[k] \subseteq outcomes'[k] /\ (k # l => outcomes'[k] = outcomes[k])
      /\ Outcome(target[s]) \in outcomes'[l]
  BY <1>1 DEF Kept, TypeOK
<1>5. SentIsOwed'
  <2> SUFFICES ASSUME NEW n \in Drafted, status[n] \in {"sent", "replied"}, ~(crashes > 0),
                      ~(Outcome(status[n]) \in outcomes'[recipient[n]])
               PROVE  \E t \in Session : Recorder(t, n, status[n])'
    BY <1>1, <1>2 DEF SentIsOwed, Outcome
  <2>1. recipient[n] \in Lead
    BY DEF Kept, Addressed
  <2>2. PICK t \in Session : Recorder(t, n, status[n])
    BY <1>4, <2>1 DEF Ledger, SentIsOwed
  <2>3. t # s
    BY <1>4, <2>2 DEF Recorder
  <2> QED
    BY <1>2, <1>3, <2>2, <2>3 DEF Recorder
<1>6. OutcomeIsEarned'
  <2>1. mailed[m] > 0
    BY <1>1 DEF Ledger, Paid, Charged, Kept, Working
  <2> QED
    BY <1>1, <1>2, <1>4, <2>1 DEF Ledger, OutcomeIsEarned
<1>7. Paid'
  BY <1>1, <1>2, <1>3 DEF Ledger, Paid, Charged
<1> QED
  BY <1>5, <1>6, <1>7 DEF Ledger

\* Only a crash forgets what is to be recorded.
LEMMA CrashLedger ==
    ASSUME Kept, Ledger, NEW s \in Session, Crash(s)
    PROVE  Ledger'
<1>1. /\ pc' = [pc EXCEPT ![s] = "idle"]
      /\ msg' = [msg EXCEPT ![s] = 0]
      /\ target' = [target EXCEPT ![s] = "absent"]
      /\ UNCHANGED <<rowVars, outcomes, mailed>>
  BY DEF Crash, Goto, leadVars
<1>2. crashes' > 0
  <2>1. crashes \in Nat
    BY MessageAssumption DEF Kept, TypeOK
  <2> QED
    BY <2>1 DEF Crash
<1>3. \A t \in Session : Charged(t)' => mailed[msg'[t]] > 0
  BY <1>1 DEF Kept, TypeOK, Ledger, Paid, Charged
<1> QED
  BY <1>1, <1>2, <1>3, LedgerStays

\* The ends of a send that record nothing.
LEMMA EndLedger ==
    ASSUME Kept, Ledger, NEW s \in Session,
           LoadResultRaises(s) \/ \E m \in Message : SendSkip(s, m)
    PROVE  Ledger'
BY FinishLedger DEF LoadResultRaises, SendSkip, leadVars

\* Every step keeps the ledger.
LEMMA LedgerStep ==
    ASSUME Kept, Ledger, [Next]_vars
    PROVE  Ledger'
<1>1. ASSUME NEW s \in Session, Continue(s)
      PROVE  Ledger'
  BY <1>1, StoreLedger, DraftInsertLedger, OperatorLedger, BeginLedger, EndLedger,
     ProviderLedger, LoadResultLedger, RecordLedger DEF Continue
<1>2. ASSUME NEW s \in Session, Start(s)
      PROVE  Ledger'
  BY <1>2, OperatorLedger, BeginLedger DEF Start
<1>3. CASE UNCHANGED <<rowVars, localVars, outcomes, mailed, crashes>>
  <2>1. \A s \in Session : Charged(s)' => mailed[msg'[s]] > 0
    BY <1>3 DEF localVars, Charged, Ledger, Paid
  <2> QED
    BY <1>3, <2>1, LedgerStays DEF localVars
<1> QED
  BY <1>1, <1>2, <1>3, CrashLedger DEF Next, Block, Unblock, Shortlist, vars, leadVars, historyVars

\* Nothing is drafted yet, and nothing recorded.
LEMMA InitLedger == Init => Ledger
BY DEF Init, Ledger, SentIsOwed, OutcomeIsEarned, Paid, Charged, Drafted

\* No order of the steps loses the record of a message that was sent or answered:
\* as long as no process crashes it is there, or a session is about to write it,
\* for any number of sessions and messages.
THEOREM SentIsNeverForgotten == Spec => []SentIsOwed
<1>1. Init => Kept /\ BlockedLeadGetsNoMail /\ Ledger
  BY InitKept, InitLedger
<1>2. Kept /\ BlockedLeadGetsNoMail /\ Ledger /\ [Next]_vars
         => (Kept /\ BlockedLeadGetsNoMail /\ Ledger)'
  BY StepKept, LedgerStep
<1>3. Ledger => SentIsOwed
  BY DEF Ledger
<1> QED
  BY <1>1, <1>2, <1>3, PTL DEF Spec

\* However outdated the statuses that sessions write, a lead is recorded as contacted
\* or as having replied only if a mail went out to it.
THEOREM RecordsAreEarned == Spec => []OutcomeIsEarned
<1>1. Init => Kept /\ BlockedLeadGetsNoMail /\ Ledger
  BY InitKept, InitLedger
<1>2. Kept /\ BlockedLeadGetsNoMail /\ Ledger /\ [Next]_vars
         => (Kept /\ BlockedLeadGetsNoMail /\ Ledger)'
  BY StepKept, LedgerStep
<1>3. Ledger => OutcomeIsEarned
  BY DEF Ledger
<1> QED
  BY <1>1, <1>2, <1>3, PTL DEF Spec
=============================================================================
