---------------------------- MODULE OutreachPackage ----------------------------
(***************************************************************************)
(* The outreach package of one shortlisted result of an audience           *)
(* (outreach_packages/service.py): drafts for channels are generated by a  *)
(* language model, merged with those that are there, refreshed when the    *)
(* evidence of the result changes, edited in a browser, and marked as sent *)
(* by hand or handed over to be sent (MessageSend).  The last two promote  *)
(* the result to a lead first (audience_runs/outreach.py).                 *)
(*                                                                         *)
(* A request reads, works, and writes what it has read; nothing joins two  *)
(* requests but the row locks of the promotion.  A session keeps what it   *)
(* has loaded of the result as long as the request refers to it, and so    *)
(* does not see what was committed while it waited for the lock; of the    *)
(* run, which no request refers to, it does.                               *)
(*                                                                         *)
(* A text is known by the evidence it speaks of and by whether the user    *)
(* has had a hand in it.                                                   *)
(***************************************************************************)
EXTENDS Naturals, FiniteSets

CONSTANTS
    Request,       \* requests that may be served at once
    Channel,       \* channels drafts are generated for, "email" among them
    NoText,        \* there is no draft
    NoPackage,     \* there is no package
    MaxEvidence,   \* bound: snapshots of the result
    MaxRequests    \* bound: requests that are made

ASSUME BoundsAssumption ==
    /\ MaxEvidence \in Nat \ {0} /\ MaxRequests \in Nat

ASSUME ChannelAssumption == "email" \in Channel

Evidence == 1..MaxEvidence
Text == [about : Evidence, edited : BOOLEAN]

\* OutreachPackageContent: the fingerprint of the evidence, generated_outreach.channels,
\* and the e-mail that is handed over.
Content == [evidence : Evidence, drafts : [Channel -> Text \cup {NoText}], email : Text \cup {NoText}]

ASSUME AbsenceAssumption == NoText \notin Text /\ NoPackage \notin Content

VARIABLES
    evidence,     \* the snapshot of the result
    lead,         \* the campaign of the lead it has been promoted to, or 0
    contacted,    \* it has a contacted_at
    campaign,     \* the outreach_campaign_id of its run, or 0
    campaigns,    \* campaigns that have been created
    other,        \* another result of the run that is a lead: of another name, or of the same
    package,      \* the content of the package
    outcomes,     \* CONTACTED outcomes that mark_sent has recorded
    events,       \* message_sent events that mark_sent has recorded for each channel
    form,         \* the content in the user's browser
    pc,           \* where each request is
    aim,          \* the channels it generates or marks
    seen,         \* the content it loaded
    basis,        \* the snapshot it loaded
    known,        \* the lead and the contact it loaded
    requests,     \* requests that have been made
    outdated,     \* (history) content was overwritten by a request that had not seen it
    relabelled,   \* (history) a text was kept under the fingerprint of other evidence
    raced         \* (history) a channel was marked by two requests at once

rows == <<lead, contacted, campaign, campaigns, other, outcomes, events>>
procs == <<pc, aim, seen, basis, known>>
history == <<outdated, relabelled, raced>>
vars == <<evidence, rows, package, form, procs, requests, history>>

Nothing == [lead |-> 0, contacted |-> FALSE]

Init ==
    /\ evidence = 1
    /\ lead = 0 /\ contacted = FALSE
    /\ campaign = 0 /\ campaigns = 0
    /\ other = "none"
    /\ package = NoPackage
    /\ outcomes = 0
    /\ events = [c \in Channel |-> 0]
    /\ form = NoPackage
    /\ pc = [r \in Request |-> "idle"]
    /\ aim = [r \in Request |-> {}]
    /\ seen = [r \in Request |-> NoPackage]
    /\ basis = [r \in Request |-> 1]
    /\ known = [r \in Request |-> Nothing]
    /\ requests = 0
    /\ outdated = FALSE /\ relabelled = FALSE /\ raced = FALSE

(***************************************************************************)
(* Contents                                                                *)
(***************************************************************************)

Texts(content) == ({content.drafts[c] : c \in Channel} \cup {content.email}) \ {NoText}

Generated(content) == \E c \in Channel : content.drafts[c] # NoText

Either(first, second) == IF first # NoText THEN first ELSE second

\* _render_content with a model that answers for the wanted channels. An e-mail can be
\* handed over only if the business has an address.
Rendered(e, wanted, reachable) ==
    LET text == [about |-> e, edited |-> FALSE]
    IN
    [evidence |-> e,
     drafts |-> [c \in Channel |-> IF c \in wanted THEN text ELSE NoText],
     email |-> IF "email" \in wanted /\ reachable THEN text ELSE NoText]

\* _render_content of the template, which has no drafts.
Template(e, reachable) ==
    [Rendered(e, {}, reachable) EXCEPT
        !.email = IF reachable THEN [about |-> e, edited |-> FALSE] ELSE NoText]

\* (mutant) What was not asked for is not carried over.
MutMerged(previous, new) == new

\* _merge_generated_channels.
Merged(previous, new) ==
    IF ~Generated(previous) THEN new
    ELSE [new EXCEPT !.drafts = [c \in Channel |-> Either(new.drafts[c], previous.drafts[c])],
                     !.email = Either(new.email, previous.email)]

\* _upgrade_content: the new template keeps the e-mail that is there, unless the old message
\* looks like a template's or the business has no address.
Upgraded(previous, fresh, copied) ==
    IF copied \/ fresh.email = NoText THEN fresh
    ELSE [fresh EXCEPT !.email = Either(previous.email, fresh.email)]

\* A request writes a content, having loaded another.
Write(content, loaded) ==
    /\ package' = content
    /\ outdated' = (outdated \/ package # loaded)

\* A request puts texts of the content it loaded under the fingerprint of e.
Relabel(kept, loaded, e) ==
    relabelled' = (relabelled \/ (loaded.evidence # e /\ kept # {}))

(***************************************************************************)
(* Generating, refreshing, editing                                         *)
(***************************************************************************)

\* One more request.
Begin(r) ==
    /\ pc[r] = "idle"
    /\ requests < MaxRequests
    /\ requests' = requests + 1

\* A request that writes content loads the package and the snapshot,
LoadContent(r) ==
    /\ seen' = [seen EXCEPT ![r] = package]
    /\ basis' = [basis EXCEPT ![r] = evidence]
    /\ UNCHANGED known

\* and one that promotes the result what the result has been promoted to.
LoadLead(r) ==
    /\ known' = [known EXCEPT ![r] = [lead |-> lead, contacted |-> contacted]]
    /\ UNCHANGED <<seen, basis>>

End(r) ==
    /\ pc' = [pc EXCEPT ![r] = "idle"]
    /\ aim' = [aim EXCEPT ![r] = {}]
    /\ seen' = [seen EXCEPT ![r] = NoPackage]
    /\ basis' = [basis EXCEPT ![r] = 1]
    /\ known' = [known EXCEPT ![r] = Nothing]

\* generate loads result and package, and asks the model.
Generate(r) ==
    \E wanted \in SUBSET Channel \ {{}} :
        /\ Begin(r)
        /\ pc' = [pc EXCEPT ![r] = "generate"]
        /\ aim' = [aim EXCEPT ![r] = wanted]
        /\ LoadContent(r)
        /\ UNCHANGED <<evidence, rows, package, form, history>>

\* (mutant) The fingerprint is that of the result when the answer is stored.
MutAnswered(r) ==
    \E reachable \in BOOLEAN :
        LET new == [Rendered(basis[r], aim[r], reachable) EXCEPT !.evidence = evidence]
        IN
        /\ pc[r] = "generate"
        /\ IF seen[r] = NoPackage
           THEN IF package = NoPackage
                THEN package' = new /\ UNCHANGED <<outdated, relabelled>>
                ELSE UNCHANGED <<package, outdated, relabelled>>
           ELSE /\ Write(Merged(seen[r], new), seen[r])
                /\ Relabel(Texts(Merged(seen[r], new)) \ Texts(new), seen[r], basis[r])
        /\ End(r)
        /\ UNCHANGED <<evidence, rows, form, requests, raced>>

\* The model has answered.  A second package violates the constraint: the request fails.
Answered(r) ==
    \E reachable \in BOOLEAN :
        LET new == Rendered(basis[r], aim[r], reachable)
        IN
        /\ pc[r] = "generate"
        /\ IF seen[r] = NoPackage
           THEN IF package = NoPackage
                THEN package' = new /\ UNCHANGED <<outdated, relabelled>>
                ELSE UNCHANGED <<package, outdated, relabelled>>
           ELSE /\ Write(Merged(seen[r], new), seen[r])
                /\ Relabel(Texts(Merged(seen[r], new)) \ Texts(new), seen[r], basis[r])
        /\ End(r)
        /\ UNCHANGED <<evidence, rows, form, requests, raced>>

\* find_for_result finds a package whose evidence is not that of the result,
Find(r) ==
    /\ Begin(r)
    /\ package # NoPackage
    /\ package.evidence # evidence
    /\ pc' = [pc EXCEPT ![r] = "refresh"]
    /\ LoadContent(r)
    /\ UNCHANGED <<evidence, rows, package, form, aim, history>>

\* and rewrites it.
Refresh(r) ==
    \E reachable, copied \in BOOLEAN :
        LET fresh == Template(basis[r], reachable)
            content == Upgraded(seen[r], fresh, copied)
        IN
        /\ pc[r] = "refresh"
        /\ Write(content, seen[r])
        /\ Relabel(Texts(content) \ Texts(fresh), seen[r], basis[r])
        /\ End(r)
        /\ UNCHANGED <<evidence, rows, form, requests, raced>>

\* The browser shows the package.
Open ==
    /\ package # NoPackage
    /\ package.evidence = evidence
    /\ form' = package
    /\ UNCHANGED <<evidence, rows, package, procs, requests, history>>

\* update: the user has changed a draft, and the browser sends all it shows.
Save ==
    \E c \in Channel :
        LET content == [form EXCEPT !.drafts[c].edited = TRUE]
        IN
        /\ form # NoPackage /\ package # NoPackage
        /\ form.drafts[c] # NoText
        /\ package.evidence = evidence
        /\ form.evidence = package.evidence
        /\ Write(content, form)
        /\ form' = content
        /\ UNCHANGED <<evidence, rows, procs, requests, relabelled, raced>>

(***************************************************************************)
(* Sending by hand and handing over                                        *)
(***************************************************************************)

\* mark_sent looks at the draft and at the events of the channel.
Mark(r) ==
    \E c \in Channel :
        /\ Begin(r)
        /\ package # NoPackage
        /\ package.drafts[c] # NoText
        /\ events[c] = 0
        /\ pc' = [pc EXCEPT ![r] = "promote"]
        /\ aim' = [aim EXCEPT ![r] = {c}]
        /\ LoadLead(r)
        /\ raced' = (raced \/ \E q \in Request : pc[q] \in {"promote", "contact", "note"} /\ aim[q] # {})
        /\ UNCHANGED <<evidence, rows, package, form, outdated, relabelled>>

\* prepare_message, of a package without a message.
Prepare(r) ==
    /\ Begin(r)
    /\ package # NoPackage
    /\ pc' = [pc EXCEPT ![r] = "promote"]
    /\ LoadLead(r)
    /\ UNCHANGED <<evidence, rows, package, form, aim, history>>

\* (mutant) A promotion makes a campaign of its own.
MutCampaignOf(found) == IF found # 0 THEN found ELSE campaigns + 1

\* The campaign of the lead promote returns, to a session that has found the result with
\* this lead: that of the run, made if need be.  There a lead of this name is found again:
\* the snapshots of a result are taken to be of one name.
CampaignOf(found) ==
    CASE found # 0 -> found
      [] found = 0 /\ campaign # 0 -> campaign
      [] OTHER -> campaigns + 1

\* (mutant) The campaign is not entered in the run.
MutPromoted(found) ==
    LET new == CampaignOf(found) > campaigns
    IN
    /\ lead' = IF found = 0 THEN CampaignOf(found) ELSE lead
    /\ campaigns' = IF new THEN CampaignOf(found) ELSE campaigns
    /\ UNCHANGED campaign

\* What a promotion that found this lead enters in result and run.
Promoted(found) ==
    LET new == CampaignOf(found) > campaigns
    IN
    /\ lead' = IF found = 0 THEN CampaignOf(found) ELSE lead
    /\ campaigns' = IF new THEN CampaignOf(found) ELSE campaigns
    /\ campaign' = IF new THEN CampaignOf(found) ELSE campaign

\* (mutant) A contact is recorded whether there has been one or not.
MutPromote(r) ==
    /\ pc[r] = "promote"
    /\ Promoted(known[r].lead)
    /\ IF aim[r] = {} THEN End(r)
       ELSE /\ pc' = [pc EXCEPT ![r] = "contact"]
            /\ UNCHANGED <<aim, seen, basis, known>>
    /\ UNCHANGED <<evidence, contacted, other, outcomes, events, package, form, requests, history>>

\* promote holds the rows of result and run; what was contacted is what was loaded before.
Promote(r) ==
    /\ pc[r] = "promote"
    /\ Promoted(known[r].lead)
    /\ IF aim[r] = {} THEN End(r)
       ELSE /\ pc' = [pc EXCEPT ![r] = IF known[r].contacted THEN "note" ELSE "contact"]
            /\ UNCHANGED <<aim, seen, basis, known>>
    /\ UNCHANGED <<evidence, contacted, other, outcomes, events, package, form, requests, history>>

\* The page of the audience promotes the result by itself.
PromoteResult ==
    /\ Promoted(lead)
    /\ UNCHANGED <<evidence, contacted, other, outcomes, events, package, form, procs, requests, history>>

\* It promotes another result of the run, which may have the name or the website of this
\* one: then the two have one lead.
PromoteOther ==
    /\ other = "none"
    /\ other' \in {"stranger", "namesake"}
    /\ campaigns' = IF campaign = 0 THEN campaigns + 1 ELSE campaigns
    /\ campaign' = IF campaign = 0 THEN campaigns + 1 ELSE campaign
    /\ UNCHANGED <<evidence, lead, contacted, outcomes, events, package, form, procs, requests, history>>

\* (mutant) The result is contacted when the event is recorded.
MutContact(r) ==
    /\ pc[r] = "contact"
    /\ outcomes' = outcomes + 1
    /\ UNCHANGED contacted
    /\ pc' = [pc EXCEPT ![r] = "note"]
    /\ UNCHANGED <<evidence, lead, campaign, campaigns, other, events, package, form, aim, seen,
                    basis, known, requests, history>>

\* OutcomeService.record commits the outcome of the lead, and the contact of a result that
\* has this lead.
Contact(r) ==
    /\ pc[r] = "contact"
    /\ outcomes' = outcomes + 1
    /\ IF other = "namesake" THEN contacted' \in {contacted, TRUE} ELSE contacted' = TRUE
    /\ pc' = [pc EXCEPT ![r] = "note"]
    /\ UNCHANGED <<evidence, lead, campaign, campaigns, other, events, package, form, aim, seen,
                    basis, known, requests, history>>

\* The sending of the message records the contact of its own, and so may the user.
ContactElsewhere ==
    /\ lead # 0
    /\ contacted' = TRUE
    /\ UNCHANGED <<evidence, lead, campaign, campaigns, other, outcomes, events, package, form,
                    procs, requests, history>>

\* The event is recorded in a transaction of its own.
Note(r) ==
    /\ pc[r] = "note"
    /\ events' = [c \in Channel |-> IF c \in aim[r] THEN events[c] + 1 ELSE events[c]]
    /\ End(r)
    /\ UNCHANGED <<evidence, lead, contacted, campaign, campaigns, other, outcomes, package, form,
                    requests, history>>

\* A request dies, the model's included.
Die(r) ==
    /\ pc[r] # "idle"
    /\ End(r)
    /\ UNCHANGED <<evidence, rows, package, form, requests, history>>

\* AudienceRunService.process matches the result again.
Rematch ==
    /\ evidence < MaxEvidence
    /\ evidence' = evidence + 1
    /\ UNCHANGED <<rows, package, form, procs, requests, history>>

Next ==
    \/ \E r \in Request :
          \/ Generate(r) \/ Answered(r) \/ Find(r) \/ Refresh(r)
          \/ Mark(r) \/ Prepare(r) \/ Promote(r) \/ Contact(r) \/ Note(r)
          \/ Die(r)
    \/ Open \/ Save \/ PromoteResult \/ PromoteOther \/ ContactElsewhere \/ Rematch

Spec == Init /\ [][Next]_vars

(***************************************************************************)
(* Properties                                                              *)
(***************************************************************************)

\* The types of the variables; a run has one campaign.
TypeOK ==
    /\ evidence \in Evidence
    /\ campaigns \in 0..1
    /\ lead \in 0..campaigns /\ campaign \in 0..campaigns
    /\ contacted \in BOOLEAN
    /\ package \in Content \cup {NoPackage} /\ form \in Content \cup {NoPackage}
    /\ other \in {"none", "stranger", "namesake"}
    /\ outcomes \in Nat
    /\ events \in [Channel -> Nat]
    /\ pc \in [Request -> {"idle", "generate", "refresh", "promote", "contact", "note"}]
    /\ aim \in [Request -> SUBSET Channel]
    /\ seen \in [Request -> Content \cup {NoPackage}]
    /\ basis \in [Request -> Evidence]
    /\ known \in [Request -> [lead : 0..campaigns, contacted : BOOLEAN]]
    /\ requests \in 0..MaxRequests
    /\ outdated \in BOOLEAN /\ relabelled \in BOOLEAN /\ raced \in BOOLEAN

\* update lets a draft be used while the fingerprint of its content is that of the result.
\* What it lets through speaks of the evidence it names, although the evidence may have
\* changed while the model wrote: unless texts were carried over from other evidence.
TextFitsEvidence ==
    package # NoPackage => (\A t \in Texts(package) : t.about = package.evidence) \/ relabelled

\* A channel that is marked as sent has its result in the history of contacts, whatever
\* request died between the transactions: unless another result has the same lead.
SentIsContacted == (\E c \in Channel : events[c] > 0) => contacted \/ other = "namesake"

\* mark_sent contacts a result once and sends a channel once, repeated requests included:
\* unless two of them overlapped, or another result has the same lead. What the sending of
\* the message and the user record is not counted, and makes mark_sent record no contact.
ContactedOnce == (outcomes <= 1 /\ \A c \in Channel : events[c] <= 1) \/ raced \/ other = "namesake"

\* A result that has a lead keeps it, and a run its campaign, whichever requests promote it
\* at once.
LeadStays == [][(lead # 0 => lead' = lead) /\ (campaign # 0 => campaign' = campaign)]_vars

Edited(content, c) == content # NoPackage /\ content.drafts[c] # NoText /\ content.drafts[c].edited

\* What the user has changed stays: until the channel is generated again, the evidence has
\* changed, or a request or a browser that had not seen it writes its own.
EditsAreKept ==
    [][\A c \in Channel :
          Edited(package, c) =>
              \/ Edited(package', c)
              \/ \E r \in Request : pc[r] = "generate" /\ pc'[r] = "idle" /\ c \in aim[r]
              \/ package'.evidence # package.evidence
              \/ outdated']_vars
=============================================================================
