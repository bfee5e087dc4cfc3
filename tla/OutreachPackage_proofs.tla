------------------------ MODULE OutreachPackage_proofs ------------------------
(***************************************************************************)
(* What holds of OutreachPackage for every set of requests and channels    *)
(* and all bounds: that texts speak of the evidence they name, that edits  *)
(* stay, that a result is given one lead, and that what is marked as sent  *)
(* is a contact, and one only.                                             *)
(***************************************************************************)
EXTENDS OutreachPackage, TLAPS

(***************************************************************************)
(* The strengthening.                                                      *)
(***************************************************************************)

\* A request that marks a channel and has got past its checks.
Marking(r) == pc[r] \in {"promote", "contact", "note"} /\ aim[r] # {}

\* There is one campaign, and the lead is in it.
OneCampaign == campaign = campaigns /\ (lead = 0 \/ lead = campaign)

\* What a request knows of the lead was so, and still is if it was something.
KnownHolds ==
    \A r \in Request :
        /\ known[r].lead = 0 \/ known[r].lead = lead
        /\ known[r].contacted => contacted

\* Who has still to record an event has a channel to record, and a contact; who is idle
\* has none.
Noting ==
    \A r \in Request :
        /\ pc[r] = "idle" => aim[r] = {}
        /\ pc[r] \in {"contact", "note"} => aim[r] # {}
        /\ pc[r] = "note" => contacted \/ other = "namesake"

\* Without overlaps and namesakes a marking request is alone and current.
Alone ==
    /\ outcomes <= 1
    /\ outcomes > 0 => contacted
    /\ \A c \in Channel : events[c] <= 1
    /\ \A r, q \in Request : Marking(r) /\ Marking(q) => r = q
    /\ \A r \in Request : Marking(r) =>
          /\ \A c \in aim[r] : events[c] = 0
          /\ pc[r] = "promote" => known[r].contacted \/ outcomes = 0
          /\ pc[r] = "contact" => outcomes = 0

\* The texts of a content speak of its evidence.
Fits(content) == content # NoPackage => \A t \in Texts(content) : t.about = content.evidence

\* So do those of every content there is, in the table, the browser and the sessions.
Fitting == Fits(package) /\ Fits(form) /\ \A r \in Request : Fits(seen[r])

\* Who refreshes has loaded a package of other evidence.
Refreshing ==
    \A r \in Request :
        pc[r] = "refresh" => seen[r] # NoPackage /\ seen[r].evidence # basis[r]

IInv ==
    /\ TypeOK /\ OneCampaign /\ KnownHolds /\ Noting /\ Refreshing
    /\ SentIsContacted
    /\ raced \/ other = "namesake" \/ Alone
    /\ relabelled \/ Fitting

(***************************************************************************)
(* Contents.                                                               *)
(***************************************************************************)

LEMMA TextShape ==
    ASSUME NEW e \in Evidence, NEW b \in BOOLEAN
    PROVE  [about |-> e, edited |-> b] \in Text
BY DEF Text

\* What the model writes is a content.
LEMMA RenderedType ==
    ASSUME NEW e \in Evidence, NEW wanted \in SUBSET Channel, NEW reachable \in BOOLEAN
    PROVE  Rendered(e, wanted, reachable) \in Content
BY TextShape DEF Rendered, Content

\* So is the template.
LEMMA TemplateType ==
    ASSUME NEW e \in Evidence, NEW reachable \in BOOLEAN
    PROVE  Template(e, reachable) \in Content /\ Template(e, reachable).evidence = e
BY TextShape DEF Template, Rendered, Content

\* Merging contents gives one.
LEMMA MergedType ==
    ASSUME NEW p \in Content, NEW n \in Content
    PROVE  Merged(p, n) \in Content
BY DEF Merged, Either, Content

\* So does refreshing one.
LEMMA UpgradedType ==
    ASSUME NEW p \in Content, NEW fresh \in Content, NEW copied \in BOOLEAN
    PROVE  /\ Upgraded(p, fresh, copied) \in Content
           /\ Upgraded(p, fresh, copied).evidence = fresh.evidence
BY DEF Upgraded, Either, Content

\* And editing one, where there is a draft.
LEMMA EditedType ==
    ASSUME NEW p \in Content, NEW c \in Channel, p.drafts[c] # NoText
    PROVE  [p EXCEPT !.drafts[c].edited = TRUE] \in Content
<1>1. p.drafts[c] \in Text
  BY DEF Content
<1>2. [p.drafts[c] EXCEPT !.edited = TRUE] \in Text
  BY <1>1 DEF Text
<1> QED BY <1>2 DEF Content

\* The first snapshot is one.
LEMMA FirstEvidence == 1 \in Evidence
BY BoundsAssumption DEF Evidence

(***************************************************************************)
(* Types.                                                                  *)
(***************************************************************************)

\* What a request that ends leaves behind is typed.
LEMMA EndTypes ==
    ASSUME TypeOK, NEW r \in Request, End(r), campaigns' = campaigns
    PROVE  /\ pc' \in [Request -> {"idle", "generate", "refresh", "promote", "contact", "note"}]
           /\ aim' \in [Request -> SUBSET Channel]
           /\ seen' \in [Request -> Content \cup {NoPackage}]
           /\ basis' \in [Request -> Evidence]
           /\ known' \in [Request -> [lead : 0..campaigns', contacted : BOOLEAN]]
<1>1. Nothing \in [lead : 0..campaigns, contacted : BOOLEAN]
  BY DEF TypeOK, Nothing
<1> QED BY <1>1, FirstEvidence DEF End, TypeOK

\* Nothing is known at first.
LEMMA InitType ==
    ASSUME Init
    PROVE  TypeOK
<1>1. Nothing \in [lead : 0..campaigns, contacted : BOOLEAN]
  BY DEF Init, Nothing
<1>2. known \in [Request -> [lead : 0..campaigns, contacted : BOOLEAN]]
  BY <1>1 DEF Init
<1>3. /\ evidence \in Evidence /\ basis \in [Request -> Evidence]
      /\ requests \in 0..MaxRequests
  BY FirstEvidence, BoundsAssumption DEF Init
<1>4. /\ contacted \in BOOLEAN
      /\ outdated \in BOOLEAN /\ relabelled \in BOOLEAN /\ raced \in BOOLEAN
  BY DEF Init
<1>5. /\ campaigns \in 0..1
      /\ lead \in 0..campaigns /\ campaign \in 0..campaigns
      /\ other \in {"none", "stranger", "namesake"}
      /\ outcomes \in Nat
      /\ events \in [Channel -> Nat]
  BY DEF Init
<1>6. /\ package \in Content \cup {NoPackage} /\ form \in Content \cup {NoPackage}
      /\ seen \in [Request -> Content \cup {NoPackage}]
      /\ aim \in [Request -> SUBSET Channel]
      /\ pc \in [Request -> {"idle", "generate", "refresh", "promote", "contact", "note"}]
  BY DEF Init
<1> QED BY <1>2, <1>3, <1>4, <1>5, <1>6 DEF TypeOK

\* Every step keeps the types, given that there is one campaign.
LEMMA TypeStep ==
    ASSUME TypeOK, OneCampaign, KnownHolds, Refreshing, [Next]_vars
    PROVE  TypeOK'
<1> USE DEF rows, procs, history
<1>1. ASSUME NEW r \in Request, Generate(r)
      PROVE  TypeOK'
  BY <1>1, BoundsAssumption DEF Generate, Begin, LoadContent, TypeOK
<1>2. ASSUME NEW r \in Request, Answered(r)
      PROVE  TypeOK'
  <2>1. \A reachable \in BOOLEAN : Rendered(basis[r], aim[r], reachable) \in Content
    BY RenderedType DEF TypeOK
  <2>2. seen[r] # NoPackage =>
          \A reachable \in BOOLEAN : Merged(seen[r], Rendered(basis[r], aim[r], reachable)) \in Content
    BY <2>1, MergedType DEF TypeOK
  <2>3. package' \in Content \cup {NoPackage} /\ outdated' \in BOOLEAN /\ relabelled' \in BOOLEAN
    BY <1>2, <2>1, <2>2 DEF Answered, Write, Relabel, TypeOK
  <2>4. End(r) /\ UNCHANGED <<evidence, rows, form, requests, raced>>
    BY <1>2 DEF Answered
  <2> QED BY <2>3, <2>4, EndTypes DEF TypeOK
<1>3. ASSUME NEW r \in Request, Find(r)
      PROVE  TypeOK'
  BY <1>3, BoundsAssumption DEF Find, Begin, LoadContent, TypeOK
<1>4. ASSUME NEW r \in Request, Refresh(r)
      PROVE  TypeOK'
  <2>1. \A reachable, copied \in BOOLEAN :
          Upgraded(seen[r], Template(basis[r], reachable), copied) \in Content
    BY <1>4, UpgradedType, TemplateType DEF TypeOK, Refresh, Refreshing
  <2>2. package' \in Content \cup {NoPackage} /\ outdated' \in BOOLEAN /\ relabelled' \in BOOLEAN
    BY <1>4, <2>1 DEF Refresh, Write, Relabel, TypeOK
  <2>3. End(r) /\ UNCHANGED <<evidence, rows, form, requests, raced>>
    BY <1>4 DEF Refresh
  <2> QED BY <2>2, <2>3, EndTypes DEF TypeOK
<1>5. ASSUME Open
      PROVE  TypeOK'
  BY <1>5 DEF Open, TypeOK
<1>6. ASSUME Save
      PROVE  TypeOK'
  <2>1. PICK c \in Channel :
          /\ form # NoPackage /\ form.drafts[c] # NoText
          /\ Write([form EXCEPT !.drafts[c].edited = TRUE], form)
          /\ form' = [form EXCEPT !.drafts[c].edited = TRUE]
          /\ UNCHANGED <<evidence, rows, procs, requests, relabelled, raced>>
    BY <1>6 DEF Save
  <2>2. form' \in Content
    BY <2>1, EditedType DEF TypeOK
  <2>3. package' = form' /\ outdated' \in BOOLEAN
    BY <2>1 DEF Write, TypeOK
  <2> QED BY <2>1, <2>2, <2>3 DEF TypeOK
<1>7. ASSUME NEW r \in Request, Mark(r)
      PROVE  TypeOK'
  <2>1. [lead |-> lead, contacted |-> contacted] \in [lead : 0..campaigns, contacted : BOOLEAN]
    BY DEF TypeOK
  <2>2. PICK c \in Channel :
          /\ Begin(r) /\ LoadLead(r)
          /\ pc' = [pc EXCEPT ![r] = "promote"]
          /\ aim' = [aim EXCEPT ![r] = {c}]
          /\ raced' \in BOOLEAN
          /\ UNCHANGED <<evidence, rows, package, form, outdated, relabelled>>
    BY <1>7 DEF Mark, TypeOK
  <2> QED BY <2>1, <2>2, BoundsAssumption DEF Begin, LoadLead, TypeOK
<1>8. ASSUME NEW r \in Request, Prepare(r)
      PROVE  TypeOK'
  <2>1. [lead |-> lead, contacted |-> contacted] \in [lead : 0..campaigns, contacted : BOOLEAN]
    BY DEF TypeOK
  <2> QED BY <2>1, <1>8, BoundsAssumption DEF Prepare, Begin, LoadLead, TypeOK
<1>9. ASSUME NEW found \in 0..1, found = 0 \/ found = lead, Promoted(found)
      PROVE  /\ campaigns' \in 0..1 /\ campaigns' >= campaigns
             /\ lead' \in 0..campaigns' /\ campaign' \in 0..campaigns'
  BY <1>9 DEF Promoted, CampaignOf, OneCampaign, TypeOK
<1>10. ASSUME NEW r \in Request, Promote(r)
       PROVE  TypeOK'
  <2>1. known[r].lead \in 0..1 /\ (known[r].lead = 0 \/ known[r].lead = lead)
    BY DEF TypeOK, KnownHolds
  <2>2. /\ campaigns' \in 0..1 /\ campaigns' >= campaigns
        /\ lead' \in 0..campaigns' /\ campaign' \in 0..campaigns'
    BY <1>10, <2>1, <1>9 DEF Promote
  <2>3. \A n \in 0..campaigns : n \in 0..campaigns'
    BY <2>2 DEF TypeOK
  <2>4. known' \in [Request -> [lead : 0..campaigns', contacted : BOOLEAN]]
    <3>1. known \in [Request -> [lead : 0..campaigns', contacted : BOOLEAN]]
      BY <2>3 DEF TypeOK
    <3>2. Nothing \in [lead : 0..campaigns', contacted : BOOLEAN]
      BY <2>2 DEF Nothing, TypeOK
    <3> QED BY <1>10, <3>1, <3>2 DEF Promote, End
  <2>5. /\ pc' \in [Request -> {"idle", "generate", "refresh", "promote", "contact", "note"}]
        /\ aim' \in [Request -> SUBSET Channel]
        /\ seen' \in [Request -> Content \cup {NoPackage}]
        /\ basis' \in [Request -> Evidence]
    <3>1. CASE aim[r] = {}
      <4>1. /\ pc' = [pc EXCEPT ![r] = "idle"] /\ aim' = [aim EXCEPT ![r] = {}]
            /\ seen' = [seen EXCEPT ![r] = NoPackage] /\ basis' = [basis EXCEPT ![r] = 1]
        BY <1>10, <3>1 DEF Promote, End
      <4>2. /\ pc' \in [Request -> {"idle", "generate", "refresh", "promote", "contact", "note"}]
            /\ aim' \in [Request -> SUBSET Channel]
        BY <4>1 DEF TypeOK
      <4>3. /\ seen' \in [Request -> Content \cup {NoPackage}]
            /\ basis' \in [Request -> Evidence]
        BY <4>1, FirstEvidence DEF TypeOK
      <4> QED BY <4>2, <4>3
    <3>2. CASE aim[r] # {}
      <4>1. PICK n \in {"note", "contact"} : pc' = [pc EXCEPT ![r] = n]
        BY <1>10, <3>2 DEF Promote
      <4> QED BY <1>10, <3>2, <4>1 DEF Promote, TypeOK
    <3> QED BY <3>1, <3>2
  <2>6. UNCHANGED <<evidence, contacted, other, outcomes, events, package, form, requests, history>>
    BY <1>10 DEF Promote
  <2> QED BY <2>2, <2>4, <2>5, <2>6 DEF TypeOK
<1>11. ASSUME PromoteResult
       PROVE  TypeOK'
  <2>1. /\ campaigns' \in 0..1 /\ campaigns' >= campaigns
        /\ lead' \in 0..campaigns' /\ campaign' \in 0..campaigns'
    BY <1>11, <1>9 DEF PromoteResult, TypeOK
  <2>2. known \in [Request -> [lead : 0..campaigns', contacted : BOOLEAN]]
    BY <2>1 DEF TypeOK
  <2>3. UNCHANGED <<evidence, contacted, other, outcomes, events, package, form, procs, requests, history>>
    BY <1>11 DEF PromoteResult
  <2> QED BY <2>1, <2>2, <2>3 DEF TypeOK
<1>12. ASSUME PromoteOther
       PROVE  TypeOK'
  <2>1. /\ campaigns' \in 0..1 /\ campaigns' >= campaigns
        /\ campaign' \in 0..campaigns' /\ lead \in 0..campaigns'
        /\ other' \in {"none", "stranger", "namesake"}
    BY <1>12 DEF PromoteOther, OneCampaign, TypeOK
  <2>2. known \in [Request -> [lead : 0..campaigns', contacted : BOOLEAN]]
    BY <2>1 DEF TypeOK
  <2>3. UNCHANGED <<evidence, lead, contacted, outcomes, events, package, form, procs, requests, history>>
    BY <1>12 DEF PromoteOther
  <2> QED BY <2>1, <2>2, <2>3 DEF TypeOK
<1>13. ASSUME NEW r \in Request, Contact(r)
       PROVE  TypeOK'
  <2>1. contacted' \in BOOLEAN
    BY <1>13 DEF Contact, TypeOK
  <2>2. /\ outcomes' = outcomes + 1 /\ pc' = [pc EXCEPT ![r] = "note"]
        /\ UNCHANGED <<evidence, lead, campaign, campaigns, other, events, package, form, aim, seen,
                       basis, known, requests, history>>
    BY <1>13 DEF Contact
  <2> QED BY <2>1, <2>2 DEF TypeOK
<1>14. ASSUME NEW r \in Request, Note(r)
       PROVE  TypeOK'
  <2>1. /\ events' \in [Channel -> Nat] /\ End(r)
        /\ UNCHANGED <<evidence, lead, contacted, campaign, campaigns, other, outcomes, package, form,
                       requests, history>>
    BY <1>14 DEF Note, TypeOK
  <2> QED BY <2>1, EndTypes DEF TypeOK
<1>15. ASSUME NEW r \in Request, Die(r)
       PROVE  TypeOK'
  <2>1. End(r) /\ UNCHANGED <<evidence, rows, package, form, requests, history>>
    BY <1>15 DEF Die
  <2> QED BY <2>1, EndTypes DEF TypeOK
<1>16. ASSUME Rematch
       PROVE  TypeOK'
  <2>1. evidence' \in Evidence
    BY <1>16, BoundsAssumption DEF Rematch, TypeOK, Evidence
  <2> QED BY <1>16, <2>1 DEF Rematch, TypeOK
<1>17. CASE UNCHANGED vars
  BY <1>17 DEF vars, TypeOK
<1>18. CASE ContactElsewhere
  BY <1>18 DEF ContactElsewhere, TypeOK
<1> QED
  BY <1>1, <1>2, <1>3, <1>4, <1>5, <1>6, <1>7, <1>8, <1>10, <1>11, <1>12, <1>13, <1>14, <1>15,
     <1>16, <1>17, <1>18 DEF Next

(***************************************************************************)
(* The campaign and the lead.                                              *)
(***************************************************************************)

\* What has happened stays so.
LEMMA Monotone ==
    ASSUME TypeOK, [Next]_vars
    PROVE  /\ contacted => contacted'
           /\ other = "namesake" => other' = "namesake"
           /\ raced => raced'
           /\ relabelled => relabelled'
<1> USE DEF rows, procs, history
<1>1. ASSUME NEW r \in Request, Answered(r)
      PROVE  UNCHANGED <<contacted, other, raced>> /\ (relabelled => relabelled')
  <2>1. UNCHANGED <<contacted, other, raced>>
    BY <1>1 DEF Answered
  <2>2. relabelled => relabelled'
    BY <1>1, Zenon DEF Answered, Relabel
  <2> QED BY <2>1, <2>2
<1>2. ASSUME NEW r \in Request, Refresh(r)
      PROVE  UNCHANGED <<contacted, other, raced>> /\ (relabelled => relabelled')
  BY <1>2 DEF Refresh, Relabel
<1>3. ASSUME NEW r \in Request, Mark(r)
      PROVE  UNCHANGED <<contacted, other, relabelled>> /\ (raced => raced')
  BY <1>3, Zenon DEF Mark
<1>4. ASSUME NEW r \in Request, Contact(r)
      PROVE  UNCHANGED <<other, raced, relabelled>> /\ (contacted => contacted')
  <2>1. UNCHANGED <<other, raced, relabelled>>
    BY <1>4 DEF Contact
  <2>2. contacted => contacted'
    BY <1>4 DEF Contact
  <2> QED BY <2>1, <2>2
<1>5. ASSUME NEW r \in Request,
             Generate(r) \/ Find(r) \/ Prepare(r) \/ Promote(r) \/ Note(r) \/ Die(r)
      PROVE  UNCHANGED <<contacted, other, raced, relabelled>>
  BY <1>5 DEF Generate, Find, Prepare, Promote, Note, Die
<1>6. ASSUME Open \/ PromoteResult \/ Rematch \/ UNCHANGED vars
      PROVE  UNCHANGED <<contacted, other, raced, relabelled>>
  BY <1>6 DEF Open, PromoteResult, Rematch, vars
<1>7. ASSUME Save
      PROVE  UNCHANGED <<contacted, other, raced, relabelled>>
  <2>1. UNCHANGED <<rows, relabelled, raced>>
    BY <1>7, Zenon DEF Save
  <2> QED BY <2>1
<1>8. CASE PromoteOther \/ ContactElsewhere
  BY <1>8 DEF PromoteOther, ContactElsewhere
<1> QED BY <1>1, <1>2, <1>3, <1>4, <1>5, <1>6, <1>7, <1>8 DEF Next

\* A request knows what it knew, nothing, or what is so.
LEMMA KnownStep ==
    ASSUME TypeOK, [Next]_vars, NEW q \in Request
    PROVE  known'[q] \in {known[q], Nothing, [lead |-> lead, contacted |-> contacted]}
<1> USE DEF rows, procs, history
<1>1. ASSUME NEW r \in Request, Generate(r) \/ Find(r) \/ Contact(r)
      PROVE  UNCHANGED known
  BY <1>1 DEF Generate, Find, Contact, LoadContent
<1>2. ASSUME NEW r \in Request, End(r)
      PROVE  known'[q] \in {known[q], Nothing}
  BY <1>2 DEF End, TypeOK
<1>3. ASSUME NEW r \in Request, Answered(r) \/ Refresh(r) \/ Note(r) \/ Die(r)
      PROVE  End(r)
  BY <1>3 DEF Answered, Refresh, Note, Die
<1>4. ASSUME NEW r \in Request, Promote(r)
      PROVE  End(r) \/ UNCHANGED known
  BY <1>4 DEF Promote
<1>5. ASSUME NEW r \in Request, Mark(r) \/ Prepare(r)
      PROVE  known'[q] \in {known[q], [lead |-> lead, contacted |-> contacted]}
  <2>1. LoadLead(r)
    BY <1>5 DEF Mark, Prepare
  <2> QED BY <2>1 DEF LoadLead, TypeOK
<1>6. CASE Open \/ Save \/ PromoteResult \/ PromoteOther \/ ContactElsewhere \/ Rematch \/ UNCHANGED vars
  BY <1>6 DEF Open, Save, PromoteResult, PromoteOther, ContactElsewhere, Rematch, vars
<1> QED BY <1>1, <1>2, <1>3, <1>4, <1>5, <1>6 DEF Next

\* A promotion by a request that knows of the lead or of none leaves one campaign.
LEMMA PromotedOnce ==
    ASSUME TypeOK, OneCampaign, NEW found \in 0..1, found = 0 \/ found = lead, Promoted(found)
    PROVE  /\ OneCampaign'
           /\ lead # 0 => lead' = lead
           /\ campaign # 0 => campaign' = campaign
BY DEF Promoted, CampaignOf, OneCampaign, TypeOK

\* The lead and the campaign are found once and for all.
LEMMA CampaignStep ==
    ASSUME TypeOK, OneCampaign, KnownHolds, [Next]_vars
    PROVE  /\ OneCampaign'
           /\ lead # 0 => lead' = lead
           /\ campaign # 0 => campaign' = campaign
<1> USE DEF rows, procs, history
<1>1. ASSUME NEW r \in Request,
             \/ Generate(r) \/ Answered(r) \/ Find(r) \/ Refresh(r)
             \/ Mark(r) \/ Prepare(r) \/ Contact(r) \/ Note(r) \/ Die(r)
      PROVE  UNCHANGED <<lead, campaign, campaigns>>
  BY <1>1 DEF Generate, Answered, Find, Refresh, Mark, Prepare, Contact, Note, Die
<1>2. CASE Open \/ Save \/ ContactElsewhere \/ Rematch \/ UNCHANGED vars
  BY <1>2 DEF Open, Save, ContactElsewhere, Rematch, vars, OneCampaign
<1>3. ASSUME NEW r \in Request, Promote(r)
      PROVE  known[r].lead \in 0..1 /\ (known[r].lead = 0 \/ known[r].lead = lead) /\ Promoted(known[r].lead)
  BY <1>3 DEF Promote, TypeOK, KnownHolds
<1>4. CASE PromoteResult
  <2>1. lead \in 0..1 /\ Promoted(lead)
    BY <1>4 DEF PromoteResult, TypeOK
  <2> QED BY <2>1, PromotedOnce
<1>5. CASE PromoteOther
  BY <1>5 DEF PromoteOther, OneCampaign, TypeOK
<1>6. CASE \E r \in Request : Promote(r)
  BY <1>3, <1>6, PromotedOnce
<1>7. CASE UNCHANGED <<lead, campaign, campaigns>>
  BY <1>7 DEF OneCampaign
<1> QED BY <1>1, <1>2, <1>4, <1>5, <1>6, <1>7 DEF Next

\* What is known of the lead stays true.
LEMMA KnownHoldsStep ==
    ASSUME TypeOK, OneCampaign, KnownHolds, [Next]_vars
    PROVE  KnownHolds'
<1> SUFFICES ASSUME NEW q \in Request
             PROVE  /\ known'[q].lead = 0 \/ known'[q].lead = lead'
                    /\ known'[q].contacted => contacted'
  BY DEF KnownHolds
<1>1. known'[q] \in {known[q], Nothing, [lead |-> lead, contacted |-> contacted]}
  BY KnownStep
<1>2. (lead # 0 => lead' = lead) /\ (contacted => contacted')
  BY CampaignStep, Monotone
<1>3. CASE known'[q] = known[q]
  BY <1>2, <1>3 DEF KnownHolds
<1>4. CASE known'[q] = Nothing
  BY <1>4 DEF Nothing
<1>5. CASE known'[q] = [lead |-> lead, contacted |-> contacted]
  BY <1>2, <1>5
<1> QED BY <1>1, <1>3, <1>4, <1>5

(***************************************************************************)
(* Contacts and events.                                                    *)
(***************************************************************************)

\* A request that ends is idle, and wants nothing.
LEMMA EndShape ==
    ASSUME TypeOK, NEW r \in Request, End(r), NEW q \in Request
    PROVE  /\ q = r => pc'[q] = "idle" /\ aim'[q] = {} /\ seen'[q] = NoPackage
           /\ q # r => /\ pc'[q] = pc[q] /\ aim'[q] = aim[q] /\ seen'[q] = seen[q]
                       /\ basis'[q] = basis[q] /\ known'[q] = known[q]
BY DEF End, TypeOK

\* Who has an event to record goes on to have a channel and a contact.
LEMMA NotingStep ==
    ASSUME TypeOK, KnownHolds, Noting, [Next]_vars
    PROVE  Noting'
<1> USE DEF rows, procs, history
<1> SUFFICES ASSUME NEW q \in Request
             PROVE  /\ pc'[q] = "idle" => aim'[q] = {}
                    /\ pc'[q] \in {"contact", "note"} => aim'[q] # {}
                    /\ pc'[q] = "note" => contacted' \/ other' = "namesake"
  BY DEF Noting
<1>1. /\ pc[q] = "idle" => aim[q] = {}
      /\ pc[q] \in {"contact", "note"} => aim[q] # {}
      /\ pc[q] = "note" => contacted' \/ other' = "namesake"
  BY Monotone DEF Noting
<1>2. ASSUME NEW r \in Request, Generate(r) \/ Find(r) \/ Mark(r) \/ Prepare(r)
      PROVE  /\ q # r => pc'[q] = pc[q] /\ aim'[q] = aim[q]
             /\ q = r => pc'[q] \in {"generate", "refresh", "promote"}
  BY <1>2 DEF Generate, Find, Mark, Prepare, TypeOK
<1>3. ASSUME NEW r \in Request, Answered(r) \/ Refresh(r) \/ Note(r) \/ Die(r)
      PROVE  End(r)
  BY <1>3 DEF Answered, Refresh, Note, Die
<1>4. ASSUME NEW r \in Request, End(r)
      PROVE  /\ q = r => pc'[q] = "idle" /\ aim'[q] = {}
             /\ q # r => pc'[q] = pc[q] /\ aim'[q] = aim[q]
  BY <1>4, EndShape
<1>5. ASSUME NEW r \in Request, Promote(r), aim[r] # {}
      PROVE  /\ aim'[q] = aim[q]
             /\ q # r => pc'[q] = pc[q]
             /\ q = r => /\ pc'[q] \in {"contact", "note"}
                         /\ pc'[q] = "note" => known[r].contacted
  BY <1>5 DEF Promote, TypeOK
<1>6. ASSUME NEW r \in Request, Promote(r), aim[r] # {}
      PROVE  pc'[q] = "note" /\ q = r => contacted'
  BY <1>5, <1>6, Monotone DEF KnownHolds
<1>7. ASSUME NEW r \in Request, Promote(r), aim[r] = {}
      PROVE  End(r)
  BY <1>7 DEF Promote
<1>8. ASSUME NEW r \in Request, Contact(r)
      PROVE  /\ aim'[q] = aim[q] /\ pc[r] = "contact"
             /\ q # r => pc'[q] = pc[q]
             /\ q = r => pc'[q] = "note"
             /\ contacted' \/ other' = "namesake"
  BY <1>8 DEF Contact, TypeOK
<1>9. ASSUME Open \/ PromoteResult \/ PromoteOther \/ ContactElsewhere \/ Rematch \/ UNCHANGED vars
      PROVE  pc'[q] = pc[q] /\ aim'[q] = aim[q]
  BY <1>9 DEF Open, PromoteResult, PromoteOther, ContactElsewhere, Rematch, vars
<1>10. ASSUME Save
       PROVE  pc'[q] = pc[q] /\ aim'[q] = aim[q]
  <2>1. UNCHANGED procs
    BY <1>10, Zenon DEF Save
  <2> QED BY <2>1
<1>11. ASSUME NEW r \in Request, Promote(r) \/ Contact(r)
       PROVE  /\ pc'[q] = "idle" => aim'[q] = {}
              /\ pc'[q] \in {"contact", "note"} => aim'[q] # {}
              /\ pc'[q] = "note" => contacted' \/ other' = "namesake"
  BY <1>1, <1>4, <1>5, <1>6, <1>7, <1>8, <1>11
<1>12. ASSUME NEW r \in Request,
              \/ Generate(r) \/ Answered(r) \/ Find(r) \/ Refresh(r)
              \/ Mark(r) \/ Prepare(r) \/ Note(r) \/ Die(r)
       PROVE  /\ pc'[q] = "idle" => aim'[q] = {}
              /\ pc'[q] \in {"contact", "note"} => aim'[q] # {}
              /\ pc'[q] = "note" => contacted' \/ other' = "namesake"
  BY <1>1, <1>2, <1>3, <1>4, <1>12
<1> QED BY <1>1, <1>9, <1>10, <1>11, <1>12 DEF Next

\* Events are recorded by a request that notes.
LEMMA EventsStep ==
    ASSUME TypeOK, [Next]_vars
    PROVE  \/ UNCHANGED events
           \/ \E r \in Request :
                 /\ Note(r)
                 /\ \A c \in Channel : events'[c] = IF c \in aim[r] THEN events[c] + 1 ELSE events[c]
<1> USE DEF rows, procs, history
<1>1. ASSUME NEW r \in Request,
             \/ Generate(r) \/ Answered(r) \/ Find(r) \/ Refresh(r)
             \/ Mark(r) \/ Prepare(r) \/ Promote(r) \/ Contact(r) \/ Die(r)
      PROVE  UNCHANGED events
  BY <1>1 DEF Generate, Answered, Find, Refresh, Mark, Prepare, Promote, Contact, Die
<1>2. ASSUME NEW r \in Request, Note(r)
      PROVE  \A c \in Channel : events'[c] = IF c \in aim[r] THEN events[c] + 1 ELSE events[c]
  BY <1>2 DEF Note
<1>3. CASE Open \/ PromoteResult \/ PromoteOther \/ ContactElsewhere \/ Rematch \/ UNCHANGED vars
  BY <1>3 DEF Open, PromoteResult, PromoteOther, ContactElsewhere, Rematch, vars
<1>4. CASE Save
  <2>1. UNCHANGED rows
    BY <1>4, Zenon DEF Save
  <2> QED BY <2>1
<1> QED BY <1>1, <1>2, <1>3, <1>4 DEF Next

\* Whatever request dies, a channel that is marked has its result contacted.
LEMMA SentStep ==
    ASSUME TypeOK, Noting, SentIsContacted, [Next]_vars
    PROVE  SentIsContacted'
<1>1. CASE UNCHANGED events
  BY <1>1, Monotone DEF SentIsContacted
<1>2. CASE \E r \in Request : Note(r)
  <2>1. PICK r \in Request : pc[r] = "note"
    BY <1>2 DEF Note
  <2> QED BY <2>1, Monotone DEF Noting, SentIsContacted
<1> QED BY <1>1, <1>2, EventsStep

\* Without overlaps and namesakes a request that marks a channel goes on to be the only one.
LEMMA AloneStep ==
    ASSUME TypeOK, Noting, Alone, ~raced', other' # "namesake", [Next]_vars
    PROVE  Alone'
<1> USE DEF rows, procs, history
<1>1. ASSUME UNCHANGED <<contacted, outcomes, events>>,
             \A q \in Request : Marking(q)' =>
                /\ Marking(q)
                /\ aim'[q] = aim[q] /\ pc'[q] = pc[q] /\ known'[q] = known[q]
      PROVE  Alone'
  BY <1>1 DEF Alone
<1>2. ASSUME NEW r \in Request, End(r)
      PROVE  \A q \in Request : Marking(q)' =>
                /\ q # r /\ Marking(q)
                /\ aim'[q] = aim[q] /\ pc'[q] = pc[q] /\ known'[q] = known[q]
  BY <1>2, EndShape DEF Marking
<1>3. ASSUME NEW r \in Request, Answered(r) \/ Refresh(r) \/ Die(r)
      PROVE  Alone'
  <2>1. End(r) /\ UNCHANGED <<contacted, outcomes, events>>
    BY <1>3 DEF Answered, Refresh, Die
  <2> QED BY <1>1, <1>2, <2>1
<1>4. ASSUME NEW r \in Request, Generate(r) \/ Find(r)
      PROVE  Alone'
  <2>1. UNCHANGED <<contacted, outcomes, events, known>>
    BY <1>4 DEF Generate, Find, LoadContent
  <2>2. \A q \in Request :
           /\ q # r => pc'[q] = pc[q] /\ aim'[q] = aim[q]
           /\ q = r => pc'[q] \in {"generate", "refresh"}
    BY <1>4 DEF Generate, Find, TypeOK
  <2> QED BY <1>1, <2>1, <2>2 DEF Marking
<1>5. ASSUME NEW r \in Request, Prepare(r)
      PROVE  Alone'
  <2>1. UNCHANGED <<contacted, outcomes, events, aim>>
    BY <1>5 DEF Prepare
  <2>2. aim[r] = {}
    BY <1>5 DEF Prepare, Begin, Noting
  <2>3. \A q \in Request : q # r => pc'[q] = pc[q] /\ known'[q] = known[q]
    BY <1>5 DEF Prepare, LoadLead, TypeOK
  <2> QED BY <1>1, <2>1, <2>2, <2>3 DEF Marking
<1>6. ASSUME NEW r \in Request, Mark(r)
      PROVE  Alone'
  <2>1. PICK c \in Channel :
          /\ events[c] = 0
          /\ LoadLead(r)
          /\ pc' = [pc EXCEPT ![r] = "promote"]
          /\ aim' = [aim EXCEPT ![r] = {c}]
          /\ raced' = (raced \/ \E q \in Request : pc[q] \in {"promote", "contact", "note"} /\ aim[q] # {})
          /\ UNCHANGED <<contacted, outcomes, events>>
    BY <1>6 DEF Mark
  <2>2. \A q \in Request : ~Marking(q)
    BY <2>1 DEF Marking
  <2>3. /\ pc'[r] = "promote" /\ aim'[r] = {c} /\ known'[r].contacted = contacted
        /\ \A q \in Request : q # r => pc'[q] = pc[q] /\ aim'[q] = aim[q]
    BY <2>1 DEF LoadLead, TypeOK
  <2>4. \A q \in Request : Marking(q)' => q = r
    BY <2>2, <2>3 DEF Marking
  <2>5. known'[r].contacted \/ outcomes' = 0
    BY <2>1, <2>3 DEF Alone, TypeOK
  <2> QED BY <2>1, <2>3, <2>4, <2>5 DEF Alone
<1>7. ASSUME NEW r \in Request, Promote(r)
      PROVE  Alone'
  <2>1. UNCHANGED <<contacted, outcomes, events>> /\ pc[r] = "promote"
    BY <1>7 DEF Promote
  <2>2. CASE aim[r] = {}
    BY <1>1, <1>2, <1>7, <2>1, <2>2 DEF Promote
  <2>3. CASE aim[r] # {}
    <3>1. Marking(r)
      BY <2>1, <2>3 DEF Marking
    <3>2. known[r].contacted \/ outcomes = 0
      BY <2>1, <3>1 DEF Alone
    <3>3. /\ UNCHANGED <<aim, known>>
          /\ \A q \in Request : q # r => pc'[q] = pc[q]
          /\ pc'[r] \in {"contact", "note"}
          /\ pc'[r] = "contact" => outcomes = 0
      BY <1>7, <2>3, <3>2 DEF Promote, TypeOK
    <3>4. \A q \in Request : Marking(q)' => Marking(q)
      BY <3>1, <3>3 DEF Marking
    <3>5. \A q \in Request : Marking(q)' => q = r
      BY <3>1, <3>4 DEF Alone
    <3> QED BY <2>1, <3>1, <3>3, <3>4, <3>5 DEF Alone
  <2> QED BY <2>2, <2>3
<1>8. ASSUME NEW r \in Request, Contact(r)
      PROVE  Alone'
  <2>1. Marking(r) /\ pc[r] = "contact"
    BY <1>8 DEF Contact, Noting, Marking
  <2>2. outcomes = 0
    BY <2>1 DEF Alone, TypeOK
  <2>3. /\ outcomes' = outcomes + 1 /\ contacted' = TRUE
        /\ UNCHANGED <<events, aim, known>>
        /\ pc'[r] = "note"
        /\ \A q \in Request : q # r => pc'[q] = pc[q]
    BY <1>8 DEF Contact, TypeOK
  <2>4. \A q \in Request : Marking(q)' => q = r
    BY <2>1, <2>3 DEF Marking, Alone
  <2>5. outcomes' <= 1 /\ contacted'
    BY <2>2, <2>3
  <2>6. \A q1, q2 \in Request : Marking(q1)' /\ Marking(q2)' => q1 = q2
    BY <2>4
  <2>7. \A q \in Request : Marking(q)' => pc'[q] = "note" /\ \A c \in aim'[q] : events'[c] = 0
    BY <2>1, <2>3, <2>4 DEF Alone
  <2>8. \A c \in Channel : events'[c] <= 1
    BY <2>3 DEF Alone
  <2> QED BY <2>5, <2>6, <2>7, <2>8 DEF Alone
<1>9. ASSUME NEW r \in Request, Note(r)
      PROVE  Alone'
  <2>1. Marking(r) /\ UNCHANGED <<contacted, outcomes>> /\ End(r)
    BY <1>9 DEF Note, Noting, Marking
  <2>2. \A c \in Channel : events'[c] = IF c \in aim[r] THEN events[c] + 1 ELSE events[c]
    BY <1>9 DEF Note
  <2>3. \A c \in Channel : events'[c] <= 1
    BY <2>1, <2>2 DEF Alone
  <2>4. \A q \in Request : ~Marking(q)'
    BY <1>2, <2>1 DEF Alone
  <2> QED BY <2>1, <2>3, <2>4 DEF Alone
<1>10. ASSUME Open \/ PromoteResult \/ PromoteOther \/ ContactElsewhere \/ Rematch \/ UNCHANGED vars
       PROVE  UNCHANGED <<outcomes, events, procs>> /\ (contacted => contacted')
  BY <1>10 DEF Open, PromoteResult, PromoteOther, ContactElsewhere, Rematch, vars
<1>11. ASSUME Save
       PROVE  UNCHANGED <<contacted, outcomes, events, procs>>
  <2>1. UNCHANGED <<rows, procs>>
    BY <1>11, Zenon DEF Save
  <2> QED BY <2>1
<1>12. CASE UNCHANGED <<outcomes, events, procs>> /\ (contacted => contacted')
  BY <1>12 DEF Marking, Alone
<1> QED
  BY <1>3, <1>4, <1>5, <1>6, <1>7, <1>8, <1>9, <1>10, <1>11, <1>12 DEF Next

(***************************************************************************)
(* Texts.                                                                  *)
(***************************************************************************)

\* Who refreshes goes on to have loaded a package of other evidence.
LEMMA RefreshingStep ==
    ASSUME TypeOK, Refreshing, [Next]_vars
    PROVE  Refreshing'
<1> USE DEF rows, procs, history
<1> SUFFICES ASSUME NEW q \in Request, pc'[q] = "refresh"
             PROVE  seen'[q] # NoPackage /\ seen'[q].evidence # basis'[q]
  BY DEF Refreshing
<1>1. ASSUME pc[q] = "refresh", seen'[q] = seen[q], basis'[q] = basis[q]
      PROVE  seen'[q] # NoPackage /\ seen'[q].evidence # basis'[q]
  BY <1>1 DEF Refreshing
<1>2. ASSUME NEW r \in Request, Find(r)
      PROVE  /\ q = r => seen'[q] # NoPackage /\ seen'[q].evidence # basis'[q]
             /\ q # r => pc'[q] = pc[q] /\ seen'[q] = seen[q] /\ basis'[q] = basis[q]
  BY <1>2 DEF Find, LoadContent, TypeOK
<1>3. ASSUME NEW r \in Request, End(r)
      PROVE  pc[q] = "refresh" /\ seen'[q] = seen[q] /\ basis'[q] = basis[q]
  BY <1>3, EndShape
<1>4. ASSUME NEW r \in Request, Answered(r) \/ Refresh(r) \/ Note(r) \/ Die(r)
      PROVE  End(r)
  BY <1>4 DEF Answered, Refresh, Note, Die
<1>5. ASSUME NEW r \in Request, Generate(r)
      PROVE  pc[q] = "refresh" /\ seen'[q] = seen[q] /\ basis'[q] = basis[q]
  BY <1>5 DEF Generate, LoadContent, TypeOK
<1>6. ASSUME NEW r \in Request, Mark(r) \/ Prepare(r)
      PROVE  pc[q] = "refresh" /\ seen'[q] = seen[q] /\ basis'[q] = basis[q]
  BY <1>6 DEF Mark, Prepare, LoadLead, TypeOK
<1>7. ASSUME NEW r \in Request, Promote(r)
      PROVE  \/ End(r)
             \/ pc[q] = "refresh" /\ seen'[q] = seen[q] /\ basis'[q] = basis[q]
  BY <1>7 DEF Promote, TypeOK
<1>8. ASSUME NEW r \in Request, Contact(r)
      PROVE  pc[q] = "refresh" /\ seen'[q] = seen[q] /\ basis'[q] = basis[q]
  BY <1>8 DEF Contact, TypeOK
<1>9. ASSUME Open \/ PromoteResult \/ PromoteOther \/ ContactElsewhere \/ Rematch \/ UNCHANGED vars
      PROVE  UNCHANGED procs
  BY <1>9 DEF Open, PromoteResult, PromoteOther, ContactElsewhere, Rematch, vars
<1>10. ASSUME Save
       PROVE  UNCHANGED procs
  BY <1>10, Zenon DEF Save
<1>11. CASE UNCHANGED procs
  BY <1>1, <1>11
<1> QED
  BY <1>1, <1>2, <1>3, <1>4, <1>5, <1>6, <1>7, <1>8, <1>9, <1>10, <1>11 DEF Next

\* The texts of a content that is written anew speak of its evidence.
LEMMA RenderedFits ==
    ASSUME NEW e \in Evidence, NEW wanted \in SUBSET Channel, NEW reachable \in BOOLEAN
    PROVE  Fits(Rendered(e, wanted, reachable)) /\ Fits(Template(e, reachable))
BY DEF Fits, Rendered, Template, Texts

\* So do those of a content that has kept none of other evidence.
LEMMA MergedFits ==
    ASSUME NEW p \in Content, NEW e \in Evidence, NEW n \in Content, Fits(p), Fits(n),
           n.evidence = e, p # NoPackage,
           p.evidence = e \/ Texts(Merged(p, n)) \ Texts(n) = {}
    PROVE  Fits(Merged(p, n))
<1> DEFINE m == Merged(p, n)
<1>1. Fits(n) /\ n \in Content /\ n.evidence = e
  OBVIOUS
<1>2. m.evidence = e
  BY <1>1 DEF Merged, Content
<1>3. Texts(n) \in SUBSET Text
  BY <1>1 DEF Texts, Content
<1>4. \A t \in Texts(n) : t.about = e
  <2>1. n # NoPackage
    BY AbsenceAssumption
  <2> QED BY <1>1, <2>1 DEF Fits
<1>5. CASE Texts(m) \ Texts(n) = {}
  BY <1>2, <1>4, <1>5 DEF Fits
<1>6. CASE p.evidence = e
  <2>1. \A t \in Texts(p) : t.about = e
    BY <1>6 DEF Fits
  <2>2. Texts(m) \in SUBSET (Texts(p) \cup Texts(n))
    BY <1>1 DEF Texts, Merged, Either, Content
  <2> QED BY <1>2, <1>4, <2>1, <2>2 DEF Fits
<1> QED BY <1>5, <1>6

\* And those of one that is refreshed, if no e-mail was kept.
LEMMA UpgradedFits ==
    ASSUME NEW p \in Content, NEW fresh \in Content, NEW copied \in BOOLEAN, Fits(fresh),
           Texts(Upgraded(p, fresh, copied)) \ Texts(fresh) = {}
    PROVE  Fits(Upgraded(p, fresh, copied))
<1>1. fresh # NoPackage
  BY AbsenceAssumption
<1>2. Upgraded(p, fresh, copied).evidence = fresh.evidence
  BY UpgradedType
<1> QED BY <1>1, <1>2 DEF Fits

\* Editing changes nothing in it.
LEMMA EditedFits ==
    ASSUME NEW p \in Content, NEW c \in Channel, p.drafts[c] # NoText, p # NoPackage, Fits(p)
    PROVE  Fits([p EXCEPT !.drafts[c].edited = TRUE])
<1> DEFINE m == [p EXCEPT !.drafts[c].edited = TRUE]
<1>1. p.drafts[c] \in Text /\ p.drafts[c] \in Texts(p)
  BY DEF Content, Texts
<1>2. m.evidence = p.evidence /\ m.email = p.email /\ m.drafts[c].about = p.drafts[c].about
  BY <1>1 DEF Content, Text
<1>3. \A d \in Channel : d # c => m.drafts[d] = p.drafts[d]
  BY DEF Content
<1>4. \A t \in Texts(m) : t = m.drafts[c] \/ t \in Texts(p)
  BY <1>2, <1>3 DEF Texts
<1> QED BY <1>1, <1>2, <1>4 DEF Fits

\* What a request goes on to have loaded is what it had, nothing, or the package.
LEMMA SeenStep ==
    ASSUME TypeOK, [Next]_vars, NEW q \in Request
    PROVE  seen'[q] \in {seen[q], NoPackage, package}
<1> USE DEF rows, procs, history
<1>1. ASSUME NEW r \in Request, Generate(r) \/ Find(r)
      PROVE  seen'[q] \in {seen[q], package}
  <2>1. LoadContent(r)
    BY <1>1 DEF Generate, Find
  <2> QED BY <2>1 DEF LoadContent, TypeOK
<1>2. ASSUME NEW r \in Request, End(r)
      PROVE  seen'[q] \in {seen[q], NoPackage}
  BY <1>2, EndShape
<1>3. ASSUME NEW r \in Request, Answered(r) \/ Refresh(r) \/ Note(r) \/ Die(r)
      PROVE  End(r)
  BY <1>3 DEF Answered, Refresh, Note, Die
<1>4. ASSUME NEW r \in Request, Promote(r)
      PROVE  End(r) \/ UNCHANGED seen
  BY <1>4 DEF Promote
<1>5. ASSUME NEW r \in Request, Mark(r) \/ Prepare(r) \/ Contact(r)
      PROVE  UNCHANGED seen
  BY <1>5 DEF Mark, Prepare, LoadLead, Contact
<1>6. ASSUME Open \/ PromoteResult \/ PromoteOther \/ ContactElsewhere \/ Rematch \/ UNCHANGED vars
      PROVE  UNCHANGED seen
  BY <1>6 DEF Open, PromoteResult, PromoteOther, ContactElsewhere, Rematch, vars
<1>7. ASSUME Save
      PROVE  UNCHANGED seen
  <2>1. UNCHANGED procs
    BY <1>7, Zenon DEF Save
  <2> QED BY <2>1
<1> QED BY <1>1, <1>2, <1>3, <1>4, <1>5, <1>6, <1>7 DEF Next

\* As long as nothing is kept under other evidence, what is written to package and form fits.
LEMMA WrittenFits ==
    ASSUME TypeOK, Refreshing, Fitting, ~relabelled', [Next]_vars
    PROVE  Fits(package)' /\ Fits(form)'
<1> USE DEF rows, procs, history
<1>1. Fits(package) /\ Fits(form)
  BY DEF Fitting
<1>2. ASSUME NEW r \in Request,
             \/ Generate(r) \/ Find(r) \/ Mark(r) \/ Prepare(r)
             \/ Promote(r) \/ Contact(r) \/ Note(r) \/ Die(r)
      PROVE  UNCHANGED <<package, form>>
  BY <1>2 DEF Generate, Find, Mark, Prepare, Promote, Contact, Note, Die
<1>3. ASSUME PromoteResult \/ PromoteOther \/ ContactElsewhere \/ Rematch \/ UNCHANGED vars
      PROVE  UNCHANGED <<package, form>>
  BY <1>3 DEF PromoteResult, PromoteOther, ContactElsewhere, Rematch, vars
<1>4. CASE UNCHANGED <<package, form>>
  BY <1>1, <1>4 DEF Fits, Texts
<1>5. CASE Open
  <2>1. UNCHANGED package /\ form' = package
    BY <1>5 DEF Open
  <2> QED BY <1>1, <2>1 DEF Fits, Texts
<1>6. CASE Save
  <2>1. PICK c \in Channel :
          /\ form # NoPackage /\ form.drafts[c] # NoText
          /\ Write([form EXCEPT !.drafts[c].edited = TRUE], form)
          /\ form' = [form EXCEPT !.drafts[c].edited = TRUE]
    BY <1>6 DEF Save
  <2>2. Fits([form EXCEPT !.drafts[c].edited = TRUE])
    BY <1>1, <2>1, EditedFits DEF TypeOK
  <2> DEFINE m == [form EXCEPT !.drafts[c].edited = TRUE]
  <2>3. package' = m /\ form' = m
    BY <2>1 DEF Write
  <2> HIDE DEF m
  <2> QED BY <2>2, <2>3 DEF Fits, Texts, m
<1>7. CASE \E r \in Request : Answered(r)
  <2>1. PICK r \in Request : Answered(r)
    BY <1>7
  <2>0. PICK reachable \in BOOLEAN :
          LET new == Rendered(basis[r], aim[r], reachable)
              merged == Merged(seen[r], new)
          IN \/ package' \in {package, new}
             \/ /\ seen[r] # NoPackage /\ package' = merged
                /\ relabelled' = (relabelled \/ (seen[r].evidence # basis[r] /\ Texts(merged) \ Texts(new) # {}))
    BY <2>1 DEF Answered, Write, Relabel
  <2> DEFINE new == Rendered(basis[r], aim[r], reachable)
             merged == Merged(seen[r], new)
  <2>2. basis[r] \in Evidence /\ aim[r] \in SUBSET Channel /\ seen[r] \in Content \cup {NoPackage}
    BY DEF TypeOK
  <2>3. UNCHANGED form
    BY <2>1 DEF Answered
  <2>4. \/ package' \in {package, new}
        \/ /\ seen[r] # NoPackage /\ package' = merged
           /\ relabelled' = (relabelled \/ (seen[r].evidence # basis[r] /\ Texts(merged) \ Texts(new) # {}))
    BY <2>0
  <2>5. Fits(new) /\ new \in Content /\ new.evidence = basis[r]
    BY <2>2, RenderedFits, RenderedType DEF Rendered
  <2>6. ASSUME seen[r] # NoPackage,
               relabelled' = (relabelled \/ (seen[r].evidence # basis[r] /\ Texts(merged) \ Texts(new) # {}))
        PROVE  Fits(merged)
    <3>1. seen[r].evidence = basis[r] \/ Texts(merged) \ Texts(new) = {}
      BY <2>6, Zenon
    <3>2. Fits(seen[r]) /\ seen[r] \in Content
      BY <2>2, <2>6 DEF Fitting
    <3> HIDE DEF new
    <3> QED BY <2>2, <2>5, <2>6, <3>1, <3>2, MergedFits
  <2> HIDE DEF new, merged
  <2>7. package' = package \/ package' = new \/ (package' = merged /\ Fits(merged))
    BY <2>4, <2>6
  <2> QED BY <1>1, <2>3, <2>5, <2>7 DEF Fits, Texts
<1>8. CASE \E r \in Request : Refresh(r)
  <2>1. PICK r \in Request : Refresh(r)
    BY <1>8
  <2>2. basis[r] \in Evidence /\ seen[r] # NoPackage /\ seen[r].evidence # basis[r]
    BY <2>1 DEF Refresh, Refreshing, TypeOK
  <2>3. PICK reachable, copied \in BOOLEAN :
          LET fresh == Template(basis[r], reachable)
              content == Upgraded(seen[r], fresh, copied)
          IN /\ UNCHANGED form /\ package' = content
             /\ relabelled' = (relabelled \/ (seen[r].evidence # basis[r] /\ Texts(content) \ Texts(fresh) # {}))
    BY <2>1 DEF Refresh, Write, Relabel
  <2> DEFINE fresh == Template(basis[r], reachable)
             content == Upgraded(seen[r], fresh, copied)
  <2>4. seen[r] \in Content /\ fresh \in Content /\ Fits(fresh)
    BY <2>2, RenderedFits, TemplateType DEF TypeOK
  <2>5. Texts(content) \ Texts(fresh) = {}
    BY <2>2, <2>3, Zenon
  <2> HIDE DEF fresh
  <2>6. Fits(content)
    BY <2>4, <2>5, UpgradedFits
  <2>7. UNCHANGED form /\ package' = content
    BY <2>3 DEF fresh
  <2> HIDE DEF content
  <2> QED BY <1>1, <2>6, <2>7 DEF Fits, Texts
<1> QED BY <1>2, <1>3, <1>4, <1>5, <1>6, <1>7, <1>8 DEF Next

\* Then everything that is loaded fits too.
LEMMA FittingStep ==
    ASSUME TypeOK, Refreshing, Fitting, ~relabelled', [Next]_vars
    PROVE  Fitting'
<1>1. Fits(package)' /\ Fits(form)'
  BY WrittenFits
<1>2. ASSUME NEW q \in Request
      PROVE  Fits(seen[q])'
  <2>1. seen'[q] \in {seen[q], NoPackage, package}
    BY SeenStep
  <2>2. Fits(seen[q]) /\ Fits(package)
    BY DEF Fitting
  <2> QED BY <2>1, <2>2 DEF Fits, Texts
<1> QED BY <1>1, <1>2 DEF Fitting

(***************************************************************************)
(* The invariant and what follows from it.                                 *)
(***************************************************************************)

\* It holds of a new result.
LEMMA InitInvariant ==
    ASSUME Init
    PROVE  IInv
<1>1. TypeOK
  BY InitType
<1>2. OneCampaign /\ KnownHolds /\ Refreshing /\ SentIsContacted
  BY DEF Init, OneCampaign, KnownHolds, Refreshing, SentIsContacted, Nothing
<1>3. Noting
  BY DEF Init, Noting
<1>4. Alone
  BY DEF Init, Alone, Marking
<1>5. Fitting
  BY DEF Init, Fitting, Fits
<1> QED BY <1>1, <1>2, <1>3, <1>4, <1>5 DEF IInv

\* Every step keeps it.
LEMMA StepInvariant ==
    ASSUME IInv, [Next]_vars
    PROVE  IInv'
<1>1. TypeOK' /\ OneCampaign' /\ KnownHolds' /\ Noting' /\ Refreshing' /\ SentIsContacted'
  BY TypeStep, CampaignStep, KnownHoldsStep, NotingStep, RefreshingStep, SentStep DEF IInv
<1>2. raced' \/ other' = "namesake" \/ Alone'
  BY AloneStep, Monotone DEF IInv
<1>3. relabelled' \/ Fitting'
  BY FittingStep, Monotone DEF IInv
<1> QED BY <1>1, <1>2, <1>3 DEF IInv

\* It is an invariant.
THEOREM Invariance == Spec => []IInv
BY InitInvariant, StepInvariant, PTL DEF Spec

\* The variables keep their types, and a run has one campaign, whatever requests promote at
\* once (outreach.promote).
THEOREM TypeCorrect == Spec => []TypeOK
<1>1. IInv => TypeOK
  BY DEF IInv
<1> QED BY <1>1, Invariance, PTL

\* The package speaks of the evidence it names, however the requests that generate and
\* refresh it overlap, unless texts were carried over from other evidence
\* (_merge_generated_channels, _upgrade_content).
THEOREM TextFitsEvidenceHolds == Spec => []TextFitsEvidence
<1>1. IInv => TextFitsEvidence
  BY DEF IInv, Fitting, Fits, TextFitsEvidence
<1> QED BY <1>1, Invariance, PTL

\* A channel is marked as sent only when its result is contacted, whatever request dies
\* (mark_sent).
THEOREM SentIsContactedHolds == Spec => []SentIsContacted
<1>1. IInv => SentIsContacted
  BY DEF IInv
<1> QED BY <1>1, Invariance, PTL

\* A result is contacted and a channel sent once, however often the user asks and requests
\* die, unless two requests overlapped or two results share the lead (mark_sent).
THEOREM ContactedOnceHolds == Spec => []ContactedOnce
<1>1. IInv => ContactedOnce
  BY DEF IInv, Alone, ContactedOnce
<1> QED BY <1>1, Invariance, PTL

\* A lead and a campaign once given are kept (outreach.promote).
THEOREM LeadStaysHolds == Spec => LeadStays
<1>1. IInv /\ [Next]_vars => [(lead # 0 => lead' = lead) /\ (campaign # 0 => campaign' = campaign)]_vars
  BY CampaignStep DEF IInv
<1> QED BY <1>1, Invariance, PTL DEF Spec, LeadStays

(***************************************************************************)
(* Edits.                                                                  *)
(***************************************************************************)

\* An edited draft is that of a content.
LEMMA EditedShape ==
    ASSUME NEW p \in Content \cup {NoPackage}, NEW c \in Channel, Edited(p, c)
    PROVE  p \in Content /\ p.drafts[c] \in Text /\ p.drafts[c] # NoText /\ p.drafts[c].edited
BY DEF Edited, Content

\* Merging keeps an edited draft of a channel that is not wanted.
LEMMA MergedKeeps ==
    ASSUME NEW p \in Content, NEW c \in Channel, Edited(p, c),
           NEW e \in Evidence, NEW wanted \in SUBSET Channel, NEW reachable \in BOOLEAN,
           c \notin wanted
    PROVE  Edited(Merged(p, Rendered(e, wanted, reachable)), c)
<1>1. Generated(p)
  BY EditedShape DEF Generated
<1>2. Rendered(e, wanted, reachable) \in Content /\ Rendered(e, wanted, reachable).drafts[c] = NoText
  BY RenderedType DEF Rendered
<1>3. Merged(p, Rendered(e, wanted, reachable)).drafts[c] = p.drafts[c]
  BY <1>1, <1>2 DEF Merged, Either, Content
<1>4. Merged(p, Rendered(e, wanted, reachable)) # NoPackage
  BY <1>2, MergedType, AbsenceAssumption
<1> QED BY <1>3, <1>4 DEF Edited

\* Editing one draft keeps the others edited.
LEMMA EditedKeeps ==
    ASSUME NEW p \in Content, NEW c \in Channel, NEW d \in Channel, Edited(p, c), p.drafts[d] # NoText
    PROVE  Edited([p EXCEPT !.drafts[d].edited = TRUE], c)
<1> DEFINE m == [p EXCEPT !.drafts[d].edited = TRUE]
<1>1. m \in Content /\ m # NoPackage
  BY EditedType, AbsenceAssumption
<1>2. p.drafts[c] \in Text /\ p.drafts[d] \in Text
  BY EditedShape DEF Content
<1>3. CASE c = d
  <2>1. m.drafts[c] = [p.drafts[c] EXCEPT !.edited = TRUE]
    BY <1>3 DEF Content
  <2>2. m.drafts[c] \in Text /\ m.drafts[c].edited
    BY <1>2, <2>1 DEF Text
  <2> QED BY <1>1, <2>2, AbsenceAssumption DEF Edited
<1>4. CASE c # d
  <2>1. m.drafts[c] = p.drafts[c]
    BY <1>4 DEF Content
  <2> QED BY <1>1, <2>1 DEF Edited
<1> QED BY <1>3, <1>4

\* What a step may do to an edited draft.
LEMMA EditsStep ==
    ASSUME TypeOK, Refreshing, [Next]_vars, NEW c \in Channel, Edited(package, c)
    PROVE  \/ Edited(package', c)
           \/ \E r \in Request : pc[r] = "generate" /\ pc'[r] = "idle" /\ c \in aim[r]
           \/ package'.evidence # package.evidence
           \/ outdated'
<1> USE DEF rows, procs, history
<1>1. package \in Content /\ package # NoPackage
  BY EditedShape DEF TypeOK, Edited
<1>2. ASSUME NEW r \in Request,
             \/ Generate(r) \/ Find(r) \/ Mark(r) \/ Prepare(r)
             \/ Promote(r) \/ Contact(r) \/ Note(r) \/ Die(r)
      PROVE  UNCHANGED package
  BY <1>2 DEF Generate, Find, Mark, Prepare, Promote, Contact, Note, Die
<1>3. ASSUME Open \/ PromoteResult \/ PromoteOther \/ ContactElsewhere \/ Rematch \/ UNCHANGED vars
      PROVE  UNCHANGED package
  BY <1>3 DEF Open, PromoteResult, PromoteOther, ContactElsewhere, Rematch, vars
<1>4. ASSUME Save, ~outdated'
      PROVE  Edited(package', c)
  <2>1. PICK d \in Channel :
          /\ form # NoPackage /\ form.drafts[d] # NoText
          /\ Write([form EXCEPT !.drafts[d].edited = TRUE], form)
    BY <1>4 DEF Save
  <2>2. package = form
    BY <1>4, <2>1, Zenon DEF Write
  <2>3. Edited([package EXCEPT !.drafts[d].edited = TRUE], c)
    BY <1>1, <2>1, <2>2, EditedKeeps
  <2> DEFINE m == [package EXCEPT !.drafts[d].edited = TRUE]
  <2>4. package' = m
    BY <2>1, <2>2 DEF Write
  <2> HIDE DEF m
  <2> QED BY <2>3, <2>4 DEF m
<1>5. ASSUME NEW r \in Request, Answered(r), ~outdated', c \notin aim[r]
      PROVE  Edited(package', c)
  <2>0. PICK reachable \in BOOLEAN :
          \/ UNCHANGED package
          \/ /\ seen[r] # NoPackage
             /\ Write(Merged(seen[r], Rendered(basis[r], aim[r], reachable)), seen[r])
          \/ package = NoPackage
    BY <1>5 DEF Answered
  <2> DEFINE merged == Merged(seen[r], Rendered(basis[r], aim[r], reachable))
  <2>1. \/ UNCHANGED package
        \/ /\ seen[r] # NoPackage
           /\ Write(merged, seen[r])
    BY <1>1, <2>0 DEF Edited
  <2>2. ASSUME seen[r] # NoPackage, Write(merged, seen[r])
        PROVE  package' = merged /\ package = seen[r]
    BY <1>5, <2>2, Zenon DEF Write
  <2>3. ASSUME package = seen[r]
        PROVE  Edited(merged, c)
    <3>1. basis[r] \in Evidence /\ aim[r] \in SUBSET Channel /\ package \in Content
      BY <1>1, EditedShape DEF TypeOK
    <3> QED BY <1>1, <1>5, <2>3, <3>1, MergedKeeps
  <2> HIDE DEF merged
  <2> QED BY <2>1, <2>2, <2>3
<1>6. ASSUME NEW r \in Request, Answered(r), c \in aim[r]
      PROVE  pc[r] = "generate" /\ pc'[r] = "idle"
  BY <1>6 DEF Answered, End, TypeOK
<1>7. ASSUME NEW r \in Request, Refresh(r), ~outdated'
      PROVE  package'.evidence # package.evidence
  <2>1. PICK reachable, copied \in BOOLEAN :
          Write(Upgraded(seen[r], Template(basis[r], reachable), copied), seen[r])
    BY <1>7 DEF Refresh
  <2>2. package = seen[r] /\ package' = Upgraded(seen[r], Template(basis[r], reachable), copied)
    BY <1>7, <2>1, Zenon DEF Write
  <2>3. seen[r] # NoPackage /\ seen[r].evidence # basis[r] /\ basis[r] \in Evidence
        /\ seen[r] \in Content \cup {NoPackage}
    BY <1>7 DEF Refresh, Refreshing, TypeOK
  <2>4. package'.evidence = basis[r]
    <3>1. /\ seen[r] \in Content
          /\ Template(basis[r], reachable) \in Content
          /\ Template(basis[r], reachable).evidence = basis[r]
      BY <2>3, TemplateType
    <3>2. Upgraded(seen[r], Template(basis[r], reachable), copied).evidence = basis[r]
      BY <3>1, UpgradedType
    <3> QED BY <2>2, <3>2
  <2> QED BY <2>2, <2>3, <2>4
<1> QED BY <1>2, <1>3, <1>4, <1>5, <1>6, <1>7 DEF Next

\* An edited draft stays until its channel is generated again, the evidence changes, or it
\* is overwritten by who had not seen it (generate, update).
THEOREM EditsAreKeptHolds == Spec => EditsAreKept
<1>1. IInv /\ [Next]_vars =>
        [\A c \in Channel :
            Edited(package, c) =>
                \/ Edited(package', c)
                \/ \E r \in Request : pc[r] = "generate" /\ pc'[r] = "idle" /\ c \in aim[r]
                \/ package'.evidence # package.evidence
                \/ outdated']_vars
  BY EditsStep DEF IInv
<1> QED BY <1>1, Invariance, PTL DEF Spec, EditsAreKept
=============================================================================
