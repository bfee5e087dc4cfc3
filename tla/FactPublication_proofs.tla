----------------------- MODULE FactPublication_proofs -----------------------
(***************************************************************************)
(* What holds of facts for every website, signal, number of workers and    *)
(* bound: that what passes the evidence checks is borne out by the pages   *)
(* that were read, and that a fact rests on an observation with a claim.   *)
(***************************************************************************)
EXTENDS FactPublication, FiniteSetTheorems, WellFoundedInduction, TLAPS

(***************************************************************************)
(* Evidence                                                                *)
(***************************************************************************)

\* The value of a signal about elements follows from what the pages show.
LEMMA ElementValue ==
  ASSUME NEW c, NEW pages, Signal \in DOMAIN Place, Extracted(pages, c) # "none"
  PROVE  /\ Extracted(pages, c) \in {"true", "false"}
         /\ Extracted(pages, c) = Combined(pages)
<1>1. Signal # "website_status" /\ Signal # "mobile_viewport_present"
  BY DEF Place
<1>2. pages # <<>>
  BY <1>1 DEF Extracted
<1>3. Extracted(pages, c) = Combined(pages)
  BY <1>1, <1>2 DEF Extracted
<1> QED
  BY <1>3 DEF Combined

\* A negative means that every page is whole and that none shows what was sought.
LEMMA NegativeIsWhole ==
  ASSUME NEW pages, Combined(pages) = "false"
  PROVE  Whole(pages) /\ \A kind \in Sought : ~Shown(pages, kind)
<1> DEFINE values == {Known(Shown(pages, kind), Whole(pages)) : kind \in Sought}
<1>1. "false" \in values /\ "true" \notin values
  BY DEF Combined
<1>2. Whole(pages)
  BY <1>1 DEF Known
<1>3. ASSUME NEW kind \in Sought PROVE ~Shown(pages, kind)
  BY <1>1, <1>3 DEF Known
<1> QED
  BY <1>2, <1>3

\* A positive means that one does.
LEMMA PositiveIsShown ==
  ASSUME NEW pages, Combined(pages) = "true"
  PROVE  \E kind \in Sought : Shown(pages, kind)
<1> DEFINE values == {Known(Shown(pages, kind), Whole(pages)) : kind \in Sought}
<1>1. "true" \in values
  BY DEF Combined
<1> QED
  BY <1>1 DEF Known

\* The evidence checks let a finding pass only where the pages that were read bear it out
\* (signal_validation/service.py, _website_evidence_check), whatever the website is like.
THEOREM SoundIsBacked ==
  Signal \in DOMAIN Place => \A c \in Sound : Backed[c]
<1> SUFFICES ASSUME Signal \in DOMAIN Place, NEW c \in Sound
             PROVE  Backed[c]
  OBVIOUS
<1> DEFINE pages == Inspected(c)
           shown == \E page \in ToSet(pages), kind \in Sought : Shows(page, kind)
<1>1. /\ c \in Telling /\ Extracted(pages, c) # "none"
      /\ Value[c] = Extracted(pages, c) /\ Evident(pages, Value[c])
  BY DEF Sound, Telling, Value
<1>2. Extracted(pages, c) \in {"true", "false"} /\ Extracted(pages, c) = Combined(pages)
  BY <1>1, ElementValue
<1>3. Backed[c] = IF Value[c] = "true" THEN shown
                  ELSE /\ ~shown
                       /\ \A page \in ToSet(pages) : page.whole
                       /\ \E page \in ToSet(pages) : Place[Signal] \in Intents(page)
  BY <1>1 DEF Backed
<1>4. CASE Extracted(pages, c) = "true"
  <2>1. PICK kind \in Sought : Shown(pages, kind)
    BY <1>2, <1>4, PositiveIsShown
  <2>2. PICK i \in DOMAIN pages : Shows(pages[i], kind)
    BY <2>1 DEF Shown
  <2>3. pages[i] \in ToSet(pages)
    BY DEF ToSet
  <2> QED
    BY <1>1, <1>3, <1>4, <2>2, <2>3
<1>5. CASE Extracted(pages, c) = "false"
  <2>1. Whole(pages) /\ \A kind \in Sought : ~Shown(pages, kind)
    BY <1>2, <1>5, NegativeIsWhole
  <2>2. ~shown
    BY <2>1 DEF Shown, ToSet
  <2>3. \A page \in ToSet(pages) : page.whole
    BY <2>1 DEF Whole, ToSet
  <2>4. PitchScope(pages)
    BY <1>1, <1>5 DEF Evident, Place
  <2>5. \E i \in DOMAIN pages : Place[Signal] \in Intents(pages[i])
    <3>1. CASE Signal = "contact_form_present"
      BY <2>4, <3>1 DEF PitchScope, Scoped, Place
    <3>2. CASE Signal = "quote_or_booking_form_present"
      BY <2>4, <3>2 DEF PitchScope, Scoped, Place
    <3>3. CASE Signal = "primary_cta_present"
      BY <2>4, <3>3 DEF PitchScope, Scoped, Place
    <3> QED
      BY <3>1, <3>2, <3>3 DEF Place
  <2>6. \E page \in ToSet(pages) : Place[Signal] \in Intents(page)
    BY <2>5 DEF ToSet
  <2> QED
    BY <1>1, <1>3, <1>5, <2>2, <2>3, <2>6
<1> QED
  BY <1>2, <1>4, <1>5

(***************************************************************************)
(* The strengthening                                                       *)
(***************************************************************************)

\* The observations that were recorded are the first ones, and a value can be extracted
\* from each.
Kept == {o \in Obs : content[o] # NoContent}
Numbered ==
    /\ \E n \in 0..MaxObs : Kept = 1..n
    /\ \A o \in Kept : content[o] \in Telling

\* A fact rests on an observation that a claim is recorded for, whoever writes it and
\* whatever is rolled back.
FactIsClaimed == fact # NoFact => fact.obs \in claims

\* What sessions know of the fact and of the observation they are at.
Sessions ==
    \A w \in Worker :
        /\ pc[w] = "resolve" => mine[w] \in Kept
        /\ pc[w] = "record" => mine[w] \in claims /\ seen[w] # NoFact
        /\ seen[w] # NoFact => fact # NoFact /\ seen[w].obs \in claims

\* The sweep demotes the observation that it found.
Sweeping == sweep # NoSweep => fact # NoFact /\ sweep[2].obs = sweep[1].obs

IInv == TypeOK /\ Numbered /\ FactIsClaimed /\ Sessions /\ Sweeping

(***************************************************************************)
(* Lemmas                                                                  *)
(***************************************************************************)

\* A set of observations that is not empty has a newest one.
LEMMA NewestIsIn ==
  ASSUME NEW S \in SUBSET Obs, S # {}
  PROVE  Newest(S) \in S
<1> DEFINE ages == {MaxObs - o : o \in S}
           less == OpToRel(<, Nat)
<1>1. ages \subseteq Nat /\ ages # {}
  <2>1. \A o \in S : o \in Nat /\ MaxObs - o \in Nat
    BY BoundsAssumption DEF Obs
  <2> QED
    BY <2>1
<1>2. PICK a \in ages : \A b \in ages : <<b, a>> \notin less
  BY <1>1, NatLessThanWellFounded, WFMin
<1>3. \A b \in ages : ~(b < a)
  BY <1>1, <1>2 DEF OpToRel
<1>4. PICK o \in S : a = MaxObs - o
  BY <1>2
<1>5. ASSUME NEW p \in S PROVE p <= o
  <2>1. p \in Nat /\ o \in Nat /\ MaxObs \in Nat
    BY BoundsAssumption DEF Obs
  <2>2. ~(MaxObs - p < MaxObs - o)
    BY <1>3, <1>4
  <2> QED
    BY <2>1, <2>2
<1> QED
  BY <1>5 DEF Newest

\* As many observations were recorded as the last one says.
LEMMA RecordedIsLast ==
  ASSUME TypeOK, Numbered
  PROVE  Recorded \in 0..MaxObs /\ Kept = 1..Recorded
<1>1. PICK n \in 0..MaxObs : Kept = 1..n
  BY DEF Numbered
<1>2. Cardinality(1..n) = n
  BY FS_Interval, BoundsAssumption
<1> QED
  BY <1>1, <1>2 DEF Recorded, Kept

\* The columns of a row come from the two rows it is made of.
LEMMA WrittenIsFact ==
  ASSUME NEW row \in Fact, NEW loaded \in Fact, NEW new \in Fact
  PROVE  /\ Written(row, loaded, new) \in Fact
         /\ Written(row, loaded, new).obs = IF new.obs # loaded.obs THEN new.obs ELSE row.obs
  BY DEF Written, Fact

\* Evaluation is about the quality.
LEMMA EvaluatedIsFact ==
  ASSUME NEW f \in Fact
  PROVE  Evaluated(f) \in Fact /\ Evaluated(f).obs = f.obs
  BY DEF Evaluated, Fact, Quality

\* So is a validation, and about the resolution.
LEMMA JudgedIsFact ==
  ASSUME NEW f \in Fact, NEW d \in Verdict
  PROVE  Judged(f, d) \in Fact /\ Judged(f, d).obs = f.obs
<1> DEFINE quality == CASE d = "passed" -> "published" [] d = "failed" -> "rejected" [] OTHER -> "staged"
           state == CASE d = "passed" -> "confirmed"
                      [] d = "stale" -> "stale"
                      [] d = "disagree" -> "conflicted"
                      [] OTHER -> f.state
<1>1. quality \in Quality
  BY DEF Quality
<1>2. state \in Resolution
  BY DEF Resolution, Fact
<1>3. Judged(f, d) = [f EXCEPT !.quality = quality, !.state = state]
  BY DEF Judged
<1> HIDE DEF quality, state
<1> QED
  BY <1>1, <1>2, <1>3 DEF Fact

\* A session resolves its claim into a fact about it, or leaves the one it loaded.
LEMMA ResolvedIsFact ==
  ASSUME IInv, NEW w \in Worker, pc[w] = "resolve"
  PROVE  Resolved(w) \in Fact /\ Resolved(w).obs \in claims \cup {mine[w]}
<1>1. mine[w] \in Obs /\ ValueOf(mine[w]) \in {Value[c] : c \in Telling}
  BY DEF IInv, Sessions, Kept, Numbered, ValueOf
<1>2. seen[w] # NoFact => seen[w] \in Fact /\ seen[w].obs \in claims
  BY DEF IInv, TypeOK, Sessions
<1>3. "staged" \in Quality /\ "conflicted" \in Resolution /\ "confirmed" \in Resolution
  BY DEF Quality, Resolution
<1> QED
  BY <1>1, <1>2, <1>3 DEF Resolved, Fact

\* Decisions are verdicts.
LEMMA DecidedIsVerdict == \A f, o : Decided(f, o) \in Verdict
  BY DEF Decided, Verdict

\* A worker that rests holds nothing.
LEMMA RestHolds ==
  ASSUME TypeOK, Numbered, NEW w \in Worker, Rest(w)
  PROVE  /\ pc' \in [Worker -> {"idle", "inspect", "resolve", "collected", "record"}]
         /\ key' \in [Worker -> Key]
         /\ mine' \in [Worker -> 0..Recorded]
         /\ seen' \in [Worker -> Fact \cup {NoFact}]
         /\ outcome' \in [Worker -> Verdict]
         /\ pc'[w] = "idle" /\ seen'[w] = NoFact
         /\ \A v \in Worker \ {w} :
               pc'[v] = pc[v] /\ mine'[v] = mine[v] /\ seen'[v] = seen[v]
<1>1. 0 \in 0..Recorded
  BY RecordedIsLast
<1> QED
  BY <1>1 DEF TypeOK, Rest, Key, Verdict

\* What is kept depends on the contents alone.
LEMMA KeptStays ==
  ASSUME UNCHANGED content
  PROVE  Kept' = Kept /\ Recorded' = Recorded /\ (Numbered => Numbered')
  BY DEF Kept, Recorded, Numbered

\* Whoever rests leaves the other sessions as they are.
LEMMA RestSessions ==
  ASSUME IInv, NEW w \in Worker, Rest(w), UNCHANGED content, claims \subseteq claims',
         fact # NoFact => fact' # NoFact
  PROVE  Sessions'
<1> SUFFICES ASSUME NEW v \in Worker
             PROVE  /\ pc'[v] = "resolve" => mine'[v] \in Kept'
                    /\ pc'[v] = "record" => mine'[v] \in claims' /\ seen'[v] # NoFact
                    /\ seen'[v] # NoFact => fact' # NoFact /\ seen'[v].obs \in claims'
  BY DEF Sessions
<1>1. CASE v = w
  BY <1>1, RestHolds DEF IInv
<1>2. CASE v # w
  BY <1>2, RestHolds, KeptStays DEF IInv, Sessions
<1> QED
  BY <1>1, <1>2

\* Who loads a claim of now knows it, and the fact that rests on one; the others know what
\* they knew.
LEMMA LoadSessions ==
  ASSUME IInv, NEW w \in Worker, NEW o \in claims, Load(w, o), UNCHANGED <<fact, content, claims>>,
         pc'[w] = "record" => fact # NoFact,
         \A v \in Worker \ {w} : pc'[v] = pc[v]
  PROVE  Sessions'
<1> SUFFICES ASSUME NEW v \in Worker
             PROVE  /\ pc'[v] = "resolve" => mine'[v] \in Kept'
                    /\ pc'[v] = "record" => mine'[v] \in claims' /\ seen'[v] # NoFact
                    /\ seen'[v] # NoFact => fact' # NoFact /\ seen'[v].obs \in claims'
  BY DEF Sessions
<1>1. Kept' = Kept
  BY KeptStays
<1>2. CASE v = w
  <2>1. mine'[w] = o /\ seen'[w] = fact
    BY DEF Load, IInv, TypeOK
  <2>2. o \in Kept
    BY DEF IInv, TypeOK, Kept
  <2>3. fact # NoFact => fact.obs \in claims
    BY DEF IInv, FactIsClaimed
  <2> QED
    BY <1>1, <1>2, <2>1, <2>2, <2>3
<1>3. CASE v # w
  <2>1. pc'[v] = pc[v] /\ mine'[v] = mine[v] /\ seen'[v] = seen[v]
    BY <1>3 DEF Load, IInv, TypeOK
  <2> QED
    BY <1>1, <2>1 DEF IInv, Sessions
<1> QED
  BY <1>2, <1>3

(***************************************************************************)
(* The invariant is inductive                                              *)
(***************************************************************************)

\* It holds initially: nothing has been recorded.
LEMMA InitHolds == Init => IInv
<1> SUFFICES ASSUME Init PROVE IInv
  OBVIOUS
<1>1. Kept = 1..0
  BY DEF Init, Kept
<1>2. Numbered
  BY <1>1, BoundsAssumption DEF Numbered
<1>3. Recorded = 0
  <2>1. Recorded = Cardinality(1..0)
    BY <1>1 DEF Recorded, Kept
  <2> QED
    BY <2>1, FS_Interval
<1>4. TypeOK
  <2>1. claims \in SUBSET {o \in Obs : content[o] # NoContent} /\ expired \in 0..Recorded
    BY <1>3 DEF Init
  <2>2. mine \in [Worker -> 0..Recorded] /\ aged \in [Obs -> 0..MaxObs] /\ events \in 0..MaxEvents
    BY <1>3, BoundsAssumption DEF Init
  <2>3. content \in [Obs -> Content \cup {NoContent}] /\ result \in [Obs -> Verdict \cup {"none"}]
    BY DEF Init
  <2> QED
    BY <2>1, <2>2, <2>3 DEF Init, TypeOK, Key, Job, Verdict
<1> QED
  BY <1>2, <1>4 DEF Init, IInv, FactIsClaimed, Sessions, Sweeping

\* A collection begins.
LEMMA CollectKeeps ==
  ASSUME IInv, NEW w \in Worker, NEW k \in Key, Collect(w, k)
  PROVE  IInv'
<1> DEFINE recent == Newest({o \in claims : o > expired})
<1> USE DEF IInv
<1>1. Kept' = Kept /\ Recorded' = Recorded /\ Numbered'
  BY KeptStays DEF Collect, evidence
<1>2. recent = 0 \/ recent \in claims
  <2>1. {o \in claims : o > expired} \in SUBSET Obs
    BY DEF TypeOK
  <2> QED
    BY <2>1, NewestIsIn DEF Newest
<1>3. claims \subseteq Kept /\ Kept \subseteq 0..Recorded
  BY RecordedIsLast DEF TypeOK, Kept
<1>4. CASE recent # 0 /\ ~blank
  <2>1. TypeOK'
    <3>1. recent \in 0..Recorded
      BY <1>2, <1>3, <1>4
    <3>2. /\ pc' = [pc EXCEPT ![w] = "resolve"]
          /\ mine' = [mine EXCEPT ![w] = recent]
          /\ seen' = [seen EXCEPT ![w] = fact]
          /\ outcome' \in {[outcome EXCEPT ![w] = v] : v \in Verdict}
      BY <1>4 DEF Collect, Load, Verdict
    <3> HIDE DEF recent
    <3>3. /\ pc' \in [Worker -> {"idle", "inspect", "resolve", "collected", "record"}]
          /\ mine' \in [Worker -> 0..Recorded]
          /\ seen' \in [Worker -> Fact \cup {NoFact}]
          /\ outcome' \in [Worker -> Verdict]
      BY <3>1, <3>2 DEF TypeOK
    <3>4. collect' \in [Key -> Job] /\ key' \in [Worker -> Key]
      BY DEF TypeOK, Collect, Job
    <3>5. UNCHANGED <<fact, content, aged, claims, expired, blank, result, latest, validate, sweep, events>>
      BY DEF Collect, evidence, results
    <3> QED
      BY <1>1, <3>3, <3>4, <3>5 DEF TypeOK
  <2>2. Sessions'
    <3>1. Load(w, recent) /\ pc' = [pc EXCEPT ![w] = "resolve"] /\ UNCHANGED <<fact, content, claims>>
      BY <1>4 DEF Collect, evidence
    <3>2. recent \in claims
      BY <1>2, <1>4
    <3> HIDE DEF recent
    <3>3. pc'[w] = "resolve" /\ \A v \in Worker \ {w} : pc'[v] = pc[v]
      BY <3>1 DEF TypeOK
    <3> QED
      BY <3>1, <3>2, <3>3, LoadSessions
  <2> QED
    BY <1>1, <2>1, <2>2 DEF FactIsClaimed, Sweeping, Collect, evidence
<1>5. CASE ~(recent # 0 /\ ~blank)
  <2>1. TypeOK'
    BY <1>1, <1>5 DEF TypeOK, Collect, evidence, results, Job
  <2>2. Sessions'
    BY <1>1, <1>5 DEF TypeOK, Sessions, Collect, evidence
  <2> QED
    BY <1>1, <2>1, <2>2 DEF FactIsClaimed, Sweeping, Collect, evidence
<1> QED
  BY <1>4, <1>5

\* An inspection in vain ends it.
LEMMA InspectInVainKeeps ==
  ASSUME IInv, NEW w \in Worker, InspectInVain(w)
  PROVE  IInv'
<1> USE DEF IInv
<1>1. Kept' = Kept /\ Recorded' = Recorded /\ Numbered'
  BY KeptStays DEF InspectInVain
<1>2. Sessions'
  BY RestSessions DEF InspectInVain
<1>3. TypeOK'
  BY <1>1, RestHolds DEF TypeOK, InspectInVain, results, Job
<1> QED
  BY <1>1, <1>2, <1>3 DEF FactIsClaimed, Sweeping, InspectInVain

\* One that finds what was found before goes on with the observation of then.
LEMMA InspectUnchangedKeeps ==
  ASSUME IInv, NEW w \in Worker, InspectUnchanged(w)
  PROVE  IInv'
<1> USE DEF IInv
<1>1. PICK o \in claims :
        /\ pc' = [pc EXCEPT ![w] = "resolve"]
        /\ Load(w, o)
        /\ outcome' = [outcome EXCEPT ![w] = IF Disputed(o, claims) THEN "disagree" ELSE "passed"]
        /\ UNCHANGED <<fact, evidence, results, jobs, key, sweep, events>>
  BY DEF InspectUnchanged
<1>2. Kept' = Kept /\ Recorded' = Recorded /\ Numbered'
  BY <1>1, KeptStays DEF evidence
<1>3. claims \subseteq Kept /\ Kept \subseteq 0..Recorded
  BY RecordedIsLast DEF TypeOK, Kept
<1>4. TypeOK'
  BY <1>1, <1>2, <1>3 DEF TypeOK, Load, evidence, results, jobs, Verdict
<1>5. Sessions'
  <2>1. pc'[w] = "resolve" /\ \A v \in Worker \ {w} : pc'[v] = pc[v]
    BY <1>1 DEF TypeOK
  <2> QED
    BY <1>1, <2>1, LoadSessions DEF evidence
<1> QED
  BY <1>1, <1>2, <1>4, <1>5 DEF FactIsClaimed, Sweeping, evidence

\* One that finds something new records it.
LEMMA InspectChangedKeeps ==
  ASSUME IInv, NEW w \in Worker, InspectChanged(w)
  PROVE  IInv'
<1> USE DEF IInv
<1> DEFINE o == Recorded + 1
<1>1. PICK c \in Telling :
        /\ o <= MaxObs
        /\ content' = [content EXCEPT ![o] = c]
        /\ aged' = [aged EXCEPT ![o] = expired]
        /\ pc' = [pc EXCEPT ![w] = "resolve"]
        /\ Load(w, o)
        /\ outcome' \in [Worker -> Verdict]
        /\ UNCHANGED <<fact, claims, expired, blank, results, jobs, key, sweep, events>>
  <2>1. PICK c \in Telling :
          /\ o <= MaxObs
          /\ content' = [content EXCEPT ![o] = c]
          /\ aged' = [aged EXCEPT ![o] = expired]
          /\ pc' = [pc EXCEPT ![w] = "resolve"]
          /\ Load(w, o)
          /\ outcome' = [outcome EXCEPT ![w] =
                            IF \E p \in claims : p > expired /\ ValueOf(p) # Value[c]
                            THEN "disagree" ELSE "passed"]
          /\ UNCHANGED <<fact, claims, expired, blank, results, jobs, key, sweep, events>>
    BY DEF InspectChanged
  <2>2. outcome' \in [Worker -> Verdict]
    BY <2>1 DEF TypeOK, Verdict
  <2> QED
    BY <2>1, <2>2
<1>2. Recorded \in Nat /\ Kept = 1..Recorded /\ o \in Obs /\ MaxObs \in Nat
  BY <1>1, RecordedIsLast, BoundsAssumption DEF Obs
<1>3. c \in Content /\ c # NoContent
  BY BoundsAssumption DEF Telling
<1>4. Kept' = Kept \cup {o}
  BY <1>1, <1>2, <1>3 DEF TypeOK, Kept
<1>5. Kept' = 1..o
  BY <1>2, <1>4
<1>6. Recorded' = o
  <2>1. Recorded' = Cardinality(Kept')
    BY DEF Recorded, Kept
  <2> QED
    BY <1>2, <1>5, <2>1, FS_Interval
<1>7. Numbered'
  <2>1. o \in 0..MaxObs
    BY <1>1, <1>2
  <2>2. \A p \in Kept' : content'[p] \in Telling
    BY <1>1, <1>2, <1>4 DEF TypeOK, Numbered, Kept
  <2> QED
    BY <1>5, <2>1, <2>2 DEF Numbered
<1>8. TypeOK'
  <2>1. content' \in [Obs -> Content \cup {NoContent}]
    BY <1>1, <1>3 DEF TypeOK
  <2>2. aged' \in [Obs -> 0..MaxObs]
    <3>1. expired \in 0..MaxObs
      BY <1>2, RecordedIsLast DEF TypeOK
    <3> QED
      BY <1>1, <3>1 DEF TypeOK
  <2>3. claims' \in SUBSET {p \in Obs : content'[p] # NoContent}
    BY <1>1, <1>4 DEF TypeOK, Kept
  <2>4. expired' \in 0..Recorded'
    BY <1>1, <1>2, <1>6 DEF TypeOK
  <2>5. mine' \in [Worker -> 0..Recorded']
    BY <1>1, <1>2, <1>6 DEF TypeOK, Load
  <2>6. pc' \in [Worker -> {"idle", "inspect", "resolve", "collected", "record"}]
    BY <1>1 DEF TypeOK
  <2>7. seen' \in [Worker -> Fact \cup {NoFact}]
    BY <1>1 DEF TypeOK, Load
  <2> QED
    BY <1>1, <2>1, <2>2, <2>3, <2>4, <2>5, <2>6, <2>7 DEF TypeOK, results, jobs
<1>9. Sessions'
  BY <1>1, <1>4 DEF TypeOK, Sessions, FactIsClaimed, Load
<1> QED
  BY <1>1, <1>7, <1>8, <1>9 DEF FactIsClaimed, Sweeping

\* The claim is recorded and the fact rests on an observation with one.
LEMMA ResolveKeeps ==
  ASSUME IInv, NEW w \in Worker, Resolve(w)
  PROVE  IInv'
<1> USE DEF IInv
<1> DEFINE new == Resolved(w)
           upserted == IF seen[w] = NoFact THEN new ELSE Written(fact, seen[w], new)
<1>1. Kept' = Kept /\ Recorded' = Recorded /\ Numbered'
  BY KeptStays DEF Resolve
<1>2. new \in Fact /\ new.obs \in claims \cup {mine[w]}
  BY ResolvedIsFact DEF Resolve
<1>3. mine[w] \in Kept
  BY DEF Resolve, Sessions
<1>4. seen[w] # NoFact => seen[w] \in Fact /\ fact \in Fact /\ fact.obs \in claims
  BY DEF TypeOK, Sessions, FactIsClaimed
<1>5. upserted \in Fact /\ upserted.obs \in claims \cup {mine[w]}
  BY <1>2, <1>4, WrittenIsFact
<1>6. Evaluated(new) \in Fact /\ Evaluated(new).obs = new.obs
  BY <1>2, EvaluatedIsFact
<1>7. fact' = Written(upserted, new, Evaluated(new)) /\ claims' = claims \cup {mine[w]}
  BY DEF Resolve
<1>8. fact' \in Fact /\ fact'.obs \in claims'
  BY <1>2, <1>5, <1>6, <1>7, WrittenIsFact
<1>9. fact' # NoFact
  BY <1>8, NoFactAssumption
<1>10. TypeOK'
  <2>1. claims' \in SUBSET {o \in Obs : content[o] # NoContent}
    BY <1>3, <1>7 DEF TypeOK, Kept
  <2>2. blank' \in BOOLEAN
    BY DEF Resolve, TypeOK
  <2>3. 0 \in 0..Recorded
    BY RecordedIsLast
  <2> QED
    BY <1>1, <1>7, <1>8, <2>1, <2>2, <2>3 DEF Resolve, TypeOK, results, jobs, Verdict
<1>11. Sessions'
  BY <1>1, <1>7, <1>9 DEF Resolve, Sessions, TypeOK
<1> QED
  BY <1>1, <1>8, <1>9, <1>10, <1>11 DEF FactIsClaimed, Sweeping, Resolve

\* A resolution that the constraint refuses leaves no trace.
LEMMA ResolveRefusedKeeps ==
  ASSUME IInv, NEW w \in Worker, ResolveRefused(w)
  PROVE  IInv'
<1> USE DEF IInv
<1>1. Kept' = Kept /\ Recorded' = Recorded /\ Numbered'
  BY KeptStays DEF ResolveRefused, evidence
<1>2. Sessions'
  BY RestSessions DEF ResolveRefused, evidence
<1>3. TypeOK'
  BY <1>1, RestHolds DEF TypeOK, ResolveRefused, evidence, results, Job
<1> QED
  BY <1>1, <1>2, <1>3 DEF FactIsClaimed, Sweeping, ResolveRefused, evidence

\* A collection ends.
LEMMA CollectedKeeps ==
  ASSUME IInv, NEW w \in Worker, Collected(w)
  PROVE  IInv'
<1> USE DEF IInv
<1>1. Kept' = Kept /\ Recorded' = Recorded /\ Numbered'
  BY KeptStays DEF Collected, evidence
<1>2. Sessions'
  BY RestSessions DEF Collected, evidence
<1>3. validate' \in [Key -> Job]
  BY DEF Collected, Enqueued, TypeOK, Job
<1>4. TypeOK'
  BY <1>1, <1>3, RestHolds DEF TypeOK, Collected, evidence, results, Job
<1> QED
  BY <1>1, <1>2, <1>4 DEF FactIsClaimed, Sweeping, Collected, evidence

\* A validation begins with the newest claim, which there is if there is a fact.
LEMMA ValidateKeeps ==
  ASSUME IInv, NEW w \in Worker, NEW k \in Key, Validate(w, k)
  PROVE  IInv'
<1> USE DEF IInv
<1> DEFINE o == Newest(claims)
<1>1. Kept' = Kept /\ Recorded' = Recorded /\ Numbered'
  BY KeptStays DEF Validate, evidence
<1>2. o \in claims
  <2>1. claims \in SUBSET Obs /\ claims # {}
    BY DEF Validate, FactIsClaimed, TypeOK
  <2> QED
    BY <2>1, NewestIsIn
<1>3. o \in 0..Recorded
  BY <1>2, RecordedIsLast DEF TypeOK, Kept
<1>4. Decided(fact, o) \in Verdict
  BY DecidedIsVerdict
<1>5. TypeOK'
  BY <1>1, <1>3, <1>4 DEF Validate, TypeOK, Load, evidence, results, Job
<1>6. Sessions'
  <2>1. Load(w, o) /\ pc' = [pc EXCEPT ![w] = "record"] /\ UNCHANGED <<fact, content, claims>>
    BY DEF Validate, evidence
  <2>2. fact # NoFact
    BY DEF Validate
  <2> HIDE DEF o
  <2>3. \A v \in Worker \ {w} : pc'[v] = pc[v]
    BY <2>1 DEF TypeOK
  <2> QED
    BY <1>2, <2>1, <2>2, <2>3, LoadSessions
<1> QED
  BY <1>1, <1>5, <1>6 DEF FactIsClaimed, Sweeping, Validate, evidence

\* The decision is written over the row as it is.
LEMMA RecordKeeps ==
  ASSUME IInv, NEW w \in Worker, Record(w)
  PROVE  IInv'
<1> USE DEF IInv
<1> DEFINE o == mine[w]
<1>1. Kept' = Kept /\ Recorded' = Recorded /\ Numbered'
  BY KeptStays DEF Record, evidence
<1>2. o \in claims /\ seen[w] \in Fact /\ fact \in Fact /\ fact.obs \in claims
  BY DEF Record, Sessions, TypeOK, FactIsClaimed
<1>3. Judged(seen[w], outcome[w]) \in Fact /\ Judged(seen[w], outcome[w]).obs = seen[w].obs
  BY <1>2, JudgedIsFact DEF TypeOK
<1>4. fact' \in Fact /\ fact'.obs = fact.obs /\ fact' # NoFact
  BY <1>2, <1>3, WrittenIsFact, NoFactAssumption DEF Record
<1>5. /\ result' \in [Obs -> Verdict \cup {"none"}]
      /\ latest' \in {0} \cup {p \in claims : result'[p] # "none"}
  <2>1. CASE result[o] = "none"
    <3>1. result' = [result EXCEPT ![o] = outcome[w]] /\ latest' = o
      BY <2>1 DEF Record
    <3>2. outcome[w] \in Verdict /\ outcome[w] # "none" /\ o \in Obs
      BY <1>2 DEF TypeOK, Verdict
    <3> QED
      BY <1>2, <3>1, <3>2 DEF TypeOK
  <2>2. CASE result[o] # "none"
    BY <2>2 DEF Record, results, TypeOK
  <2> QED
    BY <2>1, <2>2
<1>6. Sessions'
  BY <1>4, RestSessions DEF Record, evidence
<1>7. TypeOK'
  BY <1>1, <1>4, <1>5, RestHolds DEF TypeOK, Record, evidence, Job
<1> QED
  BY <1>1, <1>2, <1>4, <1>6, <1>7 DEF FactIsClaimed, Sweeping, Record, evidence

\* A job that dies leaves its claim unrecorded.
LEMMA DieKeeps ==
  ASSUME IInv, NEW w \in Worker, Die(w)
  PROVE  IInv'
<1> USE DEF IInv
<1>1. Rest(w) /\ UNCHANGED <<fact, evidence, results, sweep>>
  BY DEF Die
<1>2. Kept' = Kept /\ Recorded' = Recorded /\ Numbered'
  BY <1>1, KeptStays DEF evidence
<1>3. Sessions'
  BY <1>1, RestSessions DEF evidence
<1>4. collect' \in [Key -> Job] /\ validate' \in [Key -> Job]
  BY DEF Die, TypeOK, Job
<1>5. events' \in 0..MaxEvents
  BY BoundsAssumption DEF Die, TypeOK
<1>6. TypeOK'
  BY <1>1, <1>2, <1>4, <1>5, RestHolds DEF TypeOK, evidence, results
<1> QED
  BY <1>1, <1>2, <1>3, <1>6 DEF FactIsClaimed, Sweeping, evidence

\* The rows of dead workers are given back.
LEMMA RecoverKeeps ==
  ASSUME IInv, NEW k \in Key, Recover(k)
  PROVE  IInv'
<1> USE DEF IInv
<1>1. UNCHANGED <<fact, evidence, results, procs, sweep, events>>
  BY DEF Recover
<1>2. Kept' = Kept /\ Recorded' = Recorded /\ Numbered'
  BY <1>1, KeptStays DEF evidence
<1>3. collect' \in [Key -> Job] /\ validate' \in [Key -> Job]
  BY DEF Recover, TypeOK, Job
<1>4. TypeOK'
  BY <1>1, <1>2, <1>3 DEF TypeOK, evidence, results, procs
<1> QED
  BY <1>1, <1>2, <1>4 DEF FactIsClaimed, Sessions, Sweeping, evidence, procs

\* The sweep takes a copy of the fact and writes two columns of it.
LEMMA SweepKeeps ==
  ASSUME IInv, SweepFinds \/ SweepDemotes
  PROVE  IInv'
<1> USE DEF IInv
<1>1. Kept' = Kept /\ Recorded' = Recorded /\ Numbered'
  BY KeptStays DEF SweepFinds, SweepDemotes, evidence
<1>2. CASE SweepFinds
  <2>1. fact \in Fact
    BY <1>2 DEF SweepFinds, TypeOK
  <2>2. PICK s \in Resolution :
          sweep' = <<fact, [fact EXCEPT !.quality = "staged", !.state = s]>>
    BY <1>2, <2>1 DEF SweepFinds, Fact, Resolution
  <2>3. sweep' \in Fact \X Fact /\ sweep'[2].obs = sweep'[1].obs
    BY <2>1, <2>2 DEF Fact, Quality
  <2>4. TypeOK'
    BY <1>1, <1>2, <2>3 DEF TypeOK, SweepFinds, evidence, results, jobs, procs
  <2>5. Sessions'
    BY <1>1, <1>2 DEF Sessions, SweepFinds, evidence, procs
  <2> QED
    BY <1>1, <1>2, <2>3, <2>4, <2>5 DEF FactIsClaimed, Sweeping, SweepFinds, evidence
<1>3. CASE SweepDemotes
  <2>1. fact \in Fact /\ sweep \in Fact \X Fact /\ sweep[2].obs = sweep[1].obs
    BY <1>3 DEF SweepDemotes, TypeOK, Sweeping
  <2>2. fact' \in Fact /\ fact'.obs = fact.obs /\ fact' # NoFact
    BY <1>3, <2>1, WrittenIsFact, NoFactAssumption DEF SweepDemotes
  <2>3. TypeOK'
    BY <1>1, <1>3, <2>2 DEF TypeOK, SweepDemotes, evidence, results, jobs, procs
  <2>4. Sessions'
    BY <1>1, <1>3, <2>2 DEF Sessions, SweepDemotes, evidence, procs
  <2> QED
    BY <1>1, <1>3, <2>1, <2>2, <2>3, <2>4 DEF FactIsClaimed, Sweeping, SweepDemotes, evidence
<1> QED
  BY <1>2, <1>3

\* The scheduler and administrators ask and decide; time passes.
LEMMA OthersKeep ==
  ASSUME IInv, Schedule \/ Request \/ Decide \/ Expire
  PROVE  IInv'
<1> USE DEF IInv
<1>1. Kept' = Kept /\ Recorded' = Recorded /\ Numbered'
  BY KeptStays DEF Schedule, Request, Decide, Expire, evidence
<1>2. Recorded \in Nat /\ MaxEvents \in Nat
  BY RecordedIsLast, BoundsAssumption
<1>3. CASE Schedule \/ Request
  <2>1. collect' \in [Key -> Job] /\ events' \in 0..MaxEvents
    BY <1>2, <1>3 DEF Schedule, Request, Enqueued, TypeOK, Job, Key
  <2>2. TypeOK'
    BY <1>1, <1>3, <2>1 DEF TypeOK, Schedule, Request, evidence, results, procs
  <2>3. Sessions'
    BY <1>1, <1>3 DEF Sessions, Schedule, Request, evidence, procs
  <2> QED
    BY <1>1, <1>3, <2>2, <2>3 DEF FactIsClaimed, Sweeping, Schedule, Request, evidence
<1>4. CASE Decide
  <2>1. fact \in Fact
    BY <1>4 DEF Decide, TypeOK
  <2>2. PICK d \in Quality : fact' = [fact EXCEPT !.quality = d]
    BY <1>4, BoundsAssumption DEF Decide, Quality
  <2>3. fact' \in Fact /\ fact'.obs = fact.obs /\ fact' # NoFact
    BY <2>1, <2>2, NoFactAssumption DEF Fact
  <2>4. TypeOK'
    BY <1>1, <1>2, <1>4, <2>3 DEF TypeOK, Decide, evidence, results, jobs, procs
  <2>5. Sessions'
    BY <1>1, <1>4, <2>3 DEF Sessions, Decide, evidence, procs
  <2> QED
    BY <1>1, <1>4, <2>1, <2>3, <2>4, <2>5 DEF FactIsClaimed, Sweeping, Decide, evidence
<1>5. CASE Expire
  <2>1. TypeOK'
    BY <1>1, <1>2, <1>5 DEF TypeOK, Expire, results, jobs, procs
  <2>2. Sessions'
    BY <1>1, <1>5 DEF Sessions, Expire, procs
  <2> QED
    BY <1>1, <1>5, <2>1, <2>2 DEF FactIsClaimed, Sweeping, Expire
<1> QED
  BY <1>3, <1>4, <1>5

\* Every step keeps the invariant.
LEMMA NextKeeps == IInv /\ [Next]_vars => IInv'
<1> SUFFICES ASSUME IInv, [Next]_vars PROVE IInv'
  OBVIOUS
<1>1. CASE UNCHANGED vars
  <2>1. Kept' = Kept /\ Recorded' = Recorded /\ Numbered'
    BY <1>1, KeptStays DEF IInv, vars, evidence
  <2> QED
    BY <1>1, <2>1 DEF IInv, TypeOK, FactIsClaimed, Sessions, Sweeping,
                      vars, evidence, results, jobs, procs
<1>2. ASSUME NEW w \in Worker, NEW k \in Key, Collect(w, k) \/ Validate(w, k)
      PROVE  IInv'
  BY <1>2, CollectKeeps, ValidateKeeps
<1>3. ASSUME NEW w \in Worker,
             \/ InspectInVain(w) \/ InspectUnchanged(w) \/ InspectChanged(w)
             \/ Resolve(w) \/ ResolveRefused(w) \/ Collected(w) \/ Record(w) \/ Die(w)
      PROVE  IInv'
  BY <1>3, InspectInVainKeeps, InspectUnchangedKeeps, InspectChangedKeeps, ResolveKeeps,
     ResolveRefusedKeeps, CollectedKeeps, RecordKeeps, DieKeeps
<1>4. CASE Schedule \/ SweepFinds \/ SweepDemotes \/ Request \/ Decide \/ Expire
  BY <1>4, SweepKeeps, OthersKeep
<1>5. ASSUME NEW k \in Key, Recover(k)
      PROVE  IInv'
  BY <1>5, RecoverKeeps
<1> QED
  BY <1>1, <1>2, <1>3, <1>4, <1>5 DEF Next

(***************************************************************************)
(* Who validates what would pass                                           *)
(***************************************************************************)

\* A fact that rests on evidence that passes and that nobody is to validate.
Left == Publishable /\ ~Owed

\* What is decided of a claim depends on the fact, on the claims and their contents, and
\* time only turns it against the claim.
LEMMA PublishableBefore ==
  ASSUME IInv, Publishable', UNCHANGED <<fact, claims>>, expired' \in Nat, expired <= expired',
         \A o \in claims : content'[o] = content[o] /\ aged'[o] = aged[o]
  PROVE  Publishable
<1>1. PICK o \in claims : o = Newest(claims)
  <2>1. claims \in SUBSET Obs /\ claims # {}
    BY DEF IInv, TypeOK, FactIsClaimed, Publishable
  <2> QED
    BY <2>1, NewestIsIn
<1>2. o \in Nat /\ expired \in Nat
  <2>1. Recorded \in Nat
    BY RecordedIsLast DEF IInv
  <2> QED
    BY <2>1 DEF IInv, TypeOK, Obs
<1>3. Newest(claims)' = o
  BY <1>1 DEF Newest
<1>4. (Decided(fact, o) = "passed")'
  BY <1>3 DEF Publishable
<1>5. \A c \in claims : ValueOf(c)' = ValueOf(c)
  BY DEF ValueOf
<1>6. Disputed(o, claims) => Disputed(o, claims)'
  BY <1>1, <1>5 DEF Disputed
<1>7. Decided(fact, o) = "passed"
  BY <1>1, <1>2, <1>4, <1>5, <1>6 DEF Decided
<1> QED
  BY <1>1, <1>7 DEF Publishable

\* The steps after which the property leaves such a fact to the scheduler.
Excused ==
    \/ \E w \in Worker : pc[w] = "record" /\ pc'[w] = "idle" /\ seen[w] # fact
    \/ \E w \in Worker :
          pc[w] \in {"collected", "record"} /\ pc'[w] = "idle" /\ events' # events
    \/ \E k \in Key : ValidationStranded(k)
    \/ sweep # NoSweep /\ sweep' = NoSweep

\* Workers that were to validate it still are, unless one leaves the place it was at.
LEMMA OwedStays ==
  ASSUME Owed, UNCHANGED validate,
         \A w \in Worker : pc[w] \in {"collected", "record"} => pc'[w] = pc[w]
  PROVE  Owed'
  BY DEF Owed

\* A worker that collects leaves nothing behind before its validation is enqueued.
LEMMA CollectingLeavesNothing ==
  ASSUME IInv, NEW w \in Worker, Left',
         \/ \E k \in Key : Collect(w, k)
         \/ InspectInVain(w) \/ InspectUnchanged(w) \/ InspectChanged(w)
         \/ Resolve(w) \/ ResolveRefused(w)
  PROVE  Left
<1> USE DEF IInv
<1>1. expired \in Nat
  BY RecordedIsLast DEF TypeOK
<1>2. CASE Resolve(w)
  <2>1. pc'[w] = "collected"
    BY <1>2 DEF Resolve, TypeOK
  <2> QED
    BY <2>1 DEF Left, Owed
<1>3. CASE InspectChanged(w)
  <2> DEFINE o == Recorded + 1
  <2>1. PICK c \in Telling : content' = [content EXCEPT ![o] = c] /\ aged' = [aged EXCEPT ![o] = expired]
    BY <1>3 DEF InspectChanged
  <2>2. o \notin claims /\ claims \subseteq Obs
    BY RecordedIsLast DEF TypeOK, Kept
  <2> HIDE DEF o
  <2>3. \A p \in claims : content'[p] = content[p] /\ aged'[p] = aged[p]
    BY <2>1, <2>2 DEF TypeOK
  <2>4. UNCHANGED <<fact, claims, expired, validate>>
    BY <1>3 DEF InspectChanged, jobs
  <2>5. Publishable
    BY <1>1, <2>3, <2>4, PublishableBefore DEF Left
  <2>6. \A v \in Worker : pc[v] \in {"collected", "record"} => pc'[v] = pc[v]
    BY <1>3 DEF InspectChanged, TypeOK
  <2> QED
    BY <2>4, <2>5, <2>6, OwedStays DEF Left
<1>4. CASE \/ \E k \in Key : Collect(w, k)
           \/ InspectInVain(w) \/ InspectUnchanged(w) \/ ResolveRefused(w)
  <2>1. UNCHANGED <<fact, content, aged, claims, expired, validate>>
    BY <1>4 DEF Collect, InspectInVain, InspectUnchanged, ResolveRefused, evidence, jobs
  <2>2. Publishable
    BY <1>1, <2>1, PublishableBefore DEF Left
  <2>3. \A v \in Worker : pc[v] \in {"collected", "record"} => pc'[v] = pc[v]
    BY <1>4 DEF Collect, InspectInVain, InspectUnchanged, ResolveRefused, Rest, TypeOK
  <2> QED
    BY <2>1, <2>2, <2>3, OwedStays DEF Left
<1> QED
  BY <1>2, <1>3, <1>4

\* A collection that ends enqueues the validation, or finds one that runs or is stranded.
LEMMA CollectedLeavesNothing ==
  ASSUME IInv, NEW w \in Worker, Collected(w), Left'
  PROVE  Excused
<1>1. key[w] \in Key /\ validate[key[w]] \in Job
  BY DEF IInv, TypeOK
<1>2. validate' = Enqueued(validate, key[w]) /\ pc[w] = "collected" /\ Rest(w)
  BY DEF Collected
<1>3. CASE validate[key[w]] # "running"
  <2>1. validate'[key[w]] = "queued"
    BY <1>1, <1>2, <1>3 DEF Enqueued, Job, IInv, TypeOK
  <2> QED
    BY <1>1, <2>1 DEF Left, Owed
<1>4. CASE validate[key[w]] = "running" /\ ~ValidationStranded(key[w])
  <2>1. PICK v \in Worker : pc[v] = "record"
    BY <1>4 DEF ValidationStranded
  <2>2. pc'[v] = "record"
    BY <1>2, <2>1 DEF Rest, IInv, TypeOK
  <2> QED
    BY <2>2 DEF Left, Owed
<1> QED
  BY <1>1, <1>3, <1>4 DEF Excused

\* A validation that ends leaves its fact staged only for a reason that validating it
\* again would find too.
LEMMA RecordLeavesNothing ==
  ASSUME IInv, NEW w \in Worker, Record(w), Left'
  PROVE  Excused
<1>1. pc[w] = "record" /\ pc'[w] = "idle"
  BY DEF Record, Rest, IInv, TypeOK
<1>2. CASE seen[w] # fact
  BY <1>1, <1>2 DEF Excused
<1>3. CASE seen[w] = fact
  <2>1. fact \in Fact /\ outcome[w] \in Verdict
    BY <1>1, <1>3 DEF IInv, TypeOK, Sessions
  <2> DEFINE new == Judged(fact, outcome[w])
  <2>2. new \in Fact
    BY <2>1, JudgedIsFact
  <2>3. fact' = Written(fact, fact, new)
    BY <1>3 DEF Record
  <2>4. fact'.quality = new.quality /\ fact'.state = new.state
    BY <2>1, <2>2, <2>3 DEF Written, Fact
  <2>5. ~(new.quality = "staged" /\ new.state = "confirmed")
    BY <2>1 DEF Judged, Fact, Verdict
  <2> QED
    BY <2>4, <2>5 DEF Left, Publishable
<1> QED
  BY <1>2, <1>3

\* The scheduler, administrators and time leave nothing behind: what an administrator
\* decides is not staged any more.
LEMMA OthersLeaveNothing ==
  ASSUME IInv, Left', Schedule \/ Request \/ Decide \/ Expire \/ SweepFinds
  PROVE  Left
<1> USE DEF IInv
<1>1. expired \in Nat /\ expired' \in Nat /\ expired <= expired'
  BY RecordedIsLast DEF TypeOK, Schedule, Request, Decide, Expire, SweepFinds, evidence
<1>2. CASE Decide
  <2>1. fact'.quality # "staged"
    BY <1>2, BoundsAssumption DEF Decide, TypeOK, Fact
  <2> QED
    BY <2>1 DEF Left, Publishable
<1>3. CASE Schedule \/ Request \/ Expire \/ SweepFinds
  <2>1. UNCHANGED <<fact, content, aged, claims, validate, pc>>
    BY <1>3 DEF Schedule, Request, Expire, SweepFinds, evidence, jobs, procs
  <2> QED
    BY <1>1, <2>1, PublishableBefore, OwedStays DEF Left
<1> QED
  BY <1>2, <1>3

\* No step leaves such a fact behind but those.
LEMMA StepLeavesNothing ==
  ASSUME IInv, [Next]_vars, Left'
  PROVE  Left \/ Excused
<1>1. CASE UNCHANGED vars
  <2>1. UNCHANGED <<fact, content, aged, claims, expired, validate, pc>>
    BY <1>1 DEF vars, evidence, jobs, procs
  <2>2. expired \in Nat
    BY RecordedIsLast DEF IInv, TypeOK
  <2> QED
    BY <2>1, <2>2, PublishableBefore, OwedStays DEF Left
<1>2. ASSUME NEW w \in Worker, NEW k \in Key, Collect(w, k) \/ Validate(w, k)
      PROVE  Left
  <2>1. CASE Validate(w, k)
    <3>1. pc'[w] = "record"
      BY <2>1 DEF Validate, IInv, TypeOK
    <3> QED
      BY <3>1 DEF Left, Owed
  <2> QED
    BY <1>2, <2>1, CollectingLeavesNothing
<1>3. ASSUME NEW k \in Key, Recover(k)
      PROVE  Left \/ Excused
  <2>1. CASE ValidationStranded(k)
    BY <2>1 DEF Excused
  <2>2. CASE ~ValidationStranded(k)
    <3>1. UNCHANGED <<fact, content, aged, claims, expired, validate, pc>>
      BY <1>3, <2>2 DEF Recover, evidence, procs
    <3>2. expired \in Nat
      BY RecordedIsLast DEF IInv, TypeOK
    <3> QED
      BY <3>1, <3>2, PublishableBefore, OwedStays DEF Left
  <2> QED
    BY <2>1, <2>2
<1>4. ASSUME NEW w \in Worker, Die(w)
      PROVE  Left \/ Excused
  <2>1. events' # events /\ pc'[w] = "idle"
    BY <1>4, BoundsAssumption DEF Die, Rest, IInv, TypeOK
  <2>2. CASE pc[w] \in {"collected", "record"}
    BY <2>1, <2>2 DEF Excused
  <2>3. CASE pc[w] \notin {"collected", "record"}
    <3>1. UNCHANGED <<fact, content, aged, claims, expired, validate>>
      BY <1>4, <2>3 DEF Die, evidence
    <3>2. expired \in Nat
      BY RecordedIsLast DEF IInv, TypeOK
    <3>3. \A v \in Worker : pc[v] \in {"collected", "record"} => pc'[v] = pc[v]
      BY <1>4, <2>3 DEF Die, Rest, IInv, TypeOK
    <3> QED
      BY <3>1, <3>2, <3>3, PublishableBefore, OwedStays DEF Left
  <2> QED
    BY <2>2, <2>3
<1>5. ASSUME NEW w \in Worker,
             \/ InspectInVain(w) \/ InspectUnchanged(w) \/ InspectChanged(w)
             \/ Resolve(w) \/ ResolveRefused(w) \/ Collected(w) \/ Record(w)
      PROVE  Left \/ Excused
  BY <1>5, CollectingLeavesNothing, CollectedLeavesNothing, RecordLeavesNothing
<1>6. CASE SweepDemotes
  BY <1>6 DEF SweepDemotes, Excused
<1>7. CASE Schedule \/ Request \/ Decide \/ Expire \/ SweepFinds
  BY <1>7, OthersLeaveNothing
<1> QED
  BY <1>1, <1>2, <1>3, <1>4, <1>5, <1>6, <1>7 DEF Next

(***************************************************************************)
(* The theorems                                                            *)
(***************************************************************************)

\* The variables keep their types.
THEOREM TypeCorrect == Spec => []TypeOK
<1>1. IInv => TypeOK
  BY DEF IInv
<1> QED
  BY <1>1, InitHolds, NextKeeps, PTL DEF Spec

\* A fact rests on an observation that a claim is recorded for: what an inspection
\* recorded in a transaction that was rolled back supports nothing.
THEOREM FactIsClaimedHolds == Spec => []FactIsClaimed
<1>1. IInv => FactIsClaimed
  BY DEF IInv
<1> QED
  BY <1>1, InitHolds, NextKeeps, PTL DEF Spec

\* A fact that would pass its validation is not left staged with nobody to validate it,
\* unless its validator had loaded another fact, a worker has died, a row that says
\* RUNNING absorbs the validation, or the sweep has demoted it.
THEOREM PublishableIsOwedHolds == Spec => PublishableIsOwed
<1>1. IInv /\ [Next]_vars =>
        [(Publishable /\ ~Owed)' => (Publishable /\ ~Owed) \/ Excused]_vars
  BY StepLeavesNothing DEF Left
<1>2. IInv /\ [Next]_vars =>
        [(Publishable /\ ~Owed)' =>
          \/ Publishable /\ ~Owed
          \/ \E w \in Worker : pc[w] = "record" /\ pc'[w] = "idle" /\ seen[w] # fact
          \/ \E w \in Worker :
                pc[w] \in {"collected", "record"} /\ pc'[w] = "idle" /\ events' # events
          \/ \E k \in Key : ValidationStranded(k)
          \/ sweep # NoSweep /\ sweep' = NoSweep]_vars
  BY <1>1 DEF Excused
<1> QED
  BY <1>2, InitHolds, NextKeeps, PTL DEF Spec, PublishableIsOwed
=============================================================================
