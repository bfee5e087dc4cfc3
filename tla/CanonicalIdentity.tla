------------------------- MODULE CanonicalIdentity -------------------------
(***************************************************************************)
(* How a provider's listing finds its canonical business                   *)
(* (canonical/repository.py, _find_business and _upsert_business): by the  *)
(* provider's own id, then by domain and phone, then by name and place.    *)
(* These are operators on a table of businesses; a module that runs them   *)
(* decides when the table is read and when the row is written.             *)
(***************************************************************************)
EXTENDS Integers, FiniteSets

CONSTANTS
    Listing,       \* a provider's listings, each with an external id of its own
    Unset,         \* an attribute that a listing or a business does not carry
    Alike,         \* pairs of different names that count as compatible
    Profile,       \* Profile[l]: the attributes a listing carries
    MaxBusinesses  \* bound: rows of businesses

Attribute == {"name", "domain", "phone", "place", "area"}

ASSUME ListingsAssumption ==
    /\ MaxBusinesses \in Nat
    /\ DOMAIN Profile = Listing
    /\ \A l \in Listing : DOMAIN Profile[l] = Attribute

BusinessId == 1..MaxBusinesses

\* A row no INSERT has filled: nothing is known of it and nobody observed it.
NoBusiness == [known |-> [a \in Attribute |-> Unset], observed |-> {}]

Value == {Unset} \cup {Profile[l][a] : l \in Listing, a \in Attribute}
BusinessRow == [known : [Attribute -> Value], observed : SUBSET Listing]

Exists(books, b) == books[b].observed # {}
Filed(books) == {b \in BusinessId : Exists(books, b)}

\* An attribute both sides carry, with one value.
Shares(books, b, l, a) ==
    /\ Profile[l][a] # Unset
    /\ books[b].known[a] = Profile[l][a]

Compatible(books, b, l) ==
    LET names == {Profile[l]["name"], books[b].known["name"]}
    IN  Unset \in names \/ Cardinality(names) = 1 \/ names \in Alike

\* The observations of the listing's provider and external id.
Observers(books, l) == {b \in BusinessId : l \in books[b].observed}

Identified(books, l) ==
    {b \in Filed(books) : Shares(books, b, l, "domain") \/ Shares(books, b, l, "phone")}
Strong(books, l) == {b \in Identified(books, l) : Compatible(books, b, l)}
Namesakes(books, l) == {b \in Filed(books) : Shares(books, b, l, "name")}
Located(books, l) == {b \in Namesakes(books, l) : Shares(books, b, l, "place")}
Nearby(books, l) == {b \in Namesakes(books, l) : Shares(books, b, l, "area")}

\* What a search can return: the business, 0 for a new one, and whether the
\* identity is in conflict with other businesses.
Resolution == [business : BusinessId \cup {0}, conflict : BOOLEAN]
Match(b) == [business |-> b, conflict |-> FALSE]
Create(conflict) == [business |-> 0, conflict |-> conflict]

\* (mutant) The provider's own id is not looked up first.
MutFindBusiness(books, l) ==
    LET strong == Strong(books, l)
    IN  IF Cardinality(strong) = 1 THEN {Match(b) : b \in strong}
        ELSE {Create(strong # {} \/ Namesakes(books, l) # {})}

\* _find_business.  The age of a row is not kept: where the code takes the latest
\* observer of a listing or the oldest namesake of an area, any of them may be it.
FindBusiness(books, l) ==
    LET strong == Strong(books, l)
        located == Located(books, l)
        incompatible == (Identified(books, l) \ strong) \cup Namesakes(books, l)
    IN  IF Observers(books, l) # {} THEN {Match(b) : b \in Observers(books, l)}
        ELSE IF Cardinality(strong) = 1 THEN {Match(b) : b \in strong}
        ELSE IF strong # {} THEN {Create(TRUE)}
        ELSE IF Cardinality(located) = 1 THEN {Match(b) : b \in located}
        ELSE IF located # {} THEN {Create(TRUE)}
        ELSE IF Nearby(books, l) # {} THEN {Match(b) : b \in Nearby(books, l)}
        ELSE {Create(incompatible # {})}

\* _upsert_business on the row b, which keeps what it has and fills what it lacks,
\* with the observation recorded next to it.
Upsert(books, b, l) ==
    [books EXCEPT ![b] =
        [known |-> [a \in Attribute |->
                      IF books[b].known[a] = Unset THEN Profile[l][a] ELSE books[b].known[a]],
         observed |-> books[b].observed \cup {l}]]

\* The unique index on (normalized_name, domain), which binds only rows that have
\* a domain: a second row with both is refused.
Refused(books, l) ==
    \E b \in Filed(books) : Shares(books, b, l, "domain") /\ Shares(books, b, l, "name")

FreeRow(books) == CHOOSE b \in BusinessId : ~Exists(books, b)
Full(books) == Filed(books) = BusinessId
=============================================================================
