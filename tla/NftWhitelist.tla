---------------------------- MODULE NftWhitelist -----------------------------
(***************************************************************************)
(* The whitelist of the collections (backend/src/lib/store.ts).  An entry  *)
(* is a wallet address with an X handle; it is submitted by the wizard,    *)
(* reviewed by an administrator, approved by a list of handles that the    *)
(* administrator hands in, or made by whoever proves to own a handle of    *)
(* that list.  The address is unique in the database, the handle is not:   *)
(* what keeps handles apart is a read some statements before the write.    *)
(***************************************************************************)
EXTENDS Integers, FiniteSets

CONSTANTS
  Addresses,    \* wallet addresses
  Handles,      \* X handles
  Holders,      \* wallets that prove a handle
  Applications  \* requests of the routes, each used once

ASSUME HandlesAssumption == Handles # {}

VARIABLES
  entry,        \* database: the entry of each address
  preapproved,  \* database: the tier of each handle on the standing list
  application,  \* memory: the requests
  standing,     \* history: addresses approved and not rejected since
  raced         \* history: addresses and handles written from a stale read, or
                \* whose listing was broken off

whitelistVars == <<entry, preapproved, application, standing, raced>>

Tiers == {"APROBBED", "COLAB"}
Entry == [status : {"ABSENT", "PENDING", "APPROVED", "REJECTED"}, handle : Handles,
          tier : Tiers, holder : Holders \cup {"nobody"}]
Application == [at : {"idle", "handle", "list", "write", "find", "approve", "listed",
                      "address", "create", "rebind", "over"},
                address : Addresses \cup {"none"}, handle : Handles \cup {"none"},
                holder : Holders \cup {"nobody"}, tier : Tiers \cup {"none"},
                approved : BOOLEAN, stale : BOOLEAN]

WhitelistTypeOK ==
  /\ entry \in [Addresses -> Entry]
  /\ preapproved \in [Handles -> Tiers \cup {"none"}]
  /\ application \in [Applications -> Application]
  /\ standing \subseteq Addresses /\ raced \subseteq Addresses \cup Handles

NoApplication == [at |-> "idle", address |-> "none", handle |-> "none", holder |-> "nobody",
                  tier |-> "none", approved |-> FALSE, stale |-> FALSE]
EndedApplication == [NoApplication EXCEPT !.at = "over"]

WhitelistInit ==
  /\ entry = [a \in Addresses |-> [status |-> "ABSENT", handle |-> CHOOSE h \in Handles : TRUE,
                                   tier |-> "APROBBED", holder |-> "nobody"]]
  /\ preapproved = [h \in Handles |-> "none"]
  /\ application = [q \in Applications |-> NoApplication]
  /\ standing = {} /\ raced = {}

-----------------------------------------------------------------------------
Present(a) == entry[a].status # "ABSENT"
EntriesOf(h) == {a \in Addresses : Present(a) /\ entry[a].handle = h}

\* History: a write of an address or a handle makes stale what others have read.
Ended(q, touched) == [r \in Applications |->
  IF r = q THEN EndedApplication
  ELSE [application[r] EXCEPT !.stale =
          @ \/ application[r].address \in touched \/ application[r].handle \in touched]]

\* A request writes the entry of an address.
WriteEntry(q, a, new) ==
  /\ entry' = [entry EXCEPT ![a] = new]
  /\ application' = Ended(q, {a, new.handle}
                             \cup (IF Present(a) THEN {entry[a].handle} ELSE {}))
  /\ standing' = IF new.status = "APPROVED" THEN standing \cup {a} ELSE standing
  /\ raced' = IF application[q].stale THEN raced \cup {a, new.handle} ELSE raced
  /\ preapproved' = preapproved

Proceed(q, new) ==
  /\ application' = [application EXCEPT ![q] = new]
  /\ UNCHANGED <<entry, preapproved, standing, raced>>
Refuse(q) == Proceed(q, EndedApplication)
To(q, at) == [application[q] EXCEPT !.at = at]

\* Mutant: an approved entry is submitted again like any other.
SubmitAgain(q, a, h) ==
  /\ application[q].at = "idle"
  /\ Proceed(q, [To(q, "handle") EXCEPT !.address = a, !.handle = h])

\* submitNftWhitelistEntry: an approved entry is left alone, ...
Submit(q, a, h) ==
  /\ application[q].at = "idle"
  /\ IF entry[a].status = "APPROVED" THEN Refuse(q)
     ELSE Proceed(q, [To(q, "handle") EXCEPT !.address = a, !.handle = h])

\* ... a handle of another address is refused, ...
CheckHandle(q) ==
  /\ application[q].at = "handle"
  /\ IF EntriesOf(application[q].handle) \subseteq {application[q].address}
     THEN Proceed(q, To(q, "list")) ELSE Refuse(q)

\* ... the list is read, ...
ReadList(q) ==
  /\ application[q].at = "list"
  /\ Proceed(q, [To(q, "write") EXCEPT !.tier = preapproved[application[q].handle]])

\* ... and the row is written, whatever it says by now.
UpsertEntry(q) ==
  LET r == application[q]
      old == entry[r.address] IN
  /\ r.at = "write"
  /\ WriteEntry(q, r.address,
       IF r.tier = "none" THEN [old EXCEPT !.status = "PENDING", !.handle = r.handle]
       ELSE [old EXCEPT !.status = "APPROVED", !.handle = r.handle, !.tier = r.tier])

\* preapproveNftWhitelistHandles, for one handle: it goes on the list, ...
ListHandle(q, h, tier) ==
  /\ application[q].at = "idle"
  /\ preapproved' = [preapproved EXCEPT ![h] = tier]
  /\ application' = [Ended(q, {h}) EXCEPT ![q] = [To(q, "find") EXCEPT !.handle = h, !.tier = tier]]
  /\ UNCHANGED <<entry, standing, raced>>

\* ... its entry is looked for, ...
FindEntry(q, a) ==
  /\ application[q].at = "find" /\ a \in EntriesOf(application[q].handle)
  /\ Proceed(q, [To(q, "approve") EXCEPT !.address = a,
                                         !.approved = (entry[a].status = "APPROVED")])
FindNoEntry(q) ==
  application[q].at = "find" /\ EntriesOf(application[q].handle) = {} /\ Refuse(q)

\* ... and approved, or given the tier if it was approved when it was found.
ApproveEntry(q) ==
  LET r == application[q] IN
  /\ r.at = "approve"
  /\ WriteEntry(q, r.address,
       [entry[r.address] EXCEPT !.tier = r.tier, !.status = IF r.approved THEN @ ELSE "APPROVED"])

\* claimNftWhitelistByVerifiedHandle: an approved entry of the handle is bound to
\* the wallet, another one is left to the administrator.
ClaimByHandle(q, w, h) ==
  /\ application[q].at = "idle"
  /\ \/ /\ EntriesOf(h) = {}
        /\ Proceed(q, [To(q, "listed") EXCEPT !.handle = h, !.holder = w])
     \/ \E a \in EntriesOf(h) :
          IF entry[a].status = "APPROVED"
          THEN Proceed(q, [To(q, "rebind") EXCEPT !.address = a, !.handle = h, !.holder = w])
          ELSE Refuse(q)

Rebind(q) ==
  LET r == application[q] IN
  /\ r.at = "rebind"
  /\ WriteEntry(q, r.address, [entry[r.address] EXCEPT !.holder = r.holder])

\* No entry: the handle must be on the list and the address free.
ClaimListed(q) ==
  /\ application[q].at = "listed"
  /\ IF preapproved[application[q].handle] # "none" THEN Proceed(q, To(q, "address")) ELSE Refuse(q)

ClaimWithAddress(q, a) ==
  /\ application[q].at = "address"
  /\ IF Present(a) THEN Refuse(q) ELSE Proceed(q, [To(q, "create") EXCEPT !.address = a])

\* The address is unique: the insertion throws if it was taken meanwhile.  The
\* tier is the column's default, not the list's.
CreateEntry(q) ==
  LET r == application[q] IN
  /\ r.at = "create"
  /\ IF Present(r.address) THEN Refuse(q)
     ELSE WriteEntry(q, r.address, [status |-> "APPROVED", handle |-> r.handle,
                                    tier |-> "APROBBED", holder |-> r.holder])

\* reviewNftWhitelistEntry
ReviewEntry(a, status) ==
  /\ Present(a)
  /\ entry' = [entry EXCEPT ![a].status = status]
  /\ application' = [q \in Applications |->
       [application[q] EXCEPT !.stale = @ \/ application[q].address = a
                                          \/ application[q].handle = entry[a].handle]]
  /\ standing' = IF status = "APPROVED" THEN standing \cup {a} ELSE standing \ {a}
  /\ UNCHANGED <<preapproved, raced>>

\* resetNftWhitelistClaims, on the entries that minted something for free.
ResetClaims(S) ==
  /\ entry' = [a \in Addresses |-> IF a \in S THEN [entry[a] EXCEPT !.holder = "nobody"] ELSE entry[a]]
  /\ UNCHANGED <<preapproved, application, standing, raced>>

\* A statement throws, or the backend stops: the rest of the request is lost.
BreakOff(q) ==
  /\ application[q].at \notin {"idle", "over"}
  /\ application' = [application EXCEPT ![q] = EndedApplication]
  /\ raced' = IF application[q].at \in {"find", "approve"}
              THEN raced \cup {application[q].handle} ELSE raced
  /\ UNCHANGED <<entry, preapproved, standing>>

WhitelistNext ==
  \/ \E q \in Applications :
       \/ CheckHandle(q) \/ ReadList(q) \/ UpsertEntry(q)
       \/ FindNoEntry(q) \/ ApproveEntry(q)
       \/ Rebind(q) \/ ClaimListed(q) \/ CreateEntry(q) \/ BreakOff(q)
       \/ \E a \in Addresses : FindEntry(q, a) \/ ClaimWithAddress(q, a)
       \/ \E h \in Handles :
            \/ \E a \in Addresses : Submit(q, a, h)
            \/ \E tier \in Tiers : ListHandle(q, h, tier)
            \/ \E w \in Holders : ClaimByHandle(q, w, h)
  \/ \E a \in Addresses, status \in {"APPROVED", "REJECTED"} : ReviewEntry(a, status)
  \/ \E S \in SUBSET {a \in Addresses : entry[a].holder # "nobody"} : ResetClaims(S)

WhitelistSpec == WhitelistInit /\ [][WhitelistNext]_whitelistVars

-----------------------------------------------------------------------------
(* Property.                                                               *)

ListingOf(h) == \E q \in Applications :
  application[q].handle = h /\ application[q].at \in {"find", "approve"}

\* Unless one of its writes followed from a stale read (nothing is done in a
\* transaction), the whitelist is what its routes say: an approval is only ever
\* taken back by a review, a handle has one entry, and the entry of a handle on
\* the list is never left pending and is approved with the tier of the list, or
\* with the default one (which a verified handle gives itself, whatever the list
\* says).
WhitelistTold == \A a \in Addresses :
  LET h == entry[a].handle IN
  Present(a) /\ {a, h} \cap raced = {} =>
    /\ a \in standing <=> entry[a].status = "APPROVED"
    /\ \A b \in EntriesOf(h) : b \notin raced => b = a
    /\ preapproved[h] # "none" /\ ~ListingOf(h) =>
         /\ entry[a].status # "PENDING"
         /\ entry[a].status = "APPROVED" => entry[a].tier \in {preapproved[h], "APROBBED"}
=============================================================================
