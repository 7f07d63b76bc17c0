----------------------------- MODULE MarketPage ------------------------------
(***************************************************************************)
(* The market of the collection: nft/page.tsx.  Its list of pieces follows *)
(* a filter; pieces that are for sale can be selected and bought together  *)
(* in a dialog, which makes one purchase per piece, all at once, and       *)
(* watches each of them; the forge turns pieces into a better one.         *)
(*                                                                         *)
(* A fetch of the list is not cancelled when the filter changes, so that   *)
(* an answer may come after that of a later one, and the pieces of the     *)
(* dialog are those selected in the list as it is now.  Left out: sorting, *)
(* the number of the page, activity, analytics, how many pieces a craft    *)
(* burns.                                                                  *)
(***************************************************************************)
EXTENDS Integers, FiniteSets, Sequences

CONSTANTS
  Pieces,        \* pieces of the collection, all of other owners at first
  Filters,       \* filters of the list: "all", "listed", "owned"
  MaxPurchases,  \* bound: purchases the backend makes
  MaxFetches,    \* bound: changes of the filter, refreshes
  MaxCrafts      \* bound: crafts asked for

ASSUME PagePiecesAssumption == IsFiniteSet(Pieces)
ASSUME FirstFilterAssumption == "listed" \in Filters
ASSUME PageBoundsAssumption == {MaxPurchases, MaxFetches, MaxCrafts} \subseteq Nat

VARIABLES
  state,      \* database: [Pieces -> "unlisted", "listed", "reserved", "own"]
  bought,     \* database: purchases made, [piece, status]
  filter,     \* the filter chosen
  lists,      \* answers to fetches on their way: sets of pieces, with their states
  shown,      \* the list on the page: a function of some pieces
  selected,   \* the pieces ticked
  dialog,     \* whether the dialog is open
  rows,       \* its rows: [phase, purchase]
  orders,     \* the backend's answers to the dialog: <<piece, purchase>>
  strays,     \* pieces a dialog asked for before it went away
  replaced,   \* history: whether the list was replaced under the dialog
  verdicts,   \* answers to its polls on their way: <<piece, status>>
  fetches,    \* counted for MaxFetches
  refetches,  \* queries for the collection on their way
  forge       \* the forge: its button, its message, how far the craft came

databaseVars == <<state, bought>>
listVars == <<filter, lists, shown, selected, fetches, refetches>>
dialogVars == <<dialog, rows, orders, strays, replaced, verdicts>>
marketPageVars == <<databaseVars, listVars, dialogVars, forge>>

Standings == {"unlisted", "listed", "reserved", "own"}
PurchaseIds == 1 .. MaxPurchases
NoId == 0
EmptyRow == [phase |-> "none", purchase |-> NoId]
EmptyRows == [p \in Pieces |-> EmptyRow]
Nothing == [p \in {} |-> "listed"]

\* What a query with filter f answers: pieces with the state they are in.
Answer(f) ==
  [p \in {q \in Pieces : \/ f = "all"
                         \/ f = "listed" /\ state[q] \in {"listed", "reserved"}
                         \/ f = "owned" /\ state[q] = "own"} |-> state[p]]

Lists == UNION {[S -> Standings] : S \in SUBSET Pieces}

MarketPageTypeOK ==
  /\ state \in [Pieces -> Standings]
  /\ \A n \in DOMAIN bought :
       bought[n] \in [piece : Pieces, status : {"pending", "done", "failed"}]
  /\ DOMAIN bought \in {1 .. n : n \in 0 .. MaxPurchases}
  /\ filter \in Filters
  /\ lists \subseteq Lists /\ shown \in Lists
  /\ selected \subseteq Pieces /\ dialog \in BOOLEAN
  /\ rows \in [Pieces -> [phase : {"none", "creating", "waiting", "filled", "failed"},
                          purchase : PurchaseIds \cup {NoId}]]
  /\ orders \subseteq Pieces \X (PurchaseIds \cup {NoId})
  /\ strays \subseteq Pieces /\ replaced \in BOOLEAN
  /\ verdicts \subseteq Pieces \X {"pending", "done", "failed"}
  /\ fetches \in 0 .. MaxFetches /\ refetches \in 0 .. fetches
  /\ forge \in [crafting : BOOLEAN, message : {"none", "ok", "error"},
                at : {"none", "asked", "made", "refused"}, crafts : 0 .. MaxCrafts,
                made : BOOLEAN]

MarketPageInit ==
  /\ state = [p \in Pieces |-> "listed"] /\ bought = << >>
  /\ filter = "listed" /\ lists = {Answer("listed")} /\ shown = Nothing
  /\ selected = {} /\ dialog = FALSE
  /\ rows = EmptyRows /\ orders = {} /\ verdicts = {} /\ fetches = 0
  /\ strays = {} /\ replaced = FALSE /\ refetches = 0
  /\ forge = [crafting |-> FALSE, message |-> "none", at |-> "none", crafts |-> 0, made |-> FALSE]

-----------------------------------------------------------------------------
\* The list.

\* The effect of the list: the list and the selection are cleared and a query goes
\* out, as the backend answers it now.
Renew(f) ==
  /\ shown' = Nothing /\ selected' = {}
  /\ lists' = lists \cup {Answer(f)}

\* The filter changes, or the list is refreshed.
Fetch(f) ==
  /\ fetches < MaxFetches
  /\ fetches' = fetches + 1 /\ filter' = f
  /\ Renew(f)

ChooseFilter ==
  /\ ~dialog
  /\ \E f \in Filters \ {filter} : Fetch(f)
  /\ UNCHANGED refetches
  /\ UNCHANGED <<databaseVars, dialogVars>>

\* An answer replaces the list, whichever filter it was asked for.
ListAnswered ==
  /\ \E l \in lists :
       /\ lists' = lists \ {l}
       /\ shown' \in {l, Nothing}
  /\ replaced' = dialog
  /\ UNCHANGED <<filter, selected, fetches, refetches, databaseVars, dialog, rows, orders,
                 strays, verdicts>>

\* The collection comes: the effect runs again, under whatever dialog is open by
\* then.  A query that fails changes nothing, as one that is never answered.
CollectionAnswered ==
  /\ refetches > 0 /\ refetches' = refetches - 1
  /\ Renew(filter) /\ replaced' = dialog
  /\ UNCHANGED <<filter, fetches, databaseVars, dialog, rows, orders, strays, verdicts>>

\* canSelect, of what the list says.
CanSelect(p) == p \in DOMAIN shown /\ shown[p] = "listed"

ToggleSelect ==
  /\ ~dialog
  /\ \E p \in Pieces :
       /\ CanSelect(p)
       /\ selected' = (selected \ {p}) \cup ({p} \ selected)
  /\ UNCHANGED <<filter, lists, shown, fetches, refetches, databaseVars, dialogVars>>

SelectedItems == selected \cap DOMAIN shown

ClearSelection ==
  /\ ~dialog /\ SelectedItems # {}
  /\ selected' = {}
  /\ UNCHANGED <<filter, lists, shown, fetches, refetches, databaseVars, dialogVars>>

-----------------------------------------------------------------------------
\* The dialog that buys what is selected.

\* It opens with a row for each piece and asks for all purchases at once.
OpenDialog ==
  /\ ~dialog /\ SelectedItems # {}
  /\ dialog' = TRUE
  /\ rows' = [p \in Pieces |->
               IF p \in SelectedItems THEN [EmptyRow EXCEPT !.phase = "creating"] ELSE EmptyRow]
  /\ replaced' = FALSE
  /\ UNCHANGED <<orders, strays, verdicts, databaseVars, listVars>>

\* POST /api/nft/items/:id/buy: the backend reserves what is still for sale.
Reserves(p) ==
  /\ state[p] = "listed" /\ Len(bought) < MaxPurchases
  /\ bought' = Append(bought, [piece |-> p, status |-> "pending"])
  /\ state' = [state EXCEPT ![p] = "reserved"]

\* It answers for a row, or for a dialog that is gone.
RowOrdered(p) ==
  /\ rows[p].phase = "creating" /\ \A o \in orders : o[1] # p
  /\ \/ Reserves(p) /\ orders' = orders \cup {<<p, Len(bought) + 1>>}
     \/ /\ state[p] # "listed" /\ orders' = orders \cup {<<p, NoId>>}
        /\ UNCHANGED databaseVars
  /\ UNCHANGED <<dialog, rows, strays, replaced, verdicts, listVars>>
StrayOrdered(p) ==
  /\ p \in strays /\ strays' = strays \ {p}
  /\ Reserves(p) \/ (state[p] # "listed" /\ UNCHANGED databaseVars)
  /\ UNCHANGED <<dialog, rows, orders, replaced, verdicts, listVars>>

\* The answer, a refusal or a failure of either comes.
RowOpens ==
  \E o \in orders :
    /\ rows[o[1]].phase = "creating"
    /\ rows' \in {[rows EXCEPT ![o[1]] = [phase |-> "failed", purchase |-> NoId]]}
               \cup {[rows EXCEPT ![o[1]] = [phase |-> "waiting", purchase |-> n]] :
                       n \in {o[2]} \ {NoId}}
    /\ UNCHANGED <<dialog, orders, strays, replaced, verdicts, databaseVars, listVars>>

\* The timer asks about every row that waits, one after the other.
RowPolls(p) ==
  /\ dialog /\ rows[p].phase = "waiting"
  /\ verdicts' = verdicts \cup {<<p, bought[rows[p].purchase].status>>}
  /\ UNCHANGED <<dialog, rows, orders, strays, replaced, databaseVars, listVars>>

\* Mutant: any verdict but a failure is taken for the payment.
RowHearsAny ==
  \E v \in verdicts :
    /\ rows' = [rows EXCEPT ![v[1]].phase = IF v[2] = "failed" THEN "failed" ELSE "filled"]
    /\ verdicts' = verdicts \ {v}
    /\ UNCHANGED <<dialog, orders, strays, replaced, databaseVars, listVars>>

RowHears ==
  \E v \in verdicts :
    /\ rows' = CASE v[2] = "done" -> [rows EXCEPT ![v[1]].phase = "filled"]
                 [] v[2] = "failed" -> [rows EXCEPT ![v[1]].phase = "failed"]
                 [] OTHER -> rows
    /\ verdicts' = verdicts \ {v}
    /\ UNCHANGED <<dialog, orders, strays, replaced, databaseVars, listVars>>

\* The dialog goes away.  What it asked for may still be reserved, by nobody who
\* could pay it; answers that come find no dialog.
Gone ==
  /\ dialog /\ dialog' = FALSE
  /\ rows' = EmptyRows /\ orders' = {} /\ verdicts' = {} /\ replaced' = FALSE
  /\ strays' = strays \cup {p \in Pieces : /\ rows[p].phase = "creating"
                                          /\ \A o \in orders : o[1] # p}

\* By a click beside it.
Dismiss ==
  /\ Gone
  /\ UNCHANGED <<databaseVars, listVars>>

\* By its button, which clears the selection, refreshes the list and asks for the
\* collection again.
CloseDialog ==
  /\ Gone
  /\ Fetch(filter) /\ refetches' = refetches + 1
  /\ UNCHANGED <<databaseVars>>

\* The message under the rows.
AllDone ==
  /\ dialog
  /\ \A p \in Pieces : rows[p].phase \in {"none", "filled", "failed"}
  /\ Cardinality({p \in Pieces : rows[p].phase = "filled"}) = Cardinality(SelectedItems)

-----------------------------------------------------------------------------
\* The backend: NftMarket models it.

\* A purchase is paid or refused; a reservation lapses; others buy.
PurchaseSettles(n) ==
  /\ bought[n].status = "pending"
  /\ \/ /\ state[bought[n].piece] # "own"
        /\ bought' = [bought EXCEPT ![n].status = "done"]
        /\ state' = [state EXCEPT ![bought[n].piece] = "own"]
     \/ bought' = [bought EXCEPT ![n].status = "failed"] /\ UNCHANGED state
  /\ UNCHANGED <<listVars, dialogVars>>

OthersMove(p) ==
  /\ \/ state[p] = "reserved" /\ state' = [state EXCEPT ![p] = "listed"]
     \/ state[p] = "listed" /\ state' = [state EXCEPT ![p] = "unlisted"]
  /\ UNCHANGED <<bought, listVars, dialogVars>>

-----------------------------------------------------------------------------
\* The forge.

\* Whether its buttons can be clicked: no craft is under way.
ForgeView == ~forge.crafting

\* craftForgeTier.  One craft at a time; after it the inventory is read again, and
\* an error of that reading is shown over the news of the craft.
CraftForgeTier ==
  \/ /\ ForgeView /\ forge.crafts < MaxCrafts
     /\ forge' = [forge EXCEPT !.crafting = TRUE, !.message = "none", !.at = "asked",
                               !.crafts = @ + 1, !.made = FALSE]
  \/ /\ forge.at = "asked"
     /\ forge' \in {[forge EXCEPT !.at = "made", !.made = TRUE],
                    [forge EXCEPT !.at = "refused"]}
  \/ /\ forge.at = "made" /\ forge.message = "none"
     /\ forge' = [forge EXCEPT !.message = "ok"]
  \/ /\ forge.at \in {"made", "refused"}
     /\ \E m \in {"error"} \cup ({forge.message} \ {"none"}) :
          forge' = [forge EXCEPT !.at = "none", !.crafting = FALSE, !.message = m]

MarketListNext ==
  \/ ChooseFilter \/ ListAnswered \/ CollectionAnswered \/ ToggleSelect \/ ClearSelection
  \/ OpenDialog \/ RowOpens \/ RowHears \/ Dismiss \/ CloseDialog
  \/ \E p \in Pieces :
       RowOrdered(p) \/ StrayOrdered(p) \/ RowPolls(p) \/ OthersMove(p)
  \/ \E n \in DOMAIN bought : PurchaseSettles(n)

\* The forge is another tab of the page, with state of its own.
MarketPageNext ==
  \/ MarketListNext /\ UNCHANGED forge
  \/ CraftForgeTier /\ UNCHANGED <<databaseVars, listVars, dialogVars>>

MarketPageSpec == MarketPageInit /\ [][MarketPageNext]_marketPageVars

\* What the market says was bought was bought: a row is paid only when the purchase
\* it shows, of its own piece, is, in whatever order the purchases were made and
\* the polls were answered; all is done only when every row is, unless the list was
\* replaced under the dialog; the forge tells of a craft that was made
\* (MultiBuyModal and craftForgeTier of nft/page.tsx).
MarketTellsTruth ==
  /\ \A p \in Pieces :
       rows[p].phase = "filled" => /\ rows[p].purchase # NoId
                                   /\ bought[rows[p].purchase] = [piece |-> p, status |-> "done"]
  /\ AllDone /\ ~replaced => \A p \in Pieces : rows[p].phase \in {"none", "filled"}
  /\ forge.message = "ok" => forge.made
=============================================================================
