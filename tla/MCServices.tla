----------------------------- MODULE MCServices ------------------------------
(***************************************************************************)
(* Small instances, for TLC, of the backend's services beside the markets  *)
(* (minting, the whitelist, fee payouts with the wallet service, receiving *)
(* addresses, logins) and of the pages of the browser in front of it all.  *)
(* They share no state, so that each is explored by itself: a behaviour    *)
(* draws one of them at its start and leaves the others as they are.       *)
(***************************************************************************)
EXTENDS NftMint, NftWhitelist, FeePayouts, AddressPool, WalletLogin, NftPages,
        MarketPage, XLogin

VARIABLE part
backendVars == <<mintVars, whitelistVars, payoutVars, poolVars, loginVars>>
browserVars == <<nftPageVars, marketPageVars, xVars>>
servicesVars == <<part, backendVars, browserVars>>

Parts == {"mints", "whitelist", "payouts", "addresses", "logins", "pages", "market", "forge",
          "signin", "status"}

ServicesInit ==
  /\ part \in Parts
  /\ MintInit /\ WhitelistInit /\ PayoutInit /\ PoolInit /\ LoginInit
  /\ NftPagesInit /\ MarketPageInit /\ XInit
  /\ part # "pages" => kind = CHOOSE k \in Kinds : TRUE

BackendNext ==
  \/ part = "mints" /\ MintNext /\ UNCHANGED <<whitelistVars, payoutVars, poolVars, loginVars>>
  \/ part = "whitelist" /\ WhitelistNext /\ UNCHANGED <<mintVars, payoutVars, poolVars, loginVars>>
  \/ part = "payouts" /\ PayoutNext /\ UNCHANGED <<mintVars, whitelistVars, poolVars, loginVars>>
  \/ part = "addresses" /\ PoolNext /\ UNCHANGED <<mintVars, whitelistVars, payoutVars, loginVars>>
  \/ part = "logins" /\ LoginNext /\ UNCHANGED <<mintVars, whitelistVars, payoutVars, poolVars>>

BrowserNext ==
  \/ part = "pages" /\ PagesNext /\ UNCHANGED <<marketPageVars, xVars>>
  \/ part = "market" /\ MarketListNext /\ UNCHANGED <<forge, nftPageVars, xVars>>
  \/ part = "forge" /\ CraftForgeTier
     /\ UNCHANGED <<databaseVars, listVars, dialogVars, nftPageVars, xVars>>
  \/ part = "signin" /\ XLoginNext /\ UNCHANGED <<nftPageVars, marketPageVars, xStatusVars>>
  \/ part = "status" /\ XStatusNext /\ UNCHANGED <<nftPageVars, marketPageVars, xLoginVars>>

ServicesNext ==
  /\ \/ BackendNext /\ UNCHANGED browserVars
     \/ BrowserNext /\ UNCHANGED backendVars
  /\ UNCHANGED part

ServicesSpec == ServicesInit /\ [][ServicesNext]_servicesVars

\* What tells two states apart: the other parts are as they were at the start.
MCView ==
  <<part, CASE part = "mints" -> mintVars
            [] part = "whitelist" -> whitelistVars
            [] part = "payouts" -> payoutVars
            [] part = "addresses" -> poolVars
            [] part = "logins" -> loginVars
            [] part = "pages" -> nftPageVars
            [] part \in {"market", "forge"} -> marketPageVars
            [] part \in {"signin", "status"} -> xVars>>

\* Every variable of the part that is explored has its type: no statement of
\* store.ts, feeDistributor.ts, zcashReal.ts, cli.js or the pages takes a row, a
\* count, a queue or the state of a page out of it.
ServicesTypeOK ==
  CASE part = "mints" -> MintTypeOK
    [] part = "whitelist" -> WhitelistTypeOK
    [] part = "payouts" -> PayoutTypeOK
    [] part = "addresses" -> PoolTypeOK
    [] part = "logins" -> LoginTypeOK
    [] part = "pages" -> NftPagesTypeOK
    [] part \in {"market", "forge"} -> MarketPageTypeOK
    [] part \in {"signin", "status"} -> XTypeOK
=============================================================================
