----------------------------- MODULE TokenStore -----------------------------
(***************************************************************************)
(* What an authorizer of libmsgraph promises about the two tokens it       *)
(* keeps, with every operation taken as one atomic step: an access token   *)
(* is only ever held together with the refresh token that can renew it,    *)
(* a new refresh token voids the access token obtained from the old one,   *)
(* and a grant that fails costs the access token and nothing else.         *)
(* OAuth2Authorizer implements this with a mutex and unlocked reads.       *)
(***************************************************************************)
CONSTANTS AccessTokens,   \* non-empty access tokens the server may grant
          RefreshStrings, \* values a non-NULL refresh token may have
          NULL            \* no token

VARIABLES access,  \* the access token requests are signed with, or NULL
          refresh, \* the refresh token, or NULL
          setting  \* the application is changing the refresh token

storeVars == <<access, refresh, setting>>

StoreInit == access = NULL /\ refresh \in RefreshStrings \cup {NULL} /\ ~setting

(* A grant that carries both tokens replaces both. *)
GrantBoth(a, r) == access' = a /\ refresh' = r

(* A grant without a refresh token renews the access token of a session    *)
(* that already has a refresh token, and of no other.                      *)
GrantAccess(a) == refresh # NULL /\ access' = a /\ UNCHANGED refresh

(* A refused or unreadable grant loses the access token. *)
GrantFails == access' = NULL /\ UNCHANGED refresh

(* No grant takes effect while the application changes the refresh token. *)
Grant ==
  /\ ~setting /\ UNCHANGED setting
  /\ \/ \E a \in AccessTokens :
          GrantAccess(a) \/ \E r \in RefreshStrings : GrantBoth(a, r)
     \/ GrantFails

(* The application installs another refresh token, or signs out (NULL). *)
SetRefresh(r) ==
  /\ ~setting /\ setting' = TRUE
  /\ r # refresh /\ access' = NULL /\ refresh' = r

RefreshSet == setting /\ setting' = FALSE /\ UNCHANGED <<access, refresh>>

StoreNext == Grant \/ RefreshSet \/ \E r \in RefreshStrings \cup {NULL} : SetRefresh(r)

StoreSpec == StoreInit /\ [][StoreNext]_storeVars
=============================================================================
