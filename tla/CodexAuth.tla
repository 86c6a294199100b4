----------------------------- MODULE CodexAuth -----------------------------
(***************************************************************************)
(* The ChatGPT sign-in: one token store shared by every stream and catalog *)
(* request of the provider, the browser logins that fill it, the refresh   *)
(* that rotates it under g_auth_mu, lost answers, failed saves and         *)
(* crashes.  Tokens are numbers; a grant is what one sign-in gave.         *)
(***************************************************************************)
EXTENDS Integers, FiniteSets

CONSTANTS
  Callers,     \* threads at a request: a stream, a catalog fetch
  Logins,      \* runs of codex_run_browser_login
  Ports,       \* kCallbackPort and kFallbackPort
  MintBound,   \* bound: token pairs the server ever gives
  AgeBound     \* bound: access tokens that age, and that the backend stops taking

NoOne == "nobody"

ASSUME CodexAuthAssumption ==
  MintBound \in Nat /\ AgeBound \in Nat /\ NoOne \notin Callers

VARIABLES
  store,     \* openai-auth.json
  authMu,    \* who holds g_auth_mu
  caller,    \* per request thread: where it is and the tokens it holds
  login,     \* per login: where it is and what it got
  catalogLoaded, \* catalog_loaded_
  live,      \* server: refresh tokens it will take
  valid,     \* server: access tokens it takes
  aged,      \* access tokens inside the refresh skew
  minted,    \* server: token pairs given so far
  grantee,   \* history: the sign-in whose tokens the store was last given
  lost,      \* history: refresh tokens spent with no successor stored
  refused    \* history: the server refused a refresh token that was not lost

serverVars == <<live, valid, aged, minted>>
authVars == <<store, authMu, caller, login, catalogLoaded, serverVars, grantee, lost, refused>>

NoAuth == [access |-> 0, refresh |-> 0, grant |-> 0]
NoRequest == [phase |-> "idle", op |-> "none", auth |-> NoAuth, token |-> 0,
           rejected |-> 0, attempt |-> 0]
NoLogin == [phase |-> "idle", port |-> 0, auth |-> NoAuth]

AuthInit ==
  /\ store = NoAuth /\ authMu = NoOne /\ catalogLoaded = FALSE
  /\ caller = [c \in Callers |-> NoRequest] /\ login = [l \in Logins |-> NoLogin]
  /\ live = {} /\ valid = {} /\ aged = {} /\ minted = 0
  /\ grantee = 0 /\ lost = {} /\ refused = FALSE

(***************************************************************************)
(* The browser login.                                                      *)
(***************************************************************************)
Listening == {l \in Logins : login[l].phase = "listening"}

\* bind_loopback(): the first port no login and no other program has
Listens(l) ==
  /\ login[l].phase = "idle"
  /\ \E free \in SUBSET (Ports \ {login[m].port : m \in Listening}) :
       login' = [login EXCEPT ![l] =
         IF free = {} THEN NoLogin
         ELSE [@ EXCEPT !.phase = "listening",
                        !.port = CHOOSE p \in free : \A q \in free : p <= q]]
  /\ UNCHANGED <<store, authMu, caller, catalogLoaded, serverVars, grantee, lost, refused>>

\* wait_for_callback(): a request for something else and a callback of another
\* attempt are answered and waited past; an error, a missing code and the
\* deadline end the login
HearsCallback(l) ==
  /\ l \in Listening
  /\ \E req \in {"other", "stale", "error", "no code", "timeout", "code"} :
       login' = [login EXCEPT ![l] =
         CASE req \in {"other", "stale"} -> @
           [] req \in {"error", "no code", "timeout"} -> NoLogin
           [] req = "code" -> [@ EXCEPT !.phase = "exchanging", !.port = 0]]
  /\ UNCHANGED <<store, authMu, caller, catalogLoaded, serverVars, grantee, lost, refused>>

\* Pair n of the server, for the grant it belongs to
Mint(grant) == [access |-> minted + 1, refresh |-> minted + 1, grant |-> grant]

\* post_token(): the code for an access token, and a refresh token or none
Exchanges(l) ==
  /\ login[l].phase = "exchanging" /\ minted < MintBound
  /\ \/ /\ login' = [login EXCEPT ![l] = NoLogin]
        /\ UNCHANGED serverVars
     \/ /\ \E first \in {Mint(minted + 1), [Mint(minted + 1) EXCEPT !.refresh = 0]} :
             /\ login' = [login EXCEPT ![l] = [@ EXCEPT !.phase = "granted", !.auth = first]]
             /\ live' = live \cup ({first.refresh} \ {0})
        /\ minted' = minted + 1
        /\ valid' = valid \cup {minted + 1} /\ UNCHANGED aged
  /\ UNCHANGED <<store, authMu, caller, catalogLoaded, grantee, lost, refused>>

Enters == authMu = NoOne

\* codex_auth_save() under the lock; a failed save leaves the old store
StoresLogin(l) ==
  /\ login[l].phase = "granted" /\ Enters
  /\ \/ store' = login[l].auth /\ grantee' = login[l].auth.grant
     \/ UNCHANGED <<store, grantee>>
  /\ login' = [login EXCEPT ![l] = NoLogin]
  /\ UNCHANGED <<authMu, caller, catalogLoaded, serverVars, lost, refused>>

(***************************************************************************)
(* Requests: the stream's attempt loop and fetch_catalog.                  *)
(***************************************************************************)
StartsRequest(c) ==
  /\ caller[c].phase = "idle"
  /\ \E op \in {"stream", "catalog"} :
       /\ op = "catalog" => ~catalogLoaded
       /\ caller' = [caller EXCEPT ![c] = [@ EXCEPT !.phase = "access", !.op = op]]
  /\ UNCHANGED <<store, authMu, login, catalogLoaded, serverVars, grantee, lost, refused>>

\* codex_auth_load() takes an access token without a refresh token too
CanRefresh(auth) == auth.refresh # 0
MustRefresh(c) == caller[c].phase = "force" \/ store.access \in aged
HoldsNothing(c) == NoOne   \* mutant: the endpoint is asked outside the lock
Holder(c) == c

\* codex_auth_get_access(), codex_auth_force_refresh(): the part under the lock
\* up to the request to the token endpoint
Loads(c) ==
  /\ caller[c].phase \in {"access", "force"} /\ Enters
  /\ IF store = NoAuth \/ (MustRefresh(c) /\ ~CanRefresh(store))
     THEN caller' = [caller EXCEPT ![c] = NoRequest] /\ UNCHANGED authMu
     ELSE IF MustRefresh(c)
     THEN /\ authMu' = Holder(c)
          /\ caller' = [caller EXCEPT ![c] = [@ EXCEPT
               !.phase = IF caller[c].phase = "force" THEN "forcing" ELSE "refreshing",
               !.auth = store]]
     ELSE /\ caller' = [caller EXCEPT ![c] = [@ EXCEPT !.phase = "send", !.token = store.access]]
          /\ UNCHANGED authMu
  /\ UNCHANGED <<store, login, catalogLoaded, serverVars, grantee, lost, refused>>

AtEndpoint(c) == caller[c].phase \in {"refreshing", "forcing"}
Leaves(c) == caller' = [caller EXCEPT ![c] = NoRequest] /\ authMu' = NoOne

\* refresh_locked(): the endpoint takes a live refresh token, gives a new access
\* token and rotates the refresh token or leaves it out
Answered(c, auth) == [caller EXCEPT ![c] = [@ EXCEPT
  !.phase = IF caller[c].phase = "forcing" THEN "storing force" ELSE "storing",
  !.auth = auth]]

Rotated(c) ==
  /\ AtEndpoint(c) /\ caller[c].auth.refresh \in live /\ minted < MintBound
  /\ minted' = minted + 1 /\ valid' = valid \cup {minted + 1} /\ UNCHANGED aged
  /\ live' = (live \ {caller[c].auth.refresh}) \cup {minted + 1}
  /\ \/ /\ caller' = Answered(c, Mint(caller[c].auth.grant))
        /\ UNCHANGED <<authMu, lost>>
     \/ Leaves(c) /\ lost' = lost \cup {caller[c].auth.refresh}   \* the answer is lost
  /\ UNCHANGED <<store, login, catalogLoaded, grantee, refused>>

Renewed(c) ==
  /\ AtEndpoint(c) /\ caller[c].auth.refresh \in live /\ minted < MintBound
  /\ minted' = minted + 1 /\ valid' = valid \cup {minted + 1} /\ UNCHANGED <<aged, live>>
  /\ caller' = Answered(c, [caller[c].auth EXCEPT !.access = minted + 1])
  /\ UNCHANGED <<store, authMu, login, catalogLoaded, grantee, lost, refused>>

EndpointFails(c) ==
  /\ AtEndpoint(c)
  /\ Leaves(c)
  /\ refused' = (refused \/ caller[c].auth.refresh \notin live \cup lost)
  /\ UNCHANGED <<store, login, catalogLoaded, serverVars, grantee, lost>>

\* The successor is stored before the lock is left; a failed save loses it
Stores(c) ==
  /\ caller[c].phase \in {"storing", "storing force"}
  /\ \/ /\ store' = caller[c].auth /\ UNCHANGED lost
        /\ caller' = [caller EXCEPT ![c] =
             IF @.phase = "storing"
             THEN [@ EXCEPT !.phase = "send", !.token = caller[c].auth.access, !.auth = NoAuth]
             ELSE [@ EXCEPT !.phase = "access", !.auth = NoAuth]]
     \/ /\ lost' = IF store.refresh = caller[c].auth.refresh THEN lost
                   ELSE lost \cup {store.refresh}
        /\ caller' = [caller EXCEPT ![c] = NoRequest] /\ UNCHANGED store
  /\ authMu' = NoOne
  /\ UNCHANGED <<login, catalogLoaded, serverVars, grantee, refused>>

\* The request with its token; a first 401 forces one refresh
Sends(c) ==
  /\ caller[c].phase = "send"
  /\ LET ok == caller[c].token \in valid
     IN /\ caller' = [caller EXCEPT ![c] =
             IF ~ok /\ @.attempt = 0
             THEN [@ EXCEPT !.phase = "force", !.rejected = caller[c].token, !.attempt = 1]
             ELSE NoRequest]
        /\ catalogLoaded' = (catalogLoaded \/ (ok /\ caller[c].op = "catalog"))
  /\ UNCHANGED <<store, authMu, login, serverVars, grantee, lost, refused>>

\* The network or the backend fails the request
Misses(c) ==
  /\ caller[c].phase = "send"
  /\ caller' = [caller EXCEPT ![c] = NoRequest]
  /\ UNCHANGED <<store, authMu, login, catalogLoaded, serverVars, grantee, lost, refused>>

\* Time: a token reaches the refresh skew; the backend stops taking one
Ages ==
  /\ Cardinality(aged) < AgeBound
  /\ \E t \in valid \ aged : aged' = aged \cup {t}
  /\ UNCHANGED <<store, authMu, caller, login, catalogLoaded, live, valid, minted,
                 grantee, lost, refused>>

Revoked ==
  /\ Cardinality((1..minted) \ valid) < AgeBound
  /\ \E t \in valid : valid' = valid \ {t}
  /\ UNCHANGED <<store, authMu, caller, login, catalogLoaded, live, aged, minted,
                 grantee, lost, refused>>

\* The process ends anywhere; the store is one whole document
Killed ==
  /\ \E c \in Callers : caller[c].phase # "idle"
  /\ lost' = lost \cup {store.refresh : c \in {d \in Callers :
       caller[d].phase \in {"storing", "storing force"}
         /\ caller[d].auth.refresh # store.refresh}}
  /\ caller' = [c \in Callers |-> NoRequest] /\ login' = [l \in Logins |-> NoLogin]
  /\ authMu' = NoOne /\ catalogLoaded' = FALSE
  /\ UNCHANGED <<store, serverVars, grantee, refused>>

AuthNext ==
  \/ \E l \in Logins : Listens(l) \/ HearsCallback(l) \/ Exchanges(l) \/ StoresLogin(l)
  \/ \E c \in Callers : \/ StartsRequest(c) \/ Loads(c) \/ Rotated(c) \/ Renewed(c)
                        \/ EndpointFails(c) \/ Stores(c) \/ Sends(c) \/ Misses(c)
  \/ Ages \/ Revoked \/ Killed

AuthSpec == AuthInit /\ [][AuthNext]_authVars

(***************************************************************************)
(* Properties.                                                             *)
(***************************************************************************)
\* The lock is held exactly by a thread at the endpoint or at its save.
AuthTypeOK ==
  /\ minted \in 0..MintBound /\ live \cup valid \cup aged \subseteq 1..minted
  /\ \A c \in Callers :
       authMu = c <=> AtEndpoint(c) \/ caller[c].phase \in {"storing", "storing force"}

\* The store always holds tokens of the sign-in last saved; with no refresh at
\* work its refresh token, if it has one, is one the server takes, unless an answer, a save or
\* the process was lost between the two; no request ever presents a refresh
\* token another request spent; and the request after a 401 never carries the
\* token that was rejected.
SignInKept ==
  /\ store.grant = grantee
  /\ CanRefresh(store) /\ authMu = NoOne => store.refresh \in live \cup lost
  /\ ~refused
  /\ \A c \in Callers :
       caller[c].attempt = 1 /\ caller[c].phase = "send" => caller[c].token # caller[c].rejected

=============================================================================
