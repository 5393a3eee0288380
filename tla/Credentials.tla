---------------------------- MODULE Credentials ----------------------------
(***************************************************************************)
(* Credentials of the plugins that talk to a service: slack, discord,      *)
(* jira, llm and calendar (store.rs, run_auth and the resolver of each).   *)
(* A running plugin opens its store once and loads from it at every call;  *)
(* the user may run "nestty-plugin-X auth" beside it at any time, a second *)
(* process with a store of its own.  The store is the keyring, a plaintext *)
(* file when the keyring cannot be reached, or a broken store when the     *)
(* user forbids plaintext.  The calendar plugin also refreshes its tokens  *)
(* and saves what Google returns.                                          *)
(***************************************************************************)
EXTENDS Integers, Sequences, FiniteSets

CONSTANTS Plugins,     \* the plugins a behaviour may be about
          Accounts,    \* accounts of the service
          MaxAuths,    \* bound on runs of auth
          MaxRefreshes,\* bound on refreshes
          MaxLocks,    \* bound on changes of the keyring
          None, Torn   \* no token set; a file cut short

(* A token set as saved: the account of each token, the identity the service *)
(* reported for it, and which auth run and refresh it came from.             *)
Tokens == [token : Accounts, app : Accounts, id : Accounts, grant : 1 .. MaxAuths, access : 0 .. MaxRefreshes]

CredentialsAssumption ==
    /\ Plugins \subseteq {"slack", "discord", "jira", "llm", "calendar"}
    /\ {MaxAuths, MaxRefreshes, MaxLocks} \subseteq Nat
    /\ None \notin Tokens /\ Torn \notin Tokens \cup {None}

VARIABLES plugin,    \* which plugin this is
          env,       \* tokens in the environment of the running plugin
          strict,    \* require_secure_store
          keyring,   \* [up, entry]: the secret service and what it holds
          file,      \* the plaintext store: a token set, None or Torn
          backend,   \* what the running plugin opened: "keyring" | "plaintext" | "broken"
          auth,      \* the run of auth: [phase, backend, tokens]
          client,    \* a calendar call: [phase, tokens, fresh, then]
          status,    \* an auth_status call: [phase, resolved, identity]
          expired,   \* access tokens Google no longer takes
          bound      \* [auths, refreshes, locks]

vars == <<plugin, env, strict, keyring, file, backend, auth, client, status, expired, bound>>

Off == [phase |-> "off", backend |-> None, tokens |-> None]
Idle == [phase |-> "idle", tokens |-> None, fresh |-> None, then |-> None]
Quiet == [phase |-> "quiet", resolved |-> None, identity |-> None]

-----------------------------------------------------------------------------
(* The store.                                                              *)

\* open_store: the keyring if its probe succeeds, then plaintext unless forbidden.
open_store == IF keyring.up THEN "keyring" ELSE IF strict THEN "broken" ELSE "plaintext"

\* load: a keyring that fails and a file that does not parse read as "no tokens yet".
Load(b) ==
    CASE b = "keyring" -> IF keyring.up THEN keyring.entry ELSE None
      [] b = "plaintext" -> IF file = Torn THEN None ELSE file
      [] b = "broken" -> None

\* save into the keyring.
SaveSecret(t) == keyring' = [keyring EXCEPT !.entry = t] /\ UNCHANGED file

Mutant_WriteTemp == file' = Torn /\ UNCHANGED keyring

\* write_atomic_0600: a temporary file of its own, synced, then renamed over the store;
\* a crash before the rename leaves the store as it was.
WriteTemp == UNCHANGED <<keyring, file>>
Rename(t) == file' = t /\ UNCHANGED keyring

-----------------------------------------------------------------------------
(* What each plugin would use, from one load of its store.                 *)

Mutant_SlackCredentials ==
    LET stored == Load(backend)
    IN  IF env.token # None /\ env.app # None
        THEN [token |-> env.token, app |-> env.app, source |-> "env",
              id |-> IF stored # None THEN stored.id ELSE None]
        ELSE IF stored = None THEN None
        ELSE [token |-> stored.token, app |-> stored.app, source |-> "store", id |-> stored.id]

\* Both slack tokens from the environment, with the stored identity only if it is
\* the environment's own token that was validated, or both from the store.
SlackCredentials ==
    LET stored == Load(backend)
    IN  IF env.token # None /\ env.app # None
        THEN [token |-> env.token, app |-> env.app, source |-> "env",
              id |-> IF stored # None /\ stored.token = env.token THEN stored.id ELSE None]
        ELSE IF stored = None THEN None
        ELSE [token |-> stored.token, app |-> stored.app, source |-> "store", id |-> stored.id]

\* One token: the environment's, else the stored one; no identity either way.
DiscordCredentials ==
    LET stored == Load(backend)
    IN  IF env.token # None THEN [token |-> env.token, app |-> None, source |-> "env", id |-> None]
        ELSE IF stored = None THEN None
        ELSE [token |-> stored.token, app |-> None, source |-> "store", id |-> None]

LlmKey == DiscordCredentials

\* Jira carries the stored account id along with the token it was validated for.
JiraCredentials ==
    LET stored == Load(backend)
    IN  IF env.token # None THEN [token |-> env.token, app |-> None, source |-> "env", id |-> None]
        ELSE IF stored = None THEN None
        ELSE [token |-> stored.token, app |-> None, source |-> "store", id |-> stored.id]

\* Calendar knows only stored tokens.
CalendarCredentials ==
    LET stored == Load(backend)
    IN  IF stored = None THEN None
        ELSE [token |-> stored.token, app |-> None, source |-> "store", id |-> None]

Resolved ==
    CASE plugin = "slack" -> SlackCredentials
      [] plugin = "discord" -> DiscordCredentials
      [] plugin = "jira" -> JiraCredentials
      [] plugin = "llm" -> LlmKey
      [] plugin = "calendar" -> CalendarCredentials

-----------------------------------------------------------------------------
(* auth: open the store, have the service validate the tokens, save them.  *)
(* Discord validates first.                                                *)

AuthUnchanged == UNCHANGED <<plugin, env, strict, backend, client, status, expired>>
MayAuth == /\ bound.auths < MaxAuths
           /\ bound' = [bound EXCEPT !.auths = @ + 1]

AuthOpens ==
    /\ plugin # "discord" /\ auth.phase \in {"off", "ok", "failed"} /\ MayAuth
    /\ auth' = [phase |-> "opened", backend |-> open_store, tokens |-> None]
    /\ UNCHANGED <<keyring, file>> /\ AuthUnchanged

Validated(t, app) == [token |-> t, app |-> app, id |-> t, grant |-> bound.auths, access |-> 0]

AuthFails ==
    /\ auth.phase \in {"opened", "valid"}
    /\ auth' = [auth EXCEPT !.phase = "failed"]
    /\ UNCHANGED <<keyring, file, bound>> /\ AuthUnchanged

\* auth.test for both tokens, which must be of one workspace, and one connection opened.
SlackValidates(t, app) ==
    /\ plugin = "slack" /\ auth.phase = "opened"
    /\ auth' = IF t = app THEN [auth EXCEPT !.phase = "valid", !.tokens = Validated(t, app)]
               ELSE [auth EXCEPT !.phase = "failed"]
    /\ UNCHANGED <<keyring, file, bound>> /\ AuthUnchanged

\* /myself for jira, whose e-mail may differ with a warning.
JiraValidates(t) ==
    /\ plugin = "jira" /\ auth.phase = "opened"
    /\ auth' = [auth EXCEPT !.phase = "valid", !.tokens = Validated(t, t)]
    /\ UNCHANGED <<keyring, file, bound>> /\ AuthUnchanged

\* A one-token message for llm.
LlmValidates(t) ==
    /\ plugin = "llm" /\ auth.phase = "opened"
    /\ auth' = [auth EXCEPT !.phase = "valid", !.tokens = Validated(t, t)]
    /\ UNCHANGED <<keyring, file, bound>> /\ AuthUnchanged

\* /users/@me for discord, then the store.
DiscordValidates(t) ==
    /\ plugin = "discord" /\ auth.phase \in {"off", "ok", "failed"} /\ MayAuth
    /\ auth' = [phase |-> "valid", backend |-> open_store,
                tokens |-> [Validated(t, t) EXCEPT !.grant = bound.auths + 1]]
    /\ UNCHANGED <<keyring, file>> /\ AuthUnchanged

\* run_device_code_flow: polled until the user approves; a denial, an expired code or
\* the deadline is AuthFails.
DeviceFlow(t) ==
    /\ plugin = "calendar" /\ auth.phase = "opened"
    /\ auth' = [auth EXCEPT !.phase = "valid", !.tokens = Validated(t, t)]
    /\ UNCHANGED <<keyring, file, bound>> /\ AuthUnchanged

\* The keyring answers at once or the save fails; a broken store always fails.
AuthSaves ==
    /\ auth.phase = "valid"
    /\ \/ /\ auth.backend = "keyring" /\ keyring.up
          /\ SaveSecret(auth.tokens) /\ auth' = [auth EXCEPT !.phase = "ok"]
       \/ /\ auth.backend = "plaintext"
          /\ WriteTemp /\ auth' = [auth EXCEPT !.phase = "written"]
       \/ /\ auth.backend = "broken" \/ (auth.backend = "keyring" /\ ~keyring.up)
          /\ UNCHANGED <<keyring, file>> /\ auth' = [auth EXCEPT !.phase = "failed"]
    /\ UNCHANGED bound /\ AuthUnchanged

AuthRenames ==
    /\ auth.phase = "written"
    /\ Rename(auth.tokens) /\ auth' = [auth EXCEPT !.phase = "ok"]
    /\ UNCHANGED bound /\ AuthUnchanged

\* Ctrl-C, at any point.
AuthKilled ==
    /\ auth.phase \in {"opened", "valid", "written"}
    /\ auth' = [auth EXCEPT !.phase = "failed"]
    /\ UNCHANGED <<keyring, file, bound>> /\ AuthUnchanged

-----------------------------------------------------------------------------
(* A calendar call (gcal.rs): tokens are loaded once, refreshed when they  *)
(* are about to expire or when Google answers 401, and then once more at   *)
(* most.                                                                   *)

CallUnchanged == UNCHANGED <<plugin, env, strict, backend, auth, status>>

NewClient ==
    /\ plugin = "calendar" /\ client.phase = "idle" /\ Load(backend) # None
    /\ client' = [Idle EXCEPT !.phase = "loaded", !.tokens = Load(backend)]
    /\ UNCHANGED <<keyring, file, expired, bound>> /\ CallUnchanged

\* ensure_fresh_token: by the plugin's clock, thirty seconds early.
EnsureFresh ==
    /\ client.phase = "loaded"
    /\ \/ client' = [client EXCEPT !.phase = "asking"]
       \/ client' = [client EXCEPT !.phase = "due", !.then = "asking"]
    /\ UNCHANGED <<keyring, file, expired, bound>> /\ CallUnchanged

Access(t) == <<t.grant, t.access>>

\* get_with_retry: a first 401 is met by a refresh, a second one ends the call.
GetRaw ==
    /\ client.phase \in {"asking", "retry"}
    /\ client' = IF Access(client.tokens) \in expired /\ client.phase = "asking"
                 THEN [client EXCEPT !.phase = "due", !.then = "retry"] ELSE Idle
    /\ UNCHANGED <<keyring, file, expired, bound>> /\ CallUnchanged

\* oauth::refresh: a new access token under the old refresh token, or an error.
Refresh ==
    /\ client.phase = "due"
    /\ \/ /\ bound.refreshes < MaxRefreshes
          /\ client' = [client EXCEPT !.phase = "refreshed",
                            !.fresh = [client.tokens EXCEPT !.access = bound.refreshes + 1]]
          /\ bound' = [bound EXCEPT !.refreshes = @ + 1]
       \/ client' = Idle /\ UNCHANGED bound
    /\ UNCHANGED <<keyring, file, expired>> /\ CallUnchanged

Refreshed == [client EXCEPT !.phase = client.then, !.tokens = client.fresh, !.fresh = None]

\* force_refresh saves before it uses the new tokens; a failed save fails the call.
SaveRefreshed ==
    /\ client.phase = "refreshed"
    /\ \/ /\ backend = "keyring" /\ keyring.up
          /\ SaveSecret(client.fresh)
          /\ client' = Refreshed
       \/ /\ backend = "plaintext"
          /\ WriteTemp /\ client' = [client EXCEPT !.phase = "written"]
       \/ /\ backend = "broken" \/ (backend = "keyring" /\ ~keyring.up)
          /\ UNCHANGED <<keyring, file>> /\ client' = Idle
    /\ UNCHANGED <<expired, bound>> /\ CallUnchanged

RenameRefreshed ==
    /\ client.phase = "written"
    /\ Rename(client.fresh)
    /\ client' = Refreshed
    /\ UNCHANGED <<expired, bound>> /\ CallUnchanged

-----------------------------------------------------------------------------
(* auth_status: the resolver's own load, then a second load for the        *)
(* identity, reported when the credentials come from the store.            *)

StatusUnchanged == UNCHANGED <<plugin, env, strict, keyring, file, backend, auth, client, expired, bound>>

StatusResolves ==
    /\ plugin \notin {"calendar", "llm"} /\ status.phase = "quiet"
    /\ status' = [phase |-> "resolved", resolved |-> Resolved, identity |-> None]
    /\ StatusUnchanged

Identity ==
    LET stored == Load(backend)
    IN  IF status.resolved # None /\ status.resolved.source = "store" /\ stored # None
        THEN stored.id ELSE None

StatusReports ==
    /\ status.phase = "resolved"
    /\ status' = [status EXCEPT !.phase = "reported", !.identity = Identity]
    /\ StatusUnchanged

\* llm loads the stored set first and resolves second.
LlmStatusLoads ==
    /\ plugin = "llm" /\ status.phase = "quiet"
    /\ status' = [phase |-> "loaded", resolved |-> None,
                  identity |-> IF Load(backend) = None THEN None ELSE Load(backend).id]
    /\ StatusUnchanged

LlmStatusReports ==
    /\ status.phase = "loaded"
    /\ status' = [phase |-> "reported", resolved |-> Resolved,
                  identity |-> IF Resolved # None /\ Resolved.source = "store"
                               THEN status.identity ELSE None]
    /\ StatusUnchanged

StatusDone == status.phase = "reported" /\ status' = Quiet /\ StatusUnchanged

-----------------------------------------------------------------------------
(* Surroundings: the keyring is locked and unlocked, access tokens expire, *)
(* the plugin is restarted.                                                *)

Lock ==
    /\ bound.locks < MaxLocks
    /\ bound' = [bound EXCEPT !.locks = @ + 1]
    /\ keyring' = [keyring EXCEPT !.up = ~@]
    /\ UNCHANGED <<plugin, env, strict, file, backend, auth, client, status, expired>>

Expire ==
    /\ client.phase = "asking" /\ Access(client.tokens) \notin expired
    /\ expired' = expired \cup {Access(client.tokens)}
    /\ UNCHANGED <<plugin, env, strict, keyring, file, backend, auth, client, status, bound>>

Restart ==
    /\ backend' = open_store
    /\ client' = Idle /\ status' = Quiet
    /\ UNCHANGED <<plugin, env, strict, keyring, file, auth, expired, bound>>

Init ==
    /\ plugin \in Plugins /\ strict \in BOOLEAN
    /\ env \in [token : Accounts \cup {None}, app : Accounts \cup {None}]
    /\ plugin # "slack" => env.app = None
    /\ plugin = "calendar" => env.token = None
    /\ keyring \in [up : BOOLEAN, entry : {None}]
    /\ file = None /\ expired = {}
    /\ backend = open_store
    /\ auth = Off /\ client = Idle /\ status = Quiet
    /\ bound = [auths |-> 0, refreshes |-> 0, locks |-> 0]

Auth ==
    \/ AuthOpens \/ AuthFails \/ AuthSaves \/ AuthRenames \/ AuthKilled
    \/ \E t, app \in Accounts : SlackValidates(t, app)
    \/ \E t \in Accounts :
          JiraValidates(t) \/ LlmValidates(t) \/ DiscordValidates(t) \/ DeviceFlow(t)

Call == NewClient \/ EnsureFresh \/ GetRaw \/ Refresh \/ SaveRefreshed \/ RenameRefreshed

Next ==
    \/ Auth \/ Call
    \/ StatusResolves \/ StatusReports \/ LlmStatusLoads \/ LlmStatusReports \/ StatusDone
    \/ Lock \/ Expire \/ Restart

Spec == Init /\ [][Next]_vars

-----------------------------------------------------------------------------
TypeOK ==
    /\ keyring.entry \in Tokens \cup {None} /\ file \in Tokens \cup {None, Torn}
    /\ backend \in {"keyring", "plaintext", "broken"}
    /\ auth.phase \in {"off", "opened", "valid", "written", "ok", "failed"}
    /\ client.phase \in {"idle", "loaded", "asking", "due", "refreshed", "written", "retry"}
    /\ status.phase \in {"quiet", "resolved", "loaded", "reported"}

\* Whatever auth runs have saved and whatever the environment overrides, the identity
\* a plugin goes by (slack and jira tell their own messages by it) is the identity of
\* the token it uses.
IdentityIsTheTokens == Resolved # None => Resolved.id \in {None, Resolved.token}

\* A save cut short, by a crash or by another one, never leaves a store that loads as
\* "no tokens yet"; and plaintext is never written where it is forbidden.
StoreIsWhole == file # Torn /\ (strict => file = None)

\* "The poller picks up the new token on its next tick" (calendar/src/main.rs:23):
\* once auth has answered ok, the running plugin resolves what it saved.  It fails:
\* the plugin keeps the store it opened at its start, and a refresh under way saves
\* the tokens it began with.
AuthIsPickedUp ==
    auth.phase = "ok" /\ keyring.up /\ env.token = None =>
        Resolved # None /\ Load(backend).grant = auth.tokens.grant

\* A status report names the identity of the credentials it found.  It fails: an auth
\* run saves between the two loads.
StatusIsTrue ==
    status.phase = "reported" /\ status.identity # None =>
        status.identity = status.resolved.token
=============================================================================
