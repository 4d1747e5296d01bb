----------------------------- MODULE PushTokens -----------------------------
(***************************************************************************)
(* PushService of the API server and of the worker: the table push_tokens, *)
(* how clients register in it, what a delivery reads of it, and how APNs'  *)
(* answers change it.  A row is keyed by the token alone, that is, by the  *)
(* installation of the app on a device; session_id is written but never    *)
(* read.  Shares composes this module with what causes deliveries.         *)
(***************************************************************************)
EXTENDS Naturals, FiniteSets

CONSTANTS Users,
          NoUser,       \* the user of a device that never registered
          Devices,      \* device tokens
          Envs,         \* APNs environments: development and production
          DefaultEnv,   \* config.apns_environment, for a missing header
          TrueEnv       \* external: the environment that issued each token

ASSUME PushAssumption ==
    /\ NoUser \notin Users
    /\ IsFiniteSet(Devices)
    /\ DefaultEnv \in Envs
    /\ TrueEnv \in [Devices -> Envs]

VARIABLE token   \* the row of each device's token

Rows == [user : Users \cup {NoUser}, env : Envs, active : BOOLEAN]

NoRow == [user |-> NoUser, env |-> DefaultEnv, active |-> FALSE]

(* One entry of the list a delivery loads. *)
Targets == [device : Devices, env : Envs]

PushTypeOK == token \in [Devices -> Rows]

PushInit == token = [d \in Devices |-> NoRow]

(* sync_token_from_metadata, which every call of NotificationService does  *)
(* first: the newest registration of a token replaces whatever it was.     *)
Register(u, d, e) ==
    token' = [token EXCEPT ![d] = [user |-> u, env |-> e, active |-> TRUE]]

(* What clients send: the environment of the build, or no header at all. *)
SyncRegister(u, d) == \E e \in {TrueEnv[d], DefaultEnv} : Register(u, d, e)

Unregister(u, d) ==
    /\ token[d].user = u
    /\ token' = [token EXCEPT ![d].active = FALSE]

(* send_push: the tokens of the recipient that are not revoked. *)
ActiveTargets(u) ==
    {[device |-> d, env |-> token[d].env] :
        d \in {x \in Devices : token[x].user = u /\ token[x].active}}

(* Mutant: every refusal counts as an invalid token. *)
AnyAnswer(t) == {"Sent", "InvalidToken", "Err"}

(* APNs' answers to a request: it knows a token in one environment only.   *)
(* Anything else, from a full queue to a lost connection, is an Err.       *)
Answers(t) ==
    IF t.env = TrueEnv[t.device] THEN {"Sent", "Err"} ELSE {"InvalidToken", "Err"}

(* revoke_token: by the token alone, whoever holds it now. *)
Revoke(d) == token' = [token EXCEPT ![d].active = FALSE]

(* A registration that deliveries can use. *)
Good(d) == token[d].active /\ token[d].env = TrueEnv[d]
=============================================================================
