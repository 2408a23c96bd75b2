-------------------------- MODULE SubscriptionKeys --------------------------
(***************************************************************************)
(* The keys of subscribers: users, tokens with their quota and rotation,   *)
(* and the public download, from internal/store/subscription_{users,       *)
(* tokens,public}.go and the application and routes of the same names.     *)
(* What a download holds is the subject of SubscriptionNodes.              *)
(*                                                                         *)
(* A download reads everything in one transaction, renders outside of it   *)
(* and is counted, and only then answered, if its token is still good.     *)
(***************************************************************************)
EXTENDS Integers, FiniteSets, Functions

CONSTANTS
  Users, NoUser,       \* identifiers, not drawn twice; a token may belong to nobody
  Tokens,              \* identifiers, not drawn twice
  Downloads,           \* requests that the server handles at the same time
  Unlimited,           \* no download limit
  Limits,              \* the limits a token is created with
  MaxUserUpdates, MaxDay, MaxAnswers   \* bounds

VARIABLES
  today,
  users,          \* per user: enabled, number of its update
  tokens,         \* per token: user, lineage, state, limit and counters
  issued,         \* users and tokens ever inserted
  available,      \* the channel is enabled and has an applied core to publish
  downloads,      \* downloads under way
  delivered       \* history: bodies sent per lineage

keyVars == <<users, tokens, issued>>
vars == <<today, keyVars, available, downloads, delivered>>

Never == MaxDay + 1
User == [enabled : BOOLEAN, update : 1 .. MaxUserUpdates]
Token == [user : Users \cup {NoUser}, lineage : Tokens, enabled : BOOLEAN, revoked : BOOLEAN,
          expires : 1 .. Never, limit : Limits, bodies : 0 .. MaxAnswers]
Idle == [stage |-> "idle"]
Download == [stage : {"loaded", "counted", "known"}, token : Tokens, lineage : Tokens]
Empty == [x \in {} |-> x]

TypeOK ==
  /\ today \in 0 .. MaxDay
  /\ DOMAIN users \subseteq Users /\ Range(users) \subseteq User
  /\ DOMAIN tokens \cup DOMAIN users \subseteq issued /\ issued \subseteq Tokens \cup Users /\ Range(tokens) \subseteq Token
  /\ \A t \in DOMAIN tokens : tokens[t].user \in DOMAIN users \cup {NoUser}
  /\ available \in BOOLEAN
  /\ \A d \in Downloads : downloads[d] \in Download \cup {Idle}
  /\ delivered \in [Tokens -> 0 .. MaxAnswers]

Init ==
  /\ today = 0 /\ users = Empty /\ tokens = Empty /\ issued = {}
  /\ available = FALSE
  /\ downloads = [d \in Downloads |-> Idle]
  /\ delivered = [t \in Tokens |-> 0]

Without(f, S) == [x \in DOMAIN f \ S |-> f[x]]
With(f, x, v) == [y \in DOMAIN f \cup {x} |-> IF y = x THEN v ELSE f[y]]
ElseUnchanged == UNCHANGED <<today, available, downloads, delivered>>

-----------------------------------------------------------------------------
(* Users *)

CurrentUser(u, update) == u \in DOMAIN users /\ users[u].update = update /\ update < MaxUserUpdates

CreateUser(u, enabled) ==
  /\ u \notin issued /\ issued' = issued \cup {u}
  /\ users' = With(users, u, [enabled |-> enabled, update |-> 1])
  /\ ElseUnchanged /\ UNCHANGED tokens

UpdateUser(u, update, enabled) ==
  /\ CurrentUser(u, update)
  /\ users' = [users EXCEPT ![u].enabled = enabled, ![u].update = update + 1]
  /\ ElseUnchanged /\ UNCHANGED <<tokens, issued>>

\* The tokens go with their user.
DeleteUser(u, update) ==
  /\ CurrentUser(u, update)
  /\ users' = Without(users, {u})
  /\ tokens' = Without(tokens, {t \in DOMAIN tokens : tokens[t].user = u})
  /\ ElseUnchanged /\ UNCHANGED issued

-----------------------------------------------------------------------------
(* Tokens *)

Insert(t, token) == t \notin issued /\ issued' = issued \cup {t} /\ tokens' = With(tokens, t, token)

CreateToken(t, u, limit, expires) ==
  /\ u = NoUser \/ u \in DOMAIN users
  /\ expires > today
  /\ Insert(t, [user |-> u, lineage |-> t, enabled |-> TRUE, revoked |-> FALSE, expires |-> expires,
                limit |-> limit, bodies |-> 0])
  /\ ElseUnchanged /\ UNCHANGED users

\* Mutant: the replacement starts to count anew.
RotateAfresh(t, new, expires) ==
  /\ t \in DOMAIN tokens /\ ~tokens[t].revoked /\ new \notin issued
  /\ expires > today
  /\ issued' = issued \cup {new}
  /\ tokens' = With([tokens EXCEPT ![t].revoked = TRUE], new,
                    [tokens[t] EXCEPT !.expires = expires, !.bodies = 0])
  /\ ElseUnchanged /\ UNCHANGED users

\* One transaction revokes the token and inserts another with its user, state,
\* limit and counters. Without another expiry the replacement keeps that of the
\* token, which may have passed.
Rotate(t, new, expires) ==
  /\ t \in DOMAIN tokens /\ ~tokens[t].revoked /\ new \notin issued
  /\ expires > today \/ expires = tokens[t].expires
  /\ issued' = issued \cup {new}
  /\ tokens' = With([tokens EXCEPT ![t].revoked = TRUE], new,
                    [tokens[t] EXCEPT !.expires = expires])
  /\ ElseUnchanged /\ UNCHANGED users

Revoke(t) ==
  /\ t \in DOMAIN tokens /\ tokens' = [tokens EXCEPT ![t].revoked = TRUE]
  /\ ElseUnchanged /\ UNCHANGED <<users, issued>>

SetEnabled(t, enabled) ==
  /\ t \in DOMAIN tokens /\ ~(tokens[t].revoked /\ enabled)
  /\ tokens' = [tokens EXCEPT ![t].enabled = enabled]
  /\ ElseUnchanged /\ UNCHANGED <<users, issued>>

DeleteToken(t) ==
  /\ t \in DOMAIN tokens /\ tokens' = Without(tokens, {t})
  /\ ElseUnchanged /\ UNCHANGED <<users, issued>>

-----------------------------------------------------------------------------
(* The public download *)

UserEnabled(token) == token.user # NoUser => users[token.user].enabled

\* SubscriptionToken.Active.
Active(token) ==
  /\ token.enabled /\ ~token.revoked /\ token.expires > today
  /\ token.limit = Unlimited \/ token.bodies < token.limit

\* LoadPublicSubscriptionState, one read.
Load(d, t) ==
  /\ downloads[d] = Idle
  /\ t \in DOMAIN tokens /\ UserEnabled(tokens[t]) /\ Active(tokens[t]) /\ available
  /\ downloads' = [downloads EXCEPT ![d] =
                     [stage |-> "loaded", token |-> t, lineage |-> tokens[t].lineage]]
  /\ UNCHANGED <<today, keyVars, available, delivered>>

\* A body is counted; the counters of requests and bytes are only shown.
Used(t, known) == [tokens EXCEPT ![t].bodies = IF known THEN @ ELSE @ + 1]

\* Mutant: what was checked before the rendering is not checked again.
RecordUseUnchecked(d, known) ==
  LET t == downloads[d].token
  IN /\ downloads[d].stage = "loaded" /\ t \in DOMAIN tokens /\ tokens[t].bodies < MaxAnswers
     /\ tokens' = Used(t, known)
     /\ downloads' = [downloads EXCEPT ![d].stage = IF known THEN "known" ELSE "counted"]
     /\ UNCHANGED <<today, users, issued, available, delivered>>

\* RecordSubscriptionTokenUse: one conditional UPDATE, before the answer. known:
\* the client turns out to have the rendered body already.
RecordUse(d, known) ==
  LET t == downloads[d].token
  IN /\ downloads[d].stage = "loaded"
     /\ IF t \in DOMAIN tokens /\ UserEnabled(tokens[t]) /\ Active(tokens[t])
          THEN /\ tokens[t].bodies < MaxAnswers /\ tokens' = Used(t, known)
               /\ downloads' = [downloads EXCEPT ![d].stage = IF known THEN "known" ELSE "counted"]
          ELSE downloads' = [downloads EXCEPT ![d] = Idle] /\ UNCHANGED tokens
     /\ UNCHANGED <<today, users, issued, available, delivered>>

\* The body is written, unless the client has it.
Answer(d) ==
  /\ downloads[d].stage \in {"counted", "known"} /\ downloads' = [downloads EXCEPT ![d] = Idle]
  /\ delivered' = IF downloads[d].stage = "known" THEN delivered
                  ELSE [delivered EXCEPT ![downloads[d].lineage] = @ + 1]
  /\ UNCHANGED <<today, keyVars, available>>

\* The rendering fails or the client is gone.
Abandon(d) ==
  /\ downloads[d] # Idle /\ downloads' = [downloads EXCEPT ![d] = Idle]
  /\ UNCHANGED <<today, keyVars, available, delivered>>

-----------------------------------------------------------------------------

\* Applies and edits of the channel, as far as downloads see them.
Publish(now) == available' = now /\ UNCHANGED <<today, keyVars, downloads, delivered>>
Midnight ==
  /\ today < MaxDay /\ today' = today + 1
  /\ UNCHANGED <<keyVars, available, downloads, delivered>>

PostUser(u) == \E enabled \in BOOLEAN : CreateUser(u, enabled)
PutUser(u) == \E update \in 1 .. MaxUserUpdates, enabled \in BOOLEAN : UpdateUser(u, update, enabled)
RemoveUser(u) == \E update \in 1 .. MaxUserUpdates : DeleteUser(u, update)
UserRequests(u) == PostUser(u) \/ PutUser(u) \/ RemoveUser(u)

PostToken(t) == \E u \in Users \cup {NoUser}, limit \in Limits, expires \in 1 .. Never :
                  CreateToken(t, u, limit, expires)
PostRotation(t) == \E new \in Tokens, expires \in 1 .. Never : Rotate(t, new, expires)
PostEnabled(t) == \E enabled \in BOOLEAN : SetEnabled(t, enabled)
TokenRequests(t) == PostToken(t) \/ PostRotation(t) \/ Revoke(t) \/ PostEnabled(t) \/ DeleteToken(t)

PublicSubscription(d) ==
  \/ (\E t \in Tokens : Load(d, t)) \/ (\E known \in BOOLEAN : RecordUse(d, known)) \/ Answer(d) \/ Abandon(d)

Next ==
  \/ \E u \in Users : UserRequests(u)
  \/ \E t \in Tokens : TokenRequests(t)
  \/ \E d \in Downloads : PublicSubscription(d)
  \/ Midnight \/ \E now \in BOOLEAN : Publish(now)

Spec == Init /\ [][Next]_vars

-----------------------------------------------------------------------------
(* Properties *)

\* All tokens of a lineage share one quota: however downloads overlap and
\* whatever is rotated under them, no more bodies are sent than the limit of the
\* key allows, and the token that is not revoked knows of all of them.
QuotaIsShared ==
  \A t \in DOMAIN tokens :
    /\ tokens[t].limit # Unlimited => delivered[tokens[t].lineage] <= tokens[t].limit
    /\ ~tokens[t].revoked => delivered[tokens[t].lineage] <= tokens[t].bodies

\* A download is counted only for a token that is good at that moment, however
\* long its rendering took: not after the user was disabled or deleted, the token
\* revoked, rotated, disabled or expired, or the quota spent by another download.
OnlyGoodTokensAreServed ==
  [][\A d \in Downloads :
       downloads[d].stage = "loaded" /\ downloads'[d].stage \in {"counted", "known"} =>
         LET t == downloads[d].token
         IN /\ t \in DOMAIN tokens /\ ~tokens[t].revoked /\ tokens[t].enabled
            /\ tokens[t].expires > today /\ UserEnabled(tokens[t])]_vars
=============================================================================
