---------------------------- MODULE RequestProofs ----------------------------
(***************************************************************************)
(* Proofs about the requests that the panel answers: the quota of a        *)
(* lineage of tokens holds for any number of tokens, users and overlapping *)
(* downloads, no download is counted for a token that is no longer good,   *)
(* nobody is shown an older snapshot after a newer one, the settings are   *)
(* one document whatever crashes between its journal, its file and its     *)
(* transaction, the plan of refreshes follows the sources whatever is      *)
(* edited while one of them is fetched, and logins keep to their budgets.  *)
(*                                                                         *)
(* Each part has its own inductive invariant over the variables that it    *)
(* has in MCRequests, and MCRequests behaves as the part or leaves it      *)
(* alone.                                                                  *)
(***************************************************************************)
EXTENDS MCRequests, FiniteSetTheorems, TLAPS

-----------------------------------------------------------------------------
(* The tokens and their downloads. A body is counted before it is sent, so *)
(* what the quota bounds is the sum of what was sent and what is counted   *)
(* and still under way; one token of a lineage at most is not revoked, and *)
(* it alone is counted on.                                                 *)

\* Requests are finitely many, limits are numbers.
KeysAssumption ==
  /\ IsFiniteSet(Downloads) /\ Limits \subseteq Nat
  /\ MaxDay \in Nat /\ MaxAnswers \in Nat /\ MaxUserUpdates \in Nat \ {0}

Counting(l) == {d \in Downloads : downloads[d].stage = "counted" /\ downloads[d].lineage = l}
Spent(l) == delivered[l] + Cardinality(Counting(l))

KeyTypes ==
  /\ DOMAIN tokens \subseteq Tokens
  /\ \A t \in DOMAIN tokens :
       tokens[t] \in [user : Users \cup {NoUser}, lineage : Tokens, enabled : BOOLEAN, revoked : BOOLEAN,
                      expires : 1 .. KeyParts!Never, limit : Limits, bodies : Nat]
  /\ downloads \in [Downloads -> KeyParts!Download \cup {KeyParts!Idle}]
  /\ delivered \in [Tokens -> Nat]

\* What was never issued is in no token, no download and no history.
IssuedInv ==
  /\ \A t \in DOMAIN tokens : t \in issued /\ tokens[t].lineage \in issued
  /\ \A d \in Downloads : downloads[d] # KeyParts!Idle => downloads[d].token \in issued /\ downloads[d].lineage \in issued
  /\ \A l \in Tokens \ issued : delivered[l] = 0

\* The tokens of a lineage have one limit, and all but one are revoked.
LineageInv ==
  \A s, t \in DOMAIN tokens :
    tokens[s].lineage = tokens[t].lineage =>
      tokens[s].limit = tokens[t].limit /\ (~tokens[s].revoked /\ ~tokens[t].revoked => s = t)

\* A download remembers the lineage of its token.
DownloadInv ==
  \A d \in Downloads : downloads[d] # KeyParts!Idle /\ downloads[d].token \in DOMAIN tokens =>
                         downloads[d].lineage = tokens[downloads[d].token].lineage

QuotaInv ==
  \A t \in DOMAIN tokens :
    /\ tokens[t].limit # Unlimited => Spent(tokens[t].lineage) <= tokens[t].limit
    /\ ~tokens[t].revoked => Spent(tokens[t].lineage) <= tokens[t].bodies

KeysInv == KeyTypes /\ IssuedInv /\ LineageInv /\ DownloadInv /\ QuotaInv

-----------------------------------------------------------------------------
(* Downloads that are counted and not yet answered *)

LEMMA CountingFinite ==
  ASSUME KeysAssumption, NEW l
  PROVE  IsFiniteSet(Counting(l)) /\ Cardinality(Counting(l)) \in Nat
<1>1. Counting(l) \in SUBSET Downloads
  BY DEF Counting
<1> QED
  BY <1>1, FS_Subset, FS_CardinalityType DEF KeysAssumption

\* A step of one download changes the count of its lineage only.
LEMMA CountingOthers ==
  ASSUME NEW l, NEW d \in Downloads, \A c \in Downloads \ {d} : downloads'[c] = downloads[c],
         ~(downloads[d].stage = "counted" /\ downloads[d].lineage = l),
         ~(downloads'[d].stage = "counted" /\ downloads'[d].lineage = l)
  PROVE  Counting(l)' = Counting(l)
BY DEF Counting

LEMMA CountingGrows ==
  ASSUME KeysAssumption, NEW d \in Downloads, NEW l, \A c \in Downloads \ {d} : downloads'[c] = downloads[c],
         downloads[d].stage # "counted", downloads'[d].stage = "counted", downloads'[d].lineage = l
  PROVE  Cardinality(Counting(l)') = Cardinality(Counting(l)) + 1
<1>1. Counting(l)' = Counting(l) \cup {d} /\ d \notin Counting(l)
  BY DEF Counting
<1> QED
  BY <1>1, CountingFinite, FS_AddElement

LEMMA CountingShrinks ==
  ASSUME KeysAssumption, NEW d \in Downloads, NEW l, \A c \in Downloads \ {d} : downloads'[c] = downloads[c],
         downloads[d].stage = "counted", downloads[d].lineage = l, downloads'[d].stage # "counted"
  PROVE  Cardinality(Counting(l)') = Cardinality(Counting(l)) - 1 /\ Cardinality(Counting(l)) >= 1
<1>1. Counting(l)' = Counting(l) \ {d} /\ d \in Counting(l)
  BY DEF Counting
<1>2. Cardinality(Counting(l)') = Cardinality(Counting(l)) - 1
  BY <1>1, CountingFinite, FS_RemoveElement
<1>3. Cardinality(Counting(l)) # 0
  BY <1>1, CountingFinite, FS_EmptySet
<1> QED
  BY <1>2, <1>3, CountingFinite

LEMMA SpentType ==
  ASSUME KeysAssumption, KeyTypes, NEW l \in Tokens
  PROVE  Spent(l) \in Nat
BY CountingFinite DEF Spent, KeyTypes

-----------------------------------------------------------------------------
(* Requests that write tokens: what was sent and counted stays *)

\* Tokens that go, or are changed in what no quota depends on.
LEMMA TokensGo ==
  ASSUME KeysInv, KeyTypes', UNCHANGED <<downloads, delivered>>, issued \subseteq issued',
         \A t \in DOMAIN tokens' :
           /\ t \in DOMAIN tokens
           /\ tokens'[t].lineage = tokens[t].lineage /\ tokens'[t].limit = tokens[t].limit
           /\ tokens'[t].bodies = tokens[t].bodies /\ (tokens[t].revoked => tokens'[t].revoked)
  PROVE  KeysInv'
<1> USE DEF KeysInv
<1>1. \A l : Spent(l)' = Spent(l)
  BY DEF Spent, Counting
<1>2. IssuedInv'
  BY DEF IssuedInv, KeyTypes
<1>3. LineageInv'
  BY DEF LineageInv, KeyTypes
<1>4. DownloadInv'
  BY DEF DownloadInv
<1>5. QuotaInv'
  <2> SUFFICES ASSUME NEW t \in DOMAIN tokens'
               PROVE  /\ tokens'[t].limit # Unlimited => Spent(tokens[t].lineage) <= tokens'[t].limit
                      /\ ~tokens'[t].revoked => Spent(tokens[t].lineage) <= tokens'[t].bodies
    BY <1>1 DEF QuotaInv, Spent, Counting
  <2> QED
    BY DEF QuotaInv, KeyTypes
<1> QED
  BY <1>2, <1>3, <1>4, <1>5

\* One token more, of a lineage of its own or of the one that it replaces.
LEMMA TokenComes ==
  ASSUME KeysAssumption, KeysInv, UNCHANGED <<downloads, delivered>>, NEW new \in Tokens \ issued,
         issued' = issued \cup {new}, DOMAIN tokens' = DOMAIN tokens \cup {new}, KeyTypes',
         \A t \in DOMAIN tokens :
           /\ tokens'[t].lineage = tokens[t].lineage /\ tokens'[t].limit = tokens[t].limit
           /\ tokens'[t].bodies = tokens[t].bodies /\ (tokens[t].revoked => tokens'[t].revoked),
         \/ tokens'[new].lineage = new
         \/ \E t \in DOMAIN tokens :
              /\ tokens'[new].lineage = tokens[t].lineage /\ tokens'[new].limit = tokens[t].limit
              /\ tokens'[new].bodies = tokens[t].bodies
              /\ ~tokens[t].revoked /\ tokens'[t].revoked
  PROVE  KeysInv'
<1> USE DEF KeysInv
<1>1. new \notin DOMAIN tokens /\ \A t \in DOMAIN tokens : tokens[t].lineage # new
  BY DEF IssuedInv
<1>2. \A l : Spent(l)' = Spent(l)
  BY DEF Spent, Counting
<1>3. Spent(new) = 0
  <2>1. Counting(new) = {}
    BY DEF Counting, IssuedInv, KeyParts!Idle
  <2>2. delivered[new] = 0
    BY DEF IssuedInv
  <2> QED
    BY <2>1, <2>2, FS_EmptySet DEF Spent
<1>4. IssuedInv'
  BY DEF IssuedInv
<1>5. LineageInv'
  <2>1. ASSUME NEW t \in DOMAIN tokens, tokens'[t].lineage = tokens'[new].lineage
        PROVE  tokens'[t].limit = tokens'[new].limit /\ tokens'[t].revoked
    BY <1>1, <2>1 DEF LineageInv, KeyTypes
  <2>2. ASSUME NEW s \in DOMAIN tokens, NEW t \in DOMAIN tokens, tokens'[s].lineage = tokens'[t].lineage
        PROVE  /\ tokens'[s].limit = tokens'[t].limit
               /\ (~tokens'[s].revoked /\ ~tokens'[t].revoked => s = t)
    BY <2>2 DEF LineageInv, KeyTypes
  <2> QED
    BY <2>1, <2>2 DEF LineageInv
<1>6. DownloadInv'
  BY <1>1 DEF DownloadInv, IssuedInv
<1>7. ASSUME NEW t \in DOMAIN tokens
      PROVE  /\ tokens'[t].limit # Unlimited => Spent(tokens'[t].lineage) <= tokens'[t].limit
             /\ ~tokens'[t].revoked => Spent(tokens'[t].lineage) <= tokens'[t].bodies
  BY DEF QuotaInv, KeyTypes
<1>8. /\ tokens'[new].limit # Unlimited => Spent(tokens'[new].lineage) <= tokens'[new].limit
      /\ ~tokens'[new].revoked => Spent(tokens'[new].lineage) <= tokens'[new].bodies
  <2>1. CASE tokens'[new].lineage = new
    <3>1. tokens'[new].limit \in Nat /\ tokens'[new].bodies \in Nat
      BY DEF KeyTypes, KeysAssumption
    <3> QED
      BY <1>3, <2>1, <3>1
  <2>2. CASE tokens'[new].lineage # new
    BY <2>2 DEF QuotaInv
  <2> QED
    BY <2>1, <2>2
<1>9. QuotaInv'
  BY <1>2, <1>7, <1>8 DEF QuotaInv
<1> QED
  BY <1>4, <1>5, <1>6, <1>9

\* The requests for users: tokens go with their user.
LEMMA UserKeeps ==
  ASSUME KeysInv, NEW u \in Users, KeyParts!UserRequests(u)
  PROVE  KeysInv'
<1>1. UNCHANGED <<downloads, delivered>> /\ issued \subseteq issued'
  BY DEF KeyParts!UserRequests, KeyParts!PostUser, KeyParts!PutUser, KeyParts!RemoveUser,
     KeyParts!CreateUser, KeyParts!UpdateUser, KeyParts!DeleteUser, KeyParts!ElseUnchanged
<1>2. UNCHANGED tokens \/ tokens' = KeyParts!Without(tokens, {t \in DOMAIN tokens : tokens[t].user = u})
  BY DEF KeyParts!UserRequests, KeyParts!PostUser, KeyParts!PutUser, KeyParts!RemoveUser,
     KeyParts!CreateUser, KeyParts!UpdateUser, KeyParts!DeleteUser, KeyParts!ElseUnchanged
<1>3. DOMAIN tokens' \subseteq DOMAIN tokens /\ \A t \in DOMAIN tokens' : tokens'[t] = tokens[t]
  BY <1>2 DEF KeyParts!Without
<1>4. KeyTypes'
  BY <1>1, <1>3 DEF KeysInv, KeyTypes
<1> QED
  BY <1>1, <1>3, <1>4, TokensGo

\* The requests for tokens.
LEMMA TokenKeeps ==
  ASSUME KeysAssumption, KeysInv, NEW t \in Tokens, KeyParts!TokenRequests(t)
  PROVE  KeysInv'
<1> USE DEF KeyParts!ElseUnchanged
<1>1. ASSUME NEW u \in Users \cup {NoUser}, NEW limit \in Limits, NEW expires \in 1 .. KeyParts!Never,
             KeyParts!CreateToken(t, u, limit, expires)
      PROVE  KeysInv'
  <2> DEFINE token == [user |-> u, lineage |-> t, enabled |-> TRUE, revoked |-> FALSE, expires |-> expires,
                       limit |-> limit, bodies |-> 0]
  <2>1. /\ t \notin issued /\ issued' = issued \cup {t} /\ tokens' = KeyParts!With(tokens, t, token)
        /\ UNCHANGED <<downloads, delivered>>
    BY <1>1 DEF KeyParts!CreateToken, KeyParts!Insert
  <2>2. t \notin DOMAIN tokens
    BY <2>1 DEF KeysInv, IssuedInv
  <2>3. /\ DOMAIN tokens' = DOMAIN tokens \cup {t} /\ tokens'[t] = token
        /\ \A s \in DOMAIN tokens : tokens'[s] = tokens[s]
    BY <2>1, <2>2 DEF KeyParts!With
  <2>4. /\ token \in [user : Users \cup {NoUser}, lineage : Tokens, enabled : BOOLEAN, revoked : BOOLEAN,
                      expires : 1 .. KeyParts!Never, limit : Limits, bodies : Nat]
        /\ token.lineage = t
    OBVIOUS
  <2> HIDE DEF token
  <2>5. KeyTypes'
    <3>1. \A s \in DOMAIN tokens' : tokens'[s] = token \/ (s \in DOMAIN tokens /\ tokens'[s] = tokens[s])
      BY <2>3
    <3> QED
      BY <2>1, <2>3, <2>4, <3>1 DEF KeysInv, KeyTypes
  <2> QED
    BY <2>1, <2>3, <2>4, <2>5, TokenComes
<1>2. ASSUME NEW new \in Tokens, NEW expires \in 1 .. KeyParts!Never, KeyParts!Rotate(t, new, expires)
      PROVE  KeysInv'
  <2> DEFINE revoked == [tokens EXCEPT ![t].revoked = TRUE]
             token == [tokens[t] EXCEPT !.expires = expires]
  <2>1. /\ t \in DOMAIN tokens /\ ~tokens[t].revoked /\ new \notin issued
        /\ issued' = issued \cup {new}
        /\ tokens' = KeyParts!With(revoked, new, token) /\ UNCHANGED <<downloads, delivered>>
    BY <1>2 DEF KeyParts!Rotate
  <2>2. new \notin DOMAIN tokens
    BY <2>1 DEF KeysInv, IssuedInv
  <2>3. /\ DOMAIN tokens' = DOMAIN tokens \cup {new} /\ tokens'[new] = token
        /\ \A s \in DOMAIN tokens : tokens'[s] = revoked[s]
    BY <2>1, <2>2 DEF KeyParts!With
  <2>4. /\ revoked[t] = [tokens[t] EXCEPT !.revoked = TRUE]
        /\ \A s \in DOMAIN tokens \ {t} : revoked[s] = tokens[s]
    BY <2>1
  <2>5. tokens[t] \in [user : Users \cup {NoUser}, lineage : Tokens, enabled : BOOLEAN, revoked : BOOLEAN,
                       expires : 1 .. KeyParts!Never, limit : Limits, bodies : Nat]
    BY <2>1 DEF KeysInv, KeyTypes
  <2>6. /\ token \in [user : Users \cup {NoUser}, lineage : Tokens, enabled : BOOLEAN, revoked : BOOLEAN,
                      expires : 1 .. KeyParts!Never, limit : Limits, bodies : Nat]
        /\ token.lineage = tokens[t].lineage /\ token.limit = tokens[t].limit
        /\ token.bodies = tokens[t].bodies
    BY <2>5
  <2>7. /\ revoked[t] \in [user : Users \cup {NoUser}, lineage : Tokens, enabled : BOOLEAN, revoked : BOOLEAN,
                           expires : 1 .. KeyParts!Never, limit : Limits, bodies : Nat]
        /\ revoked[t].lineage = tokens[t].lineage /\ revoked[t].limit = tokens[t].limit
        /\ revoked[t].bodies = tokens[t].bodies /\ revoked[t].revoked
    <3>1. revoked[t] = [tokens[t] EXCEPT !.revoked = TRUE]
      BY <2>4
    <3> HIDE DEF revoked
    <3> QED
      BY <2>5, <3>1
  <2> HIDE DEF revoked, token
  <2>8. KeyTypes'
    BY <2>1, <2>3, <2>4, <2>6, <2>7 DEF KeysInv, KeyTypes
  <2>9. \A s \in DOMAIN tokens :
          /\ tokens'[s].lineage = tokens[s].lineage /\ tokens'[s].limit = tokens[s].limit
          /\ tokens'[s].bodies = tokens[s].bodies /\ (tokens[s].revoked => tokens'[s].revoked)
    BY <2>3, <2>4, <2>7
  <2>10. \E s \in DOMAIN tokens :
           /\ tokens'[new].lineage = tokens[s].lineage /\ tokens'[new].limit = tokens[s].limit
           /\ tokens'[new].bodies = tokens[s].bodies
           /\ ~tokens[s].revoked /\ tokens'[s].revoked
    BY <2>1, <2>3, <2>6, <2>7
  <2> QED
    BY <2>1, <2>3, <2>8, <2>9, <2>10, TokenComes
<1>3. CASE KeyParts!Revoke(t)
  <2>1. /\ t \in DOMAIN tokens /\ tokens' = [tokens EXCEPT ![t].revoked = TRUE]
        /\ UNCHANGED <<downloads, delivered, issued>>
    BY <1>3 DEF KeyParts!Revoke
  <2>2. KeyTypes'
    BY <2>1 DEF KeysInv, KeyTypes
  <2> QED
    BY <2>1, <2>2, TokensGo DEF KeysInv, KeyTypes
<1>4. ASSUME NEW enabled \in BOOLEAN, KeyParts!SetEnabled(t, enabled) PROVE KeysInv'
  <2>1. /\ t \in DOMAIN tokens /\ tokens' = [tokens EXCEPT ![t].enabled = enabled]
        /\ UNCHANGED <<downloads, delivered, issued>>
    BY <1>4 DEF KeyParts!SetEnabled
  <2>2. KeyTypes'
    BY <2>1 DEF KeysInv, KeyTypes
  <2> QED
    BY <2>1, <2>2, TokensGo DEF KeysInv, KeyTypes
<1>5. CASE KeyParts!DeleteToken(t)
  <2>1. tokens' = KeyParts!Without(tokens, {t}) /\ UNCHANGED <<downloads, delivered, issued>>
    BY <1>5 DEF KeyParts!DeleteToken
  <2>2. DOMAIN tokens' \subseteq DOMAIN tokens /\ \A s \in DOMAIN tokens' : tokens'[s] = tokens[s]
    BY <2>1 DEF KeyParts!Without
  <2>3. KeyTypes'
    BY <2>1, <2>2 DEF KeysInv, KeyTypes
  <2> QED
    BY <2>1, <2>2, <2>3, TokensGo
<1> QED
  BY <1>1, <1>2, <1>3, <1>4, <1>5 DEF KeyParts!TokenRequests, KeyParts!PostToken,
     KeyParts!PostRotation, KeyParts!PostEnabled

-----------------------------------------------------------------------------
(* The public download *)

LEMMA SpentTypeAfter ==
  ASSUME KeysAssumption, KeyTypes', NEW l \in Tokens
  PROVE  Spent(l)' \in Nat
<1>1. Counting(l)' \in SUBSET Downloads
  BY DEF Counting
<1>2. Cardinality(Counting(l)') \in Nat
  BY <1>1, FS_Subset, FS_CardinalityType DEF KeysAssumption
<1> QED
  BY <1>2 DEF Spent, KeyTypes

\* A step after which no lineage has spent more keeps every quota.
LEMMA NothingSpent ==
  ASSUME KeysAssumption, KeysInv, DOMAIN tokens' = DOMAIN tokens, \A t \in DOMAIN tokens : tokens'[t] = tokens[t],
         KeyTypes', IssuedInv', DownloadInv', \A l \in Tokens : Spent(l)' <= Spent(l)
  PROVE  KeysInv'
<1> USE DEF KeysInv
<1>1. LineageInv'
  BY DEF LineageInv
<1>2. ASSUME NEW t \in DOMAIN tokens
      PROVE  /\ tokens[t].limit # Unlimited => Spent(tokens[t].lineage)' <= tokens[t].limit
             /\ ~tokens[t].revoked => Spent(tokens[t].lineage)' <= tokens[t].bodies
  <2>1. PICK l \in Tokens : l = tokens[t].lineage
    BY DEF KeyTypes
  <2>2. Spent(l)' <= Spent(l) /\ Spent(l) \in Nat /\ Spent(l)' \in Nat
    BY SpentType, SpentTypeAfter
  <2>3. /\ tokens[t].limit # Unlimited => Spent(l) <= tokens[t].limit
        /\ ~tokens[t].revoked => Spent(l) <= tokens[t].bodies
    BY <2>1 DEF QuotaInv
  <2>4. tokens[t].limit \in Nat /\ tokens[t].bodies \in Nat
    BY DEF KeyTypes, KeysAssumption
  <2>5. /\ tokens[t].limit # Unlimited => Spent(l)' <= tokens[t].limit
        /\ ~tokens[t].revoked => Spent(l)' <= tokens[t].bodies
    BY <2>2, <2>3, <2>4
  <2>6. tokens'[t] = tokens[t]
    OBVIOUS
  <2> QED
    BY <2>1, <2>5, <2>6
<1>3. QuotaInv'
  BY <1>2 DEF QuotaInv
<1> QED
  BY <1>1, <1>3

\* What a lineage has spent grows only within the bound of the counters.
SpentStays == \A l \in Tokens : Spent(l)' <= Spent(l) \/ Spent(l)' <= MaxAnswers

\* A download that begins, is refused or is counted.
LEMMA LoadKeeps ==
  ASSUME KeysAssumption, KeysInv, NEW d \in Downloads, NEW t \in Tokens, KeyParts!Load(d, t)
  PROVE  KeysInv' /\ SpentStays
<1> DEFINE new == [stage |-> "loaded", token |-> t, lineage |-> tokens[t].lineage]
<1>1. /\ downloads[d] = KeyParts!Idle /\ t \in DOMAIN tokens
      /\ downloads' = [downloads EXCEPT ![d] = new]
      /\ UNCHANGED <<tokens, issued, delivered>>
  BY DEF KeyParts!Load, KeyParts!keyVars
<1>2. new \in KeyParts!Download
  BY <1>1 DEF KeyParts!Download, KeysInv, KeyTypes
<1>3. KeyTypes'
  BY <1>1, <1>2 DEF KeysInv, KeyTypes
<1>4. downloads'[d] = new /\ \A c \in Downloads \ {d} : downloads'[c] = downloads[c]
  BY <1>1 DEF KeysInv, KeyTypes
<1>5. IssuedInv' /\ DownloadInv'
  BY <1>1, <1>4 DEF KeysInv, IssuedInv, DownloadInv
<1>6. ASSUME NEW l \in Tokens PROVE Spent(l)' <= Spent(l)
  <2>1. Counting(l)' = Counting(l)
    BY <1>1, <1>4, CountingOthers DEF KeyParts!Idle
  <2>2. Spent(l)' = Spent(l)
    BY <1>1, <2>1 DEF Spent
  <2> QED
    BY <2>2, SpentType DEF KeysInv
<1> QED
  BY <1>1, <1>3, <1>5, <1>6, NothingSpent DEF SpentStays

LEMMA RecordKeeps ==
  ASSUME KeysAssumption, KeysInv, NEW d \in Downloads, NEW known \in BOOLEAN,
         KeyParts!RecordUse(d, known)
  PROVE  KeysInv' /\ SpentStays
<1> USE DEF KeysInv
<1>0. PICK t \in Tokens, l \in Tokens : downloads[d] = [stage |-> "loaded", token |-> t, lineage |-> l]
  <2>1. downloads[d] \in KeyParts!Download \cup {KeyParts!Idle} /\ downloads[d].stage = "loaded"
    BY DEF KeyParts!RecordUse, KeyTypes
  <2>2. downloads[d] \in KeyParts!Download
    BY <2>1 DEF KeyParts!Idle
  <2> QED
    BY <2>1, <2>2 DEF KeyParts!Download
<1>1. UNCHANGED <<issued, delivered>>
  BY DEF KeyParts!RecordUse
<1>2. CASE tokens' = tokens /\ downloads' = [downloads EXCEPT ![d] = KeyParts!Idle]
  <2>1. downloads'[d] = KeyParts!Idle /\ \A c \in Downloads \ {d} : downloads'[c] = downloads[c]
    BY <1>2 DEF KeyTypes
  <2>2. KeyTypes' /\ IssuedInv' /\ DownloadInv'
    BY <1>1, <1>2, <2>1 DEF KeyTypes, IssuedInv, DownloadInv
  <2>3. ASSUME NEW k \in Tokens PROVE Spent(k)' <= Spent(k)
    <3>1. Counting(k)' = Counting(k)
      BY <1>0, <2>1, CountingOthers DEF KeyParts!Idle
    <3>2. Spent(k)' = Spent(k)
      BY <1>1, <3>1 DEF Spent
    <3> QED
      BY <3>2, SpentType
  <2> QED
    BY <1>2, <2>2, <2>3, NothingSpent DEF SpentStays
<1>3. CASE /\ t \in DOMAIN tokens /\ KeyParts!Active(tokens[t]) /\ tokens' = KeyParts!Used(t, known)
           /\ tokens[t].bodies < MaxAnswers
           /\ downloads' = [downloads EXCEPT ![d].stage = IF known THEN "known" ELSE "counted"]
  <2> DEFINE outcome == IF known THEN "known" ELSE "counted"
             new == [stage |-> outcome, token |-> t, lineage |-> l]
  <2>1. tokens[t] \in [user : Users \cup {NoUser}, lineage : Tokens, enabled : BOOLEAN, revoked : BOOLEAN,
                       expires : 1 .. KeyParts!Never, limit : Limits, bodies : Nat]
    BY <1>3 DEF KeyTypes
  <2>2. downloads'[d] = new /\ \A c \in Downloads \ {d} : downloads'[c] = downloads[c]
    BY <1>0, <1>3 DEF KeyTypes
  <2>3. new \in KeyParts!Download
    BY DEF KeyParts!Download
  <2>4. /\ DOMAIN tokens' = DOMAIN tokens
        /\ \A s \in DOMAIN tokens \ {t} : tokens'[s] = tokens[s]
        /\ tokens'[t] = [tokens[t] EXCEPT !.bodies = IF known THEN tokens[t].bodies ELSE tokens[t].bodies + 1]
    BY <1>3 DEF KeyParts!Used
  <2>5. /\ tokens'[t] \in [user : Users \cup {NoUser}, lineage : Tokens, enabled : BOOLEAN, revoked : BOOLEAN,
                           expires : 1 .. KeyParts!Never, limit : Limits, bodies : Nat]
        /\ tokens'[t].lineage = tokens[t].lineage /\ tokens'[t].limit = tokens[t].limit
        /\ tokens'[t].revoked = tokens[t].revoked
        /\ tokens'[t].bodies = IF known THEN tokens[t].bodies ELSE tokens[t].bodies + 1
    BY <2>1, <2>4
  <2>6. KeyTypes'
    <3>1. \A s \in DOMAIN tokens' : s = t \/ (s \in DOMAIN tokens /\ tokens'[s] = tokens[s])
      BY <2>4
    <3>2. downloads' \in [Downloads -> KeyParts!Download \cup {KeyParts!Idle}]
      BY <1>3, <2>2, <2>3 DEF KeyTypes
    <3> QED
      BY <1>1, <1>3, <2>4, <2>5, <3>1, <3>2 DEF KeyTypes
  <2>7. l = tokens[t].lineage
    BY <1>0, <1>3 DEF DownloadInv, KeyParts!Idle
  <2>8. IssuedInv' /\ DownloadInv'
    <3>1. \A s \in DOMAIN tokens' : s \in DOMAIN tokens /\ tokens'[s].lineage = tokens[s].lineage
      BY <2>4, <2>5
    <3>2. t \in issued /\ l \in issued
      BY <1>3, <2>7 DEF IssuedInv
    <3>3. new.token = t /\ new.lineage = l
      OBVIOUS
    <3> HIDE DEF new
    <3>4. IssuedInv'
      BY <1>1, <2>2, <2>4, <3>1, <3>2, <3>3 DEF IssuedInv
    <3>5. DownloadInv'
      BY <2>2, <2>4, <2>7, <3>1, <3>3 DEF DownloadInv
    <3> QED
      BY <3>4, <3>5
  <2>9. LineageInv'
    <3>1. \A s \in DOMAIN tokens' : /\ s \in DOMAIN tokens /\ tokens'[s].lineage = tokens[s].lineage
                                    /\ tokens'[s].limit = tokens[s].limit
                                    /\ tokens'[s].revoked = tokens[s].revoked
      BY <2>4, <2>5
    <3> QED
      BY <3>1 DEF LineageInv
  <2>10. \A k \in Tokens \ {l} : Spent(k)' = Spent(k)
    <3> SUFFICES ASSUME NEW k \in Tokens \ {l} PROVE Spent(k)' = Spent(k)
      OBVIOUS
    <3>1. Counting(k)' = Counting(k)
      BY <1>0, <2>2, CountingOthers
    <3> QED
      BY <1>1, <3>1 DEF Spent
  <2>11. Spent(l)' = IF known THEN Spent(l) ELSE Spent(l) + 1
    <3>1. CASE known
      <4>1. Counting(l)' = Counting(l)
        BY <1>0, <2>2, <3>1, CountingOthers
      <4> QED
        BY <1>1, <3>1, <4>1 DEF Spent
    <3>2. CASE ~known
      <4>1. Cardinality(Counting(l)') = Cardinality(Counting(l)) + 1
        BY <1>0, <2>2, <3>2, CountingGrows
      <4>2. delivered[l] \in Nat /\ Cardinality(Counting(l)) \in Nat
        BY CountingFinite DEF KeyTypes
      <4> QED
        BY <1>1, <3>2, <4>1, <4>2 DEF Spent
    <3> QED
      BY <3>1, <3>2
  <2>12. Spent(l) \in Nat /\ Spent(l) <= tokens[t].bodies
    BY <1>3, <2>7, SpentType DEF QuotaInv, KeyParts!Active
  <2>13. ASSUME NEW s \in DOMAIN tokens
         PROVE  /\ tokens'[s].limit # Unlimited => Spent(tokens[s].lineage)' <= tokens'[s].limit
                /\ ~tokens'[s].revoked => Spent(tokens[s].lineage)' <= tokens'[s].bodies
    <3>0. tokens'[s].lineage = tokens[s].lineage /\ tokens'[s].limit = tokens[s].limit
      BY <2>4, <2>5
    <3>1. CASE tokens[s].lineage # l
      <4>1. PICK k \in Tokens \ {l} : k = tokens[s].lineage
        BY <3>1 DEF KeyTypes
      <4>2. Spent(k)' = Spent(k)
        BY <2>10
      <4>3. s # t /\ tokens'[s] = tokens[s]
        BY <2>4, <2>7, <3>1
      <4>4. /\ tokens[s].limit # Unlimited => Spent(k) <= tokens[s].limit
            /\ ~tokens[s].revoked => Spent(k) <= tokens[s].bodies
        BY <4>1 DEF QuotaInv
      <4> QED
        BY <4>1, <4>2, <4>3, <4>4
    <3>2. CASE tokens[s].lineage = l
      <4>1. tokens[s].limit = tokens[t].limit /\ (~tokens[s].revoked => s = t)
        BY <1>3, <2>7, <3>2 DEF LineageInv, KeyParts!Active
      <4>2. tokens[t].limit # Unlimited => tokens[t].bodies < tokens[t].limit /\ tokens[t].limit \in Nat
        BY <1>3, <2>1 DEF KeyParts!Active, KeysAssumption
      <4>3. /\ Spent(l)' <= tokens'[t].bodies
            /\ (tokens[t].limit # Unlimited => Spent(l)' <= tokens[t].limit)
        BY <2>1, <2>5, <2>11, <2>12, <4>2
      <4>4. ~tokens'[s].revoked => s = t
        BY <2>4, <4>1
      <4> QED
        BY <3>0, <3>2, <4>1, <4>3, <4>4
    <3> QED
      BY <3>1, <3>2
  <2>14. QuotaInv'
    BY <2>4, <2>13 DEF QuotaInv
  <2>15. ASSUME NEW k \in Tokens PROVE Spent(k)' <= Spent(k) \/ Spent(k)' <= MaxAnswers
    <3>1. Spent(k) \in Nat
      BY SpentType
    <3>2. tokens[t].bodies \in Nat /\ MaxAnswers \in Nat /\ tokens[t].bodies < MaxAnswers
      BY <1>3, <2>1 DEF KeysAssumption
    <3> QED
      BY <2>10, <2>11, <2>12, <3>1, <3>2
  <2> QED
    BY <2>6, <2>8, <2>9, <2>14, <2>15 DEF SpentStays
<1> QED
  BY <1>0, <1>2, <1>3 DEF KeyParts!RecordUse

\* A body is sent that was counted, or the download ends without one.
LEMMA EndKeeps ==
  ASSUME KeysAssumption, KeysInv, NEW d \in Downloads, KeyParts!Answer(d) \/ KeyParts!Abandon(d)
  PROVE  KeysInv' /\ SpentStays
<1> USE DEF KeysInv
<1>1. /\ downloads[d] # KeyParts!Idle /\ downloads' = [downloads EXCEPT ![d] = KeyParts!Idle]
      /\ UNCHANGED <<tokens, issued>>
      /\ \/ UNCHANGED delivered
         \/ /\ downloads[d].stage = "counted"
            /\ delivered' = [delivered EXCEPT ![downloads[d].lineage] = @ + 1]
  BY DEF KeyParts!Answer, KeyParts!Abandon, KeyParts!keyVars, KeyParts!Idle, KeyTypes,
     KeyParts!Download
<1>2. PICK l \in Tokens : l = downloads[d].lineage
  BY <1>1 DEF KeyTypes, KeyParts!Download
<1>3. downloads'[d] = KeyParts!Idle /\ \A c \in Downloads \ {d} : downloads'[c] = downloads[c]
  BY <1>1 DEF KeyTypes
<1>4. KeyTypes'
  BY <1>1, <1>2 DEF KeyTypes
<1>5. l \in issued
  BY <1>1, <1>2 DEF IssuedInv
<1>6. IssuedInv' /\ DownloadInv'
  BY <1>1, <1>2, <1>3, <1>5 DEF IssuedInv, DownloadInv, KeyTypes
<1>7. ASSUME NEW k \in Tokens PROVE Spent(k)' <= Spent(k)
  <2>1. delivered[k] \in Nat /\ Cardinality(Counting(k)) \in Nat
    BY CountingFinite DEF KeyTypes
  <2>2. CASE downloads[d].stage = "counted" /\ k = l
    <3>1. Cardinality(Counting(k)') = Cardinality(Counting(k)) - 1
      BY <1>2, <1>3, <2>2, CountingShrinks DEF KeyParts!Idle
    <3>2. delivered'[k] \in {delivered[k], delivered[k] + 1}
      BY <1>1, <1>2, <2>2 DEF KeyTypes
    <3> QED
      BY <2>1, <3>1, <3>2 DEF Spent
  <2>3. CASE ~(downloads[d].stage = "counted" /\ k = l)
    <3>1. Counting(k)' = Counting(k)
      BY <1>2, <1>3, <2>3, CountingOthers DEF KeyParts!Idle
    <3>2. delivered'[k] = delivered[k]
      BY <1>1, <1>2, <2>3 DEF KeyTypes
    <3> QED
      BY <2>1, <3>1, <3>2 DEF Spent
  <2> QED
    BY <2>2, <2>3
<1> QED
  BY <1>1, <1>4, <1>6, <1>7, NothingSpent DEF SpentStays

-----------------------------------------------------------------------------
(***************************************************************************)
(* Of every token it is known how much its lineage has sent and counted,   *)
(* that its limit is that of the lineage, and that no other one is good.   *)
(***************************************************************************)
THEOREM KeysInvariant ==
  ASSUME KeysAssumption
  PROVE  KeyParts!Spec => []KeysInv
<1>1. KeyParts!Init => KeysInv
  BY DEF KeyParts!Init, KeyParts!Empty, KeyParts!Idle, KeysInv, KeyTypes, IssuedInv, LineageInv,
     DownloadInv, QuotaInv
<1>2. KeysInv /\ [KeyParts!Next]_(KeyParts!vars) => KeysInv'
  <2> SUFFICES ASSUME KeysInv, [KeyParts!Next]_(KeyParts!vars) PROVE KeysInv'
    OBVIOUS
  <2>1. ASSUME UNCHANGED <<tokens, issued, downloads, delivered>> PROVE KeysInv'
    BY <2>1, TokensGo DEF KeysInv, KeyTypes
  <2>2. CASE \/ KeyParts!Midnight
             \/ (\E now \in BOOLEAN : KeyParts!Publish(now))
             \/ UNCHANGED KeyParts!vars
    BY <2>1, <2>2 DEF KeyParts!Midnight, KeyParts!Publish, KeyParts!vars, KeyParts!keyVars
  <2>3. ASSUME NEW d \in Downloads, KeyParts!PublicSubscription(d) PROVE KeysInv'
    BY <2>3, LoadKeeps, RecordKeeps, EndKeeps DEF KeyParts!PublicSubscription
  <2> QED
    BY <2>2, <2>3, UserKeeps, TokenKeeps DEF KeyParts!Next
<1> QED
  BY <1>1, <1>2, PTL DEF KeyParts!Spec

(***************************************************************************)
(* All tokens of a lineage share one quota, for any number of tokens and   *)
(* of downloads that overlap (RecordSubscriptionTokenUse,                  *)
(* RotateSubscriptionToken): downloads are finitely many, limits numbers.  *)
(***************************************************************************)
THEOREM QuotaIsAlwaysShared ==
  ASSUME KeysAssumption
  PROVE  KeyParts!Spec => []KeyParts!QuotaIsShared
<1>1. KeysInv => KeyParts!QuotaIsShared
  <2> SUFFICES ASSUME KeysInv, NEW t \in DOMAIN tokens
               PROVE  /\ tokens[t].limit # Unlimited => delivered[tokens[t].lineage] <= tokens[t].limit
                      /\ ~tokens[t].revoked => delivered[tokens[t].lineage] <= tokens[t].bodies
    BY DEF KeyParts!QuotaIsShared
  <2>1. PICK l \in Tokens : l = tokens[t].lineage
    BY DEF KeysInv, KeyTypes
  <2>2. delivered[l] \in Nat /\ Cardinality(Counting(l)) \in Nat
    BY CountingFinite DEF KeysInv, KeyTypes
  <2>3. tokens[t].limit \in Nat /\ tokens[t].bodies \in Nat
    BY DEF KeysInv, KeyTypes, KeysAssumption
  <2> QED
    BY <2>1, <2>2, <2>3 DEF KeysInv, QuotaInv, Spent
<1> QED
  BY <1>1, KeysInvariant, PTL

-----------------------------------------------------------------------------
(* The types of the keys: with the bounds of the counters *)

KeyBounds == KeyParts!TypeOK /\ \A l \in Tokens : Spent(l) <= MaxAnswers

LEMMA SpentKeeps ==
  ASSUME KeysAssumption, KeysInv, KeysInv', KeyBounds, SpentStays
  PROVE  (\A l \in Tokens : Spent(l) <= MaxAnswers)' /\ delivered' \in [Tokens -> 0 .. MaxAnswers]
<1>1. ASSUME NEW l \in Tokens PROVE Spent(l)' <= MaxAnswers /\ delivered'[l] \in 0 .. MaxAnswers
  <2>1. Counting(l)' \in SUBSET Downloads
    BY DEF Counting
  <2>2. Cardinality(Counting(l)') \in Nat
    BY <2>1, FS_Subset, FS_CardinalityType DEF KeysAssumption
  <2>3. Spent(l) \in Nat /\ Spent(l)' \in Nat /\ delivered'[l] \in Nat /\ MaxAnswers \in Nat
    BY SpentType, SpentTypeAfter DEF KeysInv, KeyTypes, KeysAssumption
  <2>4. Spent(l)' <= MaxAnswers
    BY <2>3 DEF SpentStays, KeyBounds
  <2> QED
    BY <2>2, <2>3, <2>4 DEF Spent
<1> QED
  BY <1>1 DEF KeysInv, KeyTypes

\* A request that writes users or tokens leaves what was sent and counted.
LEMMA NothingSent ==
  ASSUME KeysAssumption, KeysInv, UNCHANGED <<downloads, delivered>>
  PROVE  SpentStays
<1> SUFFICES ASSUME NEW l \in Tokens PROVE Spent(l)' <= Spent(l)
  BY DEF SpentStays
<1>1. Spent(l)' = Spent(l)
  BY DEF Spent, Counting
<1> QED
  BY <1>1, SpentType DEF KeysInv

LEMMA UserBounds ==
  ASSUME KeysAssumption, KeysInv, KeysInv', KeyBounds, NEW u \in Users, KeyParts!UserRequests(u)
  PROVE  KeyBounds'
<1> USE DEF KeysAssumption
<1>1. UNCHANGED <<today, available, downloads, delivered>>
  BY DEF KeyParts!UserRequests, KeyParts!PostUser, KeyParts!PutUser, KeyParts!RemoveUser,
         KeyParts!CreateUser, KeyParts!UpdateUser, KeyParts!DeleteUser, KeyParts!ElseUnchanged
<1>2. SpentStays
  BY <1>1, NothingSent
<1> SUFFICES KeyParts!TypeOK'
  BY <1>2, SpentKeeps DEF KeyBounds
<1> USE DEF KeyBounds, KeyParts!TypeOK, KeyParts!Range
<1>3. ASSUME NEW enabled \in BOOLEAN, KeyParts!CreateUser(u, enabled) PROVE KeyParts!TypeOK'
  <2> DEFINE new == [enabled |-> enabled, update |-> 1]
  <2>1. new \in KeyParts!User
    BY DEF KeyParts!User
  <2>2. users' = KeyParts!With(users, u, new) /\ issued' = issued \cup {u} /\ UNCHANGED tokens
    BY <1>3 DEF KeyParts!CreateUser
  <2> HIDE DEF new
  <2>3. DOMAIN users' = DOMAIN users \cup {u} /\ \A v \in DOMAIN users' : users'[v] \in KeyParts!User
    BY <2>1, <2>2 DEF KeyParts!With
  <2> QED
    BY <1>1, <2>2, <2>3
<1>4. ASSUME NEW update \in 1 .. MaxUserUpdates, NEW enabled \in BOOLEAN,
             KeyParts!UpdateUser(u, update, enabled)
      PROVE  KeyParts!TypeOK'
  <2>1. /\ u \in DOMAIN users
        /\ users' = [users EXCEPT ![u].enabled = enabled, ![u].update = update + 1]
        /\ update + 1 \in 1 .. MaxUserUpdates /\ UNCHANGED <<tokens, issued>>
    BY <1>4 DEF KeyParts!UpdateUser, KeyParts!CurrentUser
  <2>2. users[u] \in KeyParts!User
    BY <2>1
  <2>3. DOMAIN users' = DOMAIN users /\ \A v \in DOMAIN users' : users'[v] \in KeyParts!User
    BY <2>1, <2>2 DEF KeyParts!User
  <2> QED
    BY <1>1, <2>1, <2>3
<1>5. ASSUME NEW update \in 1 .. MaxUserUpdates, KeyParts!DeleteUser(u, update)
      PROVE  KeyParts!TypeOK'
  <2>1. /\ users' = KeyParts!Without(users, {u}) /\ UNCHANGED issued
        /\ tokens' = KeyParts!Without(tokens, {t \in DOMAIN tokens : tokens[t].user = u})
    BY <1>5 DEF KeyParts!DeleteUser
  <2>2. DOMAIN users' = DOMAIN users \ {u} /\ \A v \in DOMAIN users' : users'[v] = users[v]
    BY <2>1 DEF KeyParts!Without
  <2>3. /\ DOMAIN tokens' \subseteq DOMAIN tokens
        /\ \A t \in DOMAIN tokens' : tokens'[t] = tokens[t] /\ tokens[t].user # u
    BY <2>1 DEF KeyParts!Without
  <2>4. \A t \in DOMAIN tokens' : tokens'[t].user \in DOMAIN users' \cup {NoUser} /\ tokens'[t] \in KeyParts!Token
    BY <2>2, <2>3
  <2>5. \A v \in DOMAIN users' : users'[v] \in KeyParts!User
    BY <2>2
  <2>6. /\ KeyParts!Range(tokens)' \subseteq KeyParts!Token
        /\ KeyParts!Range(users)' \subseteq KeyParts!User
    BY <2>4, <2>5
  <2>7. /\ delivered' \in [Tokens -> 0 .. MaxAnswers]
        /\ \A d \in Downloads : downloads'[d] \in KeyParts!Download \cup {KeyParts!Idle}
    BY <1>1
  <2> QED
    BY <1>1, <2>1, <2>2, <2>3, <2>4, <2>6, <2>7
<1> QED
  BY <1>3, <1>4, <1>5 DEF KeyParts!UserRequests, KeyParts!PostUser, KeyParts!PutUser,
     KeyParts!RemoveUser

\* A token that comes or changes is one that the types allow.
LEMMA TokenTypes ==
  ASSUME KeyParts!TypeOK, UNCHANGED <<today, users, available>>, issued \subseteq issued',
         issued' \subseteq Tokens \cup Users,
         DOMAIN tokens' \subseteq issued',
         downloads' \in [Downloads -> KeyParts!Download \cup {KeyParts!Idle}],
         delivered' \in [Tokens -> 0 .. MaxAnswers],
         \A t \in DOMAIN tokens' : tokens'[t] \in KeyParts!Token /\ tokens'[t].user \in DOMAIN users \cup {NoUser}
  PROVE  KeyParts!TypeOK'
BY DEF KeyParts!TypeOK, KeyParts!Range

LEMMA TokenBounds ==
  ASSUME KeysAssumption, KeysInv, KeysInv', KeyBounds, NEW t \in Tokens, KeyParts!TokenRequests(t)
  PROVE  KeyBounds'
<1> USE DEF KeysAssumption, KeyBounds, KeysInv, KeyTypes
<1>1. UNCHANGED <<today, users, available, downloads, delivered>>
  BY DEF KeyParts!TokenRequests, KeyParts!PostToken, KeyParts!PostRotation,
     KeyParts!PostEnabled, KeyParts!CreateToken, KeyParts!Rotate, KeyParts!Revoke,
     KeyParts!SetEnabled, KeyParts!DeleteToken, KeyParts!ElseUnchanged
<1>2. SpentStays
  BY <1>1, NothingSent
<1>3. \A s \in DOMAIN tokens : tokens[s] \in KeyParts!Token /\ tokens[s].user \in DOMAIN users \cup {NoUser}
  BY DEF KeyParts!TypeOK, KeyParts!Range
<1>4. DOMAIN tokens \subseteq issued /\ issued \subseteq Tokens \cup Users
  BY DEF KeyParts!TypeOK
<1> SUFFICES /\ issued \subseteq issued' /\ issued' \subseteq Tokens \cup Users /\ DOMAIN tokens' \subseteq issued'
             /\ \A s \in DOMAIN tokens' :
                  tokens'[s] \in KeyParts!Token /\ tokens'[s].user \in DOMAIN users \cup {NoUser}
  BY <1>1, <1>2, SpentKeeps, TokenTypes
<1>5. ASSUME NEW u \in Users \cup {NoUser}, NEW limit \in Limits, NEW expires \in 1 .. KeyParts!Never,
             KeyParts!CreateToken(t, u, limit, expires)
      PROVE  /\ issued \subseteq issued' /\ issued' \subseteq Tokens \cup Users
             /\ DOMAIN tokens' \subseteq issued'
             /\ \A s \in DOMAIN tokens' :
                  tokens'[s] \in KeyParts!Token /\ tokens'[s].user \in DOMAIN users \cup {NoUser}
  <2> DEFINE token == [user |-> u, lineage |-> t, enabled |-> TRUE, revoked |-> FALSE, expires |-> expires,
                       limit |-> limit, bodies |-> 0]
  <2>1. /\ issued' = issued \cup {t} /\ tokens' = KeyParts!With(tokens, t, token)
        /\ u \in DOMAIN users \cup {NoUser}
    BY <1>5 DEF KeyParts!CreateToken, KeyParts!Insert
  <2>2. token \in KeyParts!Token /\ token.user = u
    BY DEF KeyParts!Token
  <2> HIDE DEF token
  <2>3. /\ DOMAIN tokens' = DOMAIN tokens \cup {t}
        /\ \A s \in DOMAIN tokens' : tokens'[s] = IF s = t THEN token ELSE tokens[s]
    BY <2>1 DEF KeyParts!With
  <2> QED
    BY <1>3, <1>4, <2>1, <2>2, <2>3
<1>6. ASSUME NEW new \in Tokens, NEW expires \in 1 .. KeyParts!Never, KeyParts!Rotate(t, new, expires)
      PROVE  /\ issued \subseteq issued' /\ issued' \subseteq Tokens \cup Users
             /\ DOMAIN tokens' \subseteq issued'
             /\ \A s \in DOMAIN tokens' :
                  tokens'[s] \in KeyParts!Token /\ tokens'[s].user \in DOMAIN users \cup {NoUser}
  <2> DEFINE revoked == [tokens EXCEPT ![t].revoked = TRUE]
             token == [tokens[t] EXCEPT !.expires = expires]
  <2>1. /\ t \in DOMAIN tokens /\ issued' = issued \cup {new}
        /\ tokens' = KeyParts!With(revoked, new, token)
    BY <1>6 DEF KeyParts!Rotate
  <2>2. tokens[t] \in KeyParts!Token /\ tokens[t].user \in DOMAIN users \cup {NoUser}
    BY <1>3, <2>1
  <2>3. token \in KeyParts!Token /\ token.user = tokens[t].user
    BY <2>2 DEF KeyParts!Token
  <2>4. DOMAIN revoked = DOMAIN tokens /\ \A s \in DOMAIN tokens \ {t} : revoked[s] = tokens[s]
    BY <2>1
  <2>5. revoked[t] = [tokens[t] EXCEPT !.revoked = TRUE]
    BY <2>1
  <2> HIDE DEF revoked
  <2>6. revoked[t] \in KeyParts!Token /\ revoked[t].user = tokens[t].user
    BY <2>2, <2>5 DEF KeyParts!Token
  <2> HIDE DEF token
  <2>7. /\ DOMAIN tokens' = DOMAIN tokens \cup {new}
        /\ \A s \in DOMAIN tokens' : tokens'[s] = IF s = new THEN token ELSE revoked[s]
    BY <2>1, <2>4 DEF KeyParts!With
  <2> QED
    BY <1>3, <1>4, <2>1, <2>2, <2>3, <2>4, <2>6, <2>7
<1>7. CASE KeyParts!Revoke(t)
  BY <1>3, <1>4, <1>7 DEF KeyParts!Revoke, KeyParts!Token
<1>8. ASSUME NEW enabled \in BOOLEAN, KeyParts!SetEnabled(t, enabled)
      PROVE  /\ issued \subseteq issued' /\ issued' \subseteq Tokens \cup Users
             /\ DOMAIN tokens' \subseteq issued'
             /\ \A s \in DOMAIN tokens' :
                  tokens'[s] \in KeyParts!Token /\ tokens'[s].user \in DOMAIN users \cup {NoUser}
  BY <1>3, <1>4, <1>8 DEF KeyParts!SetEnabled, KeyParts!Token
<1>9. CASE KeyParts!DeleteToken(t)
  BY <1>3, <1>4, <1>9 DEF KeyParts!DeleteToken, KeyParts!Without
<1> QED
  BY <1>5, <1>6, <1>7, <1>8, <1>9
  DEF KeyParts!TokenRequests, KeyParts!PostToken, KeyParts!PostRotation, KeyParts!PostEnabled

LEMMA DownloadBounds ==
  ASSUME KeysAssumption, KeysInv, KeysInv', KeyBounds, NEW d \in Downloads,
         KeyParts!PublicSubscription(d)
  PROVE  KeyBounds'
<1> USE DEF KeyBounds
<1>1. SpentStays
  BY LoadKeeps, RecordKeeps, EndKeeps DEF KeyParts!PublicSubscription
<1>2. UNCHANGED <<today, users, available, issued>>
  BY DEF KeyParts!PublicSubscription, KeyParts!Load, KeyParts!RecordUse, KeyParts!Answer,
     KeyParts!Abandon, KeyParts!keyVars
<1>3. \A s \in DOMAIN tokens : tokens[s] \in KeyParts!Token /\ tokens[s].user \in DOMAIN users \cup {NoUser}
  BY DEF KeyParts!TypeOK, KeyParts!Range
<1>4. DOMAIN tokens \subseteq issued /\ issued \subseteq Tokens \cup Users
  BY DEF KeyParts!TypeOK
<1>5. /\ DOMAIN tokens' = DOMAIN tokens
      /\ \A s \in DOMAIN tokens : tokens'[s] \in KeyParts!Token /\ tokens'[s].user = tokens[s].user
  <2>1. CASE UNCHANGED tokens
    BY <1>3, <2>1
  <2>2. ASSUME NEW known \in BOOLEAN, NEW t \in DOMAIN tokens,
               tokens[t].bodies < MaxAnswers, tokens' = KeyParts!Used(t, known)
        PROVE  /\ DOMAIN tokens' = DOMAIN tokens
               /\ \A s \in DOMAIN tokens : tokens'[s] \in KeyParts!Token /\ tokens'[s].user = tokens[s].user
    <3>1. /\ DOMAIN tokens' = DOMAIN tokens /\ \A s \in DOMAIN tokens \ {t} : tokens'[s] = tokens[s]
          /\ tokens'[t] = [tokens[t] EXCEPT !.bodies = IF known THEN tokens[t].bodies ELSE tokens[t].bodies + 1]
      BY <2>2 DEF KeyParts!Used
    <3>2. tokens[t] \in KeyParts!Token /\ tokens[t].bodies \in 0 .. MaxAnswers
      BY <1>3 DEF KeyParts!Token
    <3>3. (IF known THEN tokens[t].bodies ELSE tokens[t].bodies + 1) \in 0 .. MaxAnswers
      BY <2>2, <3>2 DEF KeysAssumption
    <3>4. tokens'[t] \in KeyParts!Token /\ tokens'[t].user = tokens[t].user
      BY <3>1, <3>2, <3>3 DEF KeyParts!Token
    <3> QED
      BY <1>3, <3>1, <3>4
  <2> QED
    BY <2>1, <2>2 DEF KeyParts!PublicSubscription, KeyParts!Load, KeyParts!RecordUse,
       KeyParts!Answer, KeyParts!Abandon, KeyParts!keyVars
<1>6. downloads' \in [Downloads -> KeyParts!Download \cup {KeyParts!Idle}]
  BY DEF KeysInv, KeyTypes
<1> QED
  BY <1>1, <1>2, <1>3, <1>4, <1>5, <1>6, SpentKeeps, TokenTypes

LEMMA KeysAreBounded ==
  ASSUME KeysAssumption
  PROVE  KeyParts!Spec => []KeyBounds
<1>1. KeyParts!Init => KeyBounds
  <2> SUFFICES ASSUME KeyParts!Init PROVE KeyBounds
    OBVIOUS
  <2>1. \A l \in Tokens : Counting(l) = {}
    BY DEF Counting, KeyParts!Init, KeyParts!Idle
  <2>2. \A l \in Tokens : Spent(l) = 0
    BY <2>1, FS_EmptySet DEF Spent, KeyParts!Init
  <2>3. DOMAIN users = {} /\ DOMAIN tokens = {} /\ issued = {} /\ today = 0 /\ available = FALSE
    BY DEF KeyParts!Init, KeyParts!Empty
  <2>4. /\ \A d \in Downloads : downloads[d] \in KeyParts!Download \cup {KeyParts!Idle}
        /\ delivered \in [Tokens -> 0 .. MaxAnswers] /\ 0 \in 0 .. MaxDay /\ 0 <= MaxAnswers
    BY DEF KeyParts!Init, KeysAssumption
  <2>5. KeyParts!Range(users) = {} /\ KeyParts!Range(tokens) = {}
    BY <2>3 DEF KeyParts!Range
  <2> QED
    BY <2>2, <2>3, <2>4, <2>5 DEF KeyBounds, KeyParts!TypeOK
<1>2. KeysInv /\ KeysInv' /\ KeyBounds /\ [KeyParts!Next]_(KeyParts!vars) => KeyBounds'
  <2> SUFFICES ASSUME KeysInv, KeysInv', KeyBounds, [KeyParts!Next]_(KeyParts!vars) PROVE KeyBounds'
    OBVIOUS
  <2>1. ASSUME UNCHANGED <<users, tokens, issued, downloads, delivered>>, today' \in 0 .. MaxDay,
               available' \in BOOLEAN
        PROVE  KeyBounds'
    BY <2>1, NothingSent, SpentKeeps DEF KeyBounds, KeyParts!TypeOK, KeyParts!Range
  <2>2. CASE \/ KeyParts!Midnight
             \/ (\E now \in BOOLEAN : KeyParts!Publish(now))
             \/ UNCHANGED KeyParts!vars
    BY <2>1, <2>2 DEF KeyParts!Midnight, KeyParts!Publish, KeyParts!vars, KeyParts!keyVars,
       KeyBounds, KeyParts!TypeOK, KeysAssumption
  <2> QED
    BY <2>2, UserBounds, TokenBounds, DownloadBounds DEF KeyParts!Next
<1> QED
  BY <1>1, <1>2, KeysInvariant, PTL DEF KeyParts!Spec

\* A step that counts a download is the conditional update of its token.
LEMMA OnlyRecordCounts ==
  ASSUME KeysInv, NEW d \in Downloads, [KeyParts!Next]_(KeyParts!vars),
         downloads[d].stage = "loaded", downloads'[d].stage \in {"counted", "known"}
  PROVE  \E known \in BOOLEAN : KeyParts!RecordUse(d, known)
<1> USE DEF KeysInv, KeyTypes
<1>1. downloads' # downloads
  OBVIOUS
<1>2. PICK e \in Downloads : KeyParts!PublicSubscription(e)
  BY <1>1 DEF KeyParts!Next, KeyParts!vars, KeyParts!Midnight, KeyParts!Publish,
     KeyParts!ElseUnchanged, KeyParts!UserRequests, KeyParts!PostUser, KeyParts!PutUser,
     KeyParts!RemoveUser, KeyParts!CreateUser, KeyParts!UpdateUser, KeyParts!DeleteUser,
     KeyParts!TokenRequests, KeyParts!PostToken, KeyParts!PostRotation, KeyParts!PostEnabled,
     KeyParts!CreateToken, KeyParts!Rotate, KeyParts!Revoke, KeyParts!SetEnabled,
     KeyParts!DeleteToken
<1>3. \A c \in Downloads \ {e} : downloads'[c] = downloads[c]
  BY <1>2 DEF KeyParts!PublicSubscription, KeyParts!Load, KeyParts!RecordUse, KeyParts!Answer,
     KeyParts!Abandon
<1>4. e = d
  BY <1>3
<1>5. ~\E t \in Tokens : KeyParts!Load(d, t)
  BY DEF KeyParts!Load, KeyParts!Idle
<1>6. ~KeyParts!Answer(d) /\ ~KeyParts!Abandon(d)
  BY DEF KeyParts!Answer, KeyParts!Abandon, KeyParts!Idle
<1>7. PICK known \in BOOLEAN : KeyParts!RecordUse(d, known)
  BY <1>2, <1>4, <1>5, <1>6 DEF KeyParts!PublicSubscription
<1> QED
  BY <1>7

(***************************************************************************)
(* A download is counted only for a token that is good at that moment,     *)
(* however long its rendering took (RecordSubscriptionTokenUse).           *)
(***************************************************************************)
THEOREM GoodTokensAreServed ==
  ASSUME KeysAssumption
  PROVE  KeyParts!Spec => KeyParts!OnlyGoodTokensAreServed
<1> DEFINE Good(d) == LET t == downloads[d].token
                      IN /\ t \in DOMAIN tokens /\ ~tokens[t].revoked /\ tokens[t].enabled
                         /\ tokens[t].expires > today /\ KeyParts!UserEnabled(tokens[t])
           Served == \A d \in Downloads : downloads[d].stage = "loaded" /\ downloads'[d].stage \in {"counted", "known"} => Good(d)
<1>1. KeysInv /\ [KeyParts!Next]_(KeyParts!vars) => Served
  <2> SUFFICES ASSUME KeysInv, [KeyParts!Next]_(KeyParts!vars), NEW d \in Downloads,
                      downloads[d].stage = "loaded", downloads'[d].stage \in {"counted", "known"}
               PROVE  Good(d)
    OBVIOUS
  <2>1. PICK known \in BOOLEAN : KeyParts!RecordUse(d, known)
    BY OnlyRecordCounts
  <2>2. downloads' # [downloads EXCEPT ![d] = KeyParts!Idle]
    BY DEF KeysInv, KeyTypes, KeyParts!Idle
  <2> QED
    BY <2>1, <2>2 DEF KeyParts!RecordUse, KeyParts!Active
<1>2. KeyParts!Spec => [][Served]_(KeyParts!vars)
  BY <1>1, KeysInvariant, PTL DEF KeyParts!Spec
<1> QED
  BY <1>2 DEF KeyParts!OnlyGoodTokensAreServed

-----------------------------------------------------------------------------
(* The dashboards. Only a goroutine of the current generation publishes,   *)
(* there is at most one, and what it holds was collected after what is     *)
(* cached: the generation rises whenever one is cancelled and whenever one *)
(* starts.                                                                 *)

FeedTypes ==
  /\ version \in Nat \ {Feed!Empty} /\ feedClock \in Nat /\ generation \in Nat
  /\ snapshot \in [version : Nat, at : Nat]
  /\ workers \subseteq [generation : Nat, due : Nat, version : Nat]
  /\ subscribers \subseteq Readers
  /\ channel \in [Readers -> Nat \cup {Feed!Failed}] /\ shown \in [Readers -> Nat]

\* A goroutine of the current generation is the only one, and runs for somebody.
OneCurrent ==
  /\ \A w \in workers : w.generation <= generation
  /\ \A v, w \in workers : Feed!Current(v) /\ Feed!Current(w) => v = w

\* What is cached is no newer than what there is, and no newer than what the
\* current goroutine holds.
CachedIsOldest ==
  /\ snapshot.version <= version
  /\ \A w \in workers : /\ w.version <= version
                        /\ Feed!Current(w) /\ w.version # Feed!Empty => snapshot.version <= w.version

\* What waits is the cached snapshot, nothing waits for one who is not there, and
\* nobody has been shown a newer one.
ChannelsAreFresh ==
  \A r \in Readers : /\ r \notin subscribers => channel[r] = Feed!Empty
                     /\ channel[r] \notin {Feed!Empty, Feed!Failed} => channel[r] = snapshot.version
                     /\ shown[r] <= snapshot.version

FeedInv == FeedTypes /\ OneCurrent /\ CachedIsOldest /\ ChannelsAreFresh

\* The change that a step may make to what readers see.
Forward ==
  /\ snapshot'.version >= snapshot.version
  /\ \A r \in Readers : /\ shown'[r] >= shown[r]
                        /\ channel'[r] \notin {Feed!Empty, Feed!Failed} => channel'[r] = snapshot'.version

-----------------------------------------------------------------------------
LEMMA FeedInit ==
  Feed!Init => FeedInv
BY DEF Feed!Init, FeedInv, FeedTypes, OneCurrent, CachedIsOldest, ChannelsAreFresh,
   Feed!Current, Feed!Empty, Feed!Failed, Feed!NoResult

\* A reader that comes or goes, and a snapshot that is delivered.
LEMMA ReaderKeeps ==
  ASSUME Interval \in Nat, FeedInv, NEW r \in Readers,
         Feed!subscribe(r) \/ Feed!unsubscribe(r) \/ Feed!Deliver(r)
  PROVE  FeedInv' /\ Forward
<1> USE DEF FeedInv, FeedTypes, OneCurrent, CachedIsOldest, ChannelsAreFresh, Forward,
        Feed!Current, Feed!Empty, Feed!Failed
<1>1. CASE Feed!subscribe(r)
  <2>1. channel' = [channel EXCEPT ![r] = IF Feed!Fresh THEN snapshot.version ELSE Feed!Empty]
    BY <1>1 DEF Feed!subscribe
  <2>2. \A q \in Readers : /\ channel'[q] \in Nat \cup {Feed!Failed}
                           /\ channel'[q] \notin {Feed!Empty, Feed!Failed} => channel'[q] = snapshot.version
    BY <2>1
  <2>3. UNCHANGED <<version, feedClock, snapshot, shown>> /\ subscribers' = subscribers \cup {r}
    BY <1>1 DEF Feed!subscribe
  <2>4. CASE subscribers # {}
    <3>1. UNCHANGED <<generation, workers>> /\ subscribers \subseteq subscribers'
      BY <1>1, <2>4 DEF Feed!subscribe
    <3> QED
      BY <2>1, <2>2, <2>3, <3>1
  <2>5. CASE subscribers = {}
    <3> DEFINE deadline == IF Feed!Fresh THEN snapshot.at + Interval ELSE feedClock
               new == [generation |-> generation', version |-> Feed!Empty, due |-> deadline]
    <3>1. generation' = generation + 1 /\ workers' = workers \cup {new}
      BY <1>1, <2>5 DEF Feed!subscribe
    <3>2. deadline \in Nat
      OBVIOUS
    <3>3. new \in [generation : Nat, due : Nat, version : Nat]
      BY <3>1, <3>2
    <3>4. FeedTypes'
      BY <2>1, <2>2, <2>3, <3>1, <3>3
    <3>5. OneCurrent'
      BY <3>1
    <3>6. CachedIsOldest'
      BY <2>3, <3>1
    <3>7. ChannelsAreFresh' /\ Forward
      BY <2>1, <2>2, <2>3
    <3> QED
      BY <3>4, <3>5, <3>6, <3>7
  <2> QED
    BY <2>4, <2>5
<1>2. ASSUME Feed!Leave(r), UNCHANGED <<version, feedClock, snapshot, workers, shown>>
      PROVE  FeedInv' /\ Forward
  <2>1. generation' \in {generation, generation + 1} /\ subscribers' = subscribers \ {r}
    BY <1>2 DEF Feed!Leave
  <2>2. channel' = [channel EXCEPT ![r] = Feed!Empty]
    BY <1>2 DEF Feed!Leave
  <2>3. FeedTypes' /\ ChannelsAreFresh' /\ Forward
    BY <1>2, <2>1, <2>2
  <2>4. OneCurrent' /\ CachedIsOldest'
    BY <1>2, <2>1
  <2> QED
    BY <2>3, <2>4
<1>3. CASE Feed!unsubscribe(r)
  BY <1>2, <1>3 DEF Feed!unsubscribe
<1>4. CASE Feed!Deliver(r)
  <2>1. CASE channel[r] = Feed!Failed
    BY <1>2, <1>4, <2>1 DEF Feed!Deliver
  <2>2. CASE channel[r] # Feed!Failed
    <3>1. /\ shown' = [shown EXCEPT ![r] = channel[r]]
          /\ channel' = [channel EXCEPT ![r] = Feed!Empty]
          /\ UNCHANGED <<version, feedClock, snapshot, workers, subscribers, generation>>
          /\ channel[r] = snapshot.version
      BY <1>4, <2>2 DEF Feed!Deliver
    <3> QED
      BY <3>1
  <2> QED
    BY <2>1, <2>2
<1> QED
  BY <1>1, <1>3, <1>4

\* A goroutine that collects, publishes or finds itself cancelled.
LEMMA WorkerKeeps ==
  ASSUME Interval \in Nat, FeedInv, NEW w \in workers, NEW failed \in BOOLEAN,
         Feed!Load(w) \/ Feed!Publish(w, failed)
  PROVE  FeedInv' /\ Forward
<1> USE DEF FeedInv, FeedTypes, OneCurrent, CachedIsOldest, ChannelsAreFresh, Forward,
        Feed!Current, Feed!Empty, Feed!Failed
<1>1. ASSUME workers' = workers \ {w},
             UNCHANGED <<version, feedClock, snapshot, generation, subscribers, channel, shown>>
      PROVE  FeedInv' /\ Forward
  BY <1>1
<1>2. CASE Feed!Load(w) /\ Feed!Current(w)
  <2> DEFINE new == [w EXCEPT !.version = version]
  <2>1. workers' = (workers \ {w}) \cup {new}
    BY <1>2 DEF Feed!Load
  <2>2. UNCHANGED <<version, feedClock, snapshot, generation, subscribers, channel, shown>>
    BY <1>2 DEF Feed!Load
  <2>3. /\ new \in [generation : Nat, due : Nat, version : Nat]
        /\ new.generation = generation /\ new.version = version
    BY <1>2
  <2> HIDE DEF new
  <2>4. FeedTypes' /\ ChannelsAreFresh' /\ Forward
    BY <2>1, <2>2, <2>3
  <2>5. OneCurrent'
    BY <1>2, <2>1, <2>2, <2>3
  <2>6. CachedIsOldest'
    BY <2>1, <2>2, <2>3
  <2> QED
    BY <2>4, <2>5, <2>6
<1>3. CASE Feed!Publish(w, failed) /\ Feed!Current(w)
  <2> DEFINE new == [w EXCEPT !.version = Feed!Empty, !.due = feedClock + Interval]
             result == IF failed THEN Feed!Failed ELSE w.version
  <2>1. /\ workers' = (workers \ {w}) \cup {new}
        /\ channel' = [r \in Readers |-> IF r \in subscribers THEN result ELSE channel[r]]
        /\ snapshot' = IF result = Feed!Failed THEN snapshot ELSE [version |-> result, at |-> feedClock]
        /\ UNCHANGED <<version, feedClock, generation, subscribers, shown>>
    BY <1>3 DEF Feed!Publish, Feed!Send
  <2>2. /\ new \in [generation : Nat, due : Nat, version : Nat]
        /\ new.generation = generation /\ new.version = Feed!Empty
    <3>1. /\ feedClock + Interval \in Nat /\ w \in [generation : Nat, due : Nat, version : Nat]
          /\ w.generation = generation
      BY <1>3
    <3>2. PICK g \in Nat, d \in Nat, v \in Nat : w = [generation |-> g, due |-> d, version |-> v]
      BY <3>1
    <3>3. [w EXCEPT !.version = Feed!Empty] = [generation |-> g, due |-> d, version |-> Feed!Empty]
      BY <3>2
    <3>4. new = [[generation |-> g, due |-> d, version |-> Feed!Empty] EXCEPT !.due = feedClock + Interval]
      BY <3>3
    <3>5. new = [generation |-> g, due |-> feedClock + Interval, version |-> Feed!Empty]
      BY <3>1, <3>4
    <3> QED
      BY <3>1, <3>2, <3>5
  <2>3. /\ result \in Nat \cup {Feed!Failed} /\ result # Feed!Empty
        /\ snapshot.version <= w.version /\ w.version <= version
    BY <1>3 DEF Feed!Publish
  <2>4. /\ snapshot' \in [version : Nat, at : Nat] /\ snapshot'.version >= snapshot.version
        /\ snapshot'.version <= version
    BY <2>1, <2>3
  <2>5. result # Feed!Failed => snapshot'.version = result
    BY <2>1
  <2>6. result = Feed!Failed => snapshot' = snapshot
    BY <2>1
  <2> HIDE DEF new, result
  <2>7. \A r \in Readers : /\ channel'[r] \in Nat \cup {Feed!Failed}
                           /\ channel'[r] \notin {Feed!Empty, Feed!Failed} => channel'[r] = snapshot'.version
    <3> SUFFICES ASSUME NEW r \in Readers
                 PROVE  /\ channel'[r] \in Nat \cup {Feed!Failed}
                        /\ channel'[r] \notin {Feed!Empty, Feed!Failed} => channel'[r] = snapshot'.version
      OBVIOUS
    <3>1. CASE r \in subscribers
      BY <2>1, <2>3, <2>5, <3>1
    <3>2. CASE r \notin subscribers
      BY <2>1, <2>6, <3>2
    <3> QED
      BY <3>1, <3>2
  <2>8. FeedTypes' /\ ChannelsAreFresh' /\ Forward
    BY <2>1, <2>2, <2>4, <2>7
  <2>9. OneCurrent' /\ CachedIsOldest'
    BY <1>3, <2>1, <2>2, <2>4
  <2> QED
    BY <2>8, <2>9
<1>4. CASE ~Feed!Current(w)
  BY <1>1, <1>4 DEF Feed!Load, Feed!Publish
<1> QED
  BY <1>2, <1>3, <1>4

\* What there is to collect changes, and time passes.
LEMMA EnvironmentKeeps ==
  ASSUME FeedInv, Feed!Change \/ Feed!Tick \/ UNCHANGED Feed!feedVars
  PROVE  FeedInv' /\ [Forward]_(Feed!feedVars)
<1> USE DEF FeedInv, FeedTypes, OneCurrent, CachedIsOldest, ChannelsAreFresh, Feed!Current,
        Feed!Empty, Feed!Failed
<1>1. CASE Feed!Change
  BY <1>1 DEF Feed!Change, Forward
<1>2. CASE Feed!Tick
  BY <1>2 DEF Feed!Tick, Forward
<1>3. CASE UNCHANGED Feed!feedVars
  BY <1>3 DEF Feed!feedVars
<1> QED
  BY <1>1, <1>2, <1>3

LEMMA FeedStep ==
  ASSUME Interval \in Nat, FeedInv, [Feed!Next]_(Feed!feedVars)
  PROVE  FeedInv' /\ [Forward]_(Feed!feedVars)
BY ReaderKeeps, WorkerKeeps, EnvironmentKeeps DEF Feed!Next

-----------------------------------------------------------------------------
(***************************************************************************)
(* Nobody is shown an older snapshot after a newer one, and what waits in  *)
(* a channel is the newest one (snapshotFeed.run, subscribe): the interval *)
(* is the only constant that must be a number.                             *)
(***************************************************************************)
THEOREM FeedNeverGoesBack ==
  ASSUME Interval \in Nat
  PROVE  Feed!Spec => Feed!SnapshotsNeverGoBack
<1>1. Feed!Init => FeedInv
  BY FeedInit
<1>2. FeedInv /\ [Feed!Next]_(Feed!feedVars) => FeedInv' /\ [Forward]_(Feed!feedVars)
  BY FeedStep
<1>3. Feed!Spec => [][Forward]_(Feed!feedVars)
  BY <1>1, <1>2, PTL DEF Feed!Spec
<1> QED
  BY <1>3 DEF Feed!SnapshotsNeverGoBack, Forward

-----------------------------------------------------------------------------
(* The types of the feed: with the bounds of its counters *)

FeedBounds == Feed!TypeOK /\ (generation > MaxGenerations => subscribers = {})

LEMMA FeedIsBounded ==
  ASSUME Interval \in Nat, MaxGenerations \in Nat, MaxVersion \in Nat \ {0}, MaxFeedTime \in Nat
  PROVE  Feed!Spec => []FeedBounds
<1> USE DEF FeedBounds, Feed!TypeOK, Feed!Empty, Feed!Failed
<1>1. Feed!Init => FeedBounds
  BY DEF Feed!Init, Feed!NoResult
<1>2. FeedInv /\ FeedInv' /\ FeedBounds /\ [Feed!Next]_(Feed!feedVars) => FeedBounds'
  <2> SUFFICES ASSUME FeedInv, FeedInv', FeedBounds, [Feed!Next]_(Feed!feedVars) PROVE FeedBounds'
    OBVIOUS
  <2>1. ASSUME NEW r \in Readers, Feed!subscribe(r) PROVE FeedBounds'
    <3>1. PICK deadline \in 0 .. MaxFeedTime + Interval :
            IF subscribers # {} THEN UNCHANGED <<generation, workers>>
            ELSE /\ generation' = generation + 1
                 /\ workers' = workers \cup {[generation |-> generation', version |-> Feed!Empty, due |-> deadline]}
      BY <2>1 DEF Feed!subscribe
    <3>2. channel' \in [Readers -> Feed!Failed .. MaxVersion]
      BY <2>1 DEF Feed!subscribe
    <3> QED
      BY <2>1, <3>1, <3>2 DEF Feed!subscribe
  <2>2. ASSUME NEW r \in Readers, r \in subscribers, Feed!Leave(r),
               UNCHANGED <<version, feedClock, snapshot, workers, shown>>
        PROVE  FeedBounds'
    BY <2>2 DEF Feed!Leave
  <2>3. ASSUME NEW r \in Readers, Feed!unsubscribe(r) PROVE FeedBounds'
    BY <2>2, <2>3 DEF Feed!unsubscribe
  <2>4. ASSUME NEW r \in Readers, Feed!Deliver(r) PROVE FeedBounds'
    <3>1. CASE channel[r] = Feed!Failed
      BY <2>2, <2>4, <3>1 DEF Feed!Deliver
    <3>2. CASE channel[r] # Feed!Failed
      <4>1. channel[r] \in 0 .. MaxVersion
        BY <3>2
      <4>2. /\ shown' = [shown EXCEPT ![r] = channel[r]]
            /\ channel' = [channel EXCEPT ![r] = Feed!Empty]
        BY <2>4, <3>2 DEF Feed!Deliver
      <4> QED
        BY <2>4, <3>2, <4>1, <4>2 DEF Feed!Deliver
    <3> QED
      BY <3>1, <3>2
  <2>5. ASSUME NEW w \in workers, Feed!Load(w) PROVE FeedBounds'
    <3>1. [w EXCEPT !.version = version]
            \in [generation : 1 .. MaxGenerations, due : 0 .. MaxFeedTime + Interval, version : Feed!Empty .. MaxVersion]
      OBVIOUS
    <3> QED
      BY <2>5, <3>1 DEF Feed!Load
  <2>6. ASSUME NEW w \in workers, NEW failed \in BOOLEAN, Feed!Publish(w, failed) PROVE FeedBounds'
    <3>1. CASE ~Feed!Current(w)
      BY <2>6, <3>1 DEF Feed!Publish
    <3>2. CASE Feed!Current(w)
      <4> DEFINE result == IF failed THEN Feed!Failed ELSE w.version
      <4>1. /\ channel' = [r \in Readers |-> IF r \in subscribers THEN result ELSE channel[r]]
            /\ workers' = (workers \ {w}) \cup {[w EXCEPT !.version = Feed!Empty, !.due = feedClock + Interval]}
            /\ snapshot' = IF result = Feed!Failed THEN snapshot ELSE [version |-> result, at |-> feedClock]
            /\ UNCHANGED <<version, feedClock, generation, subscribers, shown>>
        BY <2>6, <3>2 DEF Feed!Publish, Feed!Send
      <4>2. PICK g \in 1 .. MaxGenerations, d \in 0 .. MaxFeedTime + Interval, v \in 0 .. MaxVersion :
              w = [generation |-> g, due |-> d, version |-> v]
        OBVIOUS
      <4>3. [w EXCEPT !.version = Feed!Empty] = [generation |-> g, due |-> d, version |-> Feed!Empty]
        BY <4>2
      <4>4. [w EXCEPT !.version = Feed!Empty, !.due = feedClock + Interval]
              = [[generation |-> g, due |-> d, version |-> Feed!Empty] EXCEPT !.due = feedClock + Interval]
        BY <4>3
      <4>5. [w EXCEPT !.version = Feed!Empty, !.due = feedClock + Interval]
              = [generation |-> g, due |-> feedClock + Interval, version |-> Feed!Empty]
        BY <4>4
      <4>6. workers' \subseteq [generation : 1 .. MaxGenerations, due : 0 .. MaxFeedTime + Interval, version : Feed!Empty .. MaxVersion]
        BY <4>1, <4>5
      <4>7. result \in Feed!Failed .. MaxVersion /\ (result # Feed!Failed => result \in 0 .. MaxVersion)
        BY <4>2
      <4> HIDE DEF result
      <4>8. /\ channel' \in [Readers -> Feed!Failed .. MaxVersion]
            /\ snapshot' \in [version : Feed!Empty .. MaxVersion, at : 0 .. MaxFeedTime]
        BY <4>1, <4>7
      <4> QED
        BY <4>1, <4>6, <4>8
    <3> QED
      BY <3>1, <3>2
  <2>7. CASE Feed!Change \/ Feed!Tick \/ UNCHANGED Feed!feedVars
    BY <2>7 DEF Feed!Change, Feed!Tick, Feed!feedVars
  <2> QED
    BY <2>1, <2>3, <2>4, <2>5, <2>6, <2>7 DEF Feed!Next
<1>3. Feed!Init => FeedInv
  BY FeedInit
<1>4. FeedInv /\ [Feed!Next]_(Feed!feedVars) => FeedInv'
  BY FeedStep
<1> QED
  BY <1>1, <1>2, <1>3, <1>4, PTL DEF Feed!Spec

-----------------------------------------------------------------------------
(* The settings. A save is one step of the register that SharedSettings    *)
(* describes, although it spans a journal, a file and a transaction: what  *)
(* the three say of each other at each step of the call that holds the     *)
(* lock is FileInv, and an edit that comes in between makes the file the   *)
(* document, whatever the journal says.                                    *)

\* Nothing and the command line are no document, request or journal; bounds are numbers.
SettingsAssumption ==
  /\ None \notin Documents \cup Requests \cup SharedFile!Journal /\ "cli" \notin Requests \cup {None}
  /\ MaxSaves \in Nat /\ MaxEdits \in Nat /\ MaxSessions \in Nat /\ MaxRevision \in Nat

Saving == {"journal", "publish", "commit", "settle"}
CallType == [op : SharedFile!Operations, before : Documents \cup {None}, after : Documents \cup {None},
             error : SharedFile!Errors]
AnswerType == [op : SharedFile!Operations, status : SharedFile!Statuses, document : Documents \cup {None},
               session : 0 .. MaxSessions \cup {None}]

\* The types of what is stored and of what the actors are at.
StoreTypes ==
  /\ file \in Documents \cup {Broken} /\ pending \in SharedFile!Journal \cup {None}
  /\ marker \in 0 .. MaxSaves /\ configuration \in 0 .. MaxRevision
  /\ sessions \subseteq SharedFile!Session /\ ids \in 0 .. MaxSaves
  /\ sessionTokens \in 0 .. MaxSessions /\ edits \in 0 .. MaxEdits
ActorTypes ==
  /\ writer \in Requests \cup {None} /\ fileLock \in Requests \cup {"cli", None}
  /\ panel \in {"down", "starting", "up"} /\ pc \in [Requests -> SharedFile!Steps]
  /\ call \in [Requests -> CallType]
  /\ answer \in [Requests -> AnswerType] /\ announced \in Documents \cup {None}

\* What a call has gathered at each step; a recovery before its own work has no document.
CallInv(r) ==
  /\ pc[r] \in {"idle", "lock", "recover", "read"} => call[r].before = None
  /\ call[r].before = None \/ pc[r] \notin {"settle", "clear"} => call[r].error = "none"
  /\ pc[r] = "sessions" => call[r].before \in Documents /\ call[r].op \in {"login", "check"}
  /\ pc[r] \in Saving \/ (pc[r] = "clear" /\ call[r].before # None) =>
       call[r].before \in Documents /\ call[r].after \in Documents /\ call[r].op \in {"save", "restore"}

\* The lock is held from the recovery to the end of a call, the database in its
\* transaction.
LockInv ==
  \A r \in Requests : /\ pc[r] \notin {"idle", "lock"} <=> fileLock = r
                      /\ pc[r] = "commit" <=> writer = r

NumberInv == marker <= ids /\ (pending # None => pending.id <= ids)

\* What file, journal and mark say of each other while a call works on them.
FileInv(r) ==
  /\ pc[r] \in {"read", "sessions", "journal"} => pending = None
  /\ pc[r] = "sessions" => call[r].before.auth \in lingering \cup {SharedFile!Effective.auth}
  /\ pc[r] = "journal" => file = call[r].before \/ file # call[r].after
  /\ pc[r] \in {"publish", "commit", "settle"} =>
       /\ pending # None /\ pending.id = ids
       /\ pending.before = call[r].before /\ pending.after = call[r].after
  /\ pc[r] \in {"publish", "commit"} => marker # ids
  /\ pc[r] = "settle" /\ call[r].error = "none" => marker = ids
  /\ pc[r] = "clear" =>
       /\ pending # None /\ file = SharedFile!Effective
       /\ call[r].before # None /\ call[r].error = "none" =>
            marker = ids /\ (file = call[r].after \/ edits > 0)

SettingsInv ==
  /\ StoreTypes /\ ActorTypes /\ LockInv /\ NumberInv /\ SharedFile!SessionsAreCurrent
  /\ \A r \in Requests : CallInv(r) /\ FileInv(r)

\* What a step may be for a reader of the settings, and for those it answers.
RegisterStep == [Shared!Next]_(Shared!vars)
Truthful ==
  \A r \in Requests : panel' # "down" /\ SharedFile!Returns(r) =>
       /\ answer'[r].op \in {"read", "boot", "save", "restore"} =>
            pending' = None /\ (file' = answer'[r].document \/ edits > 0)
       /\ answer'[r].op \in {"save", "restore"} => marker' = ids'
       /\ answer'[r].op \in {"login", "check"} =>
            \E s \in sessions' : /\ s.token = answer'[r].session
                                 /\ s.auth = answer'[r].document.auth

-----------------------------------------------------------------------------
(* What the steps have in common *)

\* A step that leaves the document alone is, to a reader, a change of the sessions.
LEMMA RegisterStays ==
  ASSUME StoreTypes', SharedFile!Effective' = SharedFile!Effective, edits' = edits
  PROVE  RegisterStep
BY DEF RegisterStep, Shared!vars, Shared!Next, Shared!Authenticate, StoreTypes

LEMMA Documented ==
  ASSUME StoreTypes
  PROVE  /\ SharedFile!Effective \in Documents \cup {Broken}
         /\ pending # None => /\ pending.before \in Documents /\ pending.after \in Documents
                              /\ pending.id \in 1 .. MaxSaves
BY DEF StoreTypes, SharedFile!Effective, SharedFile!Journal

\* Only the holder of the lock is past it.
LEMMA OthersWait ==
  ASSUME LockInv, NEW r \in Requests, fileLock = r
  PROVE  \A q \in Requests \ {r} : pc[q] \in {"idle", "lock"}
BY DEF LockInv

LEMMA GoEffect ==
  ASSUME ActorTypes, NEW r \in Requests, NEW next \in SharedFile!Steps, SharedFile!Go(r, next)
  PROVE  /\ pc' \in [Requests -> SharedFile!Steps] /\ pc'[r] = next
         /\ \A q \in Requests \ {r} : pc'[q] = pc[q]
BY DEF SharedFile!Go, ActorTypes

\* A call that changes: the others' stay.
LEMMA CallSet ==
  ASSUME ActorTypes, NEW r \in Requests, NEW c \in CallType, call' = [call EXCEPT ![r] = c]
  PROVE  /\ call' \in [Requests -> CallType] /\ call'[r] = c
         /\ \A q \in Requests \ {r} : call'[q] = call[q]
BY DEF ActorTypes

\* The return of a call.
LEMMA FinishEffect ==
  ASSUME SettingsAssumption, ActorTypes, NEW r \in Requests, NEW error \in SharedFile!Errors,
         NEW d \in Documents \cup {None}, NEW s \in 0 .. MaxSessions \cup {None},
         SharedFile!Finish(r, error, d, s)
  PROVE  /\ pc' \in [Requests -> SharedFile!Steps] /\ call' \in [Requests -> CallType]
         /\ answer' \in [Requests -> AnswerType]
         /\ fileLock' \in Requests \cup {"cli", None} /\ panel' \in {"down", "starting", "up"}
         /\ announced' \in Documents \cup {None}
         /\ pc'[r] = "idle" /\ call'[r] = SharedFile!NoCall
         /\ answer'[r].op = call[r].op /\ answer'[r].document = d /\ answer'[r].session = s
         /\ (answer'[r].status = 200 => error = "none")
         /\ \A q \in Requests \ {r} : pc'[q] = pc[q] /\ call'[q] = call[q] /\ answer'[q] = answer[q]
         /\ fileLock' = IF fileLock = r THEN None ELSE fileLock
<1> USE DEF ActorTypes
<1>1. /\ SharedFile!Status(call[r].op, error) \in SharedFile!Statuses
      /\ (SharedFile!Status(call[r].op, error) = 200 => error = "none")
  BY DEF SharedFile!Status, SharedFile!Statuses, SharedFile!Errors
<1>2. PICK st \in SharedFile!Statuses : /\ st = 200 => error = "none"
                                        /\ answer' = [answer EXCEPT ![r] = [op |-> call[r].op, status |-> st,
                                                                            document |-> d, session |-> s]]
  BY <1>1 DEF SharedFile!Finish
<1>3. call[r].op \in SharedFile!Operations
  BY DEF CallType
<1>4. [op |-> call[r].op, status |-> st, document |-> d, session |-> s] \in AnswerType
  BY <1>3 DEF AnswerType
<1>5. /\ answer' \in [Requests -> AnswerType] /\ \A q \in Requests \ {r} : answer'[q] = answer[q]
      /\ answer'[r] = [op |-> call[r].op, status |-> st, document |-> d, session |-> s]
  BY <1>2, <1>4
<1>6. SharedFile!NoCall \in CallType
  BY DEF SharedFile!NoCall, CallType, SharedFile!Operations, SharedFile!Errors
<1>7. /\ call' \in [Requests -> CallType] /\ call'[r] = SharedFile!NoCall
      /\ \A q \in Requests \ {r} : call'[q] = call[q]
  BY <1>6 DEF SharedFile!Finish
<1>8. /\ pc' \in [Requests -> SharedFile!Steps] /\ pc'[r] = "idle"
      /\ \A q \in Requests \ {r} : pc'[q] = pc[q]
  BY DEF SharedFile!Finish, SharedFile!Steps
<1>9. panel' \in {"down", "starting", "up"}
  BY DEF SharedFile!Finish
<1>10. announced' \in Documents \cup {None}
  BY DEF SharedFile!Finish, SharedFile!Announce
<1>11. fileLock' = IF fileLock = r THEN None ELSE fileLock
  BY DEF SharedFile!Finish
<1> QED
  BY <1>2, <1>5, <1>7, <1>8, <1>9, <1>10, <1>11

\* Errors are answered, so nothing is claimed of them.
LEMMA FailEffect ==
  ASSUME SettingsAssumption, ActorTypes, NEW r \in Requests,
         NEW error \in SharedFile!Errors \ {"none"}, SharedFile!Fail(r, error)
  PROVE  /\ pc' \in [Requests -> SharedFile!Steps] /\ call' \in [Requests -> CallType]
         /\ answer' \in [Requests -> AnswerType]
         /\ fileLock' \in Requests \cup {"cli", None} /\ panel' \in {"down", "starting", "up"}
         /\ announced' \in Documents \cup {None}
         /\ pc'[r] = "idle" /\ call'[r] = SharedFile!NoCall /\ answer'[r].status # 200
         /\ \A q \in Requests \ {r} : pc'[q] = pc[q] /\ call'[q] = call[q] /\ answer'[q] = answer[q]
         /\ fileLock' = IF fileLock = r THEN None ELSE fileLock
<1>1. SharedFile!Finish(r, error, None, None)
  BY DEF SharedFile!Fail
<1>2. /\ error \in SharedFile!Errors /\ error # "none" /\ None \in Documents \cup {None}
      /\ None \in 0 .. MaxSessions \cup {None}
  OBVIOUS
<1>4. /\ pc' \in [Requests -> SharedFile!Steps] /\ call' \in [Requests -> CallType]
      /\ answer' \in [Requests -> AnswerType]
      /\ fileLock' \in Requests \cup {"cli", None} /\ panel' \in {"down", "starting", "up"}
      /\ announced' \in Documents \cup {None}
      /\ pc'[r] = "idle" /\ call'[r] = SharedFile!NoCall
      /\ (answer'[r].status = 200 => error = "none")
      /\ \A q \in Requests \ {r} : pc'[q] = pc[q] /\ call'[q] = call[q] /\ answer'[q] = answer[q]
      /\ fileLock' = IF fileLock = r THEN None ELSE fileLock
  BY ONLY SettingsAssumption, ActorTypes, r \in Requests, <1>1, <1>2, FinishEffect, ZenonT(60)
<1> QED
  BY <1>2, <1>4

LEMMA SameDocument ==
  ASSUME file' = file, pending' = pending, marker' = marker
  PROVE  SharedFile!Effective' = SharedFile!Effective
BY DEF SharedFile!Effective

\* Restoring the document that the mark selects changes nothing for a reader, nor
\* does removing the journal after it.
LEMMA RestoredDocument ==
  ASSUME file' \in {file, SharedFile!Effective}, pending' = pending, marker' = marker,
         pending # None /\ file \in {pending.before, pending.after}
  PROVE  SharedFile!Effective' = SharedFile!Effective
BY DEF SharedFile!Effective

LEMMA SettledDocument ==
  ASSUME file = SharedFile!Effective, file' = file, pending' \in {pending, None}, marker' = marker
  PROVE  SharedFile!Effective' = SharedFile!Effective
BY DEF SharedFile!Effective

\* The store after a step that at most restores the file, removes the journal or
\* some sessions.
LEMMA StoreStays ==
  ASSUME SettingsInv, SharedFile!Effective' = SharedFile!Effective,
         file' \in {file, SharedFile!Effective}, pending' \in {pending, None},
         UNCHANGED <<marker, configuration, SharedFile!historyVars>>, sessions' \subseteq sessions
  PROVE  StoreTypes' /\ NumberInv' /\ SharedFile!SessionsAreCurrent'
<1> USE DEF SettingsInv, SharedFile!historyVars
<1>1. StoreTypes'
  BY Documented DEF StoreTypes
<1>2. NumberInv'
  BY DEF NumberInv
<1>3. SharedFile!SessionsAreCurrent'
  BY DEF SharedFile!SessionsAreCurrent
<1> QED
  BY <1>1, <1>2, <1>3

LEMMA NobodyReturns ==
  ASSUME \A q \in Requests : pc'[q] = pc[q] \/ pc'[q] # "idle"
  PROVE  Truthful
BY DEF Truthful, SharedFile!Returns

LEMMA OnlyFailureReturns ==
  ASSUME NEW r \in Requests, answer'[r].status # 200, \A q \in Requests \ {r} : pc'[q] = pc[q]
  PROVE  Truthful
BY DEF Truthful, SharedFile!Returns

\* The invariant after a step of the holder of the lock, and after a return.
LEMMA HolderKeeps ==
  ASSUME SettingsInv, NEW r \in Requests, fileLock = r, fileLock' = r, StoreTypes', ActorTypes',
         NumberInv',
         SharedFile!SessionsAreCurrent', CallInv(r)', FileInv(r)',
         \A q \in Requests \ {r} : pc'[q] = pc[q] /\ call'[q] = call[q],
         pc'[r] \notin {"idle", "lock"}, pc'[r] = "commit" <=> writer' = r,
         writer' \in {writer, r, None},
         None \notin Requests
  PROVE  SettingsInv'
<1> USE DEF SettingsInv
<1>1. \A q \in Requests \ {r} : pc[q] \in {"idle", "lock"}
  BY OthersWait
<1>2. LockInv'
  BY <1>1 DEF LockInv
<1>3. \A q \in Requests \ {r} : CallInv(q)' /\ FileInv(q)'
  BY <1>1 DEF CallInv, FileInv, Saving
<1> QED
  BY <1>2, <1>3

LEMMA ReturnKeeps ==
  ASSUME SettingsInv, NEW r \in Requests, None \notin Requests, StoreTypes', ActorTypes',
         NumberInv', SharedFile!SessionsAreCurrent',
         pc[r] = "lock" => UNCHANGED <<file, pending, marker, ids, edits, lingering>>,
         pc'[r] = "idle", call'[r] = SharedFile!NoCall, pc[r] # "commit", writer' = writer,
         fileLock' = IF fileLock = r THEN None ELSE fileLock, pc[r] # "idle",
         \A q \in Requests \ {r} : pc'[q] = pc[q] /\ call'[q] = call[q]
  PROVE  SettingsInv'
<1> USE DEF SettingsInv
<1>1. LockInv'
  BY DEF LockInv
<1>2. CallInv(r)' /\ FileInv(r)'
  BY DEF CallInv, FileInv, Saving, SharedFile!NoCall
<1>3. ASSUME NEW q \in Requests \ {r} PROVE CallInv(q)' /\ FileInv(q)'
  <2>1. CallInv(q) /\ FileInv(q)
    OBVIOUS
  <2>2. CallInv(q)'
    BY <2>1 DEF CallInv
  <2>3. CASE pc[r] = "lock"
    BY <2>1, <2>2, <2>3, SameDocument DEF FileInv
  <2>4. CASE pc[r] # "lock"
    <3>1. pc[q] \in {"idle", "lock"}
      BY <2>4, OthersWait DEF LockInv
    <3> QED
      BY <2>2, <3>1 DEF FileInv
  <2> QED
    BY <2>3, <2>4
<1> QED
  BY <1>1, <1>2, <1>3


\* A call that fails, and one that succeeds with what it claims.
LEMMA FailureKeeps ==
  ASSUME SettingsAssumption, SettingsInv, NEW r \in Requests,
         NEW error \in SharedFile!Errors \ {"none"}, SharedFile!Fail(r, error),
         pc[r] \notin {"idle", "commit"}, writer' = writer, StoreTypes', NumberInv',
         SharedFile!SessionsAreCurrent',
         pc[r] = "lock" => UNCHANGED <<file, pending, marker, ids, edits, lingering>>
  PROVE  SettingsInv' /\ Truthful
<1> USE DEF SettingsInv
<1>1. /\ pc' \in [Requests -> SharedFile!Steps] /\ call' \in [Requests -> CallType]
      /\ answer' \in [Requests -> AnswerType]
      /\ fileLock' \in Requests \cup {"cli", None} /\ panel' \in {"down", "starting", "up"}
      /\ announced' \in Documents \cup {None}
      /\ pc'[r] = "idle" /\ call'[r] = SharedFile!NoCall /\ answer'[r].status # 200
      /\ \A q \in Requests \ {r} : pc'[q] = pc[q] /\ call'[q] = call[q] /\ answer'[q] = answer[q]
      /\ fileLock' = IF fileLock = r THEN None ELSE fileLock
  BY FailEffect
<1>2. ActorTypes'
  BY <1>1 DEF ActorTypes
<1>3. SettingsInv'
  BY <1>1, <1>2, ReturnKeeps DEF SettingsAssumption
<1> QED
  BY <1>1, <1>3, OnlyFailureReturns

LEMMA SuccessKeeps ==
  ASSUME SettingsAssumption, SettingsInv, NEW r \in Requests, NEW d \in Documents,
         NEW s \in 0 .. MaxSessions \cup {None}, SharedFile!Finish(r, "none", d, s),
         pc[r] \notin {"idle", "lock", "commit"}, writer' = writer, StoreTypes', NumberInv',
         SharedFile!SessionsAreCurrent',
         call[r].op \in {"read", "boot", "save", "restore"} => pending' = None /\ (file' = d \/ edits > 0),
         call[r].op \in {"save", "restore"} => marker' = ids',
         call[r].op \in {"login", "check"} => \E t \in sessions' : t.token = s /\ t.auth = d.auth
  PROVE  SettingsInv' /\ Truthful
<1> USE DEF SettingsInv
<1>1. "none" \in SharedFile!Errors /\ d \in Documents \cup {None} /\ ActorTypes
  BY DEF SharedFile!Errors
<1>2. /\ pc' \in [Requests -> SharedFile!Steps] /\ call' \in [Requests -> CallType]
      /\ answer' \in [Requests -> AnswerType]
      /\ fileLock' \in Requests \cup {"cli", None} /\ panel' \in {"down", "starting", "up"}
      /\ announced' \in Documents \cup {None}
      /\ pc'[r] = "idle" /\ call'[r] = SharedFile!NoCall
      /\ answer'[r].op = call[r].op /\ answer'[r].document = d /\ answer'[r].session = s
      /\ (answer'[r].status = 200 => "none" = "none")
      /\ \A q \in Requests \ {r} : pc'[q] = pc[q] /\ call'[q] = call[q] /\ answer'[q] = answer[q]
      /\ fileLock' = IF fileLock = r THEN None ELSE fileLock
  BY ONLY SettingsAssumption, r \in Requests, s \in 0 .. MaxSessions \cup {None},
     SharedFile!Finish(r, "none", d, s), <1>1, FinishEffect, ZenonT(60)
<1>3. ActorTypes'
  BY <1>2 DEF ActorTypes
<1>4. SettingsInv'
  BY <1>2, <1>3, ReturnKeeps DEF SettingsAssumption
<1>5. Truthful
  BY <1>2 DEF Truthful, SharedFile!Returns
<1> QED
  BY <1>4, <1>5

-----------------------------------------------------------------------------
(* Requests: entry, recovery and the end of a call *)

Kept == SettingsInv' /\ RegisterStep /\ Truthful

LEMMA StillStore ==
  ASSUME SettingsInv, UNCHANGED <<file, pending, SharedFile!databaseVars, SharedFile!historyVars>>
  PROVE  /\ StoreTypes' /\ NumberInv' /\ SharedFile!SessionsAreCurrent'
         /\ SharedFile!Effective' = SharedFile!Effective
<1>1. SharedFile!Effective' = SharedFile!Effective
  BY SameDocument DEF SharedFile!databaseVars
<1> QED
  BY <1>1, StoreStays DEF SharedFile!databaseVars

LEMMA EntryKeeps ==
  ASSUME SettingsAssumption, SettingsInv, NEW r \in Requests, NEW op \in SharedFile!Operations,
         SharedFile!Boot(r) \/ SharedFile!Begin(r, op)
  PROVE  Kept
<1> USE DEF SettingsInv
<1>1. PICK o \in SharedFile!Operations : call' = [call EXCEPT ![r] = [call[r] EXCEPT !.op = o]]
  BY DEF SharedFile!Boot, SharedFile!Begin, SharedFile!Operations
<1>2. /\ pc[r] = "idle" /\ SharedFile!Go(r, "lock")
      /\ UNCHANGED <<file, pending, SharedFile!databaseVars, SharedFile!historyVars>>
      /\ writer' = writer /\ fileLock' = fileLock /\ announced' = announced
      /\ answer' \in {answer, [answer EXCEPT ![r] = SharedFile!NoAnswer]}
      /\ panel' \in {panel, "starting"}
  BY DEF SharedFile!Boot, SharedFile!Begin
<1>3. /\ StoreTypes' /\ NumberInv' /\ SharedFile!SessionsAreCurrent'
      /\ SharedFile!Effective' = SharedFile!Effective
  BY <1>2, StillStore
<1>4. /\ pc' \in [Requests -> SharedFile!Steps] /\ pc'[r] = "lock"
      /\ \A q \in Requests \ {r} : pc'[q] = pc[q]
  BY <1>2, GoEffect DEF SharedFile!Steps
<1>5. CallInv(r) /\ call[r] \in CallType
  BY DEF ActorTypes
<1>6. /\ call' \in [Requests -> CallType] /\ call'[r].before = None /\ call'[r].error = "none"
      /\ \A q \in Requests \ {r} : call'[q] = call[q]
  <2>1. [call[r] EXCEPT !.op = o] \in CallType
    BY <1>5 DEF CallType
  <2>2. /\ call' \in [Requests -> CallType] /\ call'[r] = [call[r] EXCEPT !.op = o]
        /\ \A q \in Requests \ {r} : call'[q] = call[q]
    BY <1>1, <2>1, CallSet
  <2>3. call[r].before = None /\ call[r].error = "none"
    BY <1>2, <1>5 DEF CallInv
  <2> QED
    BY <1>5, <2>2, <2>3 DEF CallType
<1>7. answer' \in [Requests -> AnswerType]
  <2>1. SharedFile!NoAnswer \in AnswerType
    BY DEF SharedFile!NoAnswer, AnswerType, SharedFile!Operations, SharedFile!Statuses
  <2> QED
    BY <1>2, <2>1 DEF ActorTypes
<1>8. ActorTypes'
  BY <1>2, <1>4, <1>6, <1>7 DEF ActorTypes
<1>9. LockInv'
  BY <1>2, <1>4 DEF LockInv
<1>10. CallInv(r)' /\ FileInv(r)'
  BY <1>4, <1>6 DEF CallInv, FileInv, Saving
<1>11. ASSUME NEW q \in Requests \ {r} PROVE CallInv(q)' /\ FileInv(q)'
  <2>1. CallInv(q) /\ FileInv(q) /\ pc'[q] = pc[q] /\ call'[q] = call[q]
    BY <1>4, <1>6
  <2>2. CallInv(q)'
    BY <2>1 DEF CallInv
  <2>3. FileInv(q)'
    BY <1>2, <1>3, <2>1 DEF FileInv, SharedFile!databaseVars, SharedFile!historyVars
  <2> QED
    BY <2>2, <2>3
<1>12. SettingsInv'
  BY <1>3, <1>8, <1>9, <1>10, <1>11
<1>13. RegisterStep
  BY <1>2, <1>3, RegisterStays DEF SharedFile!historyVars
<1>14. Truthful
  BY <1>4, NobodyReturns
<1> QED
  BY <1>12, <1>13, <1>14 DEF Kept

LEMMA LockKeeps ==
  ASSUME SettingsAssumption, SettingsInv, NEW r \in Requests, SharedFile!Lock(r)
  PROVE  Kept
<1> USE DEF SettingsInv
<1>1. /\ pc[r] = "lock" /\ fileLock = None /\ fileLock' = r /\ SharedFile!Go(r, "recover")
      /\ UNCHANGED <<file, pending, SharedFile!databaseVars, SharedFile!historyVars>>
      /\ writer' = writer /\ announced' = announced /\ call' = call /\ answer' = answer
      /\ panel' = panel
  BY DEF SharedFile!Lock
<1>2. /\ StoreTypes' /\ NumberInv' /\ SharedFile!SessionsAreCurrent'
      /\ SharedFile!Effective' = SharedFile!Effective
  BY <1>1, StillStore
<1>3. /\ pc' \in [Requests -> SharedFile!Steps] /\ pc'[r] = "recover"
      /\ \A q \in Requests \ {r} : pc'[q] = pc[q]
  BY <1>1, GoEffect DEF SharedFile!Steps
<1>4. ActorTypes'
  BY <1>1, <1>3 DEF ActorTypes
<1>5. \A q \in Requests : pc[q] \in {"idle", "lock"}
  BY <1>1 DEF LockInv, SettingsAssumption
<1>6. LockInv'
  BY <1>1, <1>3, <1>5 DEF LockInv
<1>7. ASSUME NEW q \in Requests PROVE CallInv(q)' /\ FileInv(q)'
  <2>1. CallInv(q) /\ pc[q] \in {"idle", "lock"} /\ pc'[q] \in {"idle", "lock", "recover"}
    BY <1>3, <1>5
  <2> QED
    BY <1>1, <2>1 DEF CallInv, FileInv, Saving
<1>8. SettingsInv'
  BY <1>2, <1>4, <1>6, <1>7
<1>9. RegisterStep
  BY <1>1, <1>2, RegisterStays DEF SharedFile!historyVars
<1>10. Truthful
  BY <1>3, NobodyReturns
<1> QED
  BY <1>8, <1>9, <1>10 DEF Kept

\* What a failure that changes no more than the sessions or the file's copy does.
LEMMA LightFailureKeeps ==
  ASSUME SettingsAssumption, SettingsInv, NEW r \in Requests,
         NEW error \in SharedFile!Errors \ {"none"}, SharedFile!Fail(r, error),
         pc[r] \notin {"idle", "commit"}, writer' = writer,
         SharedFile!Effective' = SharedFile!Effective,
         file' \in {file, SharedFile!Effective}, pending' \in {pending, None},
         sessions' \subseteq sessions,
         UNCHANGED <<marker, configuration, SharedFile!historyVars>>,
         pc[r] = "lock" => file' = file /\ pending' = pending
  PROVE  Kept
<1>1. StoreTypes' /\ NumberInv' /\ SharedFile!SessionsAreCurrent'
  BY StoreStays
<1>2. pc[r] = "lock" => UNCHANGED <<file, pending, marker, ids, edits, lingering>>
  BY DEF SharedFile!historyVars
<1>3. SettingsInv' /\ Truthful
  BY <1>1, <1>2, FailureKeeps
<1>4. RegisterStep
  BY <1>1, RegisterStays DEF SharedFile!historyVars
<1> QED
  BY <1>3, <1>4 DEF Kept

LEMMA StillFailureKeeps ==
  ASSUME SettingsAssumption, SettingsInv, NEW r \in Requests,
         NEW error \in SharedFile!Errors \ {"none"}, SharedFile!Fail(r, error),
         pc[r] \notin {"idle", "commit"}, writer' = writer,
         UNCHANGED <<file, pending, SharedFile!databaseVars, SharedFile!historyVars>>
  PROVE  Kept
<1>1. SharedFile!Effective' = SharedFile!Effective
  BY StillStore
<1>2. UNCHANGED <<marker, configuration, SharedFile!historyVars>> /\ sessions' \subseteq sessions
  BY DEF SharedFile!databaseVars
<1> QED
  BY <1>1, <1>2, LightFailureKeeps

LEMMA RefusalKeeps ==
  ASSUME SettingsAssumption, SettingsInv, NEW r \in Requests,
         SharedFile!LockCancelled(r) \/ SharedFile!RecoveryConflict(r) \/ SharedFile!RecoveryFails(r)
  PROVE  Kept
<1>1. /\ SharedFile!Fail(r, "failed") /\ "failed" \in SharedFile!Errors \ {"none"}
      /\ writer' = writer /\ pc[r] \notin {"idle", "commit"}
  BY DEF SharedFile!LockCancelled, SharedFile!RecoveryConflict, SharedFile!RecoveryFails,
     SharedFile!Recovering, SharedFile!Errors
<1>2. CASE SharedFile!LockCancelled(r) \/ SharedFile!RecoveryConflict(r)
  BY <1>1, <1>2, StillFailureKeeps DEF SharedFile!LockCancelled, SharedFile!RecoveryConflict
<1>3. CASE SharedFile!RecoveryFails(r)
  <2>1. SharedFile!Effective' = SharedFile!Effective
    BY <1>3, RestoredDocument DEF SharedFile!RecoveryFails, SharedFile!databaseVars
  <2>2. /\ UNCHANGED <<marker, configuration, SharedFile!historyVars>>
        /\ sessions' \subseteq sessions
        /\ file' \in {file, SharedFile!Effective} /\ pending' \in {pending, None} /\ pc[r] # "lock"
    BY <1>3 DEF SharedFile!RecoveryFails, SharedFile!databaseVars, SharedFile!Recovering
  <2> QED
    BY <1>1, <2>1, <2>2, LightFailureKeeps
<1> QED
  BY <1>2, <1>3

-----------------------------------------------------------------------------
(* Requests: the work under the lock *)

\* A step that takes a call further: what is to be shown of the one that takes it.
LEMMA ProgressKeeps ==
  ASSUME SettingsAssumption, SettingsInv, NEW r \in Requests, pc[r] \notin {"idle", "lock"},
         NEW next \in SharedFile!Steps \ {"idle", "lock"}, SharedFile!Go(r, next),
         NEW c \in CallType, call' = [call EXCEPT ![r] = c],
         UNCHANGED <<fileLock, panel, answer, announced>>,
         next = "commit" <=> writer' = r, writer' \in {writer, r, None},
         StoreTypes', NumberInv', SharedFile!SessionsAreCurrent', CallInv(r)', FileInv(r)'
  PROVE  SettingsInv' /\ Truthful
<1> USE DEF SettingsInv
<1>1. ActorTypes /\ fileLock = r /\ fileLock' = r /\ None \notin Requests
  BY DEF LockInv, SettingsAssumption
<1>2. /\ pc' \in [Requests -> SharedFile!Steps] /\ pc'[r] = next
      /\ \A q \in Requests \ {r} : pc'[q] = pc[q]
  BY <1>1, GoEffect
<1>3. /\ call' \in [Requests -> CallType] /\ call'[r] = c
      /\ \A q \in Requests \ {r} : call'[q] = call[q]
  BY <1>1, CallSet
<1>4. ActorTypes'
  BY <1>2, <1>3 DEF ActorTypes
<1>5. pc'[r] \notin {"idle", "lock"} /\ (pc'[r] = "commit" <=> writer' = r)
  BY <1>2
<1>6. \A q \in Requests \ {r} : pc'[q] = pc[q] /\ call'[q] = call[q]
  BY <1>2, <1>3
<1>7. SettingsInv'
  BY <1>1, <1>4, <1>5, <1>6, HolderKeeps
<1>8. Truthful
  BY <1>5, <1>6, NobodyReturns
<1> QED
  BY <1>7, <1>8

\* A settlement finds the journal that the save wrote, so only a recovery finds none.
LEMMA NothingPendingKeeps ==
  ASSUME SettingsAssumption, SettingsInv, NEW r \in Requests, SharedFile!NothingPending(r)
  PROVE  Kept
<1> USE DEF SettingsInv
<1>1. CallInv(r) /\ FileInv(r) /\ pending = None
  BY DEF SharedFile!NothingPending
<1>2. pc[r] = "recover" /\ call[r] \in CallType
  BY <1>1 DEF SharedFile!NothingPending, SharedFile!Recovering, FileInv, ActorTypes
<1>3. /\ SharedFile!Go(r, "read")
      /\ UNCHANGED <<file, pending, SharedFile!databaseVars, SharedFile!historyVars>>
      /\ UNCHANGED <<fileLock, panel, answer, announced>> /\ writer' = writer /\ call' = call
  BY <1>2 DEF SharedFile!NothingPending, SharedFile!Resume
<1>4. /\ StoreTypes' /\ NumberInv' /\ SharedFile!SessionsAreCurrent'
      /\ SharedFile!Effective' = SharedFile!Effective
  BY <1>3, StillStore
<1>5. pc'[r] = "read" /\ call'[r] = call[r] /\ "read" \in SharedFile!Steps \ {"idle", "lock"}
  BY <1>3, GoEffect DEF SharedFile!Steps
<1>6. CallInv(r)' /\ FileInv(r)'
  BY <1>1, <1>2, <1>3, <1>5 DEF CallInv, FileInv, Saving
<1>7. call' = [call EXCEPT ![r] = call[r]] /\ ("read" = "commit" <=> writer' = r)
  BY <1>2, <1>3 DEF ActorTypes, LockInv
<1>8. SettingsInv' /\ Truthful
  BY <1>2, <1>3, <1>4, <1>5, <1>6, <1>7, ProgressKeeps
<1>9. RegisterStep
  BY <1>3, <1>4, RegisterStays DEF SharedFile!historyVars
<1> QED
  BY <1>8, <1>9 DEF Kept

LEMMA RecoverKeeps ==
  ASSUME SettingsAssumption, SettingsInv, NEW r \in Requests, SharedFile!Recover(r)
  PROVE  Kept
<1> USE DEF SettingsInv
<1>1. /\ CallInv(r) /\ FileInv(r) /\ pc[r] \in {"recover", "settle"} /\ pending # None
      /\ file \in {pending.before, pending.after} /\ file' = SharedFile!Effective
      /\ SharedFile!Go(r, "clear")
      /\ UNCHANGED <<pending, SharedFile!databaseVars, SharedFile!historyVars>> /\ writer' = writer
      /\ UNCHANGED <<fileLock, panel, answer, announced>> /\ call[r] \in CallType
  BY DEF SharedFile!Recover, SharedFile!Recovering, ActorTypes
<1>2. SharedFile!Effective' = SharedFile!Effective
  BY <1>1, RestoredDocument DEF SharedFile!databaseVars
<1>3. StoreTypes' /\ NumberInv' /\ SharedFile!SessionsAreCurrent'
  BY <1>1, <1>2, StoreStays DEF SharedFile!databaseVars
<1>4. PICK c \in CallType : /\ call' = [call EXCEPT ![r] = c]
                            /\ c.before = (IF pc[r] = "recover" THEN None ELSE call[r].before)
                            /\ c.op = call[r].op /\ c.after = call[r].after
                            /\ c.error = call[r].error
  <2>1. [call[r] EXCEPT !.before = IF pc[r] = "recover" THEN None ELSE @] \in CallType
    BY <1>1 DEF CallType
  <2>2. call' = [call EXCEPT ![r] = [call[r] EXCEPT !.before = IF pc[r] = "recover" THEN None ELSE @]]
    BY <1>1 DEF SharedFile!Recover, ActorTypes
  <2> QED
    BY <1>1, <2>1, <2>2 DEF CallType
<1>5. pc'[r] = "clear" /\ call'[r] = c /\ "clear" \in SharedFile!Steps \ {"idle", "lock"}
  BY <1>1, <1>4, GoEffect, CallSet DEF SharedFile!Steps
<1>6. "clear" = "commit" <=> writer' = r
  BY <1>1 DEF LockInv
<1>7. CallInv(r)'
  BY <1>1, <1>4, <1>5 DEF CallInv, Saving
<1>8. FileInv(r)'
  <2>1. pending' # None /\ file' = SharedFile!Effective'
    BY <1>1, <1>2
  <2>2. ASSUME c.before # None, c.error = "none"
        PROVE  marker' = ids' /\ (file' = c.after \/ edits' > 0)
    <3>1. pc[r] = "settle" /\ call[r].error = "none"
      BY <1>1, <1>4, <2>2
    <3>2. marker = pending.id /\ marker = ids /\ pending.after = call[r].after
      BY <1>1, <3>1 DEF FileInv
    <3> QED
      BY <1>1, <1>4, <3>2 DEF SharedFile!Effective, SharedFile!databaseVars,
         SharedFile!historyVars
  <2> QED
    BY <1>5, <2>1, <2>2 DEF FileInv
<1>9. SettingsInv' /\ Truthful
  BY <1>1, <1>3, <1>4, <1>5, <1>6, <1>7, <1>8, ProgressKeeps
<1>10. RegisterStep
  BY <1>1, <1>2, <1>3, RegisterStays DEF SharedFile!historyVars
<1> QED
  BY <1>9, <1>10 DEF Kept

\* A write that reports success was done.
LEMMA WrittenMeans ==
  ASSUME NEW w \in SharedFile!Written
  PROVE  w[1] \/ ~w[2]
<1>1. w = <<TRUE, TRUE>> \/ w = <<TRUE, FALSE>> \/ w = <<FALSE, FALSE>>
  BY DEF SharedFile!Written
<1>2. CASE w = <<TRUE, TRUE>>
  BY <1>2
<1>3. CASE w = <<TRUE, FALSE>>
  BY <1>3
<1>4. CASE w = <<FALSE, FALSE>>
  BY <1>4
<1> QED
  BY <1>1, <1>2, <1>3, <1>4

LEMMA ClearKeeps ==
  ASSUME SettingsAssumption, SettingsInv, NEW r \in Requests, SharedFile!Clear(r)
  PROVE  Kept
<1> USE DEF SettingsInv
<1>1. PICK w \in SharedFile!Written :
        /\ pending' = IF w[1] THEN None ELSE pending
        /\ IF ~w[2] THEN SharedFile!Fail(r, "failed")
           ELSE IF call[r].before = None
             THEN SharedFile!Go(r, "read") /\ UNCHANGED <<fileLock, panel, call, answer, announced>>
           ELSE IF call[r].error = "none" THEN SharedFile!Finish(r, "none", call[r].after, None)
           ELSE SharedFile!Fail(r, call[r].error)
  BY DEF SharedFile!Clear
<1>2. /\ pc[r] = "clear" /\ UNCHANGED <<file, SharedFile!databaseVars, SharedFile!historyVars>>
      /\ writer' = writer
      /\ CallInv(r) /\ FileInv(r) /\ call[r] \in CallType
  BY DEF SharedFile!Clear, ActorTypes
<1>3. pending' \in {pending, None} /\ (w[2] => pending' = None)
  <2>1. w[1] \/ ~w[2]
    BY WrittenMeans
  <2>2. pending' = IF w[1] THEN None ELSE pending
    BY <1>1
  <2> QED
    BY <2>1, <2>2
<1>4. file = SharedFile!Effective /\ pending # None
  BY <1>2 DEF FileInv
<1>5. SharedFile!Effective' = SharedFile!Effective
  BY <1>2, <1>3, <1>4, SettledDocument DEF SharedFile!databaseVars
<1>6. StoreTypes' /\ NumberInv' /\ SharedFile!SessionsAreCurrent'
  BY <1>2, <1>3, <1>5, StoreStays DEF SharedFile!databaseVars
<1>7. RegisterStep
  BY <1>2, <1>5, <1>6, RegisterStays DEF SharedFile!historyVars
<1>8. UNCHANGED <<marker, configuration, SharedFile!historyVars>> /\ sessions' = sessions
  BY <1>2 DEF SharedFile!databaseVars
<1>9. ASSUME NEW error \in SharedFile!Errors \ {"none"}, SharedFile!Fail(r, error)
      PROVE  Kept
  BY <1>2, <1>3, <1>5, <1>8, <1>9, LightFailureKeeps
<1>10. CASE ~w[2]
  BY <1>1, <1>9, <1>10 DEF SharedFile!Errors
<1>11. CASE w[2] /\ call[r].before = None
  <2>1. /\ SharedFile!Go(r, "read") /\ UNCHANGED <<fileLock, panel, call, answer, announced>>
        /\ pending' = None
    BY <1>1, <1>3, <1>11
  <2>2. pc'[r] = "read" /\ call'[r] = call[r] /\ "read" \in SharedFile!Steps \ {"idle", "lock"}
    BY <2>1, GoEffect DEF SharedFile!Steps
  <2>3. CallInv(r)' /\ FileInv(r)'
    BY <1>2, <1>11, <2>1, <2>2 DEF CallInv, FileInv, Saving
  <2>4. call' = [call EXCEPT ![r] = call[r]] /\ ("read" = "commit" <=> writer' = r)
    BY <1>2, <2>1 DEF ActorTypes, LockInv
  <2>5. SettingsInv' /\ Truthful
    BY <1>2, <1>6, <2>1, <2>2, <2>3, <2>4, ProgressKeeps
  <2> QED
    BY <1>7, <2>5 DEF Kept
<1>12. CASE w[2] /\ call[r].before # None /\ call[r].error = "none"
  <2>1. SharedFile!Finish(r, "none", call[r].after, None) /\ pending' = None
    BY <1>1, <1>3, <1>12
  <2>2. /\ call[r].after \in Documents /\ call[r].op \in {"save", "restore"}
        /\ marker = ids /\ (file = call[r].after \/ edits > 0)
    BY <1>2, <1>12 DEF CallInv, FileInv, Saving
  <2>3. marker' = ids' /\ file' = file
    BY <1>2, <2>2 DEF SharedFile!databaseVars, SharedFile!historyVars
  <2>4. SettingsInv' /\ Truthful
    BY <1>2, <1>6, <2>1, <2>2, <2>3, SuccessKeeps
  <2> QED
    BY <1>7, <2>4 DEF Kept
<1>13. CASE w[2] /\ call[r].before # None /\ call[r].error # "none"
  BY <1>1, <1>2, <1>9, <1>13 DEF CallType
<1> QED
  BY <1>10, <1>11, <1>12, <1>13

LEMMA ReadKeeps ==
  ASSUME SettingsAssumption, SettingsInv, NEW r \in Requests, SharedFile!Read(r)
  PROVE  Kept
<1> USE DEF SettingsInv
<1>1. /\ pc[r] = "read"
      /\ UNCHANGED <<file, pending, SharedFile!databaseVars, SharedFile!historyVars>>
      /\ writer' = writer
      /\ CallInv(r) /\ FileInv(r) /\ call[r] \in CallType
  BY DEF SharedFile!Read, ActorTypes
<1>2. /\ StoreTypes' /\ NumberInv' /\ SharedFile!SessionsAreCurrent'
      /\ SharedFile!Effective' = SharedFile!Effective
  BY <1>1, StillStore
<1>3. RegisterStep
  BY <1>1, <1>2, RegisterStays DEF SharedFile!historyVars
<1>4. pending = None /\ file \in Documents \cup {Broken} /\ SharedFile!Effective = file
  BY <1>1 DEF FileInv, StoreTypes, SharedFile!Effective
<1>5. CASE SharedFile!Fail(r, "failed")
  BY <1>1, <1>5, StillFailureKeeps DEF SharedFile!Errors
<1>6. CASE /\ SharedFile!Parses(file) /\ call[r].op \in {"read", "boot"}
           /\ SharedFile!Finish(r, "none", file, None)
  <2>1. file \in Documents /\ pending' = None /\ file' = file
    BY <1>1, <1>4, <1>6 DEF SharedFile!Parses
  <2>2. SettingsInv' /\ Truthful
    BY <1>1, <1>2, <1>6, <2>1, SuccessKeeps
  <2> QED
    BY <1>3, <2>2 DEF Kept
<1>7. CASE /\ SharedFile!Parses(file) /\ call[r].op \in {"login", "check"}
           /\ SharedFile!Go(r, "sessions") /\ call' = [call EXCEPT ![r].before = file]
           /\ UNCHANGED <<fileLock, panel, answer, announced>>
  <2>1. file \in Documents
    BY <1>4, <1>7 DEF SharedFile!Parses
  <2>2. PICK c \in CallType : /\ call' = [call EXCEPT ![r] = c] /\ c.before = file
                              /\ c.op = call[r].op /\ c.error = call[r].error
    <3>1. [call[r] EXCEPT !.before = file] \in CallType
      BY <1>1, <2>1 DEF CallType
    <3>2. call' = [call EXCEPT ![r] = [call[r] EXCEPT !.before = file]]
      BY <1>7 DEF ActorTypes
    <3> QED
      BY <1>1, <3>1, <3>2 DEF CallType
  <2>3. pc'[r] = "sessions" /\ call'[r] = c /\ "sessions" \in SharedFile!Steps \ {"idle", "lock"}
    BY <1>7, <2>2, GoEffect, CallSet DEF SharedFile!Steps
  <2>4. "sessions" = "commit" <=> writer' = r
    BY <1>1 DEF LockInv
  <2>5. CallInv(r)'
    BY <1>1, <1>7, <2>1, <2>2, <2>3 DEF CallInv, Saving
  <2>6. FileInv(r)'
    BY <1>1, <1>2, <1>4, <2>2, <2>3 DEF FileInv
  <2>7. SettingsInv' /\ Truthful
    BY <1>1, <1>2, <1>7, <2>2, <2>3, <2>4, <2>5, <2>6, ProgressKeeps
  <2> QED
    BY <1>3, <2>7 DEF Kept
<1> QED
  BY <1>5, <1>6, <1>7 DEF SharedFile!Read

LEMMA PrepareKeeps ==
  ASSUME SettingsAssumption, SettingsInv, NEW r \in Requests, NEW op \in {"save", "restore"},
         NEW expected, NEW next \in Documents \cup {Broken}, SharedFile!Prepare(r, op, expected, next)
  PROVE  Kept
<1> USE DEF SettingsInv
<1>1. /\ pc[r] = "read"
      /\ UNCHANGED <<file, pending, SharedFile!databaseVars, SharedFile!historyVars>>
      /\ writer' = writer
      /\ CallInv(r) /\ FileInv(r) /\ call[r] \in CallType /\ call[r].op = op
  BY DEF SharedFile!Prepare, ActorTypes
<1>2. /\ StoreTypes' /\ NumberInv' /\ SharedFile!SessionsAreCurrent'
      /\ SharedFile!Effective' = SharedFile!Effective
  BY <1>1, StillStore
<1>3. RegisterStep
  BY <1>1, <1>2, RegisterStays DEF SharedFile!historyVars
<1>4. ASSUME NEW error \in {"invalid", "conflict"}, SharedFile!Fail(r, error)
      PROVE  Kept
  BY <1>1, <1>4, StillFailureKeeps DEF SharedFile!Errors
<1>5. CASE ~SharedFile!ValidForm(next) \/ expected # file
  BY <1>4, <1>5 DEF SharedFile!Prepare
<1>6. CASE SharedFile!ValidForm(next) /\ expected = file
  <2>1. /\ SharedFile!Go(r, "journal") /\ call' = [call EXCEPT ![r].before = file, ![r].after = next]
        /\ UNCHANGED <<fileLock, panel, answer, announced>>
    BY <1>6 DEF SharedFile!Prepare
  <2>2. file \in Documents /\ next \in Documents
    BY <1>1, <1>6 DEF SharedFile!Prepare, SharedFile!Parses, SharedFile!ValidForm, StoreTypes
  <2>3. PICK c \in CallType : /\ call' = [call EXCEPT ![r] = c] /\ c.before = file /\ c.after = next
                              /\ c.op = call[r].op /\ c.error = call[r].error
    <3>1. [call[r] EXCEPT !.before = file, !.after = next] \in CallType
      BY <1>1, <2>2 DEF CallType
    <3>2. call' = [call EXCEPT ![r] = [call[r] EXCEPT !.before = file, !.after = next]]
      BY <2>1 DEF ActorTypes
    <3> QED
      BY <1>1, <3>1, <3>2 DEF CallType
  <2>4. pc'[r] = "journal" /\ call'[r] = c /\ "journal" \in SharedFile!Steps \ {"idle", "lock"}
    BY <2>1, <2>3, GoEffect, CallSet DEF SharedFile!Steps
  <2>5. "journal" = "commit" <=> writer' = r
    BY <1>1 DEF LockInv
  <2>6. CallInv(r)' /\ FileInv(r)'
    BY <1>1, <2>2, <2>3, <2>4 DEF CallInv, FileInv, Saving
  <2>7. SettingsInv' /\ Truthful
    BY <1>1, <1>2, <2>1, <2>3, <2>4, <2>5, <2>6, ProgressKeeps
  <2> QED
    BY <1>3, <2>7 DEF Kept
<1> QED
  BY <1>5, <1>6

\* The new journal is not the one that the mark names, so it selects what is there.
LEMMA WriteJournalKeeps ==
  ASSUME SettingsAssumption, SettingsInv, NEW r \in Requests, SharedFile!WriteJournal(r)
  PROVE  Kept
<1> USE DEF SettingsInv
<1>1. PICK w \in SharedFile!Written :
        /\ pending' = IF w[1] THEN [id |-> ids', before |-> call[r].before, after |-> call[r].after]
                              ELSE pending
        /\ IF w[2] THEN SharedFile!Go(r, "publish") /\ UNCHANGED <<fileLock, panel, call, answer, announced>>
                   ELSE SharedFile!Fail(r, "failed")
  BY DEF SharedFile!WriteJournal
<1>2. /\ pc[r] = "journal" /\ ids < MaxSaves /\ ids' = ids + 1 /\ writer' = writer
      /\ file' = file
      /\ UNCHANGED <<marker, configuration, sessions, sessionTokens, edits, lingering>>
      /\ CallInv(r) /\ FileInv(r) /\ call[r] \in CallType
  BY DEF SharedFile!WriteJournal, ActorTypes, SharedFile!databaseVars
<1>3. /\ call[r].before \in Documents /\ call[r].after \in Documents
      /\ call[r].op \in {"save", "restore"}
      /\ call[r].error = "none" /\ pending = None /\ (file = call[r].before \/ file # call[r].after)
  BY <1>2 DEF CallInv, FileInv, Saving
<1>4. PICK j \in SharedFile!Journal : /\ j = [id |-> ids', before |-> call[r].before, after |-> call[r].after]
                                      /\ j.id = ids' /\ j.before = call[r].before
                                      /\ j.after = call[r].after
  <2>1. ids' \in 1 .. MaxSaves
    BY <1>2 DEF SettingsAssumption, StoreTypes
  <2>2. [id |-> ids', before |-> call[r].before, after |-> call[r].after] \in SharedFile!Journal
    BY <1>3, <2>1 DEF SharedFile!Journal
  <2> QED
    BY <2>2
<1>5. pending' = None \/ pending' = j
  BY <1>1, <1>3, <1>4
<1>6. w[2] => pending' = j
  <2>1. w[1] \/ ~w[2]
    BY WrittenMeans
  <2>2. pending' = IF w[1] THEN j ELSE pending
    BY <1>1, <1>4
  <2> QED
    BY <2>1, <2>2
<1>7. j # None /\ marker # j.id /\ marker' = marker
  BY <1>2, <1>4 DEF SettingsAssumption, NumberInv, StoreTypes
<1>8. SharedFile!Effective' = SharedFile!Effective
  BY <1>2, <1>3, <1>4, <1>5, <1>7 DEF SharedFile!Effective
<1>9. StoreTypes'
  BY <1>2, <1>5 DEF StoreTypes, SettingsAssumption
<1>10. NumberInv'
  BY <1>2, <1>4, <1>5 DEF NumberInv, StoreTypes
<1>11. SharedFile!SessionsAreCurrent'
  BY <1>2, <1>8 DEF SharedFile!SessionsAreCurrent
<1>12. RegisterStep
  BY <1>2, <1>8, <1>9, RegisterStays
<1>13. CASE ~w[2]
  <2>1. SharedFile!Fail(r, "failed") /\ "failed" \in SharedFile!Errors \ {"none"}
    BY <1>1, <1>13 DEF SharedFile!Errors
  <2>2. SettingsInv' /\ Truthful
    BY <1>2, <1>9, <1>10, <1>11, <2>1, FailureKeeps
  <2> QED
    BY <1>12, <2>2 DEF Kept
<1>14. CASE w[2]
  <2>1. /\ SharedFile!Go(r, "publish") /\ UNCHANGED <<fileLock, panel, call, answer, announced>>
        /\ pending' = j
    BY <1>1, <1>6, <1>14
  <2>2. pc'[r] = "publish" /\ call'[r] = call[r] /\ "publish" \in SharedFile!Steps \ {"idle", "lock"}
    BY <2>1, GoEffect DEF SharedFile!Steps
  <2>3. CallInv(r)'
    BY <1>2, <1>3, <2>2 DEF CallInv, Saving
  <2>4. FileInv(r)'
    BY <1>2, <1>4, <1>7, <2>1, <2>2 DEF FileInv
  <2>5. call' = [call EXCEPT ![r] = call[r]] /\ ("publish" = "commit" <=> writer' = r)
    BY <1>2, <2>1 DEF ActorTypes, LockInv
  <2>6. SettingsInv' /\ Truthful
    BY <1>2, <1>9, <1>10, <1>11, <2>1, <2>2, <2>3, <2>4, <2>5, ProgressKeeps
  <2> QED
    BY <1>12, <2>6 DEF Kept
<1> QED
  BY <1>13, <1>14

LEMMA PublishKeeps ==
  ASSUME SettingsAssumption, SettingsInv, NEW r \in Requests, SharedFile!Publish(r)
  PROVE  Kept
<1> USE DEF SettingsInv
<1>1. /\ pc[r] = "publish" /\ writer = None /\ UNCHANGED <<pending, SharedFile!historyVars>>
      /\ UNCHANGED <<fileLock, panel, answer, announced>>
      /\ CallInv(r) /\ FileInv(r) /\ call[r] \in CallType
  BY DEF SharedFile!Publish, ActorTypes
<1>2. /\ UNCHANGED SharedFile!databaseVars
      /\ file' = file \/ (file = call[r].before /\ file' = call[r].after)
  BY DEF SharedFile!Publish, SharedFile!RollBack
<1>3. /\ call[r].before \in Documents /\ call[r].after \in Documents
      /\ call[r].op \in {"save", "restore"}
      /\ call[r].error = "none" /\ pending # None /\ pending.id = ids /\ marker # ids
      /\ pending.before = call[r].before /\ pending.after = call[r].after
  BY <1>1 DEF CallInv, FileInv, Saving
<1>4. SharedFile!Effective' = SharedFile!Effective
  BY <1>1, <1>2, <1>3 DEF SharedFile!Effective, SharedFile!databaseVars, SharedFile!historyVars
<1>5. StoreTypes' /\ NumberInv'
  BY <1>1, <1>2, <1>3 DEF StoreTypes, NumberInv, SharedFile!databaseVars, SharedFile!historyVars
<1>6. SharedFile!SessionsAreCurrent'
  BY <1>1, <1>2, <1>4 DEF SharedFile!SessionsAreCurrent, SharedFile!databaseVars,
     SharedFile!historyVars
<1>7. RegisterStep
  BY <1>1, <1>4, <1>5, RegisterStays DEF SharedFile!historyVars
<1>8. ASSUME NEW error \in {"failed", "configuration", "conflict"}, SharedFile!RollBack(r, error)
      PROVE  Kept
  <2>1. PICK c \in CallType : /\ call' = [call EXCEPT ![r] = c] /\ c.before = call[r].before
                              /\ c.after = call[r].after /\ c.op = call[r].op /\ c.error = error
    <3>1. [call[r] EXCEPT !.error = error] \in CallType
      BY <1>1 DEF CallType, SharedFile!Errors
    <3>2. call' = [call EXCEPT ![r] = [call[r] EXCEPT !.error = error]]
      BY <1>8 DEF ActorTypes, SharedFile!RollBack
    <3> QED
      BY <1>1, <3>1, <3>2 DEF CallType
  <2>2. SharedFile!Go(r, "settle") /\ writer' = None
    BY <1>8 DEF SharedFile!RollBack
  <2>3. pc'[r] = "settle" /\ call'[r] = c /\ "settle" \in SharedFile!Steps \ {"idle", "lock"}
    BY <2>1, <2>2, GoEffect, CallSet DEF SharedFile!Steps
  <2>4. "settle" = "commit" <=> writer' = r
    BY <2>2 DEF SettingsAssumption
  <2>5. CallInv(r)' /\ FileInv(r)'
    BY <1>1, <1>3, <2>1, <2>3 DEF CallInv, FileInv, Saving, SharedFile!historyVars,
       SettingsAssumption
  <2>6. SettingsInv' /\ Truthful
    BY <1>1, <1>5, <1>6, <2>1, <2>2, <2>3, <2>4, <2>5, ProgressKeeps
  <2> QED
    BY <1>7, <2>6 DEF Kept
<1>9. CASE /\ file' = call[r].after /\ SharedFile!Go(r, "commit") /\ writer' = r
           /\ UNCHANGED <<SharedFile!databaseVars, call>>
  <2>1. pc'[r] = "commit" /\ call'[r] = call[r] /\ "commit" \in SharedFile!Steps \ {"idle", "lock"}
    BY <1>9, GoEffect DEF SharedFile!Steps
  <2>2. CallInv(r)' /\ FileInv(r)'
    BY <1>1, <1>3, <1>9, <2>1 DEF CallInv, FileInv, Saving, SharedFile!historyVars,
       SharedFile!databaseVars
  <2>3. call' = [call EXCEPT ![r] = call[r]]
    BY <1>9 DEF ActorTypes
  <2>4. "commit" = "commit" <=> writer' = r
    BY <1>9
  <2>5. SettingsInv' /\ Truthful
    BY <1>1, <1>5, <1>6, <1>9, <2>1, <2>2, <2>3, <2>4, ProgressKeeps
  <2> QED
    BY <1>7, <2>5 DEF Kept
<1>10. \/ \E error \in {"failed", "configuration", "conflict"} : SharedFile!RollBack(r, error)
       \/ /\ file' = call[r].after /\ SharedFile!Go(r, "commit") /\ writer' = r
          /\ UNCHANGED <<SharedFile!databaseVars, call>>
  BY DEF SharedFile!Publish
<1> QED
  BY <1>8, <1>9, <1>10

\* The one step in which a save becomes what readers see, with its sessions.
LEMMA CommitKeeps ==
  ASSUME SettingsAssumption, SettingsInv, NEW r \in Requests, SharedFile!Commit(r)
  PROVE  Kept
<1> USE DEF SettingsInv
<1>1. /\ pc[r] = "commit" /\ SharedFile!Go(r, "settle") /\ writer' = None
      /\ UNCHANGED <<file, pending, fileLock, panel, answer, announced, ids, sessionTokens, edits>>
      /\ SharedFile!Committed(r) \/ UNCHANGED <<SharedFile!databaseVars, lingering>>
      /\ CallInv(r) /\ FileInv(r) /\ call[r] \in CallType
  BY DEF SharedFile!Commit, ActorTypes
<1>2. /\ call[r].before \in Documents /\ call[r].after \in Documents
      /\ call[r].op \in {"save", "restore"}
      /\ call[r].error = "none" /\ pending # None /\ pending.id = ids /\ marker # ids
      /\ pending.before = call[r].before /\ pending.after = call[r].after
  BY <1>1 DEF CallInv, FileInv, Saving
<1>3. /\ StoreTypes' /\ NumberInv' /\ SharedFile!SessionsAreCurrent' /\ RegisterStep
      /\ SharedFile!Committed(r) => marker' = ids'
  <2>1. CASE UNCHANGED <<SharedFile!databaseVars, lingering>>
    <3>1. UNCHANGED <<file, pending, SharedFile!databaseVars, SharedFile!historyVars>>
      BY <1>1, <2>1 DEF SharedFile!historyVars
    <3>2. /\ StoreTypes' /\ NumberInv' /\ SharedFile!SessionsAreCurrent'
          /\ SharedFile!Effective' = SharedFile!Effective
      BY <3>1, StillStore
    <3>3. RegisterStep
      BY <1>1, <3>2, RegisterStays
    <3>4. SharedFile!Committed(r) => marker' = ids'
      BY <1>1, <1>2 DEF SharedFile!Committed
    <3> QED
      BY <3>2, <3>3, <3>4
  <2>2. CASE SharedFile!Committed(r)
    <3>1. /\ marker' = ids /\ ids' = ids /\ sessions' \in {sessions, {}}
          /\ configuration' \in 0 .. MaxRevision
      BY <1>1, <1>2, <2>2 DEF SharedFile!Committed, StoreTypes, SettingsAssumption
    <3>2. StoreTypes'
      BY <1>1, <3>1 DEF StoreTypes
    <3>3. NumberInv'
      BY <1>1, <1>2, <3>1 DEF NumberInv, StoreTypes
    <3>4. SharedFile!Effective' = IF file \in {pending.before, pending.after} THEN call[r].after
                                  ELSE SharedFile!Effective
      BY <1>1, <1>2, <2>2 DEF SharedFile!Committed, SharedFile!Effective
    <3>5. file \in {pending.before, pending.after} => SharedFile!Effective = call[r].before
      BY <1>2 DEF SharedFile!Effective
    <3>6. SharedFile!Effective'.auth # SharedFile!Effective.auth => SharedFile!CredentialsChange(r)
      BY <3>4, <3>5 DEF SharedFile!CredentialsChange
    <3>7. /\ SharedFile!CredentialsChange(r) => sessions' = {}
          /\ ~SharedFile!CredentialsChange(r) => sessions' = sessions /\ lingering' = lingering
      BY <2>2 DEF SharedFile!Committed
    <3>8. SharedFile!SessionsAreCurrent'
      BY <3>6, <3>7 DEF SharedFile!SessionsAreCurrent
    <3>9. SharedFile!Effective' \in Documents \cup {Broken}
      BY <1>2, <3>4, Documented
    <3>10. Shared!Save(SharedFile!Effective')
      BY <1>1, <3>1, <3>6, <3>7 DEF Shared!Save
    <3>11. RegisterStep
      BY <3>9, <3>10 DEF RegisterStep, Shared!Next
    <3> QED
      BY <3>1, <3>2, <3>3, <3>8, <3>11
  <2> QED
    BY <1>1, <2>1, <2>2
<1>4. PICK c \in CallType : /\ call' = [call EXCEPT ![r] = c] /\ c.before = call[r].before
                            /\ c.after = call[r].after /\ c.op = call[r].op
                            /\ c.error = "none" => SharedFile!Committed(r)
  <2>1. CASE SharedFile!Committed(r) /\ call' = call
    <3>1. call' = [call EXCEPT ![r] = call[r]]
      BY <2>1 DEF ActorTypes
    <3> QED
      BY <1>1, <2>1, <3>1
  <2>2. CASE call' = [call EXCEPT ![r].error = "failed"]
    <3>1. [call[r] EXCEPT !.error = "failed"] \in CallType
      BY <1>1 DEF CallType, SharedFile!Errors
    <3>2. call' = [call EXCEPT ![r] = [call[r] EXCEPT !.error = "failed"]]
      BY <2>2 DEF ActorTypes
    <3> QED
      BY <1>1, <3>1, <3>2 DEF CallType
  <2> QED
    BY <2>1, <2>2 DEF SharedFile!Commit
<1>5. pc'[r] = "settle" /\ call'[r] = c /\ "settle" \in SharedFile!Steps \ {"idle", "lock"}
  BY <1>1, <1>4, GoEffect, CallSet DEF SharedFile!Steps
<1>6. CallInv(r)'
  BY <1>2, <1>4, <1>5 DEF CallInv, Saving, SettingsAssumption
<1>7. FileInv(r)'
  BY <1>1, <1>2, <1>3, <1>4, <1>5 DEF FileInv
<1>8. "settle" = "commit" <=> writer' = r
  BY <1>1 DEF SettingsAssumption
<1>9. /\ UNCHANGED <<fileLock, panel, answer, announced>> /\ writer' \in {writer, r, None}
      /\ SharedFile!Go(r, "settle")
  BY <1>1
<1>10. SettingsInv' /\ Truthful
  BY <1>1, <1>3, <1>4, <1>5, <1>6, <1>7, <1>8, <1>9, ProgressKeeps
<1> QED
  BY <1>3, <1>10 DEF Kept

-----------------------------------------------------------------------------
(* Sessions *)

LEMMA LoginKeeps ==
  ASSUME SettingsAssumption, SettingsInv, NEW r \in Requests, NEW password, NEW previous,
         SharedFile!Login(r, password, previous)
  PROVE  Kept
<1> USE DEF SettingsInv
<1>1. /\ pc[r] = "sessions"
      /\ UNCHANGED <<file, pending, marker, configuration, ids, edits, lingering>>
      /\ writer' = writer /\ call[r].op = "login" /\ CallInv(r) /\ FileInv(r) /\ call[r] \in CallType
  BY DEF SharedFile!Login, ActorTypes
<1>2. PICK auth : auth = call[r].before.auth
  OBVIOUS
<1>3. /\ call[r].before \in Documents /\ auth \in lingering \cup {SharedFile!Effective.auth}
  BY <1>1, <1>2 DEF CallInv, FileInv
<1>4. /\ SharedFile!Effective' = SharedFile!Effective /\ file' \in {file, SharedFile!Effective}
      /\ pending' \in {pending, None}
  BY <1>1, SameDocument
<1>5. \/ UNCHANGED <<sessions, sessionTokens>> /\ SharedFile!Fail(r, "denied")
      \/ /\ sessions' \in {sessions, sessions \ SharedFile!Stale(auth)} /\ sessionTokens' = sessionTokens
         /\ SharedFile!Fail(r, "failed")
      \/ /\ sessionTokens < MaxSessions /\ sessionTokens' = sessionTokens + 1
         /\ sessions' = {s \in sessions \ SharedFile!Stale(auth) : s.token # previous}
                          \cup {[token |-> sessionTokens', auth |-> auth]}
         /\ SharedFile!Finish(r, "none", call[r].before, sessionTokens')
  BY <1>2 DEF SharedFile!Login
<1>6. ASSUME NEW error \in {"denied", "failed"}, SharedFile!Fail(r, error),
             sessionTokens' = sessionTokens, sessions' \subseteq sessions
      PROVE  Kept
  <2>1. error \in SharedFile!Errors \ {"none"}
    BY DEF SharedFile!Errors
  <2>2. UNCHANGED <<marker, configuration, SharedFile!historyVars>>
    BY <1>1, <1>6 DEF SharedFile!historyVars
  <2> QED
    BY <1>1, <1>4, <1>6, <2>1, <2>2, LightFailureKeeps
<1>7. CASE UNCHANGED <<sessions, sessionTokens>> /\ SharedFile!Fail(r, "denied")
  BY <1>6, <1>7
<1>8. CASE /\ sessions' \in {sessions, sessions \ SharedFile!Stale(auth)}
           /\ sessionTokens' = sessionTokens /\ SharedFile!Fail(r, "failed")
  BY <1>6, <1>8
<1>9. CASE /\ sessionTokens < MaxSessions /\ sessionTokens' = sessionTokens + 1
           /\ sessions' = {s \in sessions \ SharedFile!Stale(auth) : s.token # previous}
                            \cup {[token |-> sessionTokens', auth |-> auth]}
           /\ SharedFile!Finish(r, "none", call[r].before, sessionTokens')
  <2>1. sessionTokens' \in 1 .. MaxSessions
    BY <1>9 DEF StoreTypes, SettingsAssumption
  <2>2. PICK new \in SharedFile!Session : new = [token |-> sessionTokens', auth |-> auth]
    BY <1>2, <1>3, <2>1 DEF SharedFile!Session
  <2>3. /\ sessions' \subseteq sessions \cup {new} /\ new \in sessions'
        /\ new.token = sessionTokens' /\ new.auth = auth
    BY <1>9, <2>2
  <2>4. StoreTypes'
    BY <1>1, <2>1, <2>3 DEF StoreTypes
  <2>5. NumberInv'
    BY <1>1 DEF NumberInv
  <2>6. SharedFile!SessionsAreCurrent'
    BY <1>1, <1>3, <1>4, <2>3 DEF SharedFile!SessionsAreCurrent
  <2>7. RegisterStep
    BY <1>1, <1>4, <2>4, RegisterStays
  <2>8. \E t \in sessions' : t.token = sessionTokens' /\ t.auth = call[r].before.auth
    BY <1>2, <2>3
  <2>9. sessionTokens' \in 0 .. MaxSessions \cup {None}
    BY <2>1
  <2>10. SettingsInv' /\ Truthful
    BY <1>1, <1>3, <1>9, <2>4, <2>5, <2>6, <2>8, <2>9, SuccessKeeps
  <2> QED
    BY <2>7, <2>10 DEF Kept
<1> QED
  BY <1>5, <1>7, <1>8, <1>9

LEMMA CheckSessionKeeps ==
  ASSUME SettingsAssumption, SettingsInv, NEW r \in Requests, NEW token \in 1 .. sessionTokens,
         SharedFile!CheckSession(r, token)
  PROVE  Kept
<1> USE DEF SettingsInv
<1>1. /\ pc[r] = "sessions"
      /\ UNCHANGED <<file, pending, marker, configuration, SharedFile!historyVars>>
      /\ writer' = writer /\ call[r].op = "check" /\ CallInv(r) /\ FileInv(r) /\ call[r] \in CallType
  BY DEF SharedFile!CheckSession, ActorTypes
<1>2. call[r].before \in Documents
  BY <1>1 DEF CallInv
<1>3. /\ SharedFile!Effective' = SharedFile!Effective /\ file' \in {file, SharedFile!Effective}
      /\ pending' \in {pending, None}
  BY <1>1, SameDocument
<1>4. sessions' \subseteq sessions
  BY DEF SharedFile!CheckSession
<1>5. StoreTypes' /\ NumberInv' /\ SharedFile!SessionsAreCurrent'
  BY <1>1, <1>3, <1>4, StoreStays
<1>6. ASSUME NEW error \in {"denied", "failed"}, SharedFile!Fail(r, error)
      PROVE  Kept
  <2>1. error \in SharedFile!Errors \ {"none"}
    BY DEF SharedFile!Errors
  <2> QED
    BY <1>1, <1>3, <1>4, <1>6, <2>1, LightFailureKeeps
<1>7. CASE /\ sessions' = sessions \ SharedFile!Stale(call[r].before.auth)
           /\ \E s \in sessions' : s.token = token
           /\ SharedFile!Finish(r, "none", call[r].before, token)
  <2>1. \E t \in sessions' : t.token = token /\ t.auth = call[r].before.auth
    BY <1>7 DEF SharedFile!Stale
  <2>2. token \in 0 .. MaxSessions \cup {None}
    BY DEF StoreTypes, SettingsAssumption
  <2>3. SettingsInv' /\ Truthful
    BY <1>1, <1>2, <1>5, <1>7, <2>1, <2>2, SuccessKeeps
  <2>4. RegisterStep
    BY <1>1, <1>3, <1>5, RegisterStays DEF SharedFile!historyVars
  <2> QED
    BY <2>3, <2>4 DEF Kept
<1>8. \/ SharedFile!Fail(r, "failed") \/ SharedFile!Fail(r, "denied")
      \/ /\ sessions' = sessions \ SharedFile!Stale(call[r].before.auth)
         /\ \E s \in sessions' : s.token = token
         /\ SharedFile!Finish(r, "none", call[r].before, token)
  BY DEF SharedFile!CheckSession
<1> QED
  BY <1>6, <1>7, <1>8

-----------------------------------------------------------------------------
(* What happens beside the requests *)

\* Steps that leave the calls where they are.
LEMMA BesideKeeps ==
  ASSUME SettingsInv, UNCHANGED <<pc, call, answer, announced, writer, pending, marker, ids>>,
         panel' = panel, fileLock' \in Requests \cup {"cli", None},
         \A r \in Requests : fileLock' = r <=> fileLock = r,
         StoreTypes', SharedFile!SessionsAreCurrent', edits' >= edits, lingering \subseteq lingering',
         \/ file' = file /\ edits' = edits
         \/ \A r \in Requests : pc[r] \in {"idle", "lock"}
         \/ /\ edits' > 0 /\ SharedFile!Effective.auth \in lingering'
            /\ SharedFile!Effective' = file' /\ file' \notin SharedFile!InFlight
  PROVE  SettingsInv' /\ Truthful
<1> USE DEF SettingsInv
<1>1. ActorTypes' /\ LockInv' /\ NumberInv'
  BY DEF ActorTypes, LockInv, NumberInv
<1>2. \A r \in Requests : CallInv(r)'
  BY DEF CallInv
<1>3. ASSUME NEW r \in Requests PROVE FileInv(r)'
  <2>1. FileInv(r)
    OBVIOUS
  <2>2. CASE file' = file /\ edits' = edits
    <3>1. SharedFile!Effective' = SharedFile!Effective
      BY <2>2, SameDocument
    <3> QED
      BY <2>1, <2>2, <3>1 DEF FileInv
  <2>3. CASE pc[r] \in {"idle", "lock"}
    BY <2>3 DEF FileInv
  <2>4. CASE /\ edits' > 0 /\ SharedFile!Effective.auth \in lingering'
             /\ SharedFile!Effective' = file' /\ file' \notin SharedFile!InFlight
    <3>1. file' # call[r].after
      BY <2>4 DEF SharedFile!InFlight
    <3> QED
      BY <2>1, <2>4, <3>1 DEF FileInv
  <2> QED
    BY <2>2, <2>3, <2>4
<1>4. SettingsInv'
  BY <1>1, <1>2, <1>3
<1>5. Truthful
  BY NobodyReturns
<1> QED
  BY <1>4, <1>5

LEMMA OtherSteps ==
  ASSUME SettingsAssumption, SettingsInv,
         \/ SharedFile!CliLock
         \/ SharedFile!CliGivesUp
         \/ SharedFile!SaveConfiguration
         \/ (\E t \in 1 .. sessionTokens : SharedFile!Logout(t))
         \/ UNCHANGED SharedFile!vars
  PROVE  Kept
<1> USE DEF SettingsInv
<1>1. /\ UNCHANGED <<pc, call, answer, announced, writer, pending, marker, ids, file, edits, lingering, sessionTokens>>
      /\ panel' = panel /\ fileLock' \in {fileLock, "cli", None} /\ sessions' \subseteq sessions
  BY DEF SharedFile!CliLock, SharedFile!CliGivesUp, SharedFile!SaveConfiguration,
     SharedFile!Logout, SharedFile!vars, SharedFile!databaseVars, SharedFile!actorVars,
     SharedFile!historyVars
<1>2. configuration' \in 0 .. MaxRevision
  BY DEF SharedFile!CliLock, SharedFile!CliGivesUp, SharedFile!SaveConfiguration,
     SharedFile!Logout, SharedFile!vars, SharedFile!databaseVars, StoreTypes, SettingsAssumption
<1>3. \A r \in Requests : fileLock' = r <=> fileLock = r
  BY DEF SharedFile!CliLock, SharedFile!CliGivesUp, SharedFile!SaveConfiguration,
     SharedFile!Logout, SharedFile!vars, SharedFile!actorVars, SettingsAssumption
<1>4. fileLock' \in Requests \cup {"cli", None}
  BY <1>1 DEF ActorTypes
<1>5. SharedFile!Effective' = SharedFile!Effective
  BY <1>1, SameDocument
<1>6. StoreTypes'
  BY <1>1, <1>2 DEF StoreTypes
<1>7. SharedFile!SessionsAreCurrent'
  BY <1>1, <1>5 DEF SharedFile!SessionsAreCurrent
<1>8. edits' >= edits
  BY <1>1 DEF StoreTypes
<1>9. SettingsInv' /\ Truthful
  BY <1>1, <1>3, <1>4, <1>6, <1>7, <1>8, BesideKeeps
<1>10. RegisterStep
  BY <1>1, <1>5, <1>6, RegisterStays
<1> QED
  BY <1>9, <1>10 DEF Kept

\* An edit is one step of the register, whatever a save is at.
LEMMA EditKeeps ==
  ASSUME SettingsAssumption, SettingsInv, NEW d \in Documents \cup {Broken},
         SharedFile!CliWrite(d) \/ SharedFile!HandEdit(d)
  PROVE  Kept
<1> USE DEF SettingsInv
<1>1. /\ UNCHANGED <<pc, call, answer, announced, writer, pending, marker, ids, sessionTokens, configuration, sessions>>
      /\ panel' = panel /\ file' = d /\ edits' = edits + 1 /\ edits < MaxEdits
      /\ lingering' = lingering \cup {SharedFile!Effective.auth}
  BY DEF SharedFile!CliWrite, SharedFile!HandEdit, SharedFile!Edited, SharedFile!databaseVars,
     SharedFile!actorVars
<1>2. /\ SharedFile!Effective' = d /\ fileLock' \in Requests \cup {"cli", None}
      /\ \A r \in Requests : fileLock' = r <=> fileLock = r
      /\ (\A r \in Requests : pc[r] \in {"idle", "lock"}) \/ d \notin SharedFile!InFlight
  <2>1. CASE SharedFile!CliWrite(d)
    <3>1. pending = None /\ fileLock = "cli" /\ fileLock' = None
      BY <2>1 DEF SharedFile!CliWrite
    <3>2. \A r \in Requests : pc[r] \in {"idle", "lock"}
      BY <3>1 DEF LockInv, SettingsAssumption
    <3> QED
      BY <1>1, <3>1, <3>2 DEF SharedFile!Effective, SettingsAssumption
  <2>2. CASE SharedFile!HandEdit(d)
    <3>1. d \notin SharedFile!InFlight /\ fileLock' = fileLock
      BY <2>2 DEF SharedFile!HandEdit, SharedFile!actorVars
    <3>2. pending = None \/ d \notin {pending.before, pending.after}
      BY <3>1 DEF SharedFile!InFlight
    <3> QED
      BY <1>1, <3>1, <3>2 DEF SharedFile!Effective, ActorTypes
  <2> QED
    BY <2>1, <2>2
<1>3. StoreTypes' /\ edits' > 0 /\ edits' >= edits
  BY <1>1 DEF StoreTypes, SettingsAssumption
<1>4. SharedFile!SessionsAreCurrent'
  BY <1>1 DEF SharedFile!SessionsAreCurrent
<1>5. SettingsInv' /\ Truthful
  BY <1>1, <1>2, <1>3, <1>4, BesideKeeps
<1>6. Shared!Edit(d)
  BY <1>1, <1>2 DEF Shared!Edit
<1>7. RegisterStep
  BY <1>6 DEF RegisterStep, Shared!Next
<1> QED
  BY <1>5, <1>7 DEF Kept

LEMMA CrashKeeps ==
  ASSUME SettingsAssumption, SettingsInv, SharedFile!Crash
  PROVE  Kept
<1> USE DEF SettingsInv
<1>1. UNCHANGED <<file, pending, SharedFile!databaseVars, SharedFile!historyVars>>
  BY DEF SharedFile!Crash
<1>2. /\ StoreTypes' /\ NumberInv' /\ SharedFile!SessionsAreCurrent'
      /\ SharedFile!Effective' = SharedFile!Effective
  BY <1>1, StillStore
<1>3. ActorTypes'
  <2>1. SharedFile!NoCall \in CallType
    BY DEF SharedFile!NoCall, CallType, SharedFile!Operations, SharedFile!Errors
  <2>2. SharedFile!NoAnswer \in AnswerType
    BY DEF SharedFile!NoAnswer, AnswerType, SharedFile!Operations, SharedFile!Statuses
  <2> QED
    BY <2>1, <2>2 DEF SharedFile!Crash, ActorTypes, SharedFile!Steps
<1>4. \A r \in Requests : pc'[r] = "idle" /\ call'[r] = SharedFile!NoCall
  BY DEF SharedFile!Crash
<1>5. LockInv'
  BY <1>4 DEF LockInv, SharedFile!Crash, SettingsAssumption
<1>6. \A r \in Requests : CallInv(r)' /\ FileInv(r)'
  BY <1>4 DEF CallInv, FileInv, Saving, SharedFile!NoCall
<1>7. SettingsInv'
  BY <1>2, <1>3, <1>5, <1>6
<1>8. RegisterStep
  BY <1>1, <1>2, RegisterStays DEF SharedFile!historyVars
<1>9. Truthful
  BY DEF Truthful, SharedFile!Crash
<1> QED
  BY <1>7, <1>8, <1>9 DEF Kept

-----------------------------------------------------------------------------
(* The theorems *)

LEMMA InitSettles ==
  ASSUME SettingsAssumption, SharedFile!Init
  PROVE  SettingsInv /\ Shared!Init
<1> USE DEF SharedFile!Init, SettingsAssumption
<1>1. SharedFile!Effective = file
  BY DEF SharedFile!Effective
<1>2. StoreTypes
  BY DEF StoreTypes
<1>3. ActorTypes
  <2>1. SharedFile!NoCall \in CallType
    BY DEF SharedFile!NoCall, CallType, SharedFile!Operations, SharedFile!Errors
  <2>2. SharedFile!NoAnswer \in AnswerType
    BY DEF SharedFile!NoAnswer, AnswerType, SharedFile!Operations, SharedFile!Statuses
  <2> QED
    BY <2>1, <2>2 DEF ActorTypes, SharedFile!Steps
<1>4. LockInv /\ NumberInv /\ SharedFile!SessionsAreCurrent
  BY DEF LockInv, NumberInv, SharedFile!SessionsAreCurrent
<1>5. \A r \in Requests : CallInv(r) /\ FileInv(r)
  BY DEF CallInv, FileInv, Saving, SharedFile!NoCall
<1>6. Shared!Init
  BY <1>1 DEF Shared!Init
<1> QED
  BY <1>2, <1>3, <1>4, <1>5, <1>6 DEF SettingsInv

LEMMA ServeKeeps ==
  ASSUME SettingsAssumption, SettingsInv, NEW r \in Requests, SharedFile!Serve(r)
  PROVE  Kept
<1>1. CASE SharedFile!Boot(r) \/ \E op \in SharedFile!Operations \ {"boot"} : SharedFile!Begin(r, op)
  BY <1>1, EntryKeeps DEF SharedFile!Operations
<1>2. CASE SharedFile!Lock(r)
  BY <1>2, LockKeeps
<1>3. CASE SharedFile!LockCancelled(r) \/ SharedFile!RecoveryConflict(r) \/ SharedFile!RecoveryFails(r)
  BY <1>3, RefusalKeeps
<1>4. CASE SharedFile!NothingPending(r)
  BY <1>4, NothingPendingKeeps
<1>5. CASE SharedFile!Recover(r)
  BY <1>5, RecoverKeeps
<1>6. CASE SharedFile!Clear(r)
  BY <1>6, ClearKeeps
<1>7. CASE SharedFile!Read(r)
  BY <1>7, ReadKeeps
<1>8. CASE \E d, e \in Documents \cup {Broken} : SharedFile!PrepareSave(r, e, d) \/ SharedFile!PrepareRestore(r, e, d)
  BY <1>8, PrepareKeeps DEF SharedFile!PrepareSave, SharedFile!PrepareRestore
<1>9. CASE SharedFile!WriteJournal(r)
  BY <1>9, WriteJournalKeeps
<1>10. CASE SharedFile!Publish(r)
  BY <1>10, PublishKeeps
<1>11. CASE SharedFile!Commit(r)
  BY <1>11, CommitKeeps
<1>12. CASE \E p \in {d.auth : d \in Documents}, t \in 0 .. sessionTokens : SharedFile!Login(r, p, t)
  BY <1>12, LoginKeeps
<1>13. CASE \E t \in 1 .. sessionTokens : SharedFile!CheckSession(r, t)
  BY <1>13, CheckSessionKeeps
<1> QED
  BY <1>1, <1>2, <1>3, <1>4, <1>5, <1>6, <1>7, <1>8, <1>9, <1>10, <1>11, <1>12, <1>13 DEF
     SharedFile!Serve

LEMMA NextKeeps ==
  ASSUME SettingsAssumption, SettingsInv, [SharedFile!Next]_(SharedFile!vars)
  PROVE  Kept
<1>1. CASE \E r \in Requests : SharedFile!Serve(r)
  BY <1>1, ServeKeeps
<1>2. CASE \/ (\E t \in 1 .. sessionTokens : SharedFile!Logout(t))
           \/ SharedFile!SaveConfiguration
           \/ SharedFile!CliLock
           \/ SharedFile!CliGivesUp
           \/ UNCHANGED SharedFile!vars
  BY <1>2, OtherSteps
<1>3. CASE \E d \in Documents \cup {Broken} : SharedFile!CliWrite(d) \/ SharedFile!HandEdit(d)
  BY <1>3, EditKeeps
<1>4. CASE SharedFile!Crash
  BY <1>4, CrashKeeps
<1>5. SharedFile!Outside => \/ (\E t \in 1 .. sessionTokens : SharedFile!Logout(t))
                            \/ SharedFile!SaveConfiguration
                            \/ SharedFile!CliLock
                            \/ SharedFile!CliGivesUp
                            \/ SharedFile!Crash
                            \/ \E d \in Documents \cup {Broken} : SharedFile!CliWrite(d) \/ SharedFile!HandEdit(d)
  BY DEF SharedFile!Outside, SharedFile!CliSet, SharedFile!CliReplace, SharedFile!CliInitialize
<1> QED
  BY <1>1, <1>2, <1>3, <1>4, <1>5 DEF SharedFile!Next

\* The invariant of the settings: commitSettingsFile and whatever runs beside it.
THEOREM SettingsInvariant ==
  ASSUME SettingsAssumption
  PROVE  SharedFile!Spec => []SettingsInv
<1>1. SharedFile!Init => SettingsInv
  BY InitSettles
<1>2. SettingsInv /\ [SharedFile!Next]_(SharedFile!vars) => SettingsInv'
  BY NextKeeps DEF Kept
<1> QED
  BY <1>1, <1>2, PTL DEF SharedFile!Spec

\* Sessions are of the current credentials, or of some that an edit replaced.
THEOREM SessionsStayCurrent ==
  ASSUME SettingsAssumption
  PROVE  SharedFile!Spec => []SharedFile!SessionsAreCurrent
<1>1. SettingsInv => SharedFile!SessionsAreCurrent
  BY DEF SettingsInv
<1> QED
  BY <1>1, SettingsInvariant, PTL

\* PanelSettings implements SharedSettings: every step of a save but its commit stutters.
THEOREM SettingsAreShared ==
  ASSUME SettingsAssumption
  PROVE  SharedFile!Spec => Shared!Spec
<1>1. SharedFile!Init => Shared!Init
  BY InitSettles
<1>2. SettingsInv /\ [SharedFile!Next]_(SharedFile!vars) => [Shared!Next]_(Shared!vars)
  BY NextKeeps DEF Kept, RegisterStep
<1> QED
  BY <1>1, <1>2, SettingsInvariant, PTL DEF SharedFile!Spec, Shared!Spec

\* What a call reports to have done is done (SavePanelSettings, Login, authenticated).
THEOREM AnswersHold ==
  ASSUME SettingsAssumption
  PROVE  SharedFile!Spec => SharedFile!AnswersAreTrue
<1>1. SettingsInv /\ [SharedFile!Next]_(SharedFile!vars) => [Truthful]_(SharedFile!vars)
  BY NextKeeps DEF Kept
<1>2. [Truthful]_(SharedFile!vars) => [\A r \in Requests : panel' # "down" /\ SharedFile!Returns(r) =>
       /\ answer'[r].op \in {"read", "boot", "save", "restore"} =>
            pending' = None /\ (file' = answer'[r].document \/ edits > 0)
       /\ answer'[r].op \in {"save", "restore"} => marker' = ids'
       /\ answer'[r].op \in {"login", "check"} =>
            \E s \in sessions' : /\ s.token = answer'[r].session
                                 /\ s.auth = answer'[r].document.auth]_(SharedFile!vars)
  BY DEF Truthful
<1> QED
  BY <1>1, <1>2, SettingsInvariant, PTL DEF SharedFile!Spec, SharedFile!AnswersAreTrue

-----------------------------------------------------------------------------
(* The sources. What a request or a job has read of a source it may only   *)
(* write or plan by while the source has still the same update; so the     *)
(* argument is that a copy of a present update is the source itself.       *)

\* The requests are configurations, the ticker is no request, and bounds are numbers.
SourcesAssumption ==
  /\ Requested \subseteq SourceParts!Config /\ Intervals \subseteq Nat /\ MinimumInterval \in Nat
  /\ "upload" \notin URLs /\ Ticker \notin Refreshes /\ IsFiniteSet(Refreshes)
  /\ RefreshSlots \in Nat /\ MaxEnabledSources \in Nat /\ MaxEnabledChannels \in Nat
  /\ InputBudget \in Nat /\ ChannelSizes \subseteq Nat
  /\ MaxUpdates \in Nat \ {0} /\ MaxChannelUpdates \in Nat \ {0} /\ MaxClock \in Nat
TableTypes ==
  /\ clock \in 0 .. MaxClock /\ drawn \subseteq Sources \cup Channels
  /\ DOMAIN sources \subseteq drawn \cap Sources
  /\ \A s \in DOMAIN sources : sources[s] \in SourceParts!Source
  /\ DOMAIN versions = DOMAIN sources
  /\ \A s \in DOMAIN sources :
       versions[s] \subseteq SourceParts!Body /\ sources[s].current \in versions[s] \cup {SourceParts!NoVersion}
  /\ DOMAIN schedules \subseteq DOMAIN sources
  /\ \A s \in DOMAIN schedules : schedules[s] \in SourceParts!Schedule
ChannelTypes ==
  /\ DOMAIN channels \subseteq drawn \cap Channels
  /\ \A c \in DOMAIN channels : channels[c] \in SourceParts!Channel
WorkTypes ==
  /\ due \subseteq Sources \X (1 .. MaxUpdates)
  /\ jobs \in [SourceParts!Jobs -> SourceParts!Job \cup {SourceParts!Idle}]

\* What was read of a source is what it is, or the source has a later update.
\* The number of an update names one row, since an identifier is drawn once.
CopyInv(job) ==
  /\ job.source \in drawn
  /\ job.source \in DOMAIN sources =>
       /\ job.copy.update <= sources[job.source].update
       /\ job.copy.update = sources[job.source].update => job.copy = sources[job.source]

\* What a job carries: a refresh is of a remote source and fetched from its URL,
\* the plan is of the update that it may save, and the ticker's is enabled.
JobInv(j) ==
  jobs[j] # SourceParts!Idle =>
    /\ CopyInv(jobs[j])
    /\ jobs[j].step # "saving" \/ SourceParts!Refreshing(jobs[j]) => jobs[j].copy.config.kind = "remote"
    /\ jobs[j].step = "saving" =>
         /\ jobs[j].body \in SourceParts!Body
         /\ SourceParts!Refreshing(jobs[j]) => jobs[j].body[1] = jobs[j].copy.config.url
         /\ jobs[j].source \in DOMAIN sources /\ sources[jobs[j].source].update = jobs[j].copy.update =>
              jobs[j].interval = SourceParts!Planned(jobs[j].copy.config, jobs[j].copy.enabled)
    /\ j = Ticker => jobs[j].copy.enabled /\ (jobs[j].step = "saving" => SourceParts!Refreshing(jobs[j]))

DueInv ==
  \A s \in Sources, u \in 1 .. MaxUpdates : <<s, u>> \in due =>
    /\ s \in drawn
    /\ s \in DOMAIN sources =>
         u <= sources[s].update /\ (u = sources[s].update => sources[s].config.kind = "remote")

Fits(s) ==
  /\ SourceParts!Planned(sources[s].config, sources[s].enabled) # 0 =>
       s \in DOMAIN schedules /\ schedules[s].at <= clock + sources[s].config.interval
  /\ s \in DOMAIN schedules =>
       /\ sources[s].config.kind = "remote" /\ sources[s].enabled
       /\ schedules[s].update = sources[s].update
       /\ sources[s].config.interval = 0 => sources[s].current = SourceParts!NoVersion

Busy == {j \in Refreshes : jobs[j] # SourceParts!Idle}
SlotInv == Cardinality(Busy) <= RefreshSlots

SourcesInv ==
  /\ TableTypes /\ ChannelTypes /\ WorkTypes /\ SlotInv /\ DueInv
  /\ (\A s \in DOMAIN sources : Fits(s)) /\ \A j \in SourceParts!Jobs : JobInv(j)

RefreshMatches ==
  \A j \in SourceParts!Jobs :
    /\ jobs[j] # SourceParts!Idle /\ jobs[j].step = "saving" /\ SourceParts!Refreshing(jobs[j])
    /\ jobs'[j] = SourceParts!Idle /\ sources' # sources
    => LET source == sources[jobs[j].source]
       IN /\ source.config.kind = "remote" /\ source.config.url = jobs[j].body[1]
          /\ j = Ticker => source.enabled
SourcesKept == SourcesInv' /\ RefreshMatches

-----------------------------------------------------------------------------
(* Rows and plans *)

LEMMA WithoutEffect ==
  ASSUME NEW f, NEW x
  PROVE  /\ DOMAIN SourceParts!Without(f, x) = DOMAIN f \ {x}
         /\ \A y \in DOMAIN f \ {x} : SourceParts!Without(f, x)[y] = f[y]
BY DEF SourceParts!Without

LEMMA PlannedType ==
  ASSUME SourcesAssumption, NEW config \in SourceParts!Config, NEW enabled \in BOOLEAN
  PROVE  /\ SourceParts!Planned(config, enabled) \in Intervals \cup {0}
         /\ SourceParts!Planned(config, enabled) \in Nat
         /\ config.interval \in Nat /\ config.kind \in {"remote", "local"}
         /\ SourceParts!Planned(config, enabled) # 0 =>
              config.kind = "remote" /\ enabled /\ SourceParts!Planned(config, enabled) = config.interval
         /\ config.kind = "remote" => config.url \in URLs
<1>1. Intervals \subseteq Nat
  BY DEF SourcesAssumption
<1>2. /\ config.interval \in Intervals \cup {0} /\ config.kind \in {"remote", "local"}
      /\ config.kind = "remote" => config.url \in URLs
  BY DEF SourceParts!Config
<1>3. config.interval \in Nat
  <2>1. CASE config.interval = 0
    BY <2>1
  <2>2. CASE config.interval \in Intervals
    BY <1>1, <2>2, Zenon
  <2> QED
    BY <1>2, <2>1, <2>2
<1>4. CASE config.kind = "remote" /\ enabled
  <2>1. SourceParts!Planned(config, enabled) = config.interval
    BY <1>4 DEF SourceParts!Planned
  <2> QED
    BY <1>2, <1>4, <1>3, <2>1, Zenon
<1>5. CASE ~(config.kind = "remote" /\ enabled)
  <2>1. SourceParts!Planned(config, enabled) = 0
    BY <1>5 DEF SourceParts!Planned
  <2>2. SourceParts!Planned(config, enabled) \in Nat
    BY <2>1
  <2> QED
    BY <1>2, <1>3, <2>1, <2>2, Zenon
<1> QED
  BY <1>4, <1>5

LEMMA ScheduledEffect ==
  ASSUME NEW s, NEW update, NEW interval, SourceParts!Scheduled(s, update, interval)
  PROVE  /\ \A t \in DOMAIN schedules' : t # s => t \in DOMAIN schedules
         /\ \A t \in DOMAIN schedules : t # s => t \in DOMAIN schedules' /\ schedules'[t] = schedules[t]
         /\ interval = 0 => s \notin DOMAIN schedules'
         /\ interval # 0 => /\ s \in DOMAIN schedules'
                            /\ schedules'[s] = [update |-> update, at |-> clock + interval]
<1>1. CASE interval = 0
  BY <1>1, WithoutEffect DEF SourceParts!Scheduled
<1>2. CASE interval # 0
  <2>1. PICK plan : plan = [update |-> update, at |-> clock + interval]
    OBVIOUS
  <2>2. schedules' = SourceParts!With(schedules, s, plan)
    BY <1>2, <2>1 DEF SourceParts!Scheduled
  <2>3. /\ DOMAIN schedules' = DOMAIN schedules \cup {s} /\ schedules'[s] = plan
        /\ \A t \in DOMAIN schedules \ {s} : schedules'[t] = schedules[t]
    BY <2>2 DEF SourceParts!With
  <2> QED
    BY <1>2, <2>1, <2>3
<1> QED
  BY <1>1, <1>2

\* A row that keeps what is said of its plan.
LEMMA OtherFits ==
  ASSUME NEW t, Fits(t), sources'[t] = sources[t], clock' = clock,
         t \in DOMAIN schedules' <=> t \in DOMAIN schedules,
         t \in DOMAIN schedules => schedules'[t] = schedules[t]
  PROVE  Fits(t)'
BY DEF Fits

LEMMA PlannedFits ==
  ASSUME SourcesAssumption, TableTypes, NEW s, NEW row \in SourceParts!Source, sources'[s] = row,
         clock' = clock,
         SourceParts!Scheduled(s, row.update, SourceParts!Planned(row.config, row.enabled))
  PROVE  Fits(s)'
<1>1. row.config \in SourceParts!Config /\ row.enabled \in BOOLEAN
  BY DEF SourceParts!Source
<1>2. PICK i \in Nat : i = SourceParts!Planned(row.config, row.enabled)
  BY <1>1, PlannedType
<1>3. i # 0 => row.config.kind = "remote" /\ row.enabled /\ i = row.config.interval
  BY <1>1, <1>2, PlannedType
<1>4. CASE i = 0
  <2>1. s \notin DOMAIN schedules'
    BY <1>2, <1>4, ScheduledEffect
  <2> QED
    BY <1>2, <1>4, <2>1 DEF Fits, SourceParts!Planned
<1>5. CASE i # 0
  <2>1. s \in DOMAIN schedules' /\ schedules'[s] = [update |-> row.update, at |-> clock + i]
    BY <1>2, <1>5, ScheduledEffect
  <2>2. schedules'[s].update = row.update /\ schedules'[s].at = clock' + row.config.interval
    BY <1>3, <1>5, <2>1
  <2>3. row.config.interval \in Nat /\ clock' \in Nat
    BY <1>1, PlannedType DEF TableTypes
  <2>4. schedules'[s].at <= clock' + row.config.interval
    BY <2>2, <2>3
  <2> QED
    BY <1>3, <1>5, <2>1, <2>2, <2>4 DEF Fits
<1> QED
  BY <1>4, <1>5

\* A source that is written gets a later update, and its plan with it.
LEMMA StoredKeeps ==
  ASSUME SourcesAssumption, SourcesInv, NEW s \in DOMAIN sources, NEW row \in SourceParts!Source,
         row.update = sources[s].update + 1, DOMAIN sources' = DOMAIN sources, sources'[s] = row,
         \A t \in DOMAIN sources \ {s} : sources'[t] = sources[t],
         SourceParts!Scheduled(s, row.update, SourceParts!Planned(row.config, row.enabled)),
         DOMAIN versions' = DOMAIN versions, \A t \in DOMAIN versions \ {s} : versions'[t] = versions[t],
         versions'[s] \subseteq SourceParts!Body,
         row.current \in versions'[s] \cup {SourceParts!NoVersion},
         UNCHANGED <<clock, drawn, channels, due>>
  PROVE  /\ TableTypes' /\ ChannelTypes' /\ DueInv' /\ \A t \in DOMAIN sources' : Fits(t)'
         /\ \A j \in SourceParts!Jobs : jobs'[j] = jobs[j] => JobInv(j)'
<1> USE DEF SourcesInv
<1>1. row.config \in SourceParts!Config /\ row.enabled \in BOOLEAN /\ row.update \in 1 .. MaxUpdates
  BY DEF SourceParts!Source
<1>2. PICK i \in Nat : i = SourceParts!Planned(row.config, row.enabled)
  BY <1>1, PlannedType
<1>3. TableTypes'
  <2>1. \A t \in DOMAIN sources' : sources'[t] \in SourceParts!Source
    BY DEF TableTypes
  <2>2. \A t \in DOMAIN sources' :
          /\ versions'[t] \subseteq SourceParts!Body
          /\ sources'[t].current \in versions'[t] \cup {SourceParts!NoVersion}
    BY DEF TableTypes
  <2>3. DOMAIN schedules' \subseteq DOMAIN sources'
    BY ScheduledEffect DEF TableTypes
  <2>4. \A t \in DOMAIN schedules' : schedules'[t] \in SourceParts!Schedule
    <3>1. [update |-> row.update, at |-> clock + i] \in SourceParts!Schedule
      BY <1>1 DEF SourceParts!Schedule, TableTypes
    <3>2. ASSUME s \in DOMAIN schedules' PROVE schedules'[s] \in SourceParts!Schedule
      BY <1>2, <3>1, <3>2, ScheduledEffect
    <3> QED
      BY <3>2, ScheduledEffect DEF TableTypes
  <2> QED
    BY <2>1, <2>2, <2>3, <2>4 DEF TableTypes
<1>4. ChannelTypes'
  BY DEF ChannelTypes
<1>5. DueInv'
  <2>1. sources[s].update \in Nat
    BY DEF TableTypes, SourceParts!Source
  <2> QED
    BY <2>1 DEF DueInv, TableTypes, SourceParts!Source
<1>6. ASSUME NEW t \in DOMAIN sources' PROVE Fits(t)'
  <2>1. CASE t = s
    BY <2>1, PlannedFits
  <2>2. CASE t # s
    <3>1. /\ t \in DOMAIN schedules' <=> t \in DOMAIN schedules
          /\ t \in DOMAIN schedules => schedules'[t] = schedules[t]
      <4>1. /\ \A u \in DOMAIN schedules' : u # s => u \in DOMAIN schedules
            /\ \A u \in DOMAIN schedules : u # s => u \in DOMAIN schedules' /\ schedules'[u] = schedules[u]
        BY ScheduledEffect
      <4> QED
        BY <2>2, <4>1
    <3>2. Fits(t) /\ sources'[t] = sources[t] /\ clock' = clock
      BY <2>2
    <3> QED
      BY <3>1, <3>2, OtherFits
  <2> QED
    BY <2>1, <2>2
<1>7. ASSUME NEW j \in SourceParts!Jobs, jobs'[j] = jobs[j], jobs[j] # SourceParts!Idle PROVE JobInv(j)'
  <2>1. JobInv(j) /\ jobs[j] \in SourceParts!Job /\ jobs[j].copy \in SourceParts!Source
    BY <1>7 DEF WorkTypes, SourceParts!Job
  <2>2. jobs[j].copy.update \in Nat /\ sources[s].update \in Nat
    BY <2>1 DEF SourceParts!Source, TableTypes
  <2>3. CASE jobs[j].source = s
    <3>1. jobs[j].copy.update <= sources[s].update
      BY <1>7, <2>1, <2>3 DEF JobInv, CopyInv
    <3>2. jobs[j].copy.update < sources'[s].update
      BY <2>2, <3>1
    <3> QED
      BY <1>7, <2>1, <2>2, <2>3, <3>2 DEF JobInv, CopyInv
  <2>4. CASE jobs[j].source # s
    BY <1>7, <2>1, <2>4 DEF JobInv, CopyInv
  <2> QED
    BY <2>3, <2>4
<1>8. ASSUME NEW j \in SourceParts!Jobs, jobs'[j] = jobs[j] PROVE JobInv(j)'
  BY <1>7, <1>8 DEF JobInv
<1> QED
  BY <1>3, <1>4, <1>5, <1>6, <1>8

-----------------------------------------------------------------------------
(* Jobs *)

\* The slots of refreshes and uploads.
LEMMA SlotKeeps ==
  ASSUME SourcesAssumption, WorkTypes, SlotInv, NEW j \in SourceParts!Jobs,
         NEW job \in SourceParts!Job \cup {SourceParts!Idle},
         jobs' = [jobs EXCEPT ![j] = job],
         j = Ticker \/ jobs[j] # SourceParts!Idle \/ job = SourceParts!Idle \/ Cardinality(Busy) < RefreshSlots
  PROVE  SlotInv'
<1>1. Busy \in SUBSET Refreshes /\ Busy' \in SUBSET Refreshes
  BY DEF Busy
<1>2. IsFiniteSet(Busy) /\ Cardinality(Busy) \in Nat
  BY <1>1, FS_Subset, FS_CardinalityType DEF SourcesAssumption
<1>3. CASE Busy' \subseteq Busy
  <2>1. Cardinality(Busy') <= Cardinality(Busy) /\ Cardinality(Busy') \in Nat
    BY <1>2, <1>3, FS_Subset, FS_CardinalityType
  <2> QED
    BY <1>2, <2>1 DEF SlotInv, SourcesAssumption
<1>4. CASE ~(Busy' \subseteq Busy)
  <2>1. j \in Refreshes /\ Cardinality(Busy) < RefreshSlots /\ Busy' = Busy \cup {j} /\ j \notin Busy
    BY <1>4 DEF Busy, WorkTypes, SourcesAssumption, SourceParts!Jobs
  <2>2. Cardinality(Busy') = Cardinality(Busy) + 1
    BY <1>2, <2>1, FS_AddElement
  <2> QED
    BY <1>2, <2>1, <2>2 DEF SlotInv, SourcesAssumption
<1> QED
  BY <1>3, <1>4

LEMMA JobFails ==
  ASSUME NEW job \in SourceParts!Job
  PROVE  \E failed \in SourceParts!Job : /\ failed = [job EXCEPT !.step = "failed"] /\ failed.step = "failed"
                                         /\ failed.source = job.source /\ failed.copy = job.copy
<1>1. [job EXCEPT !.step = "failed"] \in SourceParts!Job
  BY DEF SourceParts!Job
<1>2. /\ [job EXCEPT !.step = "failed"].step = "failed"
      /\ [job EXCEPT !.step = "failed"].source = job.source
      /\ [job EXCEPT !.step = "failed"].copy = job.copy
  BY DEF SourceParts!Job
<1> QED
  BY <1>1, <1>2

\* A job that goes on or ends while the tables stay.
LEMMA JobStepKeeps ==
  ASSUME SourcesAssumption, SourcesInv, NEW j \in SourceParts!Jobs,
         NEW job \in SourceParts!Job \cup {SourceParts!Idle},
         jobs' = [jobs EXCEPT ![j] = job],
         j = Ticker \/ jobs[j] # SourceParts!Idle \/ job = SourceParts!Idle \/ Cardinality(Busy) < RefreshSlots,
         UNCHANGED <<clock, drawn, SourceParts!sourceVars, channels>>, due' \subseteq due, JobInv(j)'
  PROVE  SourcesKept
<1> USE DEF SourcesInv, SourceParts!sourceVars
<1>1. /\ jobs' \in [SourceParts!Jobs -> SourceParts!Job \cup {SourceParts!Idle}]
      /\ \A i \in SourceParts!Jobs \ {j} : jobs'[i] = jobs[i]
  BY DEF WorkTypes
<1>2. TableTypes' /\ ChannelTypes' /\ WorkTypes' /\ DueInv'
  BY <1>1 DEF TableTypes, ChannelTypes, WorkTypes, DueInv
<1>3. SlotInv'
  BY SlotKeeps
<1>4. \A s \in DOMAIN sources' : Fits(s)'
  BY DEF Fits
<1>5. ASSUME NEW i \in SourceParts!Jobs \ {j} PROVE JobInv(i)'
  <2>1. JobInv(i) /\ jobs'[i] = jobs[i]
    BY <1>1
  <2> QED
    BY <2>1 DEF JobInv, CopyInv
<1>6. SourcesInv'
  BY <1>2, <1>3, <1>4, <1>5
<1> QED
  BY <1>6 DEF SourcesKept, RefreshMatches

\* A refresh begins with the source as it is.
LEMMA BeginKeeps ==
  ASSUME SourcesAssumption, SourcesInv, NEW j \in SourceParts!Jobs, NEW s \in DOMAIN sources,
         SourceParts!Begin(j, s),
         sources[s].config.kind = "remote", j = Ticker => sources[s].enabled,
         j = Ticker \/ Cardinality(Busy) < RefreshSlots,
         UNCHANGED <<clock, drawn, SourceParts!sourceVars, channels>>, due' \subseteq due
  PROVE  SourcesKept
<1> USE DEF SourcesInv
<1>1. PICK job : job = [step |-> "fetching", source |-> s, copy |-> sources[s],
                        body |-> SourceParts!NoVersion, interval |-> 0]
  OBVIOUS
<1>2. s \in Sources /\ s \in drawn /\ sources[s] \in SourceParts!Source
  BY DEF TableTypes
<1>3. job \in SourceParts!Job
  BY <1>1, <1>2 DEF SourceParts!Job
<1>4. jobs' = [jobs EXCEPT ![j] = job] /\ jobs'[j] = job
  BY <1>1 DEF SourceParts!Begin, WorkTypes
<1>5. sources[s].update \in Nat
  BY <1>2 DEF SourceParts!Source
<1>6. JobInv(j)'
  BY <1>1, <1>2, <1>4, <1>5 DEF JobInv, CopyInv, SourceParts!sourceVars
<1> QED
  BY <1>3, <1>4, <1>6, JobStepKeeps

\* The cardinality that a part has from its instance is the one of the library.
LEMMA SameCardinality ==
  ASSUME NEW S
  PROVE  SourceParts!Cardinality(S) = Cardinality(S)
BY DEF SourceParts!Cardinality, Cardinality

LEMMA RefreshSourceKeeps ==
  ASSUME SourcesAssumption, SourcesInv, NEW j \in Refreshes, NEW s \in Sources,
         SourceParts!RefreshSource(j, s)
  PROVE  SourcesKept
<1>1. j \in SourceParts!Jobs /\ j # Ticker /\ Cardinality(Busy) < RefreshSlots
  <2>1. j \in SourceParts!Jobs /\ j # Ticker /\ SourceParts!Cardinality(Busy) < RefreshSlots
    BY DEF SourceParts!Jobs, SourcesAssumption, SourceParts!RefreshSource, SourceParts!SlotFree,
       Busy
  <2> QED
    BY <2>1, SameCardinality
<1> QED
  BY <1>1, BeginKeeps DEF SourceParts!RefreshSource

LEMMA UploadKeeps ==
  ASSUME SourcesAssumption, SourcesInv, NEW j \in Refreshes, NEW s \in Sources,
         NEW answered \in SourceDocuments,
         SourceParts!UploadVersion(j, s, answered)
  PROVE  SourcesKept
<1> USE DEF SourcesInv
<1>1. j \in SourceParts!Jobs /\ j # Ticker /\ Cardinality(Busy) < RefreshSlots
  <2>1. j \in SourceParts!Jobs /\ j # Ticker /\ SourceParts!Cardinality(Busy) < RefreshSlots
    BY DEF SourceParts!Jobs, SourcesAssumption, SourceParts!UploadVersion, SourceParts!SlotFree,
       Busy
  <2> QED
    BY <2>1, SameCardinality
<1>2. s \in DOMAIN sources /\ UNCHANGED <<clock, drawn, SourceParts!sourceVars, channels, due>>
  BY DEF SourceParts!UploadVersion
<1>3. s \in drawn /\ sources[s] \in SourceParts!Source
  BY <1>2 DEF TableTypes
<1>4. /\ sources[s].config \in SourceParts!Config /\ sources[s].enabled \in BOOLEAN
      /\ sources[s].update \in Nat
  BY <1>3 DEF SourceParts!Source
<1>5. PICK i \in Intervals \cup {0} : i = SourceParts!Planned(sources[s].config, sources[s].enabled)
  BY <1>4, PlannedType
<1>6. PICK job : job = [step |-> "saving", source |-> s, copy |-> sources[s],
                        body |-> <<"upload", answered>>, interval |-> i]
  OBVIOUS
<1>7. <<"upload", answered>> \in SourceParts!Body /\ <<"upload", answered>>[1] = "upload"
  BY DEF SourceParts!Body
<1>8. job \in SourceParts!Job
  BY <1>3, <1>6, <1>7 DEF SourceParts!Job
<1>9. jobs' = [jobs EXCEPT ![j] = job] /\ jobs'[j] = job
  BY <1>1, <1>5, <1>6 DEF SourceParts!UploadVersion, WorkTypes
<1>10. ~SourceParts!Refreshing(job)
  BY <1>6, <1>7 DEF SourceParts!Refreshing
<1>11. JobInv(j)'
  BY <1>1, <1>2, <1>3, <1>4, <1>5, <1>6, <1>7, <1>9, <1>10 DEF JobInv, CopyInv,
     SourceParts!sourceVars, SourceParts!Refreshing
<1> QED
  BY <1>1, <1>2, <1>8, <1>9, <1>11, JobStepKeeps

\* A fetched answered is prepared with the plan of the source as it is then.
LEMMA FetchedKeeps ==
  ASSUME SourcesAssumption, SourcesInv, NEW j \in SourceParts!Jobs,
         NEW answered \in SourceDocuments, SourceParts!Fetched(j, answered)
  PROVE  SourcesKept
<1> USE DEF SourcesInv
<1>1. /\ jobs[j].step = "fetching" /\ jobs[j] \in SourceParts!Job /\ JobInv(j)
      /\ jobs[j] # SourceParts!Idle
      /\ UNCHANGED <<clock, drawn, SourceParts!sourceVars, channels, due>>
      /\ SourceParts!Prepared(j, jobs[j].source, <<jobs[j].copy.config.url, answered>>)
  BY DEF SourceParts!Fetched, WorkTypes, SourceParts!Idle
<1>2. jobs[j].copy \in SourceParts!Source /\ jobs[j].source \in Sources
  BY <1>1 DEF SourceParts!Job
<1>3. jobs[j].copy.config \in SourceParts!Config /\ jobs[j].copy.config.kind = "remote"
  BY <1>1, <1>2 DEF JobInv, SourceParts!Source
<1>4. jobs[j].copy.config.url \in URLs
  BY <1>3 DEF SourceParts!Config
<1>5. PICK body \in SourceParts!Body :
        body = <<jobs[j].copy.config.url, answered>> /\ body[1] = jobs[j].copy.config.url
  <2>1. <<jobs[j].copy.config.url, answered>> \in SourceParts!Body
    BY <1>4 DEF SourceParts!Body
  <2>2. <<jobs[j].copy.config.url, answered>>[1] = jobs[j].copy.config.url
    OBVIOUS
  <2> QED
    BY <2>1, <2>2
<1>6. CASE jobs[j].source \in DOMAIN sources
  <2>1. PICK row \in SourceParts!Source : row = sources[jobs[j].source]
    BY <1>6 DEF TableTypes
  <2>2. row.config \in SourceParts!Config /\ row.enabled \in BOOLEAN
    BY DEF SourceParts!Source
  <2>3. PICK i \in Intervals \cup {0} : i = SourceParts!Planned(row.config, row.enabled)
    BY <2>2, PlannedType
  <2>4. PICK job : job = [jobs[j] EXCEPT !.step = "saving", !.body = body, !.interval = i]
    OBVIOUS
  <2>5. /\ job \in SourceParts!Job /\ job.step = "saving" /\ job.source = jobs[j].source
        /\ job.copy = jobs[j].copy
        /\ job.body = body /\ job.interval = i
    <3>1. PICK source \in Sources, copy \in SourceParts!Source,
               old \in SourceParts!Body \cup {SourceParts!NoVersion}, k \in Intervals \cup {0} :
            jobs[j] = [step |-> "fetching", source |-> source, copy |-> copy, body |-> old, interval |-> k]
      BY <1>1 DEF SourceParts!Job
    <3>2. [jobs[j] EXCEPT !.step = "saving"]
            = [step |-> "saving", source |-> source, copy |-> copy, body |-> old, interval |-> k]
      BY <3>1
    <3>3. [jobs[j] EXCEPT !.step = "saving", !.body = body]
            = [[step |-> "saving", source |-> source, copy |-> copy, body |-> old, interval |-> k]
                 EXCEPT !.body = body]
      BY <3>2
    <3>4. [jobs[j] EXCEPT !.step = "saving", !.body = body]
            = [step |-> "saving", source |-> source, copy |-> copy, body |-> body, interval |-> k]
      BY <3>3
    <3>5. job = [[step |-> "saving", source |-> source, copy |-> copy, body |-> body, interval |-> k]
                   EXCEPT !.interval = i]
      BY <2>4, <3>4
    <3>6. job = [step |-> "saving", source |-> source, copy |-> copy, body |-> body, interval |-> i]
      BY <3>5
    <3>7. [step |-> "saving", source |-> source, copy |-> copy, body |-> body, interval |-> i] \in SourceParts!Job
      BY DEF SourceParts!Job
    <3> QED
      BY <3>1, <3>6, <3>7
  <2>6. jobs' = [jobs EXCEPT ![j] = job] /\ jobs'[j] = job
    BY <1>1, <1>5, <1>6, <2>1, <2>3, <2>4 DEF SourceParts!Prepared, WorkTypes
  <2>7. SourceParts!Refreshing(job)
    BY <1>4, <1>5, <2>4, <2>5 DEF SourceParts!Refreshing, SourcesAssumption
  <2>8. CopyInv(jobs[j])'
    BY <1>1, <2>4, <2>5, <2>6 DEF JobInv, CopyInv, SourceParts!sourceVars
  <2>9. JobInv(j)'
    <3>1. job.source \in DOMAIN sources' /\ sources'[job.source].update = job.copy.update =>
            job.interval = SourceParts!Planned(job.copy.config, job.copy.enabled)
      BY <1>1, <2>1, <2>3, <2>4, <2>5 DEF JobInv, CopyInv, SourceParts!sourceVars
    <3> QED
      BY <1>1, <1>3, <1>5, <2>4, <2>5, <2>6, <2>7, <2>8, <3>1 DEF JobInv, SourceParts!sourceVars
  <2> QED
    BY <1>1, <2>5, <2>6, <2>9, JobStepKeeps
<1>7. CASE jobs[j].source \notin DOMAIN sources
  <2>1. PICK job \in SourceParts!Job : /\ job = [jobs[j] EXCEPT !.step = "failed"]
                                       /\ job.step = "failed" /\ job.source = jobs[j].source
                                       /\ job.copy = jobs[j].copy
    BY <1>1, JobFails
  <2>2. jobs' = [jobs EXCEPT ![j] = job] /\ jobs'[j] = job
    BY <1>1, <1>7, <2>1 DEF SourceParts!Prepared, WorkTypes
  <2>3. JobInv(j)'
    BY <1>1, <2>1, <2>2 DEF JobInv, CopyInv, SourceParts!sourceVars
  <2> QED
    BY <1>1, <2>2, <2>3, JobStepKeeps
<1> QED
  BY <1>6, <1>7

LEMMA FetchEnds ==
  ASSUME SourcesAssumption, SourcesInv, NEW j \in SourceParts!Jobs,
         SourceParts!FetchFails(j) \/ SourceParts!RefreshEnds(j)
  PROVE  SourcesKept
<1> USE DEF SourcesInv
<1>1. /\ jobs[j] \in SourceParts!Job /\ JobInv(j) /\ jobs[j] # SourceParts!Idle
      /\ UNCHANGED <<clock, drawn, SourceParts!sourceVars, channels, due>>
  BY DEF SourceParts!FetchFails, SourceParts!RefreshEnds, WorkTypes, SourceParts!Idle
<1>2. CASE SourceParts!FetchFails(j)
  <2>1. PICK job \in SourceParts!Job : /\ job = [jobs[j] EXCEPT !.step = "failed"]
                                       /\ job.step = "failed" /\ job.source = jobs[j].source
                                       /\ job.copy = jobs[j].copy
    BY <1>1, JobFails
  <2>2. jobs' = [jobs EXCEPT ![j] = job] /\ jobs'[j] = job
    BY <1>2, <2>1 DEF SourceParts!FetchFails, WorkTypes
  <2>3. JobInv(j)'
    BY <1>1, <1>2, <2>1, <2>2 DEF JobInv, CopyInv, SourceParts!sourceVars,
       SourceParts!FetchFails
  <2> QED
    BY <1>1, <2>2, <2>3, JobStepKeeps
<1>3. CASE SourceParts!RefreshEnds(j)
  <2>1. jobs' = [jobs EXCEPT ![j] = SourceParts!Idle] /\ jobs'[j] = SourceParts!Idle
    BY <1>3 DEF SourceParts!RefreshEnds, WorkTypes
  <2>2. JobInv(j)'
    BY <2>1 DEF JobInv
  <2> QED
    BY <1>1, <2>1, <2>2, JobStepKeeps
<1> QED
  BY <1>2, <1>3

\* A save is of the update that was read, so of the source that was fetched.
LEMMA SaveKeeps ==
  ASSUME SourcesAssumption, SourcesInv, NEW j \in SourceParts!Jobs, SourceParts!Save(j)
  PROVE  SourcesKept
<1> USE DEF SourcesInv
<1>1. /\ jobs[j].step = "saving" /\ jobs[j] \in SourceParts!Job /\ JobInv(j)
      /\ jobs[j] # SourceParts!Idle
      /\ UNCHANGED <<clock, drawn, channels, due>>
  BY DEF SourceParts!Save, WorkTypes, SourceParts!Idle
<1>2. PICK s \in Sources, copy \in SourceParts!Source, body \in SourceParts!Body :
        /\ jobs[j].source = s /\ jobs[j].copy = copy /\ jobs[j].body = body
        /\ CopyInv(jobs[j])
        /\ SourceParts!Refreshing(jobs[j]) => copy.config.kind = "remote" /\ body[1] = copy.config.url
        /\ s \in DOMAIN sources /\ sources[s].update = copy.update =>
             jobs[j].interval = SourceParts!Planned(copy.config, copy.enabled)
        /\ j = Ticker => copy.enabled /\ SourceParts!Refreshing(jobs[j])
  BY <1>1 DEF JobInv, SourceParts!Job
<1>3. CASE SourceParts!CurrentSource(s, copy.update)
  <2>1. /\ s \in DOMAIN sources /\ sources[s].update = copy.update /\ copy.update < MaxUpdates
        /\ sources[s] = copy
    BY <1>2, <1>3 DEF SourceParts!CurrentSource, CopyInv
  <2>2. /\ sources' = [sources EXCEPT ![s].current = body, ![s].update = copy.update + 1]
        /\ versions' = [versions EXCEPT ![s] = versions[s] \cup {body}]
        /\ SourceParts!Scheduled(s, copy.update + 1, jobs[j].interval)
        /\ jobs' = [jobs EXCEPT ![j] = SourceParts!Idle]
    BY <1>2, <1>3 DEF SourceParts!Save
  <2>3. PICK row \in SourceParts!Source : /\ row = [copy EXCEPT !.current = body, !.update = copy.update + 1]
                                          /\ row.update = copy.update + 1 /\ row.current = body
                                          /\ row.config = copy.config /\ row.enabled = copy.enabled
    <3>1. PICK config \in SourceParts!Config, enabled \in BOOLEAN,
               old \in SourceParts!Body \cup {SourceParts!NoVersion}, u \in 1 .. MaxUpdates :
            copy = [config |-> config, enabled |-> enabled, current |-> old, update |-> u]
      BY DEF SourceParts!Source
    <3>2. copy.update = u /\ u + 1 \in 1 .. MaxUpdates
      BY <2>1, <3>1 DEF SourcesAssumption
    <3>3. [copy EXCEPT !.current = body] = [config |-> config, enabled |-> enabled, current |-> body, update |-> u]
      BY <3>1
    <3>4. [copy EXCEPT !.current = body, !.update = copy.update + 1]
            = [[config |-> config, enabled |-> enabled, current |-> body, update |-> u]
                 EXCEPT !.update = copy.update + 1]
      BY <3>3
    <3>5. [copy EXCEPT !.current = body, !.update = copy.update + 1]
            = [config |-> config, enabled |-> enabled, current |-> body, update |-> u + 1]
      BY <3>2, <3>4
    <3>6. [config |-> config, enabled |-> enabled, current |-> body, update |-> u + 1] \in SourceParts!Source
      BY <3>2 DEF SourceParts!Source
    <3> QED
      BY <3>1, <3>2, <3>5, <3>6
  <2>4. /\ DOMAIN sources' = DOMAIN sources /\ sources'[s] = row
        /\ \A t \in DOMAIN sources \ {s} : sources'[t] = sources[t]
    <3>1. sources' = [sources EXCEPT ![s] = [copy EXCEPT !.current = body, !.update = copy.update + 1]]
      BY <2>1, <2>2
    <3>2. sources' = [sources EXCEPT ![s] = row]
      BY <2>3, <3>1
    <3> QED
      BY <2>1, <3>2
  <2>5. SourceParts!Scheduled(s, row.update, SourceParts!Planned(row.config, row.enabled))
    BY <1>2, <2>1, <2>2, <2>3
  <2>6. /\ DOMAIN versions' = DOMAIN versions
        /\ \A t \in DOMAIN versions \ {s} : versions'[t] = versions[t]
        /\ versions'[s] \subseteq SourceParts!Body
        /\ row.current \in versions'[s] \cup {SourceParts!NoVersion}
    BY <2>1, <2>2, <2>3 DEF TableTypes
  <2>7. row.update = sources[s].update + 1
    BY <2>1, <2>3
  <2>8. /\ TableTypes' /\ ChannelTypes' /\ DueInv' /\ \A t \in DOMAIN sources' : Fits(t)'
        /\ \A i \in SourceParts!Jobs : jobs'[i] = jobs[i] => JobInv(i)'
    BY <1>1, <2>1, <2>4, <2>5, <2>6, <2>7, StoredKeeps
  <2>9. /\ jobs' \in [SourceParts!Jobs -> SourceParts!Job \cup {SourceParts!Idle}]
        /\ jobs'[j] = SourceParts!Idle /\ \A i \in SourceParts!Jobs \ {j} : jobs'[i] = jobs[i]
    BY <2>2 DEF WorkTypes
  <2>10. WorkTypes' /\ SlotInv'
    BY <1>1, <2>2, <2>9, SlotKeeps DEF WorkTypes
  <2>11. \A i \in SourceParts!Jobs : JobInv(i)'
    BY <2>8, <2>9 DEF JobInv
  <2>12. RefreshMatches
    BY <1>2, <2>1, <2>9 DEF RefreshMatches
  <2> QED
    BY <2>8, <2>10, <2>11, <2>12 DEF SourcesKept
<1>4. CASE ~SourceParts!CurrentSource(s, copy.update)
  <2>1. UNCHANGED SourceParts!sourceVars
    BY <1>2, <1>4 DEF SourceParts!Save
  <2>2. CASE SourceParts!Refreshing(jobs[j])
    <3>1. PICK job \in SourceParts!Job : /\ job = [jobs[j] EXCEPT !.step = "failed"]
                                         /\ job.step = "failed" /\ job.source = s /\ job.copy = copy
      BY <1>1, <1>2, JobFails
    <3>2. jobs' = [jobs EXCEPT ![j] = job] /\ jobs'[j] = job
      BY <1>2, <1>4, <2>2, <3>1 DEF SourceParts!Save, WorkTypes
    <3>3. JobInv(j)'
      BY <1>1, <1>2, <2>1, <2>2, <3>1, <3>2 DEF JobInv, CopyInv, SourceParts!sourceVars
    <3> QED
      BY <1>1, <2>1, <3>2, <3>3, JobStepKeeps
  <2>3. CASE ~SourceParts!Refreshing(jobs[j])
    <3>1. jobs' = [jobs EXCEPT ![j] = SourceParts!Idle] /\ jobs'[j] = SourceParts!Idle
      BY <1>2, <1>4, <2>3 DEF SourceParts!Save, WorkTypes
    <3>2. JobInv(j)'
      BY <3>1 DEF JobInv
    <3> QED
      BY <1>1, <2>1, <3>1, <3>2, JobStepKeeps
  <2> QED
    BY <2>2, <2>3
<1> QED
  BY <1>3, <1>4

\* A failed refresh plans the source again if it is still what was read.
LEMMA RescheduleKeeps ==
  ASSUME SourcesAssumption, SourcesInv, NEW j \in SourceParts!Jobs, SourceParts!Reschedule(j)
  PROVE  SourcesKept
<1> USE DEF SourcesInv
<1>1. /\ jobs[j].step = "failed" /\ jobs[j] \in SourceParts!Job /\ JobInv(j)
      /\ jobs[j] # SourceParts!Idle
      /\ jobs' = [jobs EXCEPT ![j] = SourceParts!Idle]
      /\ UNCHANGED <<clock, drawn, sources, versions, channels, due>>
  BY DEF SourceParts!Reschedule, WorkTypes, SourceParts!Idle
<1>2. PICK s \in Sources, copy \in SourceParts!Source :
        jobs[j].source = s /\ jobs[j].copy = copy /\ CopyInv(jobs[j]) /\ copy.config.kind = "remote"
  BY <1>1 DEF JobInv, SourceParts!Job
<1>3. /\ jobs' \in [SourceParts!Jobs -> SourceParts!Job \cup {SourceParts!Idle}]
      /\ jobs'[j] = SourceParts!Idle /\ \A i \in SourceParts!Jobs \ {j} : jobs'[i] = jobs[i]
  BY <1>1 DEF WorkTypes
<1>4. JobInv(j)'
  BY <1>3 DEF JobInv
<1>5. CASE UNCHANGED schedules
  <2>1. UNCHANGED <<clock, drawn, SourceParts!sourceVars, channels>> /\ due' \subseteq due
    BY <1>1, <1>5 DEF SourceParts!sourceVars
  <2> QED
    BY <1>1, <1>4, <2>1, JobStepKeeps
<1>6. CASE /\ copy.enabled /\ (copy.config.interval # 0 \/ copy.current = SourceParts!NoVersion)
           /\ s \in DOMAIN sources /\ sources[s].update = copy.update
           /\ SourceParts!Scheduled(s, copy.update, IF copy.config.interval = 0 THEN MinimumInterval
                                                                                ELSE copy.config.interval)
  <2>1. sources[s] = copy
    BY <1>2, <1>6 DEF CopyInv
  <2>2. PICK i \in Nat : i = IF copy.config.interval = 0 THEN MinimumInterval ELSE copy.config.interval
    <3>1. copy.config \in SourceParts!Config /\ copy.enabled \in BOOLEAN
      BY DEF SourceParts!Source
    <3>2. copy.config.interval \in Nat
      BY <3>1, PlannedType
    <3> QED
      BY <3>2 DEF SourcesAssumption
  <2>3. SourceParts!Scheduled(s, copy.update, i)
    BY <1>6, <2>2
  <2>4. /\ \A t \in DOMAIN schedules' : t # s => t \in DOMAIN schedules
        /\ \A t \in DOMAIN schedules : t # s => t \in DOMAIN schedules' /\ schedules'[t] = schedules[t]
        /\ i = 0 => s \notin DOMAIN schedules'
        /\ i # 0 => /\ s \in DOMAIN schedules'
                    /\ schedules'[s] = [update |-> copy.update, at |-> clock + i]
    BY <2>3, ScheduledEffect
  <2>5. TableTypes'
    <3>1. copy.update \in 1 .. MaxUpdates /\ clock \in Nat
      BY DEF SourceParts!Source, TableTypes
    <3>2. [update |-> copy.update, at |-> clock + i] \in SourceParts!Schedule
      BY <3>1 DEF SourceParts!Schedule
    <3>3. /\ DOMAIN schedules' \subseteq DOMAIN sources
          /\ \A t \in DOMAIN schedules' : schedules'[t] \in SourceParts!Schedule
      <4>1. ASSUME s \in DOMAIN schedules' PROVE schedules'[s] \in SourceParts!Schedule
        BY <2>4, <3>2, <4>1
      <4> QED
        BY <1>6, <2>4, <4>1 DEF TableTypes
    <3> QED
      BY <1>1, <3>3 DEF TableTypes
  <2>6. ASSUME NEW t \in DOMAIN sources' PROVE Fits(t)'
    <3>1. CASE t = s
      <4>1. i # 0 => schedules'[s].update = copy.update /\ schedules'[s].at = clock + i
        BY <2>4
      <4>2. copy.config.interval # 0 => i = copy.config.interval
        BY <2>2
      <4>3. s \in DOMAIN schedules' => i # 0
        BY <2>4
      <4>4. sources'[s] = copy /\ clock' = clock
        BY <1>1, <2>1
      <4>5. SourceParts!Planned(copy.config, copy.enabled) = copy.config.interval
        BY <1>2, <1>6 DEF SourceParts!Planned
      <4>6. copy.config.interval # 0 =>
              s \in DOMAIN schedules' /\ schedules'[s].at <= clock + copy.config.interval
        BY <2>4, <4>1, <4>2 DEF TableTypes
      <4>7. s \in DOMAIN schedules' =>
              copy.enabled /\ schedules'[s].update = copy.update
              /\ (copy.config.interval = 0 => copy.current = SourceParts!NoVersion)
        BY <1>6, <4>1, <4>3
      <4> QED
        BY <1>2, <3>1, <4>4, <4>5, <4>6, <4>7 DEF Fits
    <3>2. CASE t # s
      <4>1. /\ t \in DOMAIN schedules' <=> t \in DOMAIN schedules
            /\ t \in DOMAIN schedules => schedules'[t] = schedules[t]
        BY <2>4, <3>2
      <4>2. Fits(t) /\ sources'[t] = sources[t] /\ clock' = clock
        BY <1>1, <2>6
      <4> QED
        BY <4>1, <4>2, OtherFits
    <3> QED
      BY <3>1, <3>2
  <2>7. \A k \in SourceParts!Jobs : JobInv(k)'
    BY <1>1, <1>3, <1>4 DEF JobInv, CopyInv
  <2>8. SlotInv' /\ WorkTypes' /\ ChannelTypes' /\ DueInv'
    BY <1>1, <1>3, SlotKeeps DEF WorkTypes, ChannelTypes, DueInv
  <2> QED
    BY <1>1, <2>5, <2>6, <2>7, <2>8 DEF SourcesKept, RefreshMatches
<1> QED
  BY <1>2, <1>5, <1>6 DEF SourceParts!Reschedule

LEMMA DueKeeps ==
  ASSUME SourcesAssumption, SourcesInv
  PROVE  /\ SourceParts!ReadDue => SourcesKept
         /\ \A s \in Sources, update \in 1 .. MaxUpdates : SourceParts!RefreshDue(s, update) => SourcesKept
<1> USE DEF SourcesInv
<1>1. ASSUME SourceParts!ReadDue PROVE SourcesKept
  <2>1. UNCHANGED <<clock, drawn, SourceParts!sourceVars, channels, jobs>> /\ due' = SourceParts!Due
    BY <1>1 DEF SourceParts!ReadDue
  <2>2. \A s \in Sources, u \in 1 .. MaxUpdates : <<s, u>> \in SourceParts!Due =>
          s \in DOMAIN sources /\ sources[s].config.kind = "remote" /\ sources[s].update = u
    BY DEF SourceParts!Due, TableTypes
  <2>3. SourceParts!Due \subseteq Sources \X (1 .. MaxUpdates)
    BY DEF SourceParts!Due, TableTypes, SourceParts!Schedule
  <2>4. DueInv'
    BY <2>1, <2>2 DEF DueInv, TableTypes, SourceParts!sourceVars
  <2>5. TableTypes' /\ ChannelTypes' /\ WorkTypes' /\ SlotInv'
    BY <2>1, <2>3 DEF TableTypes, ChannelTypes, WorkTypes, SlotInv, Busy, SourceParts!sourceVars
  <2>6. (\A s \in DOMAIN sources' : Fits(s)') /\ \A j \in SourceParts!Jobs : JobInv(j)'
    BY <2>1 DEF Fits, JobInv, CopyInv, SourceParts!sourceVars
  <2> QED
    BY <2>1, <2>4, <2>5, <2>6 DEF SourcesKept, RefreshMatches
<1>2. ASSUME NEW s \in Sources, NEW update \in 1 .. MaxUpdates,
             SourceParts!RefreshDue(s, update) PROVE SourcesKept
  <2>1. /\ UNCHANGED <<clock, drawn, SourceParts!sourceVars, channels>> /\ due' \subseteq due
        /\ <<s, update>> \in due
        /\ jobs[Ticker] = SourceParts!Idle /\ Ticker \in SourceParts!Jobs
    BY <1>2 DEF SourceParts!RefreshDue, SourceParts!Jobs
  <2>2. CASE s \in DOMAIN sources /\ sources[s].enabled /\ sources[s].update = update
    <3>1. SourceParts!Begin(Ticker, s) /\ sources[s].config.kind = "remote"
      BY <1>2, <2>1, <2>2 DEF SourceParts!RefreshDue, DueInv
    <3> QED
      BY <2>1, <2>2, <3>1, BeginKeeps
  <2>3. CASE ~(s \in DOMAIN sources /\ sources[s].enabled /\ sources[s].update = update)
    <3>1. jobs' = jobs
      BY <1>2, <2>3 DEF SourceParts!RefreshDue
    <3>2. jobs' = [jobs EXCEPT ![Ticker] = SourceParts!Idle] /\ jobs'[Ticker] = SourceParts!Idle
      BY <2>1, <3>1 DEF WorkTypes
    <3>3. JobInv(Ticker)'
      BY <3>2 DEF JobInv
    <3> QED
      BY <2>1, <3>2, <3>3, JobStepKeeps
  <2> QED
    BY <2>2, <2>3
<1> QED
  BY <1>1, <1>2

-----------------------------------------------------------------------------
(* Requests *)

\* A new source is known to no job.
LEMMA CreateKeeps ==
  ASSUME SourcesAssumption, SourcesInv, NEW s \in Sources, NEW config \in Requested,
         NEW enabled \in BOOLEAN,
         SourceParts!CreateSource(s, config, enabled)
  PROVE  SourcesKept
<1> USE DEF SourcesInv
<1>1. PICK row : row = [config |-> config, enabled |-> enabled, current |-> SourceParts!NoVersion, update |-> 1]
  OBVIOUS
<1>2. PICK plan : plan = [update |-> 1, at |-> clock]
  OBVIOUS
<1>3. /\ row \in SourceParts!Source /\ row.config = config /\ row.enabled = enabled
      /\ row.current = SourceParts!NoVersion
      /\ row.update = 1 /\ config \in SourceParts!Config /\ plan \in SourceParts!Schedule
      /\ plan.update = 1 /\ plan.at = clock
  BY <1>1, <1>2 DEF SourceParts!Source, SourceParts!Schedule, SourcesAssumption, TableTypes
<1>4. /\ SourceParts!InsertSource(s, row, config.kind = "remote" /\ enabled)
      /\ UNCHANGED <<clock, channels, due, jobs>>
  BY <1>1 DEF SourceParts!CreateSource
<1>5. s \notin drawn /\ drawn' = drawn \cup {s} /\ sources' = SourceParts!With(sources, s, row)
      /\ versions' = SourceParts!With(versions, s, {})
  BY <1>4 DEF SourceParts!InsertSource
<1>6. /\ config.kind = "remote" /\ enabled => schedules' = SourceParts!With(schedules, s, plan)
      /\ ~(config.kind = "remote" /\ enabled) => schedules' = schedules
  BY <1>2, <1>3, <1>4 DEF SourceParts!InsertSource
<1>7. s \notin DOMAIN sources /\ s \notin DOMAIN schedules
  BY <1>5 DEF TableTypes
<1>8. /\ DOMAIN sources' = DOMAIN sources \cup {s} /\ sources'[s] = row
      /\ \A t \in DOMAIN sources \ {s} : sources'[t] = sources[t]
  BY <1>5 DEF SourceParts!With
<1>9. /\ DOMAIN versions' = DOMAIN sources \cup {s} /\ versions'[s] = {}
      /\ \A t \in DOMAIN sources \ {s} : versions'[t] = versions[t]
  BY <1>5 DEF SourceParts!With, TableTypes
<1>10. /\ DOMAIN schedules' \subseteq DOMAIN schedules \cup {s}
       /\ \A t \in DOMAIN schedules : t \in DOMAIN schedules' /\ schedules'[t] = schedules[t]
       /\ s \in DOMAIN schedules' => config.kind = "remote" /\ enabled /\ schedules'[s] = plan
       /\ config.kind = "remote" /\ enabled => s \in DOMAIN schedules'
  <2>1. CASE config.kind = "remote" /\ enabled
    <3>1. /\ DOMAIN schedules' = DOMAIN schedules \cup {s} /\ schedules'[s] = plan
          /\ \A t \in DOMAIN schedules \ {s} : schedules'[t] = schedules[t]
      BY <1>6, <2>1 DEF SourceParts!With
    <3> QED
      BY <1>7, <2>1, <3>1
  <2>2. CASE ~(config.kind = "remote" /\ enabled)
    BY <1>6, <1>7, <2>2
  <2> QED
    BY <2>1, <2>2
<1>11. TableTypes'
  BY <1>3, <1>4, <1>5, <1>7, <1>8, <1>9, <1>10 DEF TableTypes
<1>12. ChannelTypes' /\ WorkTypes' /\ SlotInv'
  BY <1>4, <1>5 DEF ChannelTypes, WorkTypes, SlotInv, Busy
<1>13. DueInv'
  BY <1>4, <1>5, <1>7, <1>8 DEF DueInv
<1>14. ASSUME NEW t \in DOMAIN sources' PROVE Fits(t)'
  <2>1. CASE t = s
    <3>1. SourceParts!Planned(config, enabled) # 0 => config.kind = "remote" /\ enabled
      BY DEF SourceParts!Planned
    <3>2. clock' \in Nat /\ config.interval \in Nat
      BY <1>3, <1>4, PlannedType DEF TableTypes
    <3>3. clock' <= clock' + config.interval
      BY <3>2
    <3> QED
      BY <1>3, <1>4, <1>8, <1>10, <2>1, <3>1, <3>3 DEF Fits
  <2>2. CASE t # s
    <3>1. Fits(t) /\ sources'[t] = sources[t] /\ clock' = clock
      BY <1>4, <1>8, <2>2
    <3>2. /\ t \in DOMAIN schedules' <=> t \in DOMAIN schedules
          /\ t \in DOMAIN schedules => schedules'[t] = schedules[t]
      BY <1>10, <2>2
    <3> QED
      BY <3>1, <3>2, OtherFits
  <2> QED
    BY <2>1, <2>2
<1>15. ASSUME NEW j \in SourceParts!Jobs PROVE JobInv(j)'
  BY <1>4, <1>5, <1>8 DEF JobInv, CopyInv
<1> QED
  BY <1>4, <1>11, <1>12, <1>13, <1>14, <1>15 DEF SourcesKept, RefreshMatches

\* What is left of an interleaving when no job moves.
LEMMA StillJobs ==
  ASSUME SourcesInv, UNCHANGED jobs, TableTypes', ChannelTypes', DueInv', due' \subseteq due,
         \A t \in DOMAIN sources' : Fits(t)', \A j \in SourceParts!Jobs : JobInv(j)'
  PROVE  SourcesKept
BY DEF SourcesKept, SourcesInv, RefreshMatches, WorkTypes, SlotInv, Busy

LEMMA UpdateKeeps ==
  ASSUME SourcesAssumption, SourcesInv, NEW s \in Sources, NEW update \in 1 .. MaxUpdates,
         NEW config \in Requested, NEW enabled \in BOOLEAN, SourceParts!UpdateSource(s, update, config, enabled)
  PROVE  SourcesKept
<1> USE DEF SourcesInv
<1>1. PICK row : row = [config |-> config, enabled |-> enabled, current |-> sources[s].current,
                        update |-> update + 1]
  OBVIOUS
<1>2. /\ s \in DOMAIN sources
      /\ SourceParts!StoreSource(s, row, SourceParts!Planned(config, enabled))
      /\ UNCHANGED <<clock, drawn, versions, channels, due, jobs>>
  BY <1>1 DEF SourceParts!UpdateSource
<1>3. row.config = config /\ row.enabled = enabled /\ row.current = sources[s].current
      /\ row.update = update + 1
  BY <1>1
<1>4. sources[s].update = update /\ update < MaxUpdates
  BY <1>2, <1>3 DEF SourceParts!StoreSource, SourceParts!CurrentSource
<1>5. row \in SourceParts!Source
  BY <1>1, <1>2, <1>4 DEF SourceParts!Source, SourcesAssumption, TableTypes
<1>6. /\ DOMAIN sources' = DOMAIN sources /\ sources'[s] = row
      /\ \A t \in DOMAIN sources \ {s} : sources'[t] = sources[t]
  BY <1>2 DEF SourceParts!With, SourceParts!StoreSource
<1>7. SourceParts!Scheduled(s, row.update, SourceParts!Planned(row.config, row.enabled))
  BY <1>2, <1>3 DEF SourceParts!StoreSource
<1>8. /\ DOMAIN versions' = DOMAIN versions
      /\ \A t \in DOMAIN versions \ {s} : versions'[t] = versions[t]
      /\ versions'[s] \subseteq SourceParts!Body
      /\ row.current \in versions'[s] \cup {SourceParts!NoVersion}
  BY <1>2, <1>3 DEF TableTypes
<1>9. /\ TableTypes' /\ ChannelTypes' /\ DueInv' /\ \A t \in DOMAIN sources' : Fits(t)'
      /\ \A j \in SourceParts!Jobs : jobs'[j] = jobs[j] => JobInv(j)'
  BY <1>2, <1>3, <1>4, <1>5, <1>6, <1>7, <1>8, StoredKeeps
<1> QED
  BY <1>2, <1>9, StillJobs

LEMMA RestoreKeeps ==
  ASSUME SourcesAssumption, SourcesInv, NEW s \in Sources, NEW update \in 1 .. MaxUpdates,
         NEW body \in SourceParts!Body,
         SourceParts!RestoreVersion(s, update, body)
  PROVE  SourcesKept
<1> USE DEF SourcesInv
<1>1. /\ s \in DOMAIN sources /\ sources[s].update = update /\ update < MaxUpdates
      /\ body \in versions[s]
      /\ sources' = [sources EXCEPT ![s].current = body, ![s].update = update + 1]
      /\ SourceParts!Scheduled(s, update + 1, SourceParts!Planned(sources[s].config, sources[s].enabled))
      /\ UNCHANGED <<clock, drawn, versions, channels, due, jobs>>
  BY DEF SourceParts!RestoreVersion, SourceParts!CurrentSource
<1>2. PICK config \in SourceParts!Config, enabled \in BOOLEAN,
           old \in SourceParts!Body \cup {SourceParts!NoVersion}, u \in 1 .. MaxUpdates :
        sources[s] = [config |-> config, enabled |-> enabled, current |-> old, update |-> u]
  BY <1>1 DEF TableTypes, SourceParts!Source
<1>3. PICK row : row = [config |-> config, enabled |-> enabled, current |-> body, update |-> update + 1]
  OBVIOUS
<1>4. /\ row \in SourceParts!Source /\ row.config = sources[s].config
      /\ row.enabled = sources[s].enabled
      /\ row.current = body /\ row.update = sources[s].update + 1
  BY <1>1, <1>2, <1>3 DEF SourceParts!Source, SourcesAssumption
<1>5. sources' = [sources EXCEPT ![s] = [sources[s] EXCEPT !.current = body, !.update = update + 1]]
  BY <1>1
<1>6. [sources[s] EXCEPT !.current = body]
        = [config |-> config, enabled |-> enabled, current |-> body, update |-> u]
  BY <1>2
<1>7. [sources[s] EXCEPT !.current = body, !.update = update + 1]
        = [[config |-> config, enabled |-> enabled, current |-> body, update |-> u]
             EXCEPT !.update = update + 1]
  BY <1>6
<1>8. sources' = [sources EXCEPT ![s] = row]
  <2>1. [[config |-> config, enabled |-> enabled, current |-> body, update |-> u]
           EXCEPT !.update = update + 1] = row
    BY <1>3
  <2> QED
    BY <1>5, <1>7, <2>1, Zenon
<1>9. /\ DOMAIN sources' = DOMAIN sources /\ sources'[s] = row
      /\ \A t \in DOMAIN sources \ {s} : sources'[t] = sources[t]
  BY <1>1, <1>8
<1>10. SourceParts!Scheduled(s, row.update, SourceParts!Planned(row.config, row.enabled))
  BY <1>1, <1>4
<1>11. /\ DOMAIN versions' = DOMAIN versions
       /\ \A t \in DOMAIN versions \ {s} : versions'[t] = versions[t]
       /\ versions'[s] \subseteq SourceParts!Body
       /\ row.current \in versions'[s] \cup {SourceParts!NoVersion}
  BY <1>1, <1>4 DEF TableTypes
<1>12. /\ TableTypes' /\ ChannelTypes' /\ DueInv' /\ \A t \in DOMAIN sources' : Fits(t)'
       /\ \A j \in SourceParts!Jobs : jobs'[j] = jobs[j] => JobInv(j)'
  BY <1>1, <1>4, <1>9, <1>10, <1>11, StoredKeeps
<1> QED
  BY <1>1, <1>12, StillJobs

LEMMA DeleteKeeps ==
  ASSUME SourcesAssumption, SourcesInv, NEW s \in Sources, NEW update \in 1 .. MaxUpdates,
         SourceParts!DeleteSource(s, update)
  PROVE  SourcesKept
<1> USE DEF SourcesInv
<1>1. /\ sources' = SourceParts!Without(sources, s) /\ versions' = SourceParts!Without(versions, s)
      /\ schedules' = SourceParts!Without(schedules, s)
      /\ UNCHANGED <<clock, drawn, channels, due, jobs>>
  BY DEF SourceParts!DeleteSource, SourceParts!RemoveSource
<1>2. /\ DOMAIN sources' = DOMAIN sources \ {s}
      /\ \A t \in DOMAIN sources \ {s} : sources'[t] = sources[t]
  BY <1>1, WithoutEffect
<1>3. /\ DOMAIN versions' = DOMAIN versions \ {s}
      /\ \A t \in DOMAIN versions \ {s} : versions'[t] = versions[t]
  BY <1>1, WithoutEffect
<1>4. /\ DOMAIN schedules' = DOMAIN schedules \ {s}
      /\ \A t \in DOMAIN schedules \ {s} : schedules'[t] = schedules[t]
  BY <1>1, WithoutEffect
<1>5. TableTypes'
  BY <1>1, <1>2, <1>3, <1>4 DEF TableTypes
<1>6. ChannelTypes' /\ DueInv'
  BY <1>1, <1>2 DEF ChannelTypes, DueInv
<1>7. ASSUME NEW t \in DOMAIN sources' PROVE Fits(t)'
  <2>1. Fits(t) /\ sources'[t] = sources[t] /\ clock' = clock
    BY <1>1, <1>2
  <2>2. /\ t \in DOMAIN schedules' <=> t \in DOMAIN schedules
        /\ t \in DOMAIN schedules => schedules'[t] = schedules[t]
    BY <1>2, <1>4
  <2> QED
    BY <2>1, <2>2, OtherFits
<1>8. \A j \in SourceParts!Jobs : JobInv(j)'
  BY <1>1, <1>2 DEF JobInv, CopyInv
<1> QED
  BY <1>1, <1>5, <1>6, <1>7, <1>8, StillJobs

\* A request for a channel leaves the sources alone.
LEMMA ChannelKeeps ==
  ASSUME SourcesAssumption, SourcesInv, NEW c \in Channels, SourceParts!ChannelRequests(c)
  PROVE  SourcesKept
<1> USE DEF SourcesInv
<1>1. /\ UNCHANGED <<clock, SourceParts!sourceVars, due, jobs>> /\ drawn \subseteq drawn'
      /\ drawn' \subseteq drawn \cup {c} /\ ChannelTypes'
  <2>1. CASE SourceParts!PostChannel(c)
    <3>1. PICK size \in ChannelSizes, enabled \in BOOLEAN : SourceParts!CreateChannel(c, size, enabled)
      BY <2>1 DEF SourceParts!PostChannel
    <3>2. PICK row : row = [size |-> size, enabled |-> enabled, update |-> 1]
      OBVIOUS
    <3>3. /\ row \in SourceParts!Channel /\ drawn' = drawn \cup {c}
          /\ channels' = SourceParts!With(channels, c, row)
          /\ UNCHANGED <<clock, SourceParts!sourceVars, due, jobs>>
      BY <3>1, <3>2 DEF SourceParts!CreateChannel, SourceParts!InsertChannel,
         SourceParts!StoreChannel, SourceParts!Channel, SourcesAssumption
    <3>4. /\ DOMAIN channels' = DOMAIN channels \cup {c} /\ channels'[c] = row
          /\ \A x \in DOMAIN channels \ {c} : channels'[x] = channels[x]
      BY <3>3 DEF SourceParts!With
    <3> QED
      BY <3>3, <3>4 DEF ChannelTypes
  <2>2. CASE SourceParts!PutChannel(c)
    <3>1. PICK update \in 1 .. MaxChannelUpdates, size \in ChannelSizes, enabled \in BOOLEAN :
            SourceParts!UpdateChannel(c, update, size, enabled)
      BY <2>2 DEF SourceParts!PutChannel
    <3>2. PICK row : row = [size |-> size, enabled |-> enabled, update |-> update + 1]
      OBVIOUS
    <3>3. /\ row \in SourceParts!Channel /\ drawn' = drawn
          /\ channels' = SourceParts!With(channels, c, row) /\ c \in DOMAIN channels
          /\ UNCHANGED <<clock, SourceParts!sourceVars, due, jobs>>
      BY <3>1, <3>2 DEF SourceParts!UpdateChannel, SourceParts!CurrentChannel,
         SourceParts!StoreChannel, SourceParts!Channel, SourcesAssumption
    <3>4. /\ DOMAIN channels' = DOMAIN channels \cup {c} /\ channels'[c] = row
          /\ \A x \in DOMAIN channels \ {c} : channels'[x] = channels[x]
      BY <3>3 DEF SourceParts!With
    <3> QED
      BY <3>3, <3>4 DEF ChannelTypes
  <2>3. CASE SourceParts!RemoveChannel(c)
    <3>1. /\ channels' = SourceParts!Without(channels, c)
          /\ UNCHANGED <<clock, drawn, SourceParts!sourceVars, due, jobs>>
      BY <2>3 DEF SourceParts!RemoveChannel, SourceParts!DeleteChannel
    <3>2. /\ DOMAIN channels' = DOMAIN channels \ {c}
          /\ \A x \in DOMAIN channels \ {c} : channels'[x] = channels[x]
      BY <3>1, WithoutEffect
    <3> QED
      BY <3>1, <3>2 DEF ChannelTypes
  <2> QED
    BY <2>1, <2>2, <2>3 DEF SourceParts!ChannelRequests
<1>2. TableTypes' /\ DueInv'
  BY <1>1 DEF TableTypes, DueInv, SourceParts!sourceVars
<1>3. (\A t \in DOMAIN sources' : Fits(t)') /\ \A j \in SourceParts!Jobs : JobInv(j)'
  BY <1>1 DEF Fits, JobInv, CopyInv, SourceParts!sourceVars
<1> QED
  BY <1>1, <1>2, <1>3, StillJobs

-----------------------------------------------------------------------------
(* Restart and the clock *)

LEMMA RestartKeeps ==
  ASSUME SourcesAssumption, SourcesInv, SourceParts!Restart
  PROVE  SourcesKept
<1> USE DEF SourcesInv
<1>1. /\ jobs' = [j \in SourceParts!Jobs |-> SourceParts!Idle] /\ due' = {}
      /\ UNCHANGED <<clock, drawn, sources, versions, schedules, channels>>
  BY DEF SourceParts!Restart, SourceParts!sourceVars
<1>2. Busy' = {}
  BY <1>1 DEF Busy, SourceParts!Jobs
<1>3. SlotInv'
  BY <1>2, FS_EmptySet DEF SlotInv, SourcesAssumption
<1>4. TableTypes' /\ ChannelTypes' /\ WorkTypes' /\ DueInv'
  BY <1>1 DEF TableTypes, ChannelTypes, WorkTypes, DueInv
<1>5. (\A s \in DOMAIN sources' : Fits(s)') /\ \A j \in SourceParts!Jobs : JobInv(j)'
  BY <1>1 DEF Fits, JobInv
<1> QED
  BY <1>1, <1>3, <1>4, <1>5 DEF SourcesKept, RefreshMatches

\* A plan that is due is not late for a later clock.
LEMMA ClockKeeps ==
  ASSUME SourcesAssumption, SourcesInv, SourceParts!ClockTick
  PROVE  SourcesKept
<1> USE DEF SourcesInv
<1>1. clock' = clock + 1 /\ clock < MaxClock
      /\ UNCHANGED <<drawn, sources, versions, schedules, channels, due, jobs>>
  BY DEF SourceParts!ClockTick, SourceParts!sourceVars
<1>2. TableTypes' /\ ChannelTypes' /\ DueInv'
  BY <1>1 DEF TableTypes, ChannelTypes, DueInv, SourcesAssumption
<1>3. ASSUME NEW s \in DOMAIN sources' PROVE Fits(s)'
  <2>1. /\ Fits(s) /\ sources'[s] = sources[s] /\ schedules' = schedules
        /\ sources[s] \in SourceParts!Source
    BY <1>1 DEF TableTypes
  <2>2. sources[s].config.interval \in Nat
    BY <2>1, PlannedType DEF SourceParts!Source
  <2>3. ASSUME s \in DOMAIN schedules, schedules[s].at <= clock + sources[s].config.interval
        PROVE  schedules'[s].at <= clock' + sources'[s].config.interval
    <3>1. schedules[s].at \in Nat /\ clock \in Nat
      BY <2>3 DEF TableTypes, SourceParts!Schedule
    <3> QED
      BY <1>1, <2>1, <2>2, <2>3, <3>1
  <2> QED
    BY <2>1, <2>3 DEF Fits
<1>4. \A j \in SourceParts!Jobs : JobInv(j)'
  BY <1>1 DEF JobInv, CopyInv
<1> QED
  BY <1>1, <1>2, <1>3, <1>4, StillJobs

-----------------------------------------------------------------------------
(* The invariant *)

LEMMA StutterKeeps ==
  ASSUME SourcesInv, UNCHANGED SourceParts!vars
  PROVE  SourcesKept
<1>1. UNCHANGED <<clock, drawn, sources, versions, schedules, channels, due, jobs>>
  BY DEF SourceParts!vars, SourceParts!sourceVars
<1>2. SourcesInv'
  BY <1>1 DEF SourcesInv, TableTypes, ChannelTypes, WorkTypes, SlotInv, Busy, DueInv, Fits,
     JobInv, CopyInv
<1> QED
  BY <1>1, <1>2 DEF SourcesKept, RefreshMatches

LEMMA InitHolds ==
  ASSUME SourcesAssumption, SourceParts!Init
  PROVE  SourcesInv
<1>1. /\ clock = 0 /\ drawn = {} /\ due = {} /\ jobs = [j \in SourceParts!Jobs |-> SourceParts!Idle]
      /\ DOMAIN sources = {} /\ DOMAIN versions = {} /\ DOMAIN schedules = {} /\ DOMAIN channels = {}
  BY DEF SourceParts!Init, SourceParts!Empty
<1>2. Busy = {}
  BY <1>1 DEF Busy, SourceParts!Jobs
<1>3. SlotInv
  BY <1>2, FS_EmptySet DEF SlotInv, SourcesAssumption
<1>4. TableTypes /\ ChannelTypes /\ WorkTypes /\ DueInv
  BY <1>1 DEF TableTypes, ChannelTypes, WorkTypes, DueInv, SourcesAssumption
<1> QED
  BY <1>1, <1>3, <1>4 DEF SourcesInv, JobInv

LEMMA SourceStep ==
  ASSUME SourcesAssumption, SourcesInv, [SourceParts!Next]_(SourceParts!vars)
  PROVE  SourcesKept
<1>1. CASE \E s \in Sources : \/ SourceParts!SourceRequests(s)
                               \/ \E update \in 1 .. MaxUpdates : SourceParts!RefreshDue(s, update)
  <2>1. PICK s \in Sources : \/ SourceParts!SourceRequests(s)
                             \/ \E update \in 1 .. MaxUpdates : SourceParts!RefreshDue(s, update)
    BY <1>1
  <2>2. CASE \E update \in 1 .. MaxUpdates : SourceParts!RefreshDue(s, update)
    BY <2>2, DueKeeps
  <2>3. CASE SourceParts!Post(s)
    BY <2>3, CreateKeeps DEF SourceParts!Post
  <2>4. CASE SourceParts!Put(s)
    BY <2>4, UpdateKeeps DEF SourceParts!Put
  <2>5. CASE SourceParts!Delete(s)
    BY <2>5, DeleteKeeps DEF SourceParts!Delete
  <2>6. CASE SourceParts!PostRefresh(s)
    BY <2>6, RefreshSourceKeeps DEF SourceParts!PostRefresh
  <2>7. CASE SourceParts!PostVersion(s)
    BY <2>7, UploadKeeps DEF SourceParts!PostVersion
  <2>8. CASE SourceParts!PostRestore(s)
    BY <2>8, RestoreKeeps DEF SourceParts!PostRestore
  <2> QED
    BY <2>1, <2>2, <2>3, <2>4, <2>5, <2>6, <2>7, <2>8 DEF SourceParts!SourceRequests
<1>2. CASE \E c \in Channels : SourceParts!ChannelRequests(c)
  BY <1>2, ChannelKeeps
<1>3. CASE \E j \in SourceParts!Jobs : SourceParts!Refresh(j)
  <2>1. PICK j \in SourceParts!Jobs : SourceParts!Refresh(j)
    BY <1>3
  <2>2. CASE \E d \in SourceDocuments : SourceParts!Fetched(j, d)
    BY <2>2, FetchedKeeps
  <2>3. CASE SourceParts!FetchFails(j) \/ SourceParts!RefreshEnds(j)
    BY <2>3, FetchEnds
  <2>4. CASE SourceParts!Save(j)
    BY <2>4, SaveKeeps
  <2>5. CASE SourceParts!Reschedule(j)
    BY <2>5, RescheduleKeeps
  <2> QED
    BY <2>1, <2>2, <2>3, <2>4, <2>5 DEF SourceParts!Refresh
<1>4. CASE SourceParts!ReadDue
  BY <1>4, DueKeeps
<1>5. CASE SourceParts!Restart
  BY <1>5, RestartKeeps
<1>6. CASE SourceParts!ClockTick
  BY <1>6, ClockKeeps
<1>7. CASE UNCHANGED SourceParts!vars
  BY <1>7, StutterKeeps
<1> QED
  BY <1>1, <1>2, <1>3, <1>4, <1>5, <1>6, <1>7 DEF SourceParts!Next

\* What is true of the tables, of what was read of them and of what a job
\* carries, whatever the requests, the ticker and the restarts do.
THEOREM SourcesInvariant == ASSUME SourcesAssumption PROVE SourceParts!Spec => []SourcesInv
<1>1. SourceParts!Init => SourcesInv
  BY InitHolds
<1>2. SourcesInv /\ [SourceParts!Next]_(SourceParts!vars) => SourcesInv'
  BY SourceStep DEF SourcesKept
<1> QED
  BY <1>1, <1>2, PTL DEF SourceParts!Spec

\* The tables and the jobs have their types and the slots are not exceeded.
THEOREM SourcesHaveTypes == ASSUME SourcesAssumption PROVE SourceParts!Spec => []SourceParts!TypeOK
<1>1. SlotInv => SourceParts!Cardinality(Busy) <= RefreshSlots
  BY SameCardinality DEF SlotInv
<1>2. SourcesInv => SourceParts!TypeOK
  BY <1>1 DEF SourcesInv, SourceParts!TypeOK, TableTypes, ChannelTypes, WorkTypes, Busy,
              SourceParts!Range
<1> QED
  BY <1>2, SourcesInvariant, PTL

\* The schedule is that of the sources as they are.
THEOREM ScheduleMatches ==
  ASSUME SourcesAssumption
  PROVE  SourceParts!Spec => []SourceParts!ScheduleMatchesSources
<1>1. SourcesInv => SourceParts!ScheduleMatchesSources
  BY DEF SourcesInv, SourceParts!ScheduleMatchesSources, Fits
<1> QED
  BY <1>1, SourcesInvariant, PTL

\* A refresh that saves has fetched from the URL that the source still has.
THEOREM SavesMatch == ASSUME SourcesAssumption PROVE SourceParts!Spec => SourceParts!RefreshesMatchTheirSource
<1>1. SourcesInv /\ [SourceParts!Next]_(SourceParts!vars) => RefreshMatches
  BY SourceStep DEF SourcesKept
<1> QED
  BY <1>1, SourcesInvariant, PTL DEF SourceParts!Spec, SourceParts!RefreshesMatchTheirSource,
     RefreshMatches

-----------------------------------------------------------------------------
(* Limits of the enabled rows *)

\* A size is the number of its units, so that a sum of sizes is a cardinality.
Units(sizes) == UNION {{x} \X (1 .. sizes[x]) : x \in DOMAIN sizes}
Countable(sizes) == IsFiniteSet(DOMAIN sizes) /\ IsFiniteSet(Units(sizes))

EnabledSources == [s \in SourceParts!Enabled(sources) |-> SourceParts!Size(sources[s].config)]
EnabledChannels == [c \in SourceParts!Enabled(channels) |-> channels[c].size]
InputsInv == Countable(EnabledSources) /\ Countable(EnabledChannels) /\ SourceParts!InputsAreBounded

LEMMA BytesCount ==
  ASSUME NEW sizes, Countable(sizes)
  PROVE  SourceParts!Bytes(sizes) = Cardinality(Units(sizes)) /\ SourceParts!Bytes(sizes) \in Nat
<1>1. SourceParts!Bytes(sizes) = Cardinality(Units(sizes))
  BY SameCardinality DEF SourceParts!Bytes, Units
<1> QED
  BY <1>1, FS_CardinalityType DEF Countable

LEMMA Lighter ==
  ASSUME NEW sizes, NEW less, Countable(sizes), DOMAIN less \subseteq DOMAIN sizes,
         \A x \in DOMAIN less : less[x] = sizes[x]
  PROVE  /\ Countable(less) /\ SourceParts!Bytes(less) <= SourceParts!Bytes(sizes)
         /\ Cardinality(DOMAIN less) <= Cardinality(DOMAIN sizes)
<1>1. Units(less) \in SUBSET Units(sizes) /\ DOMAIN less \in SUBSET DOMAIN sizes
  BY DEF Units
<1>2. /\ IsFiniteSet(Units(less)) /\ IsFiniteSet(DOMAIN less)
      /\ Cardinality(Units(less)) <= Cardinality(Units(sizes))
      /\ Cardinality(DOMAIN less) <= Cardinality(DOMAIN sizes)
  BY <1>1, FS_Subset DEF Countable
<1>3. Countable(less)
  BY <1>2 DEF Countable
<1> QED
  BY <1>2, <1>3, BytesCount

LEMMA Heavier ==
  ASSUME NEW sizes, NEW more, NEW x, NEW n \in Nat, Countable(sizes), x \notin DOMAIN sizes,
         DOMAIN more = DOMAIN sizes \cup {x}, more[x] = n, \A y \in DOMAIN sizes : more[y] = sizes[y]
  PROVE  /\ Countable(more) /\ SourceParts!Bytes(more) = SourceParts!Bytes(sizes) + n
         /\ Cardinality(DOMAIN more) = Cardinality(DOMAIN sizes) + 1
<1>1. /\ IsFiniteSet({x} \X (1 .. n)) /\ Cardinality({x} \X (1 .. n)) = n
  <2>1. IsFiniteSet(1 .. n) /\ Cardinality(1 .. n) = n
    BY FS_Interval
  <2>2. IsFiniteSet({x}) /\ Cardinality({x}) = 1
    BY FS_Singleton
  <2>3. /\ IsFiniteSet({x} \X (1 .. n))
        /\ Cardinality({x} \X (1 .. n)) = Cardinality({x}) * Cardinality(1 .. n)
    BY <2>1, <2>2, FS_Product
  <2> QED
    BY <2>1, <2>2, <2>3
<1>2. Units(more) = Units(sizes) \cup ({x} \X (1 .. n)) /\ Units(sizes) \cap ({x} \X (1 .. n)) = {}
  BY DEF Units
<1>3. /\ IsFiniteSet(Units(more)) /\ Cardinality(Units(more)) = Cardinality(Units(sizes)) + n
  <2>1. Cardinality({}) = 0 /\ Cardinality(Units(sizes)) \in Nat
    BY FS_EmptySet, FS_CardinalityType DEF Countable
  <2>2. /\ IsFiniteSet(Units(sizes) \cup ({x} \X (1 .. n)))
        /\ Cardinality(Units(sizes) \cup ({x} \X (1 .. n)))
             = Cardinality(Units(sizes)) + Cardinality({x} \X (1 .. n))
                 - Cardinality(Units(sizes) \cap ({x} \X (1 .. n)))
    BY <1>1, FS_Union DEF Countable
  <2>3. Cardinality(Units(more)) = Cardinality(Units(sizes)) + n - 0
    BY <1>1, <1>2, <2>1, <2>2
  <2> QED
    BY <1>2, <2>1, <2>2, <2>3
<1>4. IsFiniteSet(DOMAIN more) /\ Cardinality(DOMAIN more) = Cardinality(DOMAIN sizes) + 1
  BY FS_AddElement DEF Countable
<1>5. Countable(more)
  BY <1>3, <1>4 DEF Countable
<1> QED
  BY <1>3, <1>4, <1>5, BytesCount

LEMMA InputsMean ==
  /\ SourceParts!InputsAreBounded <=>
       /\ Cardinality(DOMAIN EnabledSources) <= MaxEnabledSources
       /\ Cardinality(DOMAIN EnabledChannels) <= MaxEnabledChannels
       /\ SourceParts!Bytes(EnabledSources) + SourceParts!Bytes(EnabledChannels) <= InputBudget
  /\ SourceParts!InputsAreBounded' <=>
       /\ Cardinality(DOMAIN EnabledSources') <= MaxEnabledSources
       /\ Cardinality(DOMAIN EnabledChannels') <= MaxEnabledChannels
       /\ SourceParts!Bytes(EnabledSources') + SourceParts!Bytes(EnabledChannels') <= InputBudget
<1>1. /\ DOMAIN EnabledSources = SourceParts!Enabled(sources)
      /\ DOMAIN EnabledChannels = SourceParts!Enabled(channels)
  BY DEF EnabledSources, EnabledChannels
<1>2. SourceParts!SourceBytes(SourceParts!Enabled(sources)) = SourceParts!Bytes(EnabledSources)
  BY DEF SourceParts!SourceBytes, EnabledSources
<1>3. SourceParts!ChannelBytes(SourceParts!Enabled(channels)) = SourceParts!Bytes(EnabledChannels)
  BY DEF SourceParts!ChannelBytes, EnabledChannels
<1>4. /\ DOMAIN EnabledSources' = SourceParts!Enabled(sources)'
      /\ DOMAIN EnabledChannels' = SourceParts!Enabled(channels)'
  BY DEF EnabledSources, EnabledChannels
<1>5. SourceParts!SourceBytes(SourceParts!Enabled(sources))' = SourceParts!Bytes(EnabledSources')
  BY DEF SourceParts!SourceBytes, EnabledSources
<1>6. SourceParts!ChannelBytes(SourceParts!Enabled(channels))' = SourceParts!Bytes(EnabledChannels')
  BY DEF SourceParts!ChannelBytes, EnabledChannels
<1> QED
  BY SameCardinality, <1>1, <1>2, <1>3, <1>4, <1>5, <1>6 DEF SourceParts!InputsAreBounded

\* Rows that are removed, disabled or left alone take nothing from the limits.
LEMMA LighterInputs ==
  ASSUME SourcesAssumption, InputsInv,
         DOMAIN EnabledSources' \subseteq DOMAIN EnabledSources,
         \A s \in DOMAIN EnabledSources' : EnabledSources'[s] = EnabledSources[s],
         DOMAIN EnabledChannels' \subseteq DOMAIN EnabledChannels,
         \A c \in DOMAIN EnabledChannels' : EnabledChannels'[c] = EnabledChannels[c]
  PROVE  InputsInv'
<1>1. Countable(EnabledSources) /\ Countable(EnabledChannels)
  BY DEF InputsInv
<1>2. /\ Countable(EnabledSources')
      /\ SourceParts!Bytes(EnabledSources') <= SourceParts!Bytes(EnabledSources)
      /\ Cardinality(DOMAIN EnabledSources') <= Cardinality(DOMAIN EnabledSources)
  BY <1>1, Lighter
<1>3. /\ Countable(EnabledChannels')
      /\ SourceParts!Bytes(EnabledChannels') <= SourceParts!Bytes(EnabledChannels)
      /\ Cardinality(DOMAIN EnabledChannels') <= Cardinality(DOMAIN EnabledChannels)
  BY <1>1, Lighter
<1>4. /\ SourceParts!Bytes(EnabledSources) \in Nat /\ SourceParts!Bytes(EnabledChannels) \in Nat
      /\ SourceParts!Bytes(EnabledSources') \in Nat /\ SourceParts!Bytes(EnabledChannels') \in Nat
  BY <1>1, <1>2, <1>3, BytesCount
<1>5. /\ Cardinality(DOMAIN EnabledSources) \in Nat /\ Cardinality(DOMAIN EnabledSources') \in Nat
      /\ Cardinality(DOMAIN EnabledChannels) \in Nat /\ Cardinality(DOMAIN EnabledChannels') \in Nat
  BY <1>1, <1>2, <1>3, FS_CardinalityType DEF Countable
<1>6. /\ Cardinality(DOMAIN EnabledSources) <= MaxEnabledSources
      /\ Cardinality(DOMAIN EnabledChannels) <= MaxEnabledChannels
      /\ SourceParts!Bytes(EnabledSources) + SourceParts!Bytes(EnabledChannels) <= InputBudget
  BY InputsMean DEF InputsInv
<1>7. SourceParts!InputsAreBounded'
  <2>1. /\ Cardinality(DOMAIN EnabledSources') <= MaxEnabledSources
        /\ Cardinality(DOMAIN EnabledChannels') <= MaxEnabledChannels
    BY <1>2, <1>3, <1>5, <1>6 DEF SourcesAssumption
  <2>2. SourceParts!Bytes(EnabledSources') + SourceParts!Bytes(EnabledChannels') <= InputBudget
    BY <1>2, <1>3, <1>4, <1>6 DEF SourcesAssumption
  <2> QED
    BY <2>1, <2>2, InputsMean
<1>8. Countable(EnabledSources)' /\ Countable(EnabledChannels)'
  BY <1>2, <1>3 DEF Countable, Units
<1> QED
  BY <1>7, <1>8 DEF InputsInv

LEMMA SourceStored ==
  ASSUME SourcesAssumption, SourcesInv, InputsInv, NEW s, NEW row \in SourceParts!Source,
         SourceParts!SourceFits(s, row),
         DOMAIN sources' = DOMAIN sources \cup {s}, sources'[s] = row,
         \A t \in DOMAIN sources \ {s} : sources'[t] = sources[t], UNCHANGED channels
  PROVE  InputsInv'
<1>1. /\ DOMAIN EnabledSources = SourceParts!Enabled(sources)
      /\ DOMAIN EnabledSources' = SourceParts!Enabled(sources')
      /\ \A t \in SourceParts!Enabled(sources) : EnabledSources[t] = SourceParts!Size(sources[t].config)
      /\ \A t \in SourceParts!Enabled(sources') : EnabledSources'[t] = SourceParts!Size(sources'[t].config)
  BY DEF EnabledSources
<1>2. EnabledChannels' = EnabledChannels
  BY DEF EnabledChannels, SourceParts!Enabled
<1>3. CASE ~row.enabled
  <2>1. SourceParts!Enabled(sources') = SourceParts!Enabled(sources) \ {s}
    BY <1>3 DEF SourceParts!Enabled
  <2>2. \A t \in SourceParts!Enabled(sources') : sources'[t] = sources[t]
    BY <2>1 DEF SourceParts!Enabled
  <2> QED
    BY <1>1, <1>2, <2>1, <2>2, LighterInputs
<1>4. CASE row.enabled
  <2>1. PICK rest : rest = [t \in SourceParts!Enabled(sources) \ {s} |-> SourceParts!Size(sources[t].config)]
    OBVIOUS
  <2>2. Countable(EnabledSources) /\ Countable(EnabledChannels)
    BY DEF InputsInv
  <2>3. /\ Countable(rest) /\ DOMAIN rest = SourceParts!Enabled(sources) \ {s}
    BY <1>1, <2>1, <2>2, Lighter
  <2>4. PICK n \in Nat : n = SourceParts!Size(row.config)
    BY DEF SourceParts!Size
  <2>5. SourceParts!Enabled(sources') = SourceParts!Enabled(sources) \cup {s}
    BY <1>4 DEF SourceParts!Enabled
  <2>6. /\ DOMAIN EnabledSources' = DOMAIN rest \cup {s} /\ EnabledSources'[s] = n
        /\ \A t \in DOMAIN rest : EnabledSources'[t] = rest[t]
    BY <1>1, <2>1, <2>4, <2>5 DEF SourceParts!Enabled
  <2>7. /\ Countable(EnabledSources')
        /\ SourceParts!Bytes(EnabledSources') = SourceParts!Bytes(rest) + n
        /\ Cardinality(DOMAIN EnabledSources') = Cardinality(DOMAIN rest) + 1
    <3>1. PICK after : after = EnabledSources'
      OBVIOUS
    <3>2. /\ DOMAIN after = DOMAIN rest \cup {s} /\ after[s] = n /\ s \notin DOMAIN rest
          /\ \A x \in DOMAIN rest : after[x] = rest[x]
      BY <2>3, <2>6, <3>1
    <3>3. /\ Countable(after) /\ SourceParts!Bytes(after) = SourceParts!Bytes(rest) + n
          /\ Cardinality(DOMAIN after) = Cardinality(DOMAIN rest) + 1
      BY <2>3, <3>2, Heavier
    <3> QED
      BY <3>1, <3>3
  <2>8. Cardinality(DOMAIN rest) < MaxEnabledSources
    BY <1>4, <2>3, SameCardinality DEF SourceParts!SourceFits
  <2>9. SourceParts!Bytes(rest) + SourceParts!Bytes(EnabledChannels) <= InputBudget - n
    BY <1>4, <2>1, <2>4 DEF SourceParts!SourceFits, SourceParts!WithinBudget,
       SourceParts!SourceBytes, SourceParts!ChannelBytes, EnabledChannels
  <2>10. /\ SourceParts!Bytes(rest) \in Nat /\ SourceParts!Bytes(EnabledChannels) \in Nat
         /\ Cardinality(DOMAIN rest) \in Nat
    BY <2>2, <2>3, BytesCount, FS_CardinalityType DEF Countable
  <2>11. Cardinality(DOMAIN EnabledChannels') <= MaxEnabledChannels
    BY <1>2, InputsMean DEF InputsInv
  <2>12. SourceParts!InputsAreBounded'
    <3>1. Cardinality(DOMAIN EnabledSources') <= MaxEnabledSources
      BY <2>7, <2>8, <2>10 DEF SourcesAssumption
    <3>2. SourceParts!Bytes(EnabledSources') + SourceParts!Bytes(EnabledChannels') <= InputBudget
      BY <1>2, <2>7, <2>9, <2>10 DEF SourcesAssumption
    <3> QED
      BY <2>11, <3>1, <3>2, InputsMean
  <2>13. Countable(EnabledSources)' /\ Countable(EnabledChannels)'
    BY <1>2, <2>2, <2>7 DEF Countable, Units
  <2> QED
    BY <2>12, <2>13 DEF InputsInv
<1> QED
  BY <1>3, <1>4

LEMMA ChannelStored ==
  ASSUME SourcesAssumption, SourcesInv, InputsInv, NEW c, NEW row \in SourceParts!Channel,
         SourceParts!ChannelFits(c, row),
         DOMAIN channels' = DOMAIN channels \cup {c}, channels'[c] = row,
         \A d \in DOMAIN channels \ {c} : channels'[d] = channels[d], UNCHANGED sources
  PROVE  InputsInv'
<1>1. /\ DOMAIN EnabledChannels = SourceParts!Enabled(channels)
      /\ DOMAIN EnabledChannels' = SourceParts!Enabled(channels')
      /\ \A d \in SourceParts!Enabled(channels) : EnabledChannels[d] = channels[d].size
      /\ \A d \in SourceParts!Enabled(channels') : EnabledChannels'[d] = channels'[d].size
  BY DEF EnabledChannels
<1>2. EnabledSources' = EnabledSources
  BY DEF EnabledSources, SourceParts!Enabled
<1>3. CASE ~row.enabled
  <2>1. SourceParts!Enabled(channels') = SourceParts!Enabled(channels) \ {c}
    BY <1>3 DEF SourceParts!Enabled
  <2>2. \A d \in SourceParts!Enabled(channels') : channels'[d] = channels[d]
    BY <2>1 DEF SourceParts!Enabled
  <2> QED
    BY <1>1, <1>2, <2>1, <2>2, LighterInputs
<1>4. CASE row.enabled
  <2>1. PICK rest : rest = [d \in SourceParts!Enabled(channels) \ {c} |-> channels[d].size]
    OBVIOUS
  <2>2. Countable(EnabledSources) /\ Countable(EnabledChannels)
    BY DEF InputsInv
  <2>3. /\ Countable(rest) /\ DOMAIN rest = SourceParts!Enabled(channels) \ {c}
    BY <1>1, <2>1, <2>2, Lighter
  <2>4. PICK n \in Nat : n = row.size
    BY DEF SourceParts!Channel, SourcesAssumption
  <2>5. SourceParts!Enabled(channels') = SourceParts!Enabled(channels) \cup {c}
    BY <1>4 DEF SourceParts!Enabled
  <2>6. /\ DOMAIN EnabledChannels' = DOMAIN rest \cup {c} /\ EnabledChannels'[c] = n
        /\ \A d \in DOMAIN rest : EnabledChannels'[d] = rest[d]
    BY <1>1, <2>1, <2>4, <2>5 DEF SourceParts!Enabled
  <2>7. /\ Countable(EnabledChannels')
        /\ SourceParts!Bytes(EnabledChannels') = SourceParts!Bytes(rest) + n
        /\ Cardinality(DOMAIN EnabledChannels') = Cardinality(DOMAIN rest) + 1
    <3>1. PICK after : after = EnabledChannels'
      OBVIOUS
    <3>2. /\ DOMAIN after = DOMAIN rest \cup {c} /\ after[c] = n /\ c \notin DOMAIN rest
          /\ \A x \in DOMAIN rest : after[x] = rest[x]
      BY <2>3, <2>6, <3>1
    <3>3. /\ Countable(after) /\ SourceParts!Bytes(after) = SourceParts!Bytes(rest) + n
          /\ Cardinality(DOMAIN after) = Cardinality(DOMAIN rest) + 1
      BY <2>3, <3>2, Heavier
    <3> QED
      BY <3>1, <3>3
  <2>8. Cardinality(DOMAIN rest) < MaxEnabledChannels
    BY <1>4, <2>3, SameCardinality DEF SourceParts!ChannelFits
  <2>9. SourceParts!Bytes(EnabledSources) + SourceParts!Bytes(rest) <= InputBudget - n
    BY <1>4, <2>1, <2>4 DEF SourceParts!ChannelFits, SourceParts!WithinBudget,
       SourceParts!SourceBytes, SourceParts!ChannelBytes, EnabledSources
  <2>10. /\ SourceParts!Bytes(rest) \in Nat /\ SourceParts!Bytes(EnabledSources) \in Nat
         /\ Cardinality(DOMAIN rest) \in Nat
    BY <2>2, <2>3, BytesCount, FS_CardinalityType DEF Countable
  <2>11. Cardinality(DOMAIN EnabledSources') <= MaxEnabledSources
    BY <1>2, InputsMean DEF InputsInv
  <2>12. SourceParts!InputsAreBounded'
    <3>1. Cardinality(DOMAIN EnabledChannels') <= MaxEnabledChannels
      BY <2>7, <2>8, <2>10 DEF SourcesAssumption
    <3>2. SourceParts!Bytes(EnabledSources') + SourceParts!Bytes(EnabledChannels') <= InputBudget
      BY <1>2, <2>7, <2>9, <2>10 DEF SourcesAssumption
    <3> QED
      BY <2>11, <3>1, <3>2, InputsMean
  <2>13. Countable(EnabledSources)' /\ Countable(EnabledChannels)'
    BY <1>2, <2>2, <2>7 DEF Countable, Units
  <2> QED
    BY <2>12, <2>13 DEF InputsInv
<1> QED
  BY <1>3, <1>4

\* A step that writes one source through SourceFits, one channel through
\* ChannelFits, or changes no row but by removing it or by its version.
WritesSource ==
  \E s \in Sources, row \in SourceParts!Source :
    /\ SourceParts!SourceFits(s, row) /\ sources' = SourceParts!With(sources, s, row)
    /\ UNCHANGED channels
WritesChannel ==
  \E c \in Channels, row \in SourceParts!Channel :
    /\ SourceParts!ChannelFits(c, row) /\ channels' = SourceParts!With(channels, c, row)
    /\ UNCHANGED sources
WritesNoConfig ==
  /\ DOMAIN sources' \subseteq DOMAIN sources /\ DOMAIN channels' \subseteq DOMAIN channels
  /\ \A s \in DOMAIN sources' : /\ sources'[s].enabled = sources[s].enabled
                                /\ sources'[s].config = sources[s].config
  /\ \A c \in DOMAIN channels' : channels'[c] = channels[c]

LEMMA NextWrites ==
  ASSUME SourcesAssumption, SourcesInv, [SourceParts!Next]_(SourceParts!vars)
  PROVE  WritesSource \/ WritesChannel \/ WritesNoConfig
<1> USE DEF SourcesInv
<1>1. CASE UNCHANGED <<sources, channels>>
  BY <1>1 DEF WritesNoConfig
<1>2. ASSUME NEW s \in Sources, SourceParts!Post(s) PROVE WritesSource
  <2>1. PICK config \in Requested, enabled \in BOOLEAN : SourceParts!CreateSource(s, config, enabled)
    BY <1>2 DEF SourceParts!Post
  <2>2. PICK row : row = [config |-> config, enabled |-> enabled, current |-> SourceParts!NoVersion, update |-> 1]
    OBVIOUS
  <2>3. row \in SourceParts!Source
    BY <2>2 DEF SourceParts!Source, SourcesAssumption
  <2>4. /\ SourceParts!SourceFits(s, row) /\ sources' = SourceParts!With(sources, s, row)
        /\ UNCHANGED channels
    BY <2>1, <2>2 DEF SourceParts!CreateSource, SourceParts!InsertSource
  <2> QED
    BY <2>3, <2>4 DEF WritesSource
<1>3. ASSUME NEW s \in Sources, SourceParts!Put(s) PROVE WritesSource
  <2>1. PICK update \in 1 .. MaxUpdates, config \in Requested, enabled \in BOOLEAN :
          SourceParts!UpdateSource(s, update, config, enabled)
    BY <1>3 DEF SourceParts!Put
  <2>2. PICK row : row = [config |-> config, enabled |-> enabled, current |-> sources[s].current,
                          update |-> update + 1]
    OBVIOUS
  <2>3. /\ SourceParts!SourceFits(s, row) /\ sources' = SourceParts!With(sources, s, row)
        /\ UNCHANGED channels
        /\ s \in DOMAIN sources /\ SourceParts!CurrentSource(s, row.update - 1)
    BY <2>1, <2>2 DEF SourceParts!UpdateSource, SourceParts!StoreSource
  <2>4. update < MaxUpdates
    BY <2>2, <2>3 DEF SourceParts!CurrentSource
  <2>5. row \in SourceParts!Source
    BY <2>2, <2>3, <2>4 DEF SourceParts!Source, SourcesAssumption, TableTypes
  <2> QED
    BY <2>3, <2>5 DEF WritesSource
<1>4. ASSUME NEW s \in Sources, SourceParts!Delete(s) PROVE WritesNoConfig
  <2>1. sources' = SourceParts!Without(sources, s) /\ UNCHANGED channels
    BY <1>4 DEF SourceParts!Delete, SourceParts!DeleteSource, SourceParts!RemoveSource
  <2>2. /\ DOMAIN sources' = DOMAIN sources \ {s}
        /\ \A t \in DOMAIN sources \ {s} : sources'[t] = sources[t]
    BY <2>1, WithoutEffect
  <2> QED
    BY <2>1, <2>2 DEF WritesNoConfig
<1>5. ASSUME NEW s \in DOMAIN sources, NEW body, NEW update, UNCHANGED channels,
             sources' = [sources EXCEPT ![s].current = body, ![s].update = update]
      PROVE  WritesNoConfig
  <2>1. PICK config \in SourceParts!Config, enabled \in BOOLEAN, old \in SourceParts!Body \cup {SourceParts!NoVersion}, u \in 1 .. MaxUpdates :
          sources[s] = [config |-> config, enabled |-> enabled, current |-> old, update |-> u]
    BY DEF TableTypes, SourceParts!Source
  <2>2. PICK row : row = [config |-> config, enabled |-> enabled, current |-> body, update |-> update]
    OBVIOUS
  <2>3. [sources[s] EXCEPT !.current = body]
          = [config |-> config, enabled |-> enabled, current |-> body, update |-> u]
    BY <2>1
  <2>4. [sources[s] EXCEPT !.current = body, !.update = update]
          = [[config |-> config, enabled |-> enabled, current |-> body, update |-> u] EXCEPT !.update = update]
    BY <2>3
  <2>5. [[config |-> config, enabled |-> enabled, current |-> body, update |-> u] EXCEPT !.update = update] = row
    BY <2>2
  <2>6. sources' = [sources EXCEPT ![s] = [sources[s] EXCEPT !.current = body, !.update = update]]
    BY <1>5
  <2>7. sources' = [sources EXCEPT ![s] = row]
    BY <2>4, <2>5, <2>6, Zenon
  <2>8. /\ DOMAIN sources' = DOMAIN sources /\ sources'[s] = row
        /\ \A t \in DOMAIN sources \ {s} : sources'[t] = sources[t]
    BY <2>7
  <2>9. row.config = sources[s].config /\ row.enabled = sources[s].enabled
    BY <2>1, <2>2
  <2> QED
    BY <1>5, <2>8, <2>9 DEF WritesNoConfig
<1>6. ASSUME NEW s \in Sources, SourceParts!PostRestore(s) PROVE WritesNoConfig
  <2>1. PICK update \in 1 .. MaxUpdates, body \in SourceParts!Body : SourceParts!RestoreVersion(s, update, body)
    BY <1>6 DEF SourceParts!PostRestore
  <2>2. /\ s \in DOMAIN sources /\ UNCHANGED channels
        /\ sources' = [sources EXCEPT ![s].current = body, ![s].update = update + 1]
    BY <2>1 DEF SourceParts!RestoreVersion, SourceParts!CurrentSource
  <2> QED
    BY <1>5, <2>2
<1>7. ASSUME NEW j \in SourceParts!Jobs, SourceParts!Save(j) PROVE WritesNoConfig
  <2>1. CASE UNCHANGED sources
    BY <1>7, <2>1 DEF SourceParts!Save, WritesNoConfig
  <2>2. CASE sources' # sources
    <3>1. /\ jobs[j].source \in DOMAIN sources /\ UNCHANGED channels
          /\ sources' = [sources EXCEPT ![jobs[j].source].current = jobs[j].body,
                                        ![jobs[j].source].update = jobs[j].copy.update + 1]
      BY <1>7, <2>2 DEF SourceParts!Save, SourceParts!CurrentSource, SourceParts!sourceVars
    <3> QED
      BY <1>5, <3>1
  <2> QED
    BY <2>1, <2>2
<1>8. ASSUME NEW c \in Channels,
             SourceParts!PostChannel(c) \/ SourceParts!PutChannel(c) PROVE WritesChannel
  <2>1. PICK row : /\ row \in SourceParts!Channel /\ SourceParts!StoreChannel(c, row)
    <3>1. CASE SourceParts!PostChannel(c)
      <4>1. PICK size \in ChannelSizes, enabled \in BOOLEAN : SourceParts!CreateChannel(c, size, enabled)
        BY <3>1 DEF SourceParts!PostChannel
      <4>2. [size |-> size, enabled |-> enabled, update |-> 1] \in SourceParts!Channel
        BY DEF SourceParts!Channel, SourcesAssumption
      <4> QED
        BY <4>1, <4>2 DEF SourceParts!CreateChannel, SourceParts!InsertChannel
    <3>2. CASE SourceParts!PutChannel(c)
      <4>1. PICK update \in 1 .. MaxChannelUpdates, size \in ChannelSizes, enabled \in BOOLEAN :
              SourceParts!UpdateChannel(c, update, size, enabled)
        BY <3>2 DEF SourceParts!PutChannel
      <4>2. [size |-> size, enabled |-> enabled, update |-> update + 1] \in SourceParts!Channel
        BY <4>1 DEF SourceParts!Channel, SourcesAssumption, SourceParts!UpdateChannel,
           SourceParts!CurrentChannel
      <4> QED
        BY <4>1, <4>2 DEF SourceParts!UpdateChannel
    <3> QED
      BY <1>8, <3>1, <3>2
  <2>2. /\ SourceParts!ChannelFits(c, row) /\ channels' = SourceParts!With(channels, c, row)
        /\ UNCHANGED sources
    BY <2>1 DEF SourceParts!StoreChannel, SourceParts!sourceVars
  <2> QED
    BY <2>1, <2>2 DEF WritesChannel
<1>9. ASSUME NEW c \in Channels, SourceParts!RemoveChannel(c) PROVE WritesNoConfig
  <2>1. channels' = SourceParts!Without(channels, c) /\ UNCHANGED sources
    BY <1>9 DEF SourceParts!RemoveChannel, SourceParts!DeleteChannel, SourceParts!sourceVars
  <2>2. /\ DOMAIN channels' = DOMAIN channels \ {c}
        /\ \A d \in DOMAIN channels \ {c} : channels'[d] = channels[d]
    BY <2>1, WithoutEffect
  <2> QED
    BY <2>1, <2>2 DEF WritesNoConfig
<1>10. ASSUME NEW s \in Sources, \/ SourceParts!PostRefresh(s) \/ SourceParts!PostVersion(s)
                                 \/ \E update \in 1 .. MaxUpdates : SourceParts!RefreshDue(s, update)
       PROVE  UNCHANGED <<sources, channels>>
  BY <1>10 DEF SourceParts!PostRefresh, SourceParts!PostVersion, SourceParts!RefreshSource,
     SourceParts!UploadVersion, SourceParts!RefreshDue, SourceParts!sourceVars
<1>11. ASSUME NEW j \in SourceParts!Jobs, SourceParts!Refresh(j),
              ~SourceParts!Save(j) PROVE UNCHANGED <<sources, channels>>
  BY <1>11 DEF SourceParts!Refresh, SourceParts!Fetched, SourceParts!FetchFails,
     SourceParts!RefreshEnds, SourceParts!Reschedule, SourceParts!sourceVars
<1>12. ASSUME SourceParts!ReadDue \/ SourceParts!Restart \/ SourceParts!ClockTick \/ UNCHANGED SourceParts!vars PROVE UNCHANGED <<sources, channels>>
  BY <1>12 DEF SourceParts!ReadDue, SourceParts!Restart, SourceParts!ClockTick,
     SourceParts!vars, SourceParts!sourceVars
<1>13. ASSUME NEW s \in Sources, SourceParts!SourceRequests(s) \/ \E update \in 1 .. MaxUpdates : SourceParts!RefreshDue(s, update)
       PROVE  WritesSource \/ WritesNoConfig \/ UNCHANGED <<sources, channels>>
  BY <1>2, <1>3, <1>4, <1>6, <1>10, <1>13 DEF SourceParts!SourceRequests
<1>14. ASSUME NEW c \in Channels, SourceParts!ChannelRequests(c) PROVE WritesChannel \/ WritesNoConfig
  BY <1>8, <1>9, <1>14 DEF SourceParts!ChannelRequests
<1>15. \/ \E s \in Sources : SourceParts!SourceRequests(s) \/ \E update \in 1 .. MaxUpdates : SourceParts!RefreshDue(s, update)
       \/ \E c \in Channels : SourceParts!ChannelRequests(c)
       \/ \E j \in SourceParts!Jobs : SourceParts!Refresh(j)
       \/ SourceParts!ReadDue \/ SourceParts!Restart \/ SourceParts!ClockTick \/ UNCHANGED SourceParts!vars
  BY DEF SourceParts!Next
<1> QED
  BY <1>1, <1>7, <1>11, <1>12, <1>13, <1>14, <1>15

LEMMA InputsKeep ==
  ASSUME SourcesAssumption, SourcesInv, InputsInv, [SourceParts!Next]_(SourceParts!vars)
  PROVE  InputsInv'
<1>1. CASE WritesSource
  <2>1. PICK s \in Sources, row \in SourceParts!Source :
          SourceParts!SourceFits(s, row) /\ sources' = SourceParts!With(sources, s, row) /\ UNCHANGED channels
    BY <1>1 DEF WritesSource
  <2>2. /\ DOMAIN sources' = DOMAIN sources \cup {s} /\ sources'[s] = row
        /\ \A t \in DOMAIN sources \ {s} : sources'[t] = sources[t]
    BY <2>1 DEF SourceParts!With
  <2> QED
    BY <2>1, <2>2, SourceStored
<1>2. CASE WritesChannel
  <2>1. PICK c \in Channels, row \in SourceParts!Channel :
          SourceParts!ChannelFits(c, row) /\ channels' = SourceParts!With(channels, c, row) /\ UNCHANGED sources
    BY <1>2 DEF WritesChannel
  <2>2. /\ DOMAIN channels' = DOMAIN channels \cup {c} /\ channels'[c] = row
        /\ \A d \in DOMAIN channels \ {c} : channels'[d] = channels[d]
    BY <2>1 DEF SourceParts!With
  <2> QED
    BY <2>1, <2>2, ChannelStored
<1>3. CASE WritesNoConfig
  <2>1. /\ SourceParts!Enabled(sources') \subseteq SourceParts!Enabled(sources)
        /\ SourceParts!Enabled(channels') \subseteq SourceParts!Enabled(channels)
        /\ \A s \in SourceParts!Enabled(sources') : sources'[s].config = sources[s].config
        /\ \A c \in SourceParts!Enabled(channels') : channels'[c] = channels[c]
    BY <1>3 DEF WritesNoConfig, SourceParts!Enabled
  <2>2. /\ DOMAIN EnabledSources = SourceParts!Enabled(sources)
        /\ DOMAIN EnabledSources' = SourceParts!Enabled(sources')
        /\ DOMAIN EnabledChannels = SourceParts!Enabled(channels)
        /\ DOMAIN EnabledChannels' = SourceParts!Enabled(channels')
        /\ \A s \in SourceParts!Enabled(sources) : EnabledSources[s] = SourceParts!Size(sources[s].config)
        /\ \A s \in SourceParts!Enabled(sources') : EnabledSources'[s] = SourceParts!Size(sources'[s].config)
        /\ \A c \in SourceParts!Enabled(channels) : EnabledChannels[c] = channels[c].size
        /\ \A c \in SourceParts!Enabled(channels') : EnabledChannels'[c] = channels'[c].size
    BY DEF EnabledSources, EnabledChannels
  <2> QED
    BY <2>1, <2>2, LighterInputs
<1> QED
  BY <1>1, <1>2, <1>3, NextWrites

LEMMA InputsBegin ==
  ASSUME SourcesAssumption, SourceParts!Init
  PROVE  InputsInv
<1>1. SourceParts!Enabled(sources) = {} /\ SourceParts!Enabled(channels) = {}
  BY DEF SourceParts!Init, SourceParts!Empty, SourceParts!Enabled
<1>2. /\ DOMAIN EnabledSources = {} /\ DOMAIN EnabledChannels = {}
      /\ Units(EnabledSources) = {} /\ Units(EnabledChannels) = {}
  BY <1>1 DEF EnabledSources, EnabledChannels, Units
<1>3. IsFiniteSet({}) /\ Cardinality({}) = 0
  BY FS_EmptySet
<1>4. Countable(EnabledSources) /\ Countable(EnabledChannels)
  BY <1>2, <1>3 DEF Countable
<1>5. SourceParts!Bytes(EnabledSources) = 0 /\ SourceParts!Bytes(EnabledChannels) = 0
  BY <1>2, <1>3, <1>4, BytesCount
<1>6. SourceParts!InputsAreBounded
  BY <1>2, <1>3, <1>5, InputsMean DEF SourcesAssumption
<1> QED
  BY <1>4, <1>6 DEF InputsInv

\* The enabled rows of both tables stay within their numbers and one budget.
THEOREM InputsStayBounded == ASSUME SourcesAssumption PROVE SourceParts!Spec => []SourceParts!InputsAreBounded
<1>1. SourceParts!Init => InputsInv
  BY InputsBegin
<1>2. SourcesInv /\ InputsInv /\ [SourceParts!Next]_(SourceParts!vars) => InputsInv'
  BY InputsKeep
<1>3. InputsInv => SourceParts!InputsAreBounded
  BY DEF InputsInv
<1> QED
  BY <1>1, <1>2, <1>3, SourcesInvariant, PTL DEF SourceParts!Spec

-----------------------------------------------------------------------------
(* The logins. A window that is in the table counts the attempts since it  *)
(* began, with one of them, so whatever is dropped when it is over leaves  *)
(* one less than the limit behind; a time of one window's length meets two *)
(* windows at most, and what their two counts and what lies before them    *)
(* allow is Counts. The process's window may begin without an attempt.     *)

\* Limits and times are numbers, a budget is not empty and that of a peer is no more than
\* the process's.
LimiterAssumption ==
  /\ PeerLimit \in Nat \ {0} /\ GlobalLimit \in Nat /\ PeerLimit <= GlobalLimit
  /\ Window \in Nat \ {0} /\ MaxLoginTime \in Nat /\ MaxLogins \in Nat /\ MaxClients \in Nat
  /\ IsFiniteSet(Logins) /\ "all" \notin Limiter!Keys

\* The attempts that were let through: each at its tick, and with a number of its own.
Timed(A) == IsFiniteSet(A) /\ \A a \in A : a[1] \in Nat /\ a[1] <= loginClock
Numbered(A) == \A a \in A : a[2] \in Nat /\ a[2] < Cardinality(A)

\* Those since t, those of one window's time before it, and those of one window's time from it.
From(A, t) == {a \in A : a[1] >= t}
Before(A, t) == {a \in A : t - Window < a[1] /\ a[1] < t}
Within(A, t) == {a \in A : a[1] \in t .. t + Window - 1}
Limited(A, bound) == \A t \in Int : Cardinality(Within(A, t)) <= bound

Begins(attempt) == attempt.expiresAt - Window
Renewed == [attempts |-> 0, expiresAt |-> loginClock + Window]

\* The attempts A are counted by this window: it holds all that came since it began, and
\* the time of one window before it no more than carry.
Counts(A, attempt, limit, carry) ==
  /\ attempt \in [attempts : Nat, expiresAt : Nat]
  /\ Begins(attempt) <= loginClock /\ attempt.attempts <= limit
  /\ \A a \in A : a[1] < attempt.expiresAt
  /\ Cardinality(From(A, Begins(attempt))) = attempt.attempts
  /\ Cardinality(Before(A, Begins(attempt))) <= carry

\* A key in the table has a window that began with an attempt, any other may begin one now.
KeyInv(k) ==
  IF k \in DOMAIN entries
    THEN /\ entries[k] \in Limiter!Attempt
         /\ Counts(admissions[k], entries[k], PeerLimit, PeerLimit - 1)
         /\ \E a \in admissions[k] : a[1] = Begins(entries[k])
    ELSE Counts(admissions[k], Renewed, PeerLimit, PeerLimit - 1)

BudgetsInv ==
  \A k \in Limiter!Keys : /\ KeyInv(k) /\ Timed(admissions[k]) /\ Numbered(admissions[k])
                          /\ Limited(admissions[k], PeerLimit + (PeerLimit - 1))
GlobalInv ==
  /\ global \in Limiter!Attempt /\ Counts(admissions["all"], global, GlobalLimit, GlobalLimit)
  /\ Timed(admissions["all"]) /\ Numbered(admissions["all"])
  /\ Limited(admissions["all"], GlobalLimit + GlobalLimit)

EntryTypes ==
  /\ nextCleanup \in 0 .. MaxLoginTime + Window
  /\ DOMAIN entries \subseteq Limiter!Keys /\ IsFiniteSet(DOMAIN entries)
  /\ entries = [k \in DOMAIN entries |-> entries[k]]
  /\ Cardinality(DOMAIN entries) <= MaxClients
LoginTypes ==
  /\ loginClock \in 0 .. MaxLoginTime /\ EntryTypes
  /\ stage \in [Logins -> {"idle", "admitted", "checked", "hashing"}]
  /\ DOMAIN sender = Logins
  /\ \A l \in Logins : sender[l].fingerprint \in Fingerprints \cup {NoFingerprint}

\* The work slots are those of the logins under way, the password slots those of the logins
\* and the settings form that hash.
Working == {l \in Logins : stage[l] # "idle"}
Hashing == {l \in Logins : stage[l] = "hashing"}
WorkInv ==
  /\ inFlight = Cardinality(Working) /\ inFlight <= MaxLogins
  /\ hashing \in {0, 1} /\ hashing + Cardinality(Hashing) <= MaxLogins

LimiterInv ==
  /\ LoginTypes /\ WorkInv /\ BudgetsInv /\ GlobalInv
  /\ DOMAIN admissions = Limiter!Keys \cup {"all"}

\* The cardinality that this part has from its instance is the one of the library.
LEMMA LimiterCardinality ==
  ASSUME NEW S
  PROVE  Limiter!Cardinality(S) = Cardinality(S)
BY DEF Limiter!Cardinality, Cardinality

\* The parts of finitely many attempts have as many members as a number says.
LEMMA Subsets ==
  ASSUME NEW A, Timed(A), NEW t
  PROVE  /\ IsFiniteSet(From(A, t)) /\ IsFiniteSet(Before(A, t)) /\ IsFiniteSet(Within(A, t))
         /\ Cardinality(From(A, t)) \in Nat /\ Cardinality(Before(A, t)) \in Nat
         /\ Cardinality(Within(A, t)) \in Nat /\ Cardinality(A) \in Nat
<1>1. From(A, t) \in SUBSET A /\ Before(A, t) \in SUBSET A /\ Within(A, t) \in SUBSET A
  BY DEF From, Before, Within
<1>2. IsFiniteSet(From(A, t)) /\ IsFiniteSet(Before(A, t)) /\ IsFiniteSet(Within(A, t))
  BY <1>1, FS_Subset DEF Timed
<1> QED
  BY <1>2, FS_CardinalityType DEF Timed

\* A window that is over gives way to a new one.
LEMMA Renews ==
  ASSUME LimiterAssumption, loginClock \in Nat, NEW A, Timed(A), NEW attempt, NEW limit \in Nat,
         NEW carry \in Nat,
         Counts(A, attempt, limit, carry), attempt.expiresAt <= loginClock,
         limit <= carry \/ (limit - 1 <= carry /\ \E a \in A : a[1] = Begins(attempt))
  PROVE  Counts(A, Renewed, limit, carry)
<1>1. PICK s \in Int : s = Begins(attempt) /\ s + Window <= loginClock
  BY DEF Begins, LimiterAssumption, Counts
<1>2. Begins(Renewed) = loginClock /\ Renewed \in [attempts : Nat, expiresAt : Nat]
  BY DEF Begins, Renewed, LimiterAssumption
<1>3. \A a \in A : a[1] \in Nat /\ a[1] < loginClock
  BY DEF Counts, Timed
<1>4. From(A, loginClock) = {}
  BY <1>3 DEF From
<1>5. Cardinality(From(A, loginClock)) = 0
  BY <1>4, FS_EmptySet
<1>6. Before(A, loginClock) \in SUBSET From(A, s)
  BY <1>1, <1>3 DEF Before, From, LimiterAssumption
<1>7. /\ IsFiniteSet(From(A, s)) /\ Cardinality(From(A, s)) \in Nat
      /\ Cardinality(From(A, s)) <= limit
      /\ Cardinality(Before(A, loginClock)) \in Nat
      /\ Cardinality(Before(A, loginClock)) <= Cardinality(From(A, s))
  BY <1>1, <1>6, Subsets, FS_Subset DEF Counts
<1>8. Cardinality(Before(A, loginClock)) <= carry
  <2>1. CASE limit <= carry
    BY <1>7, <2>1
  <2>2. CASE limit - 1 <= carry /\ \E a \in A : a[1] = Begins(attempt)
    <3>1. PICK a \in A : a[1] = s
      BY <1>1, <2>2
    <3>2. a \in From(A, s) /\ a \notin Before(A, loginClock)
      BY <1>1, <1>3, <3>1 DEF From, Before, LimiterAssumption
    <3>3. Cardinality(Before(A, loginClock)) # Cardinality(From(A, s))
      BY <1>6, <1>7, <3>2, FS_Subset
    <3> QED
      BY <1>7, <2>2, <3>3
  <2> QED
    BY <2>1, <2>2
<1>9. \A a \in A : a[1] < Renewed.expiresAt
  BY <1>3 DEF Renewed, LimiterAssumption
<1>10. Begins(Renewed) <= loginClock /\ Renewed.attempts = 0 /\ Renewed.attempts <= limit
  BY <1>2 DEF Renewed
<1> QED
  BY <1>2, <1>5, <1>8, <1>9, <1>10 DEF Counts

\* The attempts and their window after one more attempt.
Grown(A) == A \cup {<<loginClock, Cardinality(A)>>}
Taken(attempt) == [attempts |-> attempt.attempts + 1, expiresAt |-> attempt.expiresAt]

\* What a window of the present counts is no more than its limit and what it carries.
LEMMA AdmitsWithin ==
  ASSUME LimiterAssumption, loginClock \in Nat, NEW A, Timed(A), Numbered(A), NEW attempt,
         NEW limit \in Nat, NEW carry \in Nat,
         Counts(A, attempt, limit, carry), attempt.attempts < limit, loginClock < attempt.expiresAt,
         Limited(A, limit + carry)
  PROVE  /\ Timed(Grown(A)) /\ Numbered(Grown(A)) /\ Limited(Grown(A), limit + carry)
         /\ Counts(Grown(A), Taken(attempt), limit, carry)
<1>1. PICK B, next : B = Grown(A) /\ next = Taken(attempt)
  OBVIOUS
<1>2. /\ B = A \cup {<<loginClock, Cardinality(A)>>}
      /\ next = [attempts |-> attempt.attempts + 1, expiresAt |-> attempt.expiresAt]
  BY <1>1 DEF Grown, Taken
<1>3. PICK new : new = <<loginClock, Cardinality(A)>>
  OBVIOUS
<1>4. new[1] = loginClock /\ new[2] = Cardinality(A)
  BY <1>3
<1>5. Cardinality(A) \in Nat /\ IsFiniteSet(A)
  BY FS_CardinalityType DEF Timed
<1>6. new \notin A /\ B = A \cup {new}
  BY <1>2, <1>3, <1>4, <1>5 DEF Numbered
<1>7. IsFiniteSet(B) /\ Cardinality(B) = Cardinality(A) + 1
  BY <1>5, <1>6, FS_AddElement
<1>8. Timed(B)
  BY <1>4, <1>6, <1>7 DEF Timed
<1>9. Numbered(B)
  BY <1>4, <1>5, <1>6, <1>7 DEF Numbered
<1>10. PICK s \in Int : s = Begins(attempt) /\ s <= loginClock /\ loginClock < s + Window
  BY DEF Counts, Begins, LimiterAssumption
<1>11. Begins(next) = s /\ next.attempts = attempt.attempts + 1 /\ next.expiresAt = attempt.expiresAt
  BY <1>2, <1>10 DEF Begins
<1>12. From(B, s) = From(A, s) \cup {new} /\ new \notin From(A, s) /\ Before(B, s) = Before(A, s)
  BY <1>4, <1>6, <1>10 DEF From, Before
<1>13. /\ IsFiniteSet(From(A, s)) /\ IsFiniteSet(Before(A, s))
       /\ Cardinality(From(A, s)) = attempt.attempts
       /\ Cardinality(Before(A, s)) <= carry /\ Cardinality(Before(A, s)) \in Nat
       /\ attempt.attempts \in Nat
       /\ attempt.expiresAt \in Nat /\ \A a \in A : a[1] < attempt.expiresAt
  BY <1>10, Subsets DEF Counts
<1>14. IsFiniteSet(From(B, s)) /\ Cardinality(From(B, s)) = attempt.attempts + 1
  <2>1. /\ IsFiniteSet(From(A, s) \cup {new})
        /\ Cardinality(From(A, s) \cup {new}) = Cardinality(From(A, s)) + 1
    BY <1>12, <1>13, FS_AddElement
  <2>2. From(B, s) = From(A, s) \cup {new} /\ Cardinality(From(A, s)) = attempt.attempts
    BY <1>12, <1>13
  <2> QED
    BY <2>1, <2>2
<1>15. Counts(B, next, limit, carry)
  <2>1. next \in [attempts : Nat, expiresAt : Nat]
    BY <1>2, <1>13
  <2>2. \A a \in B : a[1] < next.expiresAt
    BY <1>4, <1>6, <1>11, <1>13
  <2>3. next.attempts <= limit
    BY <1>11, <1>13
  <2> QED
    BY <1>10, <1>11, <1>12, <1>13, <1>14, <2>1, <2>2, <2>3 DEF Counts
<1>16. ASSUME NEW t \in Int PROVE Cardinality(Within(B, t)) <= limit + carry
  <2>1. CASE new \in Within(B, t)
    <3>1. Within(B, t) \in SUBSET (From(B, s) \cup Before(B, s))
      <4>1. ASSUME NEW a \in Within(B, t) PROVE a \in From(B, s) \cup Before(B, s)
        <5>1. a \in B /\ a[1] \in Nat /\ t <= a[1]
          BY <1>8 DEF Within, Timed
        <5>2. loginClock <= t + Window - 1
          BY <1>4, <2>1 DEF Within
        <5>3. s - Window < a[1]
          BY <1>10, <5>1, <5>2 DEF LimiterAssumption
        <5> QED
          BY <1>10, <5>1, <5>3 DEF From, Before
      <4> QED
        BY <4>1
    <3>2. From(B, s) \cap Before(B, s) = {}
      BY <1>8, <1>10 DEF From, Before, Timed
    <3>3. Cardinality({}) = 0
      BY FS_EmptySet
    <3>4. /\ IsFiniteSet(From(B, s) \cup Before(B, s))
          /\ Cardinality(From(B, s) \cup Before(B, s))
               = Cardinality(From(B, s)) + Cardinality(Before(B, s)) - Cardinality(From(B, s) \cap Before(B, s))
      BY <1>12, <1>13, <1>14, FS_Union
    <3>5. Cardinality(From(B, s) \cup Before(B, s)) <= limit + carry
      <4>1. Cardinality(From(B, s) \cap Before(B, s)) = 0
        BY <3>2, <3>3
      <4>2. /\ Cardinality(From(B, s)) = attempt.attempts + 1
            /\ Cardinality(Before(B, s)) = Cardinality(Before(A, s))
        BY <1>12, <1>14
      <4> QED
        BY <1>13, <3>4, <4>1, <4>2
    <3>6. /\ Cardinality(Within(B, t)) <= Cardinality(From(B, s) \cup Before(B, s))
          /\ Cardinality(Within(B, t)) \in Nat /\ Cardinality(From(B, s) \cup Before(B, s)) \in Nat
      BY <1>8, <3>1, <3>4, Subsets, FS_Subset, FS_CardinalityType
    <3> QED
      BY <3>5, <3>6
  <2>2. CASE new \notin Within(B, t)
    <3>1. Within(B, t) = Within(A, t)
      BY <1>6, <2>2 DEF Within
    <3> QED
      BY <3>1 DEF Limited
  <2> QED
    BY <2>1, <2>2
<1>17. Limited(B, limit + carry)
  BY <1>16 DEF Limited
<1> QED
  BY <1>1, <1>8, <1>9, <1>15, <1>17

\* The window that an attempt of a key spends: the key's own, or a new one.
SpentWindow(key) ==
  IF key \in DOMAIN Limiter!Swept THEN Limiter!Current(Limiter!Swept[key])
                                  ELSE Limiter!Current(Limiter!Fresh)

\* A cleanup drops windows that are over, and whoever has none begins a new one.
LEMMA Sweeps ==
  ASSUME LimiterAssumption, LoginTypes, BudgetsInv
  PROVE  /\ DOMAIN Limiter!Swept \subseteq DOMAIN entries
         /\ Limiter!Swept = [k \in DOMAIN Limiter!Swept |-> entries[k]]
         /\ \A k \in DOMAIN Limiter!Swept : Limiter!Swept[k] = entries[k]
         /\ \A k \in Limiter!Keys \ DOMAIN Limiter!Swept : Counts(admissions[k], Renewed, PeerLimit, PeerLimit - 1)
<1>1. /\ DOMAIN Limiter!Swept \subseteq DOMAIN entries
      /\ Limiter!Swept = [k \in DOMAIN Limiter!Swept |-> entries[k]]
  BY DEF Limiter!Swept, Limiter!Kept, LoginTypes, EntryTypes
<1>2. \A k \in DOMAIN Limiter!Swept : Limiter!Swept[k] = entries[k]
  BY <1>1
<1>3. ASSUME NEW k \in Limiter!Keys \ DOMAIN Limiter!Swept
      PROVE  Counts(admissions[k], Renewed, PeerLimit, PeerLimit - 1)
  <2>1. CASE k \notin DOMAIN entries
    BY <1>3, <2>1 DEF BudgetsInv, KeyInv
  <2>2. CASE k \in DOMAIN entries
    <3>1. ~(entries[k].expiresAt > loginClock)
      BY <1>3, <2>2 DEF Limiter!Swept, Limiter!Kept
    <3>2. /\ entries[k] \in Limiter!Attempt
          /\ Counts(admissions[k], entries[k], PeerLimit, PeerLimit - 1)
          /\ \E a \in admissions[k] : a[1] = Begins(entries[k])
      BY <1>3, <2>2 DEF BudgetsInv, KeyInv
    <3>3. /\ entries[k].expiresAt <= loginClock /\ loginClock \in Nat /\ PeerLimit \in Nat
          /\ PeerLimit - 1 \in Nat
      BY <3>1, <3>2 DEF Limiter!Attempt, LoginTypes, EntryTypes, LimiterAssumption
    <3>4. Timed(admissions[k])
      BY <1>3 DEF BudgetsInv
    <3>5. PICK A, attempt : A = admissions[k] /\ attempt = entries[k]
      OBVIOUS
    <3>6. PeerLimit - 1 <= PeerLimit - 1
      BY <3>3
    <3> QED
      BY <3>2, <3>3, <3>4, <3>5, <3>6, Renews
  <2> QED
    BY <2>1, <2>2
<1> QED
  BY <1>1, <1>2, <1>3

\* The window that an attempt spends counts what the key was let through, is not
\* over, and began with an attempt or begins now.
LEMMA SpentCounts ==
  ASSUME LimiterAssumption, LoginTypes, BudgetsInv, NEW key \in Limiter!Keys
  PROVE  /\ Counts(admissions[key], SpentWindow(key), PeerLimit, PeerLimit - 1)
         /\ SpentWindow(key) \in Limiter!Attempt /\ loginClock < SpentWindow(key).expiresAt
         /\ SpentWindow(key) = Renewed \/ \E a \in admissions[key] : a[1] = Begins(SpentWindow(key))
<1>1. /\ loginClock \in Nat /\ loginClock <= MaxLoginTime /\ MaxLoginTime \in Nat
      /\ Window \in Nat /\ Window > 0 /\ GlobalLimit \in Nat
  BY DEF LoginTypes, EntryTypes, LimiterAssumption
<1>2. Renewed \in Limiter!Attempt /\ loginClock < Renewed.expiresAt
  BY <1>1 DEF Renewed, Limiter!Attempt
<1>3. CASE key \notin DOMAIN Limiter!Swept
  <2>1. SpentWindow(key) = Renewed
    BY <1>1, <1>3 DEF SpentWindow, Limiter!Current, Limiter!Fresh, Renewed
  <2>2. Counts(admissions[key], Renewed, PeerLimit, PeerLimit - 1)
    BY <1>3, Sweeps
  <2> QED
    BY <1>2, <2>1, <2>2
<1>4. CASE key \in DOMAIN Limiter!Swept
  <2>1. PICK A, attempt : A = admissions[key] /\ attempt = entries[key]
    OBVIOUS
  <2>2. /\ SpentWindow(key) = Limiter!Current(attempt) /\ attempt \in Limiter!Attempt
        /\ Counts(A, attempt, PeerLimit, PeerLimit - 1) /\ \E a \in A : a[1] = Begins(attempt)
    BY <1>4, <2>1, Sweeps DEF SpentWindow, BudgetsInv, KeyInv
  <2>3. attempt.expiresAt \in Nat
    BY <1>1, <2>2 DEF Limiter!Attempt
  <2>4. CASE attempt.expiresAt > loginClock
    <3>1. SpentWindow(key) = attempt
      BY <2>2, <2>4 DEF Limiter!Current
    <3> QED
      BY <1>1, <2>1, <2>2, <2>3, <2>4, <3>1
  <2>5. CASE ~(attempt.expiresAt > loginClock)
    <3>1. SpentWindow(key) = Renewed
      BY <2>2, <2>5 DEF Limiter!Current, Renewed
    <3>2. /\ attempt.expiresAt <= loginClock /\ PeerLimit \in Nat /\ PeerLimit - 1 \in Nat
          /\ PeerLimit - 1 <= PeerLimit - 1
      BY <1>1, <2>3, <2>5 DEF LimiterAssumption
    <3>3. Timed(A)
      BY <2>1 DEF BudgetsInv
    <3>4. Counts(A, Renewed, PeerLimit, PeerLimit - 1)
      BY <1>1, <2>2, <3>2, <3>3, Renews
    <3> QED
      BY <1>2, <2>1, <3>1, <3>4
  <2> QED
    BY <2>4, <2>5
<1> QED
  BY <1>3, <1>4

\* An attempt of a key leaves the table of windows within its limit.
LEMMA ConsumeTypes ==
  ASSUME LimiterAssumption, LoginTypes, NEW key \in Limiter!Keys, Limiter!Consume(key)
  PROVE  EntryTypes'
<1>1. /\ loginClock \in Nat /\ loginClock <= MaxLoginTime /\ MaxLoginTime \in Nat
      /\ Window \in Nat /\ MaxClients \in Nat
  BY DEF LoginTypes, EntryTypes, LimiterAssumption
<1>2. nextCleanup' \in 0 .. MaxLoginTime + Window
  BY <1>1 DEF Limiter!Consume, LoginTypes, EntryTypes
<1>3. PICK S : S = Limiter!Swept
  OBVIOUS
<1>4. DOMAIN S \subseteq DOMAIN entries /\ S = [k \in DOMAIN S |-> S[k]]
  BY <1>3 DEF Limiter!Swept, Limiter!Kept, LoginTypes, EntryTypes
<1>5. /\ IsFiniteSet(DOMAIN S) /\ Cardinality(DOMAIN S) \in Nat
      /\ Cardinality(DOMAIN S) <= MaxClients
      /\ DOMAIN S \subseteq Limiter!Keys
  <2>1. /\ IsFiniteSet(DOMAIN S) /\ Cardinality(DOMAIN S) <= Cardinality(DOMAIN entries)
        /\ Cardinality(DOMAIN entries) <= MaxClients /\ IsFiniteSet(DOMAIN entries)
    BY <1>4, FS_Subset DEF LoginTypes, EntryTypes
  <2>2. Cardinality(DOMAIN S) \in Nat /\ Cardinality(DOMAIN entries) \in Nat
    BY <2>1, FS_CardinalityType
  <2> QED
    BY <1>1, <1>4, <2>1, <2>2 DEF LoginTypes, EntryTypes
<1>6. CASE ~Limiter!Allowed(key)
  <2>1. entries' = S
    BY <1>3, <1>6 DEF Limiter!Consume
  <2> QED
    BY <1>2, <1>4, <1>5, <2>1 DEF EntryTypes
<1>7. CASE Limiter!Allowed(key)
  <2>1. DOMAIN entries' = DOMAIN S \cup {key} /\ entries' = [k \in DOMAIN entries' |-> entries'[k]]
    BY <1>3, <1>7 DEF Limiter!Consume
  <2>2. IsFiniteSet(DOMAIN S \cup {key}) /\ Cardinality(DOMAIN S \cup {key}) <= MaxClients
    <3>1. CASE key \in DOMAIN S
      <4>1. DOMAIN S \cup {key} = DOMAIN S
        BY <3>1
      <4> QED
        BY <1>5, <4>1
    <3>2. CASE key \notin DOMAIN S
      <4>1. Cardinality(DOMAIN S) < MaxClients
        BY LimiterCardinality, <1>3, <1>7, <3>2 DEF Limiter!Allowed
      <4>2. /\ IsFiniteSet(DOMAIN S \cup {key})
            /\ Cardinality(DOMAIN S \cup {key}) = Cardinality(DOMAIN S) + 1
        BY <1>5, <3>2, FS_AddElement
      <4> QED
        BY <1>1, <1>5, <4>1, <4>2
    <3> QED
      BY <3>1, <3>2
  <2>3. DOMAIN entries' \subseteq Limiter!Keys
    BY <1>5, <2>1
  <2> QED
    BY <1>2, <2>1, <2>2, <2>3 DEF EntryTypes
<1> QED
  BY <1>6, <1>7

\* An attempt of a key leaves every window of peers and fingerprints right.
LEMMA ConsumeKeeps ==
  ASSUME LimiterAssumption, LoginTypes, BudgetsInv, loginClock' = loginClock,
         NEW key \in Limiter!Keys, Limiter!Consume(key), DOMAIN admissions' = DOMAIN admissions,
         \A k \in Limiter!Keys : admissions'[k] = IF Limiter!Allowed(key) /\ k = key
                                            THEN admissions[k] \cup {<<loginClock, Cardinality(admissions[k])>>}
                                            ELSE admissions[k]
  PROVE  BudgetsInv'
<1> SUFFICES ASSUME NEW k \in Limiter!Keys
             PROVE  (/\ KeyInv(k) /\ Timed(admissions[k]) /\ Numbered(admissions[k])
                     /\ Limited(admissions[k], PeerLimit + (PeerLimit - 1)))'
  BY DEF BudgetsInv
<1>1. PICK A, B : A = admissions[k] /\ B = admissions'[k]
  OBVIOUS
<1>2. Timed(A) /\ Numbered(A) /\ Limited(A, PeerLimit + (PeerLimit - 1)) /\ loginClock \in Nat
  BY <1>1 DEF BudgetsInv, LoginTypes, EntryTypes
<1>3. CASE ~(Limiter!Allowed(key) /\ k = key)
  <2>1. B = A
    BY <1>1, <1>3
  <2>2. (Timed(admissions[k]) /\ Numbered(admissions[k]) /\ Limited(admissions[k], PeerLimit + (PeerLimit - 1)))'
    BY <1>1, <1>2, <2>1 DEF Timed, Numbered, Limited, Within
  <2>3. k \in DOMAIN entries' <=> k \in DOMAIN Limiter!Swept
    BY <1>3 DEF Limiter!Consume
  <2>4. CASE k \in DOMAIN Limiter!Swept
    <3>1. entries'[k] = entries[k] /\ k \in DOMAIN entries
      BY <1>3, <2>4, Sweeps DEF Limiter!Consume
    <3>2. PICK attempt : attempt = entries[k] /\ attempt = entries'[k]
      BY <3>1
    <3>3. /\ attempt \in Limiter!Attempt /\ Counts(A, attempt, PeerLimit, PeerLimit - 1)
          /\ \E a \in A : a[1] = Begins(attempt)
      BY <1>1, <3>1, <3>2 DEF BudgetsInv, KeyInv
    <3>4. KeyInv(k)'
      BY <1>1, <2>1, <2>3, <2>4, <3>2, <3>3 DEF KeyInv, Counts, Begins, From, Before,
         Limiter!Attempt
    <3> QED
      BY <2>2, <3>4
  <2>5. CASE k \notin DOMAIN Limiter!Swept
    <3>1. Counts(A, Renewed, PeerLimit, PeerLimit - 1)
      BY <1>1, <2>5, Sweeps
    <3>2. KeyInv(k)'
      BY <1>1, <2>1, <2>3, <2>5, <3>1 DEF KeyInv, Counts, Begins, From, Before, Renewed
    <3> QED
      BY <2>2, <3>2
  <2> QED
    BY <2>4, <2>5
<1>4. CASE Limiter!Allowed(key) /\ k = key
  <2>1. PICK attempt : attempt = SpentWindow(key)
    OBVIOUS
  <2>2. /\ Counts(A, attempt, PeerLimit, PeerLimit - 1) /\ attempt \in Limiter!Attempt
        /\ loginClock < attempt.expiresAt
        /\ attempt = Renewed \/ \E a \in A : a[1] = Begins(attempt)
    BY <1>1, <1>4, <2>1, SpentCounts
  <2>3. B = A \cup {<<loginClock, Cardinality(A)>>} /\ B = Grown(A)
    BY <1>1, <1>4 DEF Grown
  <2>4. PICK next : /\ next = Taken(attempt)
                    /\ next = [attempts |-> attempt.attempts + 1, expiresAt |-> attempt.expiresAt]
    BY DEF Taken
  <2>5. [attempt EXCEPT !.attempts = @ + 1] = next
    BY <2>2, <2>4 DEF Limiter!Attempt
  <2>6. k \in DOMAIN entries' /\ entries'[k] = next
    BY <1>4, <2>1, <2>5 DEF Limiter!Consume, SpentWindow
  <2>7. attempt.attempts < PeerLimit
    <3>1. CASE key \in DOMAIN Limiter!Swept
      BY <1>4, <2>1, <3>1 DEF Limiter!Allowed, SpentWindow
    <3>2. CASE key \notin DOMAIN Limiter!Swept
      BY <1>2, <2>1, <3>2 DEF SpentWindow, Limiter!Current, Limiter!Fresh, LimiterAssumption
    <3> QED
      BY <3>1, <3>2
  <2>8. PeerLimit \in Nat /\ PeerLimit - 1 \in Nat /\ PeerLimit <= GlobalLimit /\ GlobalLimit \in Nat
    BY DEF LimiterAssumption
  <2>9. /\ Timed(B) /\ Numbered(B) /\ Counts(B, next, PeerLimit, PeerLimit - 1)
        /\ Limited(B, PeerLimit + (PeerLimit - 1))
    <3>1. PICK carry : carry = PeerLimit - 1
      OBVIOUS
    <3>2. /\ Counts(A, attempt, PeerLimit, carry) /\ Limited(A, PeerLimit + carry) /\ carry \in Nat
          /\ LimiterAssumption /\ loginClock \in Nat /\ Timed(A) /\ Numbered(A) /\ PeerLimit \in Nat
          /\ loginClock < attempt.expiresAt
      BY <1>2, <2>2, <2>8, <3>1
    <3>3. /\ Timed(B) /\ Numbered(B) /\ Counts(B, next, PeerLimit, carry)
          /\ Limited(B, PeerLimit + carry)
      BY ONLY <2>3, <2>4, <2>7, <3>2, AdmitsWithin, ZenonT(60)
    <3> QED
      BY <3>1, <3>3
  <2>10. next \in Limiter!Attempt
    BY <2>2, <2>4, <2>7, <2>8 DEF Limiter!Attempt
  <2>11. \E a \in B : a[1] = Begins(next)
    <3>1. Begins(next) = Begins(attempt)
      BY <2>4 DEF Begins
    <3>2. CASE \E a \in A : a[1] = Begins(attempt)
      BY <2>3, <3>1, <3>2
    <3>3. CASE attempt = Renewed
      <4>1. PICK new : new = <<loginClock, Cardinality(A)>>
        OBVIOUS
      <4>2. new \in B /\ new[1] = loginClock /\ Begins(attempt) = loginClock
        BY <1>2, <2>3, <3>3, <4>1 DEF Begins, Renewed, LimiterAssumption
      <4> QED
        BY <3>1, <4>2
    <3> QED
      BY <2>2, <3>2, <3>3
  <2>12. KeyInv(k)'
    BY <1>1, <2>6, <2>9, <2>10, <2>11 DEF KeyInv, Counts, Begins, From, Before, Limiter!Attempt
  <2> QED
    BY <1>1, <2>9, <2>12 DEF Timed, Numbered, Limited, Within
<1> QED
  BY <1>3, <1>4

-----------------------------------------------------------------------------
\* A tick moves the windows that have not begun.
LEMMA TickKeeps ==
  ASSUME LimiterAssumption, loginClock \in Nat, loginClock' = loginClock + 1, NEW A, Timed(A),
         NEW limit \in Nat, NEW carry \in Nat
  PROVE  /\ Timed(A)'
         /\ \A attempt : Counts(A, attempt, limit, carry) => Counts(A, attempt, limit, carry)'
         /\ Counts(A, Renewed, limit, carry) => Counts(A, Renewed, limit, carry)'
<1>1. Timed(A)'
  BY DEF Timed
<1>2. ASSUME NEW attempt, Counts(A, attempt, limit, carry) PROVE Counts(A, attempt, limit, carry)'
  <2>1. Begins(attempt) \in Int /\ Begins(attempt) <= loginClock'
    BY <1>2 DEF Begins, Counts, LimiterAssumption
  <2> QED
    BY <1>2, <2>1 DEF Counts, Begins, From, Before
<1>3. ASSUME Counts(A, Renewed, limit, carry) PROVE Counts(A, Renewed, limit, carry)'
  <2>1. PICK old, new : old = Renewed /\ new = Renewed'
    OBVIOUS
  <2>2. /\ new = [attempts |-> 0, expiresAt |-> loginClock + 1 + Window]
        /\ Begins(new) = loginClock + 1 /\ Begins(old) = loginClock
        /\ old.attempts = 0
    BY <2>1 DEF Begins, Renewed, LimiterAssumption
  <2>3. Counts(A, old, limit, carry)
    BY <1>3, <2>1
  <2>4. IsFiniteSet(From(A, loginClock)) /\ Cardinality(From(A, loginClock)) = 0
    BY <2>2, <2>3, Subsets DEF Counts
  <2>5. From(A, loginClock) = {}
    BY <2>4, FS_EmptySet
  <2>6. \A a \in A : a[1] \in Nat /\ a[1] < loginClock
    BY <2>5 DEF From, Timed
  <2>7. From(A, loginClock + 1) = {}
    BY <2>6 DEF From
  <2>8. Cardinality(From(A, loginClock + 1)) = 0
    BY <2>7, FS_EmptySet
  <2>9. Before(A, loginClock + 1) \in SUBSET Before(A, loginClock)
    BY <2>6 DEF Before, LimiterAssumption
  <2>10. /\ Cardinality(Before(A, loginClock + 1)) <= Cardinality(Before(A, loginClock))
         /\ Cardinality(Before(A, loginClock + 1)) \in Nat
         /\ Cardinality(Before(A, loginClock)) \in Nat
    BY <2>9, Subsets, FS_Subset
  <2>11. Cardinality(Before(A, loginClock + 1)) <= carry
    BY <2>2, <2>3, <2>10 DEF Counts
  <2>12. \A a \in A : a[1] < new.expiresAt
    BY <2>2, <2>6 DEF LimiterAssumption
  <2>13. new \in [attempts : Nat, expiresAt : Nat] /\ new.attempts = 0
    BY <2>2 DEF LimiterAssumption
  <2>14. /\ Cardinality(From(A, Begins(new))) = new.attempts
         /\ Cardinality(Before(A, Begins(new))) <= carry
    BY <2>2, <2>8, <2>11, <2>13
  <2>15. Begins(new) <= loginClock' /\ new.attempts <= limit
    BY <2>2, <2>13
  <2>16. Counts(A, new, limit, carry)'
    BY <2>12, <2>13, <2>14, <2>15 DEF Counts
  <2> QED
    BY <2>1, <2>16
<1> QED
  BY <1>1, <1>2, <1>3

\* The window of the process is renewed when it is over, and takes an attempt within its limit.
LEMMA GlobalCurrent ==
  ASSUME LimiterAssumption, LoginTypes, GlobalInv
  PROVE  /\ Limiter!Current(global) \in Limiter!Attempt
         /\ loginClock < Limiter!Current(global).expiresAt
         /\ Counts(admissions["all"], Limiter!Current(global), GlobalLimit, GlobalLimit)
<1>1. /\ loginClock \in Nat /\ loginClock <= MaxLoginTime /\ MaxLoginTime \in Nat
      /\ Window \in Nat /\ Window > 0 /\ GlobalLimit \in Nat
  BY DEF LoginTypes, EntryTypes, LimiterAssumption
<1>2. PICK A, attempt : A = admissions["all"] /\ attempt = global
  OBVIOUS
<1>3. /\ attempt \in Limiter!Attempt /\ Counts(A, attempt, GlobalLimit, GlobalLimit) /\ Timed(A)
      /\ attempt.expiresAt \in Nat
  BY <1>1, <1>2 DEF GlobalInv, Limiter!Attempt
<1>4. CASE attempt.expiresAt > loginClock
  BY <1>1, <1>2, <1>3, <1>4 DEF Limiter!Current
<1>5. CASE ~(attempt.expiresAt > loginClock)
  <2>1. Limiter!Current(global) = Renewed
    BY <1>2, <1>5 DEF Limiter!Current, Renewed
  <2>2. attempt.expiresAt <= loginClock /\ GlobalLimit <= GlobalLimit
    BY <1>1, <1>3, <1>5
  <2>3. Counts(A, Renewed, GlobalLimit, GlobalLimit)
    BY <1>1, <1>3, <2>2, Renews
  <2>4. Renewed \in Limiter!Attempt /\ loginClock < Renewed.expiresAt
    BY <1>1 DEF Renewed, Limiter!Attempt
  <2> QED
    BY <1>2, <2>1, <2>3, <2>4
<1> QED
  BY <1>4, <1>5

LEMMA GlobalKeeps ==
  ASSUME LimiterAssumption, LoginTypes, GlobalInv, loginClock' = loginClock,
         global' = Limiter!Current(global),
         admissions'["all"] = admissions["all"]
  PROVE  GlobalInv'
<1>1. PICK A, attempt : A = admissions["all"] /\ A = admissions'["all"] /\ attempt = Limiter!Current(global)
  OBVIOUS
<1>2. /\ attempt \in Limiter!Attempt /\ Counts(A, attempt, GlobalLimit, GlobalLimit)
      /\ global' = attempt
  BY <1>1, GlobalCurrent
<1> QED
  BY <1>1, <1>2 DEF GlobalInv, Counts, Begins, From, Before, Timed, Numbered, Limited, Within,
     Limiter!Attempt

LEMMA GlobalAdmits ==
  ASSUME LimiterAssumption, LoginTypes, GlobalInv, loginClock' = loginClock,
         Limiter!Current(global).attempts < GlobalLimit,
         global' = [Limiter!Current(global) EXCEPT !.attempts = @ + 1],
         admissions'["all"] = admissions["all"] \cup {<<loginClock, Cardinality(admissions["all"])>>}
  PROVE  GlobalInv'
<1>1. PICK A, B, attempt : A = admissions["all"] /\ B = admissions'["all"] /\ attempt = Limiter!Current(global)
  OBVIOUS
<1>2. PICK next : /\ next = Taken(attempt)
                  /\ next = [attempts |-> attempt.attempts + 1, expiresAt |-> attempt.expiresAt]
  BY DEF Taken
<1>3. /\ attempt \in Limiter!Attempt /\ Counts(A, attempt, GlobalLimit, GlobalLimit)
      /\ loginClock < attempt.expiresAt
  BY <1>1, GlobalCurrent
<1>4. global' = next
  BY <1>1, <1>2, <1>3 DEF Limiter!Attempt
<1>5. /\ B = Grown(A) /\ attempt.attempts < GlobalLimit /\ Timed(A) /\ Numbered(A)
      /\ Limited(A, GlobalLimit + GlobalLimit) /\ loginClock \in Nat /\ GlobalLimit \in Nat
      /\ LimiterAssumption
  BY <1>1 DEF GlobalInv, LoginTypes, EntryTypes, LimiterAssumption, Grown
<1>6. /\ Timed(B) /\ Numbered(B) /\ Counts(B, next, GlobalLimit, GlobalLimit)
      /\ Limited(B, GlobalLimit + GlobalLimit)
  BY ONLY <1>2, <1>3, <1>5, AdmitsWithin, ZenonT(60)
<1>7. next \in Limiter!Attempt
  BY <1>2, <1>3, <1>5 DEF Limiter!Attempt
<1> QED
  BY <1>1, <1>4, <1>6, <1>7 DEF GlobalInv, Counts, Begins, From, Before, Timed, Numbered,
     Limited, Within, Limiter!Attempt

-----------------------------------------------------------------------------
\* A login that takes, passes on or gives back its work slot and its password slot.
LEMMA SlotCounts ==
  ASSUME LimiterAssumption, LoginTypes, NEW l \in Logins,
         NEW phase \in {"idle", "admitted", "checked", "hashing"}, stage' = [stage EXCEPT ![l] = phase]
  PROVE  /\ Cardinality(Working) \in Nat /\ Cardinality(Hashing) \in Nat
         /\ Cardinality(Working)' =
              IF stage[l] = "idle" /\ phase # "idle" THEN Cardinality(Working) + 1
              ELSE IF stage[l] # "idle" /\ phase = "idle" THEN Cardinality(Working) - 1
              ELSE Cardinality(Working)
         /\ Cardinality(Hashing)' =
              IF stage[l] # "hashing" /\ phase = "hashing" THEN Cardinality(Hashing) + 1
              ELSE IF stage[l] = "hashing" /\ phase # "hashing" THEN Cardinality(Hashing) - 1
              ELSE Cardinality(Hashing)
         /\ stage' \in [Logins -> {"idle", "admitted", "checked", "hashing"}]
<1>1. /\ stage' \in [Logins -> {"idle", "admitted", "checked", "hashing"}] /\ stage'[l] = phase
      /\ \A m \in Logins \ {l} : stage'[m] = stage[m]
  BY DEF LoginTypes
<1>2. PICK W, H, U, G : W = Working /\ H = Hashing /\ U = Working' /\ G = Hashing'
  OBVIOUS
<1>3. W \in SUBSET Logins /\ H \in SUBSET Logins /\ IsFiniteSet(Logins)
  BY <1>2 DEF Working, Hashing, LimiterAssumption
<1>4. IsFiniteSet(W) /\ IsFiniteSet(H)
  BY <1>3, FS_Subset
<1>5. Cardinality(W) \in Nat /\ Cardinality(H) \in Nat
  BY <1>4, FS_CardinalityType
<1>6. /\ l \in W <=> stage[l] # "idle"
      /\ l \in H <=> stage[l] = "hashing"
  BY <1>2 DEF Working, Hashing
<1>7. /\ U = IF phase # "idle" THEN W \cup {l} ELSE W \ {l}
      /\ G = IF phase = "hashing" THEN H \cup {l} ELSE H \ {l}
  BY <1>1, <1>2 DEF Working, Hashing
<1>8. /\ Cardinality(W \cup {l}) = IF l \in W THEN Cardinality(W) ELSE Cardinality(W) + 1
      /\ Cardinality(W \ {l}) = IF l \in W THEN Cardinality(W) - 1 ELSE Cardinality(W)
      /\ Cardinality(H \cup {l}) = IF l \in H THEN Cardinality(H) ELSE Cardinality(H) + 1
      /\ Cardinality(H \ {l}) = IF l \in H THEN Cardinality(H) - 1 ELSE Cardinality(H)
  BY <1>4, FS_AddElement, FS_RemoveElement
<1>9. Cardinality(U) = IF stage[l] = "idle" /\ phase # "idle" THEN Cardinality(W) + 1
                      ELSE IF stage[l] # "idle" /\ phase = "idle" THEN Cardinality(W) - 1
                      ELSE Cardinality(W)
  BY <1>6, <1>7, <1>8
<1>10. Cardinality(G) = IF stage[l] # "hashing" /\ phase = "hashing" THEN Cardinality(H) + 1
                       ELSE IF stage[l] = "hashing" /\ phase # "hashing" THEN Cardinality(H) - 1
                       ELSE Cardinality(H)
  BY <1>6, <1>7, <1>8
<1> QED
  BY <1>1, <1>2, <1>5, <1>9, <1>10

\* Windows and attempts that a step leaves alone stay right while the time does.
LEMMA WindowsKept ==
  ASSUME LimiterInv, UNCHANGED <<loginClock, admissions>>
  PROVE  /\ entries' = entries => BudgetsInv'
         /\ global' = global => GlobalInv'
<1>1. ASSUME entries' = entries PROVE BudgetsInv'
  BY <1>1 DEF LimiterInv, BudgetsInv, KeyInv, Counts, Renewed, Begins, Timed, Numbered, Limited,
     From, Before, Within, Limiter!Attempt
<1>2. ASSUME global' = global PROVE GlobalInv'
  BY <1>2 DEF LimiterInv, GlobalInv, Counts, Begins, Timed, Numbered, Limited, From, Before,
     Within, Limiter!Attempt
<1> QED
  BY <1>1, <1>2

LEMMA NextBegins ==
  ASSUME LimiterAssumption, LimiterInv, NEW l \in Logins, NEW p \in Peers,
         NEW f \in Fingerprints \cup {NoFingerprint}, Limiter!Begin(l, p, f)
  PROVE  LimiterInv'
<1>1. /\ stage[l] = "idle" /\ loginClock' = loginClock /\ hashing' = hashing /\ p \in Limiter!Keys
      /\ p # "all"
      /\ sender' = [sender EXCEPT ![l] = [peer |-> p, fingerprint |-> f]]
  BY DEF Limiter!Begin, Limiter!Keys, LimiterAssumption
<1>2. /\ DOMAIN sender' = Logins
      /\ \A m \in Logins : sender'[m].fingerprint \in Fingerprints \cup {NoFingerprint}
  <2>1. DOMAIN sender' = Logins /\ sender'[l].fingerprint = f
    BY <1>1 DEF LimiterInv, LoginTypes
  <2>2. \A m \in Logins \ {l} : sender'[m] = sender[m]
    BY <1>1 DEF LimiterInv, LoginTypes
  <2> QED
    BY <2>1, <2>2 DEF LimiterInv, LoginTypes
<1>3. CASE Limiter!Current(global).attempts >= GlobalLimit \/ inFlight >= MaxLogins
  <2>1. /\ global' = Limiter!Current(global)
        /\ UNCHANGED <<entries, nextCleanup, inFlight, stage, admissions>>
    BY <1>3 DEF Limiter!Begin
  <2>2. BudgetsInv'
    BY <1>1, <2>1, WindowsKept
  <2>3. GlobalInv'
    BY <1>1, <2>1, GlobalKeeps DEF LimiterInv
  <2> QED
    BY <1>1, <1>2, <2>1, <2>2, <2>3 DEF LimiterInv, LoginTypes, EntryTypes, WorkInv, Working,
       Hashing
<1>4. CASE ~(Limiter!Current(global).attempts >= GlobalLimit \/ inFlight >= MaxLogins)
  <2>1. Limiter!Consume(p)
    BY <1>4 DEF Limiter!Begin
  <2>2. EntryTypes'
    BY <1>1, <2>1, ConsumeTypes DEF LimiterInv
  <2>3. CASE Limiter!Allowed(p)
    <3>1. /\ global' = [Limiter!Current(global) EXCEPT !.attempts = @ + 1]
          /\ inFlight' = inFlight + 1
          /\ stage' = [stage EXCEPT ![l] = "admitted"] /\ Limiter!Admit({p, "all"})
      BY <1>4, <2>3 DEF Limiter!Begin
    <3>2. /\ DOMAIN admissions' = DOMAIN admissions
          /\ \A k \in Limiter!Keys :
               admissions'[k] = IF k = p THEN admissions[k] \cup {<<loginClock, Cardinality(admissions[k])>>}
                                         ELSE admissions[k]
          /\ admissions'["all"] = admissions["all"] \cup {<<loginClock, Cardinality(admissions["all"])>>}
      BY <3>1, LimiterCardinality DEF Limiter!Admit, LimiterInv, LimiterAssumption
    <3>3. BudgetsInv'
      BY <1>1, <2>1, <2>3, <3>2, ConsumeKeeps DEF LimiterInv
    <3>4. Limiter!Current(global).attempts < GlobalLimit
      <4>1. Limiter!Current(global).attempts \in 0 .. GlobalLimit
        BY GlobalCurrent DEF LimiterInv, Limiter!Attempt
      <4> QED
        BY <1>4, <4>1 DEF LimiterAssumption
    <3>5. GlobalInv'
      BY <1>1, <3>1, <3>2, <3>4, GlobalAdmits DEF LimiterInv
    <3>6. WorkInv' /\ stage' \in [Logins -> {"idle", "admitted", "checked", "hashing"}]
      <4>1. /\ Cardinality(Working) \in Nat /\ Cardinality(Working)' = Cardinality(Working) + 1
            /\ Cardinality(Hashing)' = Cardinality(Hashing)
            /\ stage' \in [Logins -> {"idle", "admitted", "checked", "hashing"}]
        BY <1>1, <3>1, SlotCounts DEF LimiterInv
      <4>2. ~(inFlight >= MaxLogins) /\ MaxLogins \in Nat
        BY <1>4 DEF LimiterAssumption
      <4> QED
        BY <1>1, <3>1, <4>1, <4>2 DEF LimiterInv, WorkInv
    <3> QED
      BY <1>1, <1>2, <2>2, <3>2, <3>3, <3>5, <3>6 DEF LimiterInv, LoginTypes
  <2>4. CASE ~Limiter!Allowed(p)
    <3>1. global' = Limiter!Current(global) /\ UNCHANGED <<inFlight, stage, admissions>>
      BY <1>4, <2>4 DEF Limiter!Begin
    <3>2. BudgetsInv'
      BY <1>1, <2>1, <2>4, <3>1, ConsumeKeeps DEF LimiterInv
    <3>3. GlobalInv'
      BY <1>1, <3>1, GlobalKeeps DEF LimiterInv
    <3> QED
      BY <1>1, <1>2, <2>2, <3>1, <3>2, <3>3 DEF LimiterInv, LoginTypes, WorkInv, Working, Hashing
  <2> QED
    BY <2>3, <2>4
<1> QED
  BY <1>3, <1>4

\* What a login does to its slots, besides what it does to the windows.
LEMMA SlotsKept ==
  ASSUME LimiterAssumption, LimiterInv, NEW l \in Logins, stage[l] # "idle",
         UNCHANGED <<loginClock, sender, hashing>>,
         \/ Limiter!Leave(l)
         \/ inFlight' = inFlight /\ stage[l] # "hashing" /\ stage' = [stage EXCEPT ![l] = "checked"]
         \/ /\ inFlight' = inFlight /\ stage' = [stage EXCEPT ![l] = "hashing"]
            /\ stage[l] # "hashing" /\ hashing + Cardinality(Hashing) < MaxLogins,
         EntryTypes', BudgetsInv', GlobalInv', DOMAIN admissions' = DOMAIN admissions
  PROVE  LimiterInv'
<1>1. LoginTypes /\ WorkInv /\ MaxLogins \in Nat
  BY DEF LimiterInv, LimiterAssumption
<1>2. CASE Limiter!Leave(l)
  <2>1. stage' = [stage EXCEPT ![l] = "idle"] /\ inFlight' = inFlight - 1
    BY <1>2 DEF Limiter!Leave
  <2>2. /\ Cardinality(Working) \in Nat /\ Cardinality(Hashing) \in Nat
        /\ Cardinality(Working)' = Cardinality(Working) - 1
        /\ Cardinality(Hashing)' = Cardinality(Hashing) \/ Cardinality(Hashing)' = Cardinality(Hashing) - 1
        /\ stage' \in [Logins -> {"idle", "admitted", "checked", "hashing"}]
    BY <1>1, <2>1, SlotCounts
  <2>3. WorkInv'
    BY <1>1, <2>1, <2>2 DEF WorkInv
  <2> QED
    BY <2>2, <2>3 DEF LimiterInv, LoginTypes
<1>3. CASE inFlight' = inFlight /\ stage[l] # "hashing" /\ stage' = [stage EXCEPT ![l] = "checked"]
  <2>1. /\ Cardinality(Working)' = Cardinality(Working)
        /\ Cardinality(Hashing)' = Cardinality(Hashing)
        /\ stage' \in [Logins -> {"idle", "admitted", "checked", "hashing"}]
    BY <1>1, <1>3, SlotCounts
  <2>2. WorkInv'
    BY <1>1, <1>3, <2>1 DEF WorkInv
  <2> QED
    BY <2>1, <2>2 DEF LimiterInv, LoginTypes
<1>4. CASE /\ inFlight' = inFlight /\ stage' = [stage EXCEPT ![l] = "hashing"]
           /\ stage[l] # "hashing" /\ hashing + Cardinality(Hashing) < MaxLogins
  <2>1. /\ Cardinality(Working)' = Cardinality(Working)
        /\ Cardinality(Hashing)' = Cardinality(Hashing) + 1
        /\ Cardinality(Hashing) \in Nat
        /\ stage' \in [Logins -> {"idle", "admitted", "checked", "hashing"}]
    BY <1>1, <1>4, SlotCounts
  <2>2. WorkInv'
    BY <1>1, <1>4, <2>1 DEF WorkInv
  <2> QED
    BY <2>1, <2>2 DEF LimiterInv, LoginTypes
<1> QED
  BY <1>2, <1>3, <1>4

LEMMA NextFingerprint ==
  ASSUME LimiterAssumption, LimiterInv, NEW l \in Logins, Limiter!CheckFingerprint(l)
  PROVE  LimiterInv'
<1>1. stage[l] = "admitted" /\ UNCHANGED <<loginClock, global, sender, hashing>>
  BY DEF Limiter!CheckFingerprint
<1>2. PICK key : key = sender[l].fingerprint /\ key \in Fingerprints \cup {NoFingerprint}
  BY DEF LimiterInv, LoginTypes
<1>3. CASE key = NoFingerprint
  <2>1. /\ stage' = [stage EXCEPT ![l] = "checked"]
        /\ UNCHANGED <<entries, nextCleanup, inFlight, admissions>>
    BY <1>2, <1>3 DEF Limiter!CheckFingerprint
  <2>2. EntryTypes'
    BY <2>1 DEF LimiterInv, LoginTypes, EntryTypes
  <2>3. BudgetsInv' /\ GlobalInv'
    BY <1>1, <2>1, WindowsKept
  <2> QED
    BY <1>1, <2>1, <2>2, <2>3, SlotsKept
<1>4. CASE key # NoFingerprint
  <2>1. Limiter!Consume(key) /\ key \in Limiter!Keys /\ key # "all"
    BY <1>2, <1>4 DEF Limiter!CheckFingerprint, Limiter!Keys, LimiterAssumption
  <2>2. EntryTypes'
    BY <2>1, ConsumeTypes DEF LimiterInv
  <2>3. CASE Limiter!Allowed(key)
    <3>1. stage' = [stage EXCEPT ![l] = "checked"] /\ Limiter!Admit({key}) /\ inFlight' = inFlight
      BY <1>2, <1>4, <2>3 DEF Limiter!CheckFingerprint
    <3>2. /\ DOMAIN admissions' = DOMAIN admissions
          /\ \A k \in Limiter!Keys :
               admissions'[k] = IF k = key THEN admissions[k] \cup {<<loginClock, Cardinality(admissions[k])>>}
                                           ELSE admissions[k]
          /\ admissions'["all"] = admissions["all"]
      BY <2>1, <3>1, LimiterCardinality DEF Limiter!Admit, LimiterInv, LimiterAssumption
    <3>3. BudgetsInv'
      BY <1>1, <2>1, <2>3, <3>2, ConsumeKeeps DEF LimiterInv
    <3>4. GlobalInv'
      BY <1>1, <3>2 DEF LimiterInv, GlobalInv, Counts, Begins, Timed, Numbered, Limited, From,
         Before, Within, Limiter!Attempt
    <3> QED
      BY <1>1, <2>2, <3>1, <3>2, <3>3, <3>4, SlotsKept
  <2>4. CASE ~Limiter!Allowed(key)
    <3>1. Limiter!Leave(l) /\ admissions' = admissions
      BY <1>2, <1>4, <2>4 DEF Limiter!CheckFingerprint
    <3>2. BudgetsInv'
      BY <1>1, <2>1, <2>4, <3>1, ConsumeKeeps DEF LimiterInv
    <3>3. GlobalInv'
      BY <1>1, <3>1, WindowsKept
    <3> QED
      BY <1>1, <2>2, <3>1, <3>2, <3>3, SlotsKept
  <2> QED
    BY <2>3, <2>4
<1> QED
  BY <1>3, <1>4

LEMMA NextSlots ==
  ASSUME LimiterAssumption, LimiterInv, NEW l \in Logins,
         Limiter!Reject(l) \/ Limiter!Verify(l) \/ Limiter!Finish(l)
  PROVE  LimiterInv'
<1>1. /\ stage[l] # "idle"
      /\ UNCHANGED <<loginClock, sender, hashing, entries, global, nextCleanup, admissions>>
      /\ \/ Limiter!Leave(l)
         \/ /\ inFlight' = inFlight /\ stage' = [stage EXCEPT ![l] = "hashing"]
            /\ stage[l] # "hashing" /\ hashing + Cardinality(Hashing) < MaxLogins
  BY LimiterCardinality DEF Limiter!Reject, Limiter!Verify, Limiter!Finish, Hashing
<1>2. EntryTypes'
  BY <1>1 DEF LimiterInv, LoginTypes, EntryTypes
<1>3. BudgetsInv' /\ GlobalInv'
  BY <1>1, WindowsKept
<1> QED
  BY <1>1, <1>2, <1>3, SlotsKept

LEMMA NextHash ==
  ASSUME LimiterAssumption, LimiterInv, Limiter!Hash
  PROVE  LimiterInv'
<1>1. UNCHANGED <<loginClock, entries, global, inFlight, nextCleanup, stage, sender, admissions>>
  BY DEF Limiter!Hash, Limiter!limiterVars
<1>2. BudgetsInv' /\ GlobalInv'
  BY <1>1, WindowsKept
<1>3. LoginTypes'
  BY <1>1 DEF LimiterInv, LoginTypes, EntryTypes
<1>4. /\ IsFiniteSet(Hashing) /\ Cardinality(Hashing) \in Nat /\ Hashing' = Hashing
      /\ Working' = Working
  <2>1. Hashing \in SUBSET Logins
    BY DEF Hashing
  <2>2. IsFiniteSet(Hashing)
    BY <2>1, FS_Subset DEF LimiterAssumption
  <2> QED
    BY <1>1, <2>2, FS_CardinalityType DEF Hashing, Working
<1>5. WorkInv'
  <2>1. WorkInv /\ MaxLogins \in Nat
    BY DEF LimiterInv, LimiterAssumption
  <2>2. \/ hashing + Cardinality(Hashing) < MaxLogins /\ hashing = 0 /\ hashing' = 1
        \/ hashing = 1 /\ hashing' = 0
    BY LimiterCardinality DEF Limiter!Hash, Hashing
  <2> QED
    BY <1>1, <1>4, <2>1, <2>2 DEF WorkInv
<1> QED
  BY <1>1, <1>2, <1>3, <1>5 DEF LimiterInv

LEMMA NextTick ==
  ASSUME LimiterAssumption, LimiterInv, Limiter!Tick
  PROVE  LimiterInv'
<1>1. /\ loginClock' = loginClock + 1 /\ loginClock < MaxLoginTime /\ loginClock \in Nat
      /\ loginClock' \in 0 .. MaxLoginTime
      /\ UNCHANGED <<entries, global, inFlight, nextCleanup, stage, sender, hashing, admissions>>
  BY DEF Limiter!Tick, Limiter!limiterVars, LimiterInv, LoginTypes, LimiterAssumption
<1>2. LoginTypes' /\ WorkInv'
  BY <1>1 DEF LimiterInv, LoginTypes, EntryTypes, WorkInv, Working, Hashing
<1>3. PeerLimit \in Nat /\ PeerLimit - 1 \in Nat /\ GlobalLimit \in Nat
  BY DEF LimiterAssumption
<1>4. BudgetsInv'
  <2> SUFFICES ASSUME NEW k \in Limiter!Keys
               PROVE  (/\ KeyInv(k) /\ Timed(admissions[k]) /\ Numbered(admissions[k])
                       /\ Limited(admissions[k], PeerLimit + (PeerLimit - 1)))'
    BY DEF BudgetsInv
  <2>1. PICK A, attempt : A = admissions[k] /\ A = admissions'[k] /\ attempt = entries[k] /\ attempt = entries'[k]
    BY <1>1
  <2>2. Timed(A) /\ Numbered(A) /\ Limited(A, PeerLimit + (PeerLimit - 1)) /\ KeyInv(k)
    BY <2>1 DEF LimiterInv, BudgetsInv
  <2>3. /\ Timed(A)'
        /\ Counts(A, attempt, PeerLimit, PeerLimit - 1) => Counts(A, attempt, PeerLimit, PeerLimit - 1)'
        /\ Counts(A, Renewed, PeerLimit, PeerLimit - 1) => Counts(A, Renewed, PeerLimit, PeerLimit - 1)'
    BY <1>1, <1>3, <2>2, TickKeeps
  <2>4. KeyInv(k)'
    <3>1. CASE k \in DOMAIN entries
      <4>1. /\ attempt \in Limiter!Attempt /\ Counts(A, attempt, PeerLimit, PeerLimit - 1)
            /\ \E a \in A : a[1] = Begins(attempt)
        BY <2>1, <2>2, <3>1 DEF KeyInv
      <4>2. Counts(A, attempt, PeerLimit, PeerLimit - 1)'
        BY <2>3, <4>1
      <4>3. k \in DOMAIN entries'
        BY <1>1, <3>1
      <4> QED
        BY <2>1, <4>1, <4>2, <4>3 DEF KeyInv, Limiter!Attempt, Counts, Begins, From, Before
    <3>2. CASE k \notin DOMAIN entries
      <4>1. Counts(A, Renewed, PeerLimit, PeerLimit - 1)
        BY <2>1, <2>2, <3>2 DEF KeyInv
      <4>2. Counts(A, Renewed, PeerLimit, PeerLimit - 1)'
        BY <2>3, <4>1
      <4>3. k \notin DOMAIN entries'
        BY <1>1, <3>2
      <4> QED
        BY <2>1, <4>2, <4>3 DEF KeyInv, Counts, Begins, From, Before, Renewed
    <3> QED
      BY <3>1, <3>2
  <2> QED
    BY <2>1, <2>2, <2>3, <2>4 DEF Timed, Numbered, Limited, Within
<1>5. GlobalInv'
  <2>1. PICK A, attempt : A = admissions["all"] /\ A = admissions'["all"] /\ attempt = global /\ attempt = global'
    BY <1>1
  <2>2. /\ Timed(A) /\ Numbered(A) /\ Limited(A, GlobalLimit + GlobalLimit)
        /\ attempt \in Limiter!Attempt /\ Counts(A, attempt, GlobalLimit, GlobalLimit)
    BY <2>1 DEF LimiterInv, GlobalInv
  <2>3. Timed(A)' /\ Counts(A, attempt, GlobalLimit, GlobalLimit)'
    BY <1>1, <1>3, <2>2, TickKeeps
  <2> QED
    BY <2>1, <2>2, <2>3 DEF GlobalInv, Timed, Numbered, Limited, Within, Limiter!Attempt,
       Counts, Begins, From, Before
<1> QED
  BY <1>1, <1>2, <1>4, <1>5 DEF LimiterInv

LEMMA InitLimits ==
  ASSUME LimiterAssumption, Limiter!Init
  PROVE  LimiterInv
<1>1. /\ loginClock = 0 /\ loginClock \in 0 .. MaxLoginTime /\ 0 \in 0 .. MaxLoginTime + Window
      /\ MaxClients \in Nat
  BY DEF Limiter!Init, LimiterAssumption
<1>2. IsFiniteSet({}) /\ Cardinality({}) = 0
  BY FS_EmptySet
<1>3. DOMAIN entries = {} /\ entries = [k \in DOMAIN entries |-> entries[k]]
  BY DEF Limiter!Init
<1>4. LoginTypes
  <2>1. EntryTypes
    BY <1>1, <1>2, <1>3 DEF EntryTypes, Limiter!Init
  <2>2. /\ DOMAIN sender = Logins
        /\ \A l \in Logins : sender[l].fingerprint \in Fingerprints \cup {NoFingerprint}
    BY DEF Limiter!Init
  <2>3. stage \in [Logins -> {"idle", "admitted", "checked", "hashing"}]
    BY DEF Limiter!Init
  <2> QED
    BY <1>1, <2>1, <2>2, <2>3 DEF LoginTypes
<1>5. WorkInv
  <2>1. Working = {} /\ Hashing = {}
    BY DEF Working, Hashing, Limiter!Init
  <2>2. inFlight = 0 /\ hashing = 0 /\ MaxLogins \in Nat
    BY DEF Limiter!Init, LimiterAssumption
  <2> QED
    BY <1>2, <2>1, <2>2 DEF WorkInv
<1>6. /\ DOMAIN admissions = Limiter!Keys \cup {"all"}
      /\ \A k \in Limiter!Keys \cup {"all"} : admissions[k] = {}
  BY DEF Limiter!Init
<1>7. /\ Timed({}) /\ Numbered({})
      /\ \A t : From({}, t) = {} /\ Before({}, t) = {} /\ Within({}, t) = {}
  BY <1>2 DEF Timed, Numbered, From, Before, Within
<1>8. ASSUME NEW bound \in Nat PROVE Limited({}, bound)
  BY <1>2, <1>7 DEF Limited
<1>9. ASSUME NEW limit \in Nat, NEW carry \in Nat
      PROVE  Counts({}, Renewed, limit, carry) /\ Counts({}, Limiter!Fresh, limit, carry)
  <2>1. /\ Renewed \in [attempts : Nat, expiresAt : Nat]
        /\ Limiter!Fresh \in [attempts : Nat, expiresAt : Nat]
        /\ Renewed.attempts = 0 /\ Limiter!Fresh.attempts = 0
    BY <1>1 DEF Renewed, Limiter!Fresh, LimiterAssumption
  <2>2. Begins(Renewed) <= loginClock /\ Begins(Limiter!Fresh) <= loginClock
    BY <1>1 DEF Renewed, Limiter!Fresh, LimiterAssumption, Begins
  <2> QED
    BY <1>2, <1>7, <2>1, <2>2 DEF Counts
<1>10. /\ PeerLimit \in Nat /\ PeerLimit - 1 \in Nat /\ PeerLimit + (PeerLimit - 1) \in Nat
       /\ GlobalLimit \in Nat /\ GlobalLimit + GlobalLimit \in Nat
  BY DEF LimiterAssumption
<1>11. BudgetsInv
  BY <1>3, <1>6, <1>7, <1>8, <1>9, <1>10 DEF BudgetsInv, KeyInv
<1>12. GlobalInv
  <2>1. global = Limiter!Fresh /\ Limiter!Fresh \in Limiter!Attempt
    BY <1>1, <1>10 DEF Limiter!Init, Limiter!Fresh, Limiter!Attempt
  <2> QED
    BY <1>6, <1>7, <1>8, <1>9, <1>10, <2>1 DEF GlobalInv
<1> QED
  BY <1>4, <1>5, <1>6, <1>11, <1>12 DEF LimiterInv

\* The windows count what they let through, whatever is dropped, renewed or refused.
THEOREM LimiterCounts == ASSUME LimiterAssumption PROVE Limiter!Spec => []LimiterInv
<1>1. Limiter!Init => LimiterInv
  BY InitLimits
<1>2. ASSUME LimiterInv, [Limiter!Next]_(Limiter!vars) PROVE LimiterInv'
  <2>1. CASE Limiter!Next
    <3>1. ASSUME NEW l \in Logins, NEW p \in Peers, NEW f \in Fingerprints \cup {NoFingerprint},
                 Limiter!Begin(l, p, f)
          PROVE  LimiterInv'
      BY <1>2, <3>1, NextBegins
    <3>2. ASSUME NEW l \in Logins, Limiter!CheckFingerprint(l) PROVE LimiterInv'
      BY <1>2, <3>2, NextFingerprint
    <3>3. ASSUME NEW l \in Logins,
                 Limiter!Reject(l) \/ Limiter!Verify(l) \/ Limiter!Finish(l) PROVE LimiterInv'
      BY <1>2, <3>3, NextSlots
    <3>4. ASSUME Limiter!Hash PROVE LimiterInv'
      BY <1>2, <3>4, NextHash
    <3>5. ASSUME Limiter!Tick PROVE LimiterInv'
      BY <1>2, <3>5, NextTick
    <3> QED
      BY <2>1, <3>1, <3>2, <3>3, <3>4, <3>5 DEF Limiter!Next
  <2>2. CASE UNCHANGED Limiter!vars
    <3>1. UNCHANGED <<loginClock, entries, global, inFlight, nextCleanup, stage, sender, hashing, admissions>>
      BY <2>2 DEF Limiter!vars, Limiter!limiterVars
    <3>2. BudgetsInv' /\ GlobalInv'
      BY <1>2, <3>1, WindowsKept
    <3> QED
      BY <1>2, <3>1, <3>2 DEF LimiterInv, LoginTypes, EntryTypes, WorkInv, Working, Hashing
  <2> QED
    BY <1>2, <2>1, <2>2
<1> QED
  BY <1>1, <1>2, PTL DEF Limiter!Spec

THEOREM LimiterTypes == ASSUME LimiterAssumption PROVE Limiter!Spec => []Limiter!TypeOK
<1>1. LimiterInv => Limiter!TypeOK
  <2> SUFFICES ASSUME LimiterInv PROVE Limiter!TypeOK
    OBVIOUS
  <2>1. PICK known : known = DOMAIN entries
    OBVIOUS
  <2>2. known \in SUBSET Limiter!Keys /\ Cardinality(known) <= MaxClients
    BY <2>1 DEF LimiterInv, LoginTypes, EntryTypes
  <2>3. \A k \in known : entries[k] \in Limiter!Attempt
    BY <2>1, <2>2 DEF LimiterInv, BudgetsInv, KeyInv
  <2>4. entries \in [known -> Limiter!Attempt]
    BY <2>1, <2>3 DEF LimiterInv, LoginTypes, EntryTypes
  <2>5. inFlight = Cardinality({l \in Logins : stage[l] # "idle"}) /\ inFlight <= MaxLogins
    BY DEF LimiterInv, WorkInv, Working
  <2>6. hashing + Cardinality({l \in Logins : stage[l] = "hashing"}) \in 0 .. MaxLogins
    <3>1. Hashing \in SUBSET Logins
      BY DEF Hashing
    <3>2. IsFiniteSet(Hashing)
      BY <3>1, FS_Subset DEF LimiterAssumption
    <3>3. Cardinality(Hashing) \in Nat /\ MaxLogins \in Nat
      BY <3>2, FS_CardinalityType DEF LimiterAssumption
    <3>4. hashing + Cardinality(Hashing) \in 0 .. MaxLogins
      BY <3>3 DEF LimiterInv, WorkInv
    <3> QED
      BY <3>4 DEF Hashing
  <2> QED
    BY <2>2, <2>4, <2>5, <2>6, LimiterCardinality DEF Limiter!TypeOK, LimiterInv, LoginTypes,
       EntryTypes, GlobalInv
<1> QED
  BY <1>1, LimiterCounts, PTL

THEOREM LimiterLimits == ASSUME LimiterAssumption PROVE Limiter!Spec => []Limiter!AttemptsAreLimited
<1>1. LimiterInv => Limiter!AttemptsAreLimited
  <2> SUFFICES ASSUME LimiterInv, NEW k \in Limiter!Keys \cup {"all"}, NEW t \in 0 .. MaxLoginTime
               PROVE  Cardinality(Within(admissions[k], t))
                        <= (IF k = "all" THEN 2 * GlobalLimit ELSE 2 * PeerLimit - 1)
    BY LimiterCardinality DEF Limiter!AttemptsAreLimited, Within
  <2>1. t \in Int
    BY DEF LimiterAssumption
  <2>2. CASE k = "all"
    <3>1. Cardinality(Within(admissions[k], t)) <= GlobalLimit + GlobalLimit
      BY <2>1, <2>2 DEF LimiterInv, GlobalInv, Limited
    <3>2. GlobalLimit + GlobalLimit = 2 * GlobalLimit
      BY DEF LimiterAssumption
    <3> QED
      BY <2>2, <3>1, <3>2
  <2>3. CASE k # "all"
    <3>1. Cardinality(Within(admissions[k], t)) <= PeerLimit + (PeerLimit - 1)
      BY <2>1, <2>3 DEF LimiterInv, BudgetsInv, Limited
    <3>2. PeerLimit + (PeerLimit - 1) = 2 * PeerLimit - 1
      BY DEF LimiterAssumption
    <3> QED
      BY <2>3, <3>1, <3>2
  <2> QED
    BY <2>2, <2>3
<1> QED
  BY <1>1, LimiterCounts, PTL

-----------------------------------------------------------------------------
(* The parts as they run together: each is a step of its own or stutters *)

LEMMA RequestsHaveKeys == Spec => KeyParts!Spec
<1>1. Init => KeyParts!Init
  BY DEF Init
<1>2. [Next]_<<part, sourceVars, keyVars, nodeVars, renderVars, settingsVars, limiterVars, eventsVars, feedVars>>
        => [KeyParts!Next]_(KeyParts!vars)
  BY DEF Next, keyVars, KeyParts!vars, KeyParts!keyVars
<1> QED
  BY <1>1, <1>2, PTL DEF Spec, KeyParts!Spec

LEMMA RequestsHaveFeed == Spec => Feed!Spec
<1>1. Init => Feed!Init
  BY DEF Init
<1>2. [Next]_<<part, sourceVars, keyVars, nodeVars, renderVars, settingsVars, limiterVars, eventsVars, feedVars>>
        => [Feed!Next]_(Feed!feedVars)
  BY DEF Next, feedVars, Feed!feedVars
<1> QED
  BY <1>1, <1>2, PTL DEF Spec, Feed!Spec

LEMMA RequestsHaveSources == Spec => SourceParts!Spec
<1>1. Init => SourceParts!Init
  BY DEF Init
<1>2. [Next]_<<part, sourceVars, keyVars, nodeVars, renderVars, settingsVars, limiterVars, eventsVars, feedVars>>
        => [SourceParts!Next]_(SourceParts!vars)
  BY DEF Next, sourceVars, SourceParts!vars, SourceParts!sourceVars
<1> QED
  BY <1>1, <1>2, PTL DEF Spec, SourceParts!Spec

LEMMA RequestsHaveLimiter == Spec => Limiter!Spec
<1>1. Init => Limiter!Init
  BY DEF Init
<1>2. [Next]_<<part, sourceVars, keyVars, nodeVars, renderVars, settingsVars, limiterVars, eventsVars, feedVars>>
        => [Limiter!Next]_(Limiter!vars)
  BY DEF Next, limiterVars, Limiter!vars, Limiter!limiterVars
<1> QED
  BY <1>1, <1>2, PTL DEF Spec, Limiter!Spec

LEMMA RequestsHaveSettings == Spec => SharedFile!Spec
<1>1. Init => SharedFile!Init
  BY DEF Init
<1>2. [Next]_<<part, sourceVars, keyVars, nodeVars, renderVars, settingsVars, limiterVars, eventsVars, feedVars>>
        => [SharedFile!Next]_(SharedFile!vars)
  BY DEF Next, settingsVars, SharedFile!vars, SharedFile!databaseVars, SharedFile!actorVars,
         SharedFile!historyVars
<1> QED
  BY <1>1, <1>2, PTL DEF Spec, SharedFile!Spec

(***************************************************************************)
(* The keys of the panel at any time: their types, and that all tokens of  *)
(* a lineage share one quota (RecordSubscriptionTokenUse).                 *)
(***************************************************************************)
THEOREM QuotasHold == Spec => []QuotaIsShared
<1>1. KeysAssumption
  BY ConstantsAssumption DEF KeysAssumption
<1>2. KeyParts!Spec => []KeyParts!QuotaIsShared /\ []KeyBounds
  BY <1>1, QuotaIsAlwaysShared, KeysAreBounded
<1>3. KeyBounds /\ KeyParts!QuotaIsShared => QuotaIsShared
  BY DEF KeyBounds, QuotaIsShared
<1> QED
  BY <1>2, <1>3, RequestsHaveKeys, PTL

(***************************************************************************)
(* No download is counted for a token that has stopped to be good          *)
(* (RecordSubscriptionTokenUse).                                           *)
(***************************************************************************)
THEOREM DownloadsAreChecked == Spec => OnlyGoodTokensAreServed
<1>1. KeysAssumption
  BY ConstantsAssumption DEF KeysAssumption
<1> QED
  BY <1>1, GoodTokensAreServed, RequestsHaveKeys DEF OnlyGoodTokensAreServed

(***************************************************************************)
(* Dashboards see newer and newer snapshots (snapshotFeed.run, subscribe). *)
(***************************************************************************)
THEOREM DashboardsNeverGoBack == Spec => SnapshotsNeverGoBack
<1>1. Interval \in Nat /\ MaxGenerations \in Nat /\ MaxVersion \in Nat \ {0} /\ MaxFeedTime \in Nat
  BY ConstantsAssumption
<1>2. Feed!Spec => []FeedBounds /\ Feed!SnapshotsNeverGoBack
  BY <1>1, FeedIsBounded, FeedNeverGoesBack
<1>3. FeedBounds => (part = "feed" => Feed!TypeOK)
  BY DEF FeedBounds
<1>4. []FeedBounds => [](part = "feed" => Feed!TypeOK)
  BY <1>3, PTL
<1> QED
  BY <1>2, <1>4, RequestsHaveFeed DEF SnapshotsNeverGoBack

(***************************************************************************)
(* Every session on record belongs to the current credentials, or to some  *)
(* that an edit replaced (commitSettingsFile, ReconcileAuthSessions).      *)
(***************************************************************************)
THEOREM SessionsHold == Spec => []SessionsAreCurrent
<1>1. SettingsAssumption
  BY ConstantsAssumption DEF SettingsAssumption
<1>2. SharedFile!Spec => []SettingsInv
  BY <1>1, SettingsInvariant
<1>3. SettingsInv => SessionsAreCurrent
  BY DEF SettingsInv, SessionsAreCurrent, SharedFile!TypeOK, StoreTypes, ActorTypes, CallType,
     AnswerType
<1> QED
  BY <1>2, <1>3, RequestsHaveSettings, PTL

(***************************************************************************)
(* The settings are one document: file, journal and mark implement it      *)
(* (commitSettingsFile, recoverSettingsFile).                              *)
(***************************************************************************)
THEOREM SettingsImplementOneDocument == Spec => ImplementsSharedSettings
<1>1. SettingsAssumption
  BY ConstantsAssumption DEF SettingsAssumption
<1>2. SharedFile!Spec => Shared!Init /\ [][Shared!Next]_(Shared!vars)
  BY <1>1, SettingsAreShared DEF Shared!Spec
<1>3. [Shared!Next]_(Shared!vars) => [part = "settings" => [Shared!Next]_(Shared!vars)]_settingsVars
  OBVIOUS
<1>4. [][Shared!Next]_(Shared!vars) => [][part = "settings" => [Shared!Next]_(Shared!vars)]_settingsVars
  BY <1>3, PTL
<1> QED
  BY <1>2, <1>4, RequestsHaveSettings DEF ImplementsSharedSettings

(***************************************************************************)
(* A call that reports success tells the truth (SavePanelSettings, Login). *)
(***************************************************************************)
THEOREM AnswersAreKept == Spec => AnswersAreTrue
<1>1. SettingsAssumption
  BY ConstantsAssumption DEF SettingsAssumption
<1> QED
  BY <1>1, AnswersHold, RequestsHaveSettings DEF AnswersAreTrue

(***************************************************************************)
(* The schedule of refreshes is that of the sources as they are, whatever  *)
(* is edited, fetched or restored at the same time                         *)
(* (saveSubscriptionRefreshScheduleTx, scheduleNextSubscriptionSourceRefresh). *)
(***************************************************************************)
THEOREM SchedulesHold == Spec => []ScheduleMatchesSources
<1>1. SourcesAssumption
  BY ConstantsAssumption DEF SourcesAssumption
<1>2. SourceParts!Spec => []SourceParts!TypeOK /\ []SourceParts!ScheduleMatchesSources
  BY <1>1, SourcesHaveTypes, ScheduleMatches
<1>3. SourceParts!TypeOK /\ SourceParts!ScheduleMatchesSources => ScheduleMatchesSources
  BY DEF ScheduleMatchesSources
<1> QED
  BY <1>2, <1>3, RequestsHaveSources, PTL

(***************************************************************************)
(* The enabled sources and channels stay within one budget                 *)
(* (ensureSubscriptionSourceLimits, ensureSubscriptionChannelLimits).      *)
(***************************************************************************)
THEOREM InputsHold == Spec => []InputsAreBounded
<1>1. SourcesAssumption
  BY ConstantsAssumption DEF SourcesAssumption
<1>2. SourceParts!Spec => []SourceParts!InputsAreBounded
  BY <1>1, InputsStayBounded
<1>3. SourceParts!InputsAreBounded => InputsAreBounded
  BY DEF InputsAreBounded
<1> QED
  BY <1>2, <1>3, RequestsHaveSources, PTL

(***************************************************************************)
(* A refresh that was overtaken by an update of its source saves nothing   *)
(* (SaveSubscriptionSourceVersion).                                        *)
(***************************************************************************)
THEOREM RefreshesHold == Spec => RefreshesMatchTheirSource
<1>1. SourcesAssumption
  BY ConstantsAssumption DEF SourcesAssumption
<1> QED
  BY <1>1, SavesMatch, RequestsHaveSources DEF RefreshesMatchTheirSource

(***************************************************************************)
(* No time of one window's length lets through two whole budgets of a peer *)
(* or a fingerprint, or more than two of the process, however the table is *)
(* cleaned up, full or refuses (loginLimiter.consumeLocked, begin).        *)
(***************************************************************************)
THEOREM LimitsHold == Spec => []AttemptsAreLimited
<1>1. LimiterAssumption
  BY ConstantsAssumption DEF LimiterAssumption, Limiter!Keys
<1>2. Limiter!Spec => []Limiter!TypeOK /\ []Limiter!AttemptsAreLimited
  BY <1>1, LimiterTypes, LimiterLimits
<1>3. Limiter!TypeOK /\ Limiter!AttemptsAreLimited => AttemptsAreLimited
  BY DEF AttemptsAreLimited
<1> QED
  BY <1>2, <1>3, RequestsHaveLimiter, PTL
=============================================================================
