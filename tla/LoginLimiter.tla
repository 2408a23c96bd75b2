---------------------------- MODULE LoginLimiter ----------------------------
(***************************************************************************)
(* The budget of login attempts: internal/httpapi/login_limiter.go, the    *)
(* handler login of auth_routes.go and the slots of auth/password.go.      *)
(*                                                                         *)
(* A login spends an attempt of its peer and of the process, holds a work  *)
(* slot until it returns, then spends an attempt of its fingerprint.       *)
(* Budgets are fixed windows that begin with their first attempt.          *)
(***************************************************************************)
EXTENDS Integers, FiniteSets

CONSTANTS
  Peers, Fingerprints, NoFingerprint,
  Logins,        \* login requests that the server handles at the same time
  PeerLimit,     \* loginAttemptLimit
  GlobalLimit,   \* loginGlobalLimit
  Window,        \* loginAttemptWindow, in ticks
  MaxLogins,     \* maxConcurrentLogins and the capacity of passwordSlots
  MaxClients,    \* maxLoginClients
  MaxTime        \* bound: ticks

VARIABLES
  now,
  entries,       \* attempts and expiry of every known key
  global,        \* the process-wide window
  inFlight,      \* work slots in use
  nextCleanup,   \* no expired entry is dropped earlier
  stage,         \* per login: the step of the handler
  sender,        \* per login: its peer and fingerprint
  hashing,       \* passwordSlots in use by the settings form
  admissions     \* history: per key the attempts that were let through, each with its tick

limiterVars == <<entries, global, inFlight, nextCleanup>>
vars == <<now, limiterVars, stage, sender, hashing, admissions>>

Keys == Peers \cup Fingerprints
Attempt == [attempts : 0 .. GlobalLimit, expiresAt : 0 .. MaxTime + Window]
Fresh == [attempts |-> 0, expiresAt |-> 0]   \* the zero loginAttempt

TypeOK ==
  /\ now \in 0 .. MaxTime
  /\ \E known \in SUBSET Keys : entries \in [known -> Attempt] /\ Cardinality(known) <= MaxClients
  /\ global \in Attempt /\ nextCleanup \in 0 .. MaxTime + Window
  /\ inFlight = Cardinality({l \in Logins : stage[l] # "idle"}) /\ inFlight <= MaxLogins
  /\ stage \in [Logins -> {"idle", "admitted", "checked", "hashing"}]
  /\ hashing + Cardinality({l \in Logins : stage[l] = "hashing"}) \in 0 .. MaxLogins

Init ==
  /\ now = 0 /\ entries = [k \in {} |-> Fresh] /\ global = Fresh
  /\ inFlight = 0 /\ nextCleanup = 0 /\ hashing = 0
  /\ stage = [l \in Logins |-> "idle"]
  /\ sender = [l \in Logins |-> [peer |-> CHOOSE p \in Peers : TRUE, fingerprint |-> NoFingerprint]]
  /\ admissions = [k \in Keys \cup {"all"} |-> {}]

-----------------------------------------------------------------------------

\* Mutant: a cleanup drops every entry that the next one would find expired.
KeptEagerly(known) == {k \in DOMAIN known : known[k].expiresAt > now + Window - 1}

\* The entries that a cleanup keeps.
Kept(known) == {k \in DOMAIN known : known[k].expiresAt > now}

\* The entries after the cleanup that is due, if one is.
Swept == IF nextCleanup > now THEN entries ELSE [k \in Kept(entries) |-> entries[k]]

Current(attempt) == IF attempt.expiresAt > now THEN attempt
                    ELSE [attempts |-> 0, expiresAt |-> now + Window]

\* consumeLocked: the table is full, the key's budget is spent, or one is taken.
Allowed(key) ==
  IF key \in DOMAIN Swept THEN Current(Swept[key]).attempts < PeerLimit
                          ELSE Cardinality(DOMAIN Swept) < MaxClients

Consume(key) ==
  LET attempt == IF key \in DOMAIN Swept THEN Current(Swept[key]) ELSE Current(Fresh)
  IN /\ nextCleanup' = IF nextCleanup > now THEN nextCleanup ELSE now + Window
     /\ entries' = IF Allowed(key)
                     THEN [k \in DOMAIN Swept \cup {key} |->
                            IF k = key THEN [attempt EXCEPT !.attempts = @ + 1] ELSE Swept[k]]
                     ELSE Swept

Admit(keys) ==
  admissions' = [k \in DOMAIN admissions |->
                  IF k \in keys THEN admissions[k] \cup {<<now, Cardinality(admissions[k])>>}
                                ELSE admissions[k]]

\* begin: the process's window, a work slot, then the peer's budget; whoever is
\* refused by the last of them has spent nothing of the first.
Begin(l, peer, fingerprint) ==
  /\ stage[l] = "idle"
  /\ sender' = [sender EXCEPT ![l] = [peer |-> peer, fingerprint |-> fingerprint]]
  /\ IF Current(global).attempts >= GlobalLimit \/ inFlight >= MaxLogins
       THEN /\ global' = Current(global)
            /\ UNCHANGED <<entries, nextCleanup, inFlight, stage, admissions>>
     ELSE /\ Consume(peer)
          /\ IF Allowed(peer)
               THEN /\ global' = [Current(global) EXCEPT !.attempts = @ + 1]
                    /\ inFlight' = inFlight + 1 /\ stage' = [stage EXCEPT ![l] = "admitted"]
                    /\ Admit({peer, "all"})
               ELSE global' = Current(global) /\ UNCHANGED <<inFlight, stage, admissions>>
  /\ UNCHANGED <<now, hashing>>

\* The deferred finish.
Leave(l) == stage' = [stage EXCEPT ![l] = "idle"] /\ inFlight' = inFlight - 1

\* The fingerprint's budget, after the header was found valid.
CheckFingerprint(l) ==
  /\ stage[l] = "admitted"
  /\ LET key == sender[l].fingerprint
     IN IF key = NoFingerprint
          THEN stage' = [stage EXCEPT ![l] = "checked"]
               /\ UNCHANGED <<entries, nextCleanup, inFlight, admissions>>
        ELSE /\ Consume(key)
             /\ IF Allowed(key)
                  THEN stage' = [stage EXCEPT ![l] = "checked"] /\ Admit({key}) /\ UNCHANGED inFlight
                  ELSE Leave(l) /\ UNCHANGED admissions
  /\ UNCHANGED <<now, global, sender, hashing>>

\* A malformed request, a missed deadline or an unavailable service.
Reject(l) ==
  /\ stage[l] \in {"admitted", "checked"} /\ Leave(l)
  /\ UNCHANGED <<now, entries, global, nextCleanup, sender, hashing, admissions>>

\* VerifyPassword takes a slot or is busy: the settings form hashes passwords too.
Verify(l) ==
  /\ stage[l] = "checked"
  /\ IF hashing + Cardinality({m \in Logins : stage[m] = "hashing"}) < MaxLogins
       THEN stage' = [stage EXCEPT ![l] = "hashing"] /\ UNCHANGED inFlight
       ELSE Leave(l)
  /\ UNCHANGED <<now, entries, global, nextCleanup, sender, hashing, admissions>>

Finish(l) ==
  /\ stage[l] = "hashing" /\ Leave(l)
  /\ UNCHANGED <<now, entries, global, nextCleanup, sender, hashing, admissions>>

\* HashPassword for a new password of the settings.
Hash ==
  /\ \/ /\ hashing + Cardinality({l \in Logins : stage[l] = "hashing"}) < MaxLogins
        /\ hashing = 0 /\ hashing' = 1
     \/ hashing = 1 /\ hashing' = 0
  /\ UNCHANGED <<now, limiterVars, stage, sender, admissions>>

Tick ==
  /\ now < MaxTime /\ now' = now + 1
  /\ UNCHANGED <<limiterVars, stage, sender, hashing, admissions>>

Next ==
  \/ \E l \in Logins :
       \/ \E p \in Peers, f \in Fingerprints \cup {NoFingerprint} : Begin(l, p, f)
       \/ CheckFingerprint(l) \/ Reject(l) \/ Verify(l) \/ Finish(l)
  \/ Hash \/ Tick

Spec == Init /\ [][Next]_vars

-----------------------------------------------------------------------------
(* Properties *)

\* Whatever is dropped, cleaned up or refused when the table is full, no time of
\* one window's length lets through two whole budgets of a peer or fingerprint,
\* whose window begins with an attempt, or more than two of the process, whose
\* window may begin with a refusal.
AttemptsAreLimited ==
  \A k \in Keys \cup {"all"}, t \in 0 .. MaxTime :
    Cardinality({a \in admissions[k] : a[1] \in t .. t + Window - 1})
      <= (IF k = "all" THEN 2 * GlobalLimit ELSE 2 * PeerLimit - 1)
=============================================================================
