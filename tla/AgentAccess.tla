---------------------------- MODULE AgentAccess -----------------------------
(***************************************************************************)
(* The API keys of one account and the agents that use them                *)
(* (services/auth_service.py, agent_service.py): keys are created under a  *)
(* Redis lock, revoked and expired without one, and every request that     *)
(* names an agent updates the agent's registration under a lock of its own.*)
(*                                                                         *)
(* A registration refers to its latest key by name, and names are used     *)
(* again once a key is gone.  The model is one day.  Locks live ten        *)
(* seconds: a lapse takes one from a holder that is still at work.         *)
(***************************************************************************)
EXTENDS Integers, Sequences, FiniteSets, UnitOfWork

CONSTANTS
  Names,         \* names of keys
  Agents,        \* values of the Agent-Name header
  Requests,      \* request threads
  MaxActive,     \* MAX_ACTIVE_AGENT_TOKENS_PER_USER
  MaxDaily,      \* MAX_DAILY_AGENT_TOKEN_CREATIONS
  MaxServed,     \* bound on the requests of one agent
  MaxLapses      \* bound on the locks that expire while they are held

Nobody == "nobody"
NoName == "none"
NoCall == [op |-> "none"]
Locks == Agents \cup {"keys"}

ASSUME AccessConstants ==
  /\ MaxActive \in Nat /\ MaxDaily \in Nat /\ MaxServed \in Nat /\ MaxLapses \in Nat
  /\ NoName \notin Names /\ Nobody \notin Requests /\ "keys" \notin Agents

VARIABLES
  tokens,        \* rows of AgentAccessToken: [name, revoked]
  expired,       \* ids of the keys whose time is over
  registration,  \* agent -> row of AgentRegistration; count 0: no row
  call,          \* request -> what its handler is about to do
  lock,          \* lock -> request that holds it
  lapses,
  served,        \* agent -> requests that were counted, with the key they used
  overlapped     \* two requests have been under way at the same time

vars == <<tokens, expired, registration, call, lock, lapses, served, overlapped>>

TypeOK ==
  /\ tokens \in Seq([name : Names, revoked : BOOLEAN])
  /\ expired \subseteq DOMAIN tokens
  /\ registration \in [Agents -> [count : Nat, active : BOOLEAN, key : Names \cup {NoName}]]
  /\ lock \in [Locks -> Requests \cup {Nobody}]
  /\ served \in [Agents -> Seq(DOMAIN tokens)]

Init ==
  /\ tokens = <<>> /\ expired = {}
  /\ registration = [a \in Agents |-> [count |-> 0, active |-> FALSE, key |-> NoName]]
  /\ call = [r \in Requests |-> NoCall]
  /\ lock = [l \in Locks |-> Nobody] /\ lapses = 0
  /\ served = [a \in Agents |-> <<>>]
  /\ overlapped = FALSE

Doing(r, op) == call[r].op = op
Go(r, c) == call' = [call EXCEPT ![r] = c]
Return(r) == Go(r, NoCall)
Begin(r, c) ==
  /\ call[r] = NoCall
  /\ Go(r, c)
  /\ overlapped' = (overlapped \/ \E q \in Requests \ {r} : call[q] # NoCall)

\* release() leaves a lock alone that has passed to somebody else.
Release(r, l) == lock' = [lock EXCEPT ![l] = IF @ = r THEN Nobody ELSE @]
Acquire(r, l) == lock[l] = Nobody /\ lock' = [lock EXCEPT ![l] = r]

\* _is_agent_token_active, as of the time when the keys in dead had expired
Active(dead) == {t \in DOMAIN tokens : ~tokens[t].revoked /\ t \notin dead}
NamesOf(ts) == {tokens[t].name : t \in ts}

dataVars == <<tokens, expired, registration, served>>

-----------------------------------------------------------------------------
(***************************************************************************)
(* Revocation: _revoke_agent_token_row marks the row and takes it from the *)
(* registrations that name it as their latest key; both commit together.   *)
(***************************************************************************)
\* Mutant: a registration keeps the name of its revoked key.
UnlinkedOnlyStatus(ts) ==
  [a \in {b \in Agents : registration[b].key \in NamesOf(ts)} |->
     Changed(registration[a], [registration[a] EXCEPT !.active = FALSE])]

\* The columns that change in the registrations of the keys ts.
Unlinked(ts) ==
  [a \in {b \in Agents : registration[b].key \in NamesOf(ts)} |->
     Changed(registration[a], [registration[a] EXCEPT !.active = FALSE, !.key = NoName])]

CommitRevoked(r, ts, changed) ==
  /\ tokens' = [t \in DOMAIN tokens |->
                  IF t \in ts THEN [tokens[t] EXCEPT !.revoked = TRUE] ELSE tokens[t]]
  /\ registration' = [a \in Agents |->
                        IF a \in DOMAIN changed THEN Written(registration[a], changed[a])
                                                ELSE registration[a]]

\* revoke_agent_token reads the key ...
StartRevoke(r, t) ==
  /\ ~tokens[t].revoked
  /\ Begin(r, [op |-> "unlink", keys |-> {t}])
  /\ UNCHANGED <<dataVars, lock, lapses>>

\* ... then the registrations, ...
LoadLinks(r) ==
  /\ Doing(r, "unlink")
  /\ Go(r, [op |-> "revoke", keys |-> call[r].keys, changed |-> Unlinked(call[r].keys)])
  /\ UNCHANGED <<dataVars, lock, lapses, overlapped>>

\* ... and commits.
CommitRevoke(r) ==
  /\ Doing(r, "revoke")
  /\ CommitRevoked(r, call[r].keys, call[r].changed)
  /\ Return(r)
  /\ UNCHANGED <<expired, served, lock, lapses, overlapped>>

\* list_agent_tokens begins with _sync_expired_agent_tokens_for_user.
ListTokens(r) ==
  LET old == expired \cap Active({})
  IN /\ old # {}
     /\ Begin(r, [op |-> "unlink", keys |-> old])
     /\ UNCHANGED <<dataVars, lock, lapses>>

-----------------------------------------------------------------------------
(***************************************************************************)
(* _create_agent_access_token: the time is taken before the lock.          *)
(***************************************************************************)
StartCreate(r, n) ==
  /\ Begin(r, [op |-> "create", name |-> n, dead |-> expired])
  /\ UNCHANGED <<dataVars, lock, lapses>>

\* Mutant: nothing is locked.
EnterUnlocked(r) ==
  LET old == call[r].dead \cap Active({})
  IN /\ Doing(r, "create")
     /\ Go(r, [op |-> "sync", create |-> call[r], keys |-> old, changed |-> Unlinked(old)])
     /\ UNCHANGED <<dataVars, lock, lapses, overlapped>>

EnterCreate(r) ==
  LET old == call[r].dead \cap Active({})
  IN /\ Doing(r, "create")
     /\ Acquire(r, "keys")
     /\ Go(r, [op |-> "sync", create |-> call[r], keys |-> old, changed |-> Unlinked(old)])
     /\ UNCHANGED <<dataVars, lapses, overlapped>>

CommitSync(r) ==
  /\ Doing(r, "sync")
  /\ CommitRevoked(r, call[r].keys, call[r].changed)
  /\ Go(r, [call[r].create EXCEPT !.op = "check"])
  /\ UNCHANGED <<expired, served, lock, lapses, overlapped>>

CheckCreate(r) ==
  LET active == Active(call[r].dead)
      allowed == /\ Cardinality(active) < MaxActive
                 /\ Len(tokens) < MaxDaily
                 /\ call[r].name \notin NamesOf(active)
  IN /\ Doing(r, "check")
     /\ IF allowed
        THEN Go(r, [call[r] EXCEPT !.op = "insert"]) /\ UNCHANGED lock
        ELSE Return(r) /\ Release(r, "keys")
     /\ UNCHANGED <<dataVars, lapses, overlapped>>

InsertKey(r) ==
  /\ Doing(r, "insert")
  /\ tokens' = Append(tokens, [name |-> call[r].name, revoked |-> FALSE])
  /\ Release(r, "keys")
  /\ Return(r)
  /\ UNCHANGED <<expired, registration, served, lapses, overlapped>>

-----------------------------------------------------------------------------
(***************************************************************************)
(* _authenticate_agent_access_token for a request that names an agent.  An *)
(* expired key is revoked on the spot.                                     *)
(***************************************************************************)
StartRequest(r, t, a) ==
  /\ ~tokens[t].revoked
  /\ Len(served[a]) < MaxServed
  /\ Begin(r, IF t \in expired THEN [op |-> "unlink", keys |-> {t}]
                               ELSE [op |-> "wait", token |-> t, agent |-> a])
  /\ UNCHANGED <<dataVars, lock, lapses>>

Counted(a, t) ==
  [count |-> registration[a].count + 1, active |-> TRUE, key |-> tokens[t].name]

\* Mutant: the registration is read before the lock is held.
LoadUnlocked(r) ==
  LET a == call[r].agent
  IN /\ Doing(r, "wait")
     /\ Go(r, [op |-> "count", agent |-> a, token |-> call[r].token,
               new |-> registration[a].count = 0,
               changed |-> Changed(registration[a], Counted(a, call[r].token))])
     /\ UNCHANGED <<dataVars, lock, lapses, overlapped>>

\* _ensure_agent_registration
LoadRegistration(r) ==
  LET a == call[r].agent
  IN /\ Doing(r, "wait")
     /\ Acquire(r, a)
     /\ Go(r, [op |-> "count", agent |-> a, token |-> call[r].token,
               new |-> registration[a].count = 0,
               changed |-> Changed(registration[a], Counted(a, call[r].token))])
     /\ UNCHANGED <<dataVars, lapses, overlapped>>

\* A second row of the same agent fails on the unique constraint.
CommitRegistration(r) ==
  LET a == call[r].agent
      duplicate == call[r].new /\ registration[a].count > 0
  IN /\ Doing(r, "count")
     /\ IF duplicate
        THEN UNCHANGED <<registration, served>>
        ELSE /\ registration' =
                  [registration EXCEPT ![a] = Written(@, call[r].changed)]
             /\ served' = [served EXCEPT ![a] = Append(@, call[r].token)]
     /\ Release(r, a)
     /\ Return(r)
     /\ UNCHANGED <<tokens, expired, lapses, overlapped>>

-----------------------------------------------------------------------------
\* Any key may have an expiry; one that has none is one that does not expire.
Expire(t) ==
  /\ t \notin expired
  /\ expired' = expired \cup {t}
  /\ UNCHANGED <<tokens, registration, served, call, lock, lapses, overlapped>>

Lapse(l) ==
  /\ lock[l] # Nobody /\ lapses < MaxLapses
  /\ lock' = [lock EXCEPT ![l] = Nobody]
  /\ lapses' = lapses + 1
  /\ UNCHANGED <<dataVars, call, overlapped>>

\* An error or a wait for a lock that takes too long; the lock is released.
Fail(r) ==
  /\ call[r] # NoCall
  /\ lock' = [l \in Locks |-> IF lock[l] = r THEN Nobody ELSE lock[l]]
  /\ Return(r)
  /\ UNCHANGED <<dataVars, lapses, overlapped>>

Next ==
  \/ \E r \in Requests :
       \/ \E n \in Names : StartCreate(r, n)
       \/ \E t \in DOMAIN tokens : StartRevoke(r, t) \/ \E a \in Agents : StartRequest(r, t, a)
       \/ ListTokens(r)
       \/ LoadLinks(r) \/ CommitRevoke(r)
       \/ EnterCreate(r) \/ CommitSync(r) \/ CheckCreate(r) \/ InsertKey(r)
       \/ LoadRegistration(r) \/ CommitRegistration(r)
       \/ Fail(r)
  \/ \E t \in DOMAIN tokens : Expire(t)
  \/ \E l \in Locks : Lapse(l)

Spec == Init /\ [][Next]_vars

-----------------------------------------------------------------------------
\* However creations, revocations and expiries overlap, an account exceeds
\* its limits on usable keys and on keys per day by no more than the locks
\* that lapsed, and usable keys have different names unless one did.
KeysLimited ==
  LET usable == Active(expired)
  IN /\ Cardinality(usable) <= MaxActive + lapses
     /\ Len(tokens) <= MaxDaily + lapses
     /\ lapses = 0 => Cardinality(NamesOf(usable)) = Cardinality(usable)

\* The request count of an agent misses no request, unless a lock lapsed.
RequestsCounted ==
  lapses = 0 => \A a \in Agents : registration[a].count = Len(served[a])

\* _resolve_agent_registration_status, within a day of the last request
ReadsActive(a) == registration[a].key \in NamesOf(Active(expired))

\* Without overlapping requests, list_agent_registrations shows an agent as
\* active exactly as long as the key of its last request is usable: a new key
\* with the name of an old one does not bring back who used the old one.
RegistrationsFollowKeys ==
  ~overlapped =>
    \A a \in Agents :
      ReadsActive(a) <=> /\ served[a] # <<>>
                         /\ served[a][Len(served[a])] \in Active(expired)
=============================================================================
