---------------------------- MODULE OlienSessions ----------------------------
(***************************************************************************)
(* Sessions: a signed challenge opens one, its two tokens are exchanged    *)
(* together, and signing out revokes it.                                   *)
(*                                                                         *)
(* The service's transactions are modelled with the console's calls that   *)
(* cause them (lib/session.ts): the calls of all tabs share one storage,   *)
(* each may have to refresh before or after it asks, and answers get lost. *)
(* A transaction that rotates holds its row between its two statements.    *)
(* The two tokens of one grant are one number; hashes, profiles and the    *)
(* console's thirty seconds of margin are left out.                        *)
(***************************************************************************)
EXTENDS Integers, Sequences

CONSTANTS
  Callers,       \* calls the console makes at the same time
  ChallengeTTL, AccessTTL, RefreshTTL,
  MaxTime,       \* bound: the clock
  MaxNonces,     \* bound: challenges issued
  MaxBegun,      \* bound: calls made
  MaxFaults      \* bound: answers lost and transactions rolled back

VARIABLES
  now,           \* the clock
  challenges,    \* auth_challenges
  nonces,        \* challenges issued so far
  sessions,      \* account_sessions, in the order they were opened
  issued,        \* grants so far
  storage,       \* the console's storage: a grant, and when its access token expires
  call,          \* where each call is
  gave,          \* history: which challenge or grant was exchanged for which grant
  begun,         \* calls so far
  overlapped,    \* history: two calls were under way at once
  setAside,      \* history: the grants a sign-in overwrote in the storage
  faults         \* faults so far

database == <<challenges, nonces, sessions, issued, gave>>
console == <<storage, begun, overlapped, setAside>>
vars == <<now, database, console, call, faults>>

ASSUME SessionsAssumption ==
  /\ {ChallengeTTL, AccessTTL, RefreshTTL} \subseteq Nat \ {0}
  /\ {MaxTime, MaxNonces, MaxBegun, MaxFaults} \subseteq Nat

NoGrant == 0
Empty == [grant |-> NoGrant, until |-> 0]
Paths == {"login", "data", "logout"}
Idle == [at |-> "idle", path |-> "data", nonce |-> 0, grant |-> NoGrant, session |-> 0,
         since |-> 0, retried |-> FALSE]

Goes(c, place) == call' = [call EXCEPT ![c].at = place]

\* Whatever came of a call to sign out, the storage is cleared after it.
Ends(c) == call' = [call EXCEPT ![c] = IF @.path = "logout" THEN [Idle EXCEPT !.at = "clear"] ELSE Idle]

-----------------------------------------------------------------------------
(* Challenges and signing in *)

\* Expired ones go, a new one comes.
IssueChallenge ==
  /\ nonces < MaxNonces /\ nonces' = nonces + 1
  /\ challenges' = {ch \in challenges : ch.until >= now}
                     \cup {[nonce |-> nonces', until |-> now + ChallengeTTL, consumed |-> FALSE]}
  /\ UNCHANGED <<now, sessions, issued, gave, console, call, faults>>

Begins(c, what) ==
  /\ call[c] = Idle /\ begun < MaxBegun /\ begun' = begun + 1
  /\ call' = [call EXCEPT ![c] = what]
  /\ overlapped' = (overlapped \/ \E d \in Callers : call[d] # Idle)
  /\ UNCHANGED <<now, database, storage, setAside, faults>>

\* Signed out, or signed in: a person who changed wallets is asked to sign in with the new one.
BeginLogin(c) ==
  \E n \in 1..nonces : Begins(c, [Idle EXCEPT !.at = "login", !.path = "login", !.nonce = n])

\* Mutant: whether it was used is not asked.
Unexpired(ch) == ch.until > now

Valid(ch) == ~ch.consumed /\ ch.until > now

NewRow(since) == [grant |-> issued + 1, access |-> since + AccessTTL, refresh |-> since + RefreshTTL,
                  revoked |-> FALSE, locked |-> FALSE]

\* One grant more, in exchange for a challenge or for the grant before it.
Grants(c, since, from) ==
  /\ issued' = issued + 1
  /\ gave' = gave \cup {[from |-> from, grant |-> issued']}
  /\ call' = [call EXCEPT ![c].at = "granted", ![c].grant = issued', ![c].since = since]

\* One transaction: the challenge is consumed and the session inserted.
Login(c) ==
  /\ call[c].at = "login"
  /\ \E ch \in challenges :
       /\ ch.nonce = call[c].nonce /\ Valid(ch)
       /\ challenges' = (challenges \ {ch}) \cup {[ch EXCEPT !.consumed = TRUE]}
  /\ sessions' = Append(sessions, NewRow(now))
  /\ Grants(c, now, [kind |-> "challenge", of |-> call[c].nonce])
  /\ UNCHANGED <<now, nonces, console, faults>>

\* The challenge is not valid, or the signature is another's: nothing is left of either.
LoginRefused(c) ==
  /\ call[c].at = "login" /\ Ends(c)
  /\ UNCHANGED <<now, database, console, faults>>

-----------------------------------------------------------------------------
(* A call of the console: ask with the access token, or refresh *)

Begin(c, path) ==
  /\ storage # Empty
  /\ Begins(c, [Idle EXCEPT !.at = IF storage.until > now THEN "ask" ELSE "refresh",
                            !.path = path, !.grant = storage.grant])

Admits(grant) ==
  \E s \in DOMAIN sessions :
    sessions[s].grant = grant /\ ~sessions[s].revoked /\ sessions[s].access > now

Answer(c) ==
  /\ call[c].at = "ask" /\ call[c].path = "data" /\ Admits(call[c].grant)
  /\ Ends(c)
  /\ UNCHANGED <<now, database, console, faults>>

\* After a refusal there is one refresh, with what is stored by then.
TurnAway(c) ==
  /\ call[c].at = "ask"
  /\ IF call[c].path = "data" THEN ~Admits(call[c].grant) ELSE call[c].grant = NoGrant
  /\ IF call[c].retried \/ storage = Empty THEN Ends(c)
     ELSE call' = [call EXCEPT ![c].at = "refresh", ![c].retried = TRUE, ![c].grant = storage.grant]
  /\ UNCHANGED <<now, database, console, faults>>

\* Mutant: an expired access token revokes nothing.
RevocableWhileValid(row, grant) == row.grant = grant /\ row.access > now

Revocable(row, grant) == row.grant = grant

\* Who needs a row that is held waits, and then reads it as it was left.
Waits(c) == \E s \in DOMAIN sessions : sessions[s].grant = call[c].grant /\ sessions[s].locked

\* The session of this access token, expired or not; the answer is the same if there is none.
Logout(c) ==
  /\ call[c].at = "ask" /\ call[c].path = "logout" /\ call[c].grant # NoGrant
  /\ ~Waits(c)
  /\ sessions' = [s \in DOMAIN sessions |->
                    [sessions[s] EXCEPT !.revoked = @ \/ Revocable(sessions[s], call[c].grant)]]
  /\ Ends(c)
  /\ UNCHANGED <<now, challenges, nonces, issued, gave, console, faults>>

Clear(c) ==
  /\ call[c].at = "clear"
  /\ storage' = Empty /\ call' = [call EXCEPT ![c] = Idle]
  /\ UNCHANGED <<now, database, begun, overlapped, setAside, faults>>

-----------------------------------------------------------------------------
(* A refresh *)

\* The service reads its clock once, before it reads the row.
Arrive(c) ==
  /\ call[c].at = "refresh"
  /\ call' = [call EXCEPT ![c].at = "read", ![c].since = now]
  /\ UNCHANGED <<now, database, console, faults>>

Refreshable(s, c) ==
  sessions[s].grant = call[c].grant /\ ~sessions[s].revoked /\ sessions[s].refresh > call[c].since

\* Mutant: the row is read without FOR UPDATE.
ReadsAnyway(c) == TRUE

MayRead(c) == ~Waits(c)

ReadRow(c) ==
  /\ call[c].at = "read" /\ MayRead(c)
  /\ \/ \E s \in DOMAIN sessions :
          /\ Refreshable(s, c)
          /\ sessions' = [sessions EXCEPT ![s].locked = TRUE]
          /\ call' = [call EXCEPT ![c].at = "rotate", ![c].session = s]
     \/ /\ ~\E s \in DOMAIN sessions : Refreshable(s, c)
        /\ Goes(c, "refused") /\ UNCHANGED sessions
  /\ UNCHANGED <<now, challenges, nonces, issued, gave, console, faults>>

\* Both tokens are replaced, by the row's id, and both windows begin anew.
Rotate(c) ==
  LET s == call[c].session
  IN  /\ call[c].at = "rotate"
      /\ sessions' = [sessions EXCEPT ![s] = [NewRow(call[c].since) EXCEPT !.revoked = sessions[s].revoked]]
      /\ Grants(c, call[c].since, [kind |-> "grant", of |-> call[c].grant])
      /\ UNCHANGED <<now, challenges, nonces, console, faults>>

\* A grant is stored over whatever is there, and what was to be asked is asked with it.
Save(c) ==
  /\ call[c].at = "granted"
  /\ storage' = [grant |-> call[c].grant, until |-> call[c].since + AccessTTL]
  /\ IF call[c].path = "login"
     THEN Ends(c) /\ setAside' = setAside \cup ({storage.grant} \ {NoGrant})
     ELSE Goes(c, "ask") /\ UNCHANGED setAside
  /\ UNCHANGED <<now, database, begun, overlapped, faults>>

\* A refusal, or any error, clears the storage, whatever another call has stored since.
\* What was to be asked is asked without a token; after a second refresh it is not.
Refused(c) ==
  /\ call[c].at = "refused"
  /\ storage' = Empty
  /\ IF call[c].retried THEN Ends(c)
     ELSE call' = [call EXCEPT ![c].at = "ask", ![c].grant = NoGrant]
  /\ UNCHANGED <<now, database, begun, overlapped, setAside, faults>>

-----------------------------------------------------------------------------
(* Faults and the clock *)

Fault(c) ==
  /\ faults < MaxFaults /\ faults' = faults + 1
  /\ UNCHANGED <<now, challenges, nonces, issued, gave, console>>

\* A request or its answer is lost: the call throws.
Lost(c) ==
  /\ Fault(c)
  /\ call[c].at \in {"login", "ask", "refresh", "granted", "refused"}
  /\ Ends(c)
  /\ UNCHANGED sessions

\* Mutant: a transaction that fails leaves its lock.
Kept(row) == row

Unlocked(row) == [row EXCEPT !.locked = FALSE]

\* The second statement or the commit fails: nothing is rotated, and the answer is an error.
RollBack(c) ==
  /\ Fault(c)
  /\ call[c].at = "rotate"
  /\ sessions' = [sessions EXCEPT ![call[c].session] = Unlocked(@)]
  /\ Goes(c, "refused")

Tick ==
  /\ now < MaxTime /\ now' = now + 1
  /\ UNCHANGED <<database, console, call, faults>>

Init ==
  /\ now = 0 /\ challenges = {} /\ nonces = 0 /\ sessions = <<>> /\ issued = 0 /\ gave = {}
  /\ storage = Empty /\ call = [c \in Callers |-> Idle]
  /\ begun = 0 /\ overlapped = FALSE /\ setAside = {} /\ faults = 0

Next ==
  \/ IssueChallenge \/ Tick
  \/ \E c \in Callers :
       \/ BeginLogin(c) \/ Begin(c, "data") \/ Begin(c, "logout")
       \/ Login(c) \/ LoginRefused(c) \/ Answer(c) \/ TurnAway(c) \/ Logout(c) \/ Clear(c)
       \/ Arrive(c) \/ ReadRow(c) \/ Rotate(c) \/ Save(c) \/ Refused(c)
       \/ Lost(c) \/ RollBack(c)

Spec == Init /\ [][Next]_vars

-----------------------------------------------------------------------------
(* Properties *)

Row == [grant : Nat \ {0}, access : Nat, refresh : Nat, revoked : BOOLEAN, locked : BOOLEAN]

Places == {"idle", "login", "ask", "refresh", "read", "rotate", "granted", "refused", "clear"}
CallRecord == [at : Places, path : Paths, nonce : 0..nonces, grant : 0..issued,
               session : 0..Len(sessions), since : 0..now, retried : BOOLEAN]

Typed ==
  /\ {now, nonces, issued, begun, faults} \subseteq Nat /\ overlapped \in BOOLEAN
  /\ challenges \subseteq [nonce : 1..nonces, until : Nat, consumed : BOOLEAN]
  /\ sessions \in Seq(Row)
  /\ gave \subseteq [from : [kind : {"challenge", "grant"}, of : Nat], grant : 1..issued]
  /\ storage \in [grant : 0..issued, until : Nat] /\ setAside \subseteq 1..issued
  /\ call \in [Callers -> CallRecord]

GrantsDiffer ==
  \A s \in DOMAIN sessions :
    /\ sessions[s].grant <= issued
    /\ \A t \in DOMAIN sessions : sessions[s].grant = sessions[t].grant => s = t

Holds(c, s) == call[c].at = "rotate" /\ call[c].session = s

LocksHeld ==
  \A s \in DOMAIN sessions :
    /\ sessions[s].locked <=> \E c \in Callers : Holds(c, s)
    /\ \A c, d \in Callers : Holds(c, s) /\ Holds(d, s) => c = d

\* Every variable has its type, the grants of all sessions are different and were issued,
\* and a row is held exactly while one call rotates it (refresh_session's transaction).
SessionsTypeOK == Typed /\ GrantsDiffer /\ LocksHeld

\* A challenge opens one session and a refresh token is exchanged once (auth.rs: "A refresh
\* token is single-use because the stored hash is replaced atomically under a row lock"),
\* whichever calls come at once with the same one, are repeated after a lost answer, or fail
\* between the two statements.
ExchangedOnce == \A x, y \in gave : x.from = y.from => x = y

\* "Revoke the complete server session represented by this access token" (auth.rs): while a
\* person's calls come one after another and are all answered, the only sessions alive are the
\* one the console holds and those a later sign-in wrote over without revoking them. Whoever
\* signed out, however long the access token had expired, leaves none but the latter.
SignedOutIsRevoked ==
  (~overlapped /\ faults = 0 /\ \A c \in Callers : call[c] = Idle) =>
    \A s \in DOMAIN sessions :
      \/ sessions[s].revoked \/ sessions[s].refresh <= now
      \/ storage # Empty /\ sessions[s].grant = storage.grant
      \/ sessions[s].grant \in setAside
=============================================================================
