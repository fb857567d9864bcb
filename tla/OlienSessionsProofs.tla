------------------------- MODULE OlienSessionsProofs -------------------------
(***************************************************************************)
(* Sessions for every number of calls, challenges and faults and every     *)
(* length of the tokens' lives: no challenge and no refresh token is       *)
(* exchanged twice, and a session that outlives a sign-out was set aside.  *)
(***************************************************************************)
EXTENDS OlienSessions, TLAPS

(* What makes ExchangedOnce inductive: the grant of a call that rotates is the row's, a     *)
(* nonce names one challenge, and whatever was exchanged is neither in a row nor unconsumed. *)

RotatesOwn ==
  \A c \in Callers : call[c].at = "rotate" =>
    call[c].session \in DOMAIN sessions /\ sessions[call[c].session].grant = call[c].grant

ChallengesDiffer == \A x, y \in challenges : x.nonce = y.nonce => x = y

Spent ==
  \A x \in gave :
    /\ x.from.kind = "grant" =>
         x.from.of <= issued /\ \A s \in DOMAIN sessions : sessions[s].grant # x.from.of
    /\ x.from.kind = "challenge" =>
         x.from.of <= nonces /\ \A ch \in challenges : ch.nonce = x.from.of => ch.consumed

IInv == SessionsTypeOK /\ RotatesOwn /\ ChallengesDiffer /\ Spent /\ ExchangedOnce

(* What makes SignedOutIsRevoked inductive: while calls come one after another and are      *)
(* answered, a session that is alive, and was not written over by a later sign-in, is the   *)
(* one stored, or the one just granted.                                                     *)

Alive(s) ==
  ~sessions[s].revoked /\ sessions[s].refresh > now /\ sessions[s].grant \notin setAside

InHand(s) ==
  \/ sessions[s].grant = storage.grant
  \/ \E c \in Callers : call[c].at = "granted" /\ call[c].grant = sessions[s].grant

KnowsItsPlace(c) ==
  /\ call[c].at \in {"refused", "clear"} => \A s \in DOMAIN sessions : ~Alive(s)
  /\ call[c].at = "login" => call[c].path = "login"
  /\ call[c].at \in {"ask", "refresh", "read", "rotate"} => call[c].grant = storage.grant
  /\ call[c].at = "granted" =>
       /\ call[c].grant # NoGrant
       /\ call[c].path = "login" \/ \A s \in DOMAIN sessions : sessions[s].grant # storage.grant

Serial == \A c, d \in Callers : call[c] # Idle /\ call[d] # Idle => c = d

Orderly ==
  /\ Serial
  /\ storage.grant = NoGrant => storage = Empty
  /\ \A s \in DOMAIN sessions : Alive(s) => InHand(s)
  /\ \A c \in Callers : KnowsItsPlace(c)

Quiet == (~overlapped /\ faults = 0) => Orderly

-----------------------------------------------------------------------------
(* Types *)

\* A row of a new grant has the type of a row.
LEMMA NewRowType ==
  ASSUME NEW since \in Nat, issued \in Nat
  PROVE  NewRow(since) \in Row
  <1>1. AccessTTL \in Nat /\ RefreshTTL \in Nat
    BY SessionsAssumption
  <1> QED
    BY <1>1 DEF NewRow, Row

\* What Typed says of the parts, one by one.
LEMMA Parts ==
  ASSUME Typed
  PROVE  /\ now \in Nat /\ nonces \in Nat /\ issued \in Nat /\ begun \in Nat /\ faults \in Nat
         /\ overlapped \in BOOLEAN
         /\ Len(sessions) \in Nat /\ DOMAIN sessions = 1..Len(sessions)
         /\ \A s \in DOMAIN sessions : sessions[s] \in Row
         /\ call \in [Callers -> CallRecord]
         /\ storage.grant \in 0..issued /\ storage.until \in Nat
         /\ setAside \subseteq 1..issued
  <1>1. sessions \in Seq(Row)
    BY DEF Typed
  <1>2. \A s \in DOMAIN sessions : sessions[s] \in Row
    BY <1>1
  <1> QED
    BY <1>1, <1>2 DEF Typed

\* Every field of a call is where it belongs.
LEMMA CallParts ==
  ASSUME Typed, NEW c \in Callers
  PROVE  /\ call[c].at \in Places /\ call[c].path \in Paths /\ call[c].nonce \in 0..nonces
         /\ call[c].grant \in 0..issued /\ call[c].session \in 0..Len(sessions)
         /\ call[c].since \in 0..now /\ call[c].retried \in BOOLEAN
         /\ call[c] = [at |-> call[c].at, path |-> call[c].path, nonce |-> call[c].nonce,
                       grant |-> call[c].grant, session |-> call[c].session,
                       since |-> call[c].since, retried |-> call[c].retried]
  <1>1. call[c] \in CallRecord
    BY DEF Typed
  <1> QED
    BY <1>1 DEF CallRecord

LEMMA IdleType ==
  ASSUME Typed
  PROVE  Idle \in CallRecord /\ [Idle EXCEPT !.at = "clear"] \in CallRecord
  <1>1. 0 \in 0..nonces /\ 0 \in 0..issued /\ 0 \in 0..Len(sessions) /\ 0 \in 0..now
    BY Parts
  <1> QED
    BY <1>1 DEF Idle, CallRecord, Places, Paths, NoGrant

\* A step that leaves the tables alone and moves one call, neither into a rotation nor out
\* of one, keeps the invariant.
Moves(c) == \E v \in CallRecord : v.at # "rotate" /\ call' = [call EXCEPT ![c] = v]

LEMMA CallMoves ==
  ASSUME IInv, NEW c \in Callers, call[c].at # "rotate", Moves(c),
         UNCHANGED <<now, database>>,
         storage' \in [grant : 0..issued, until : Nat],
         begun' \in Nat, faults' \in Nat, overlapped' \in BOOLEAN, setAside' \subseteq 1..issued
  PROVE  IInv'
  <1>0. PICK v \in CallRecord : v.at # "rotate" /\ call' = [call EXCEPT ![c] = v]
    BY DEF Moves
  <1>1. /\ challenges' = challenges /\ nonces' = nonces /\ sessions' = sessions
        /\ issued' = issued /\ gave' = gave /\ now' = now
    BY DEF database
  <1>2. Typed /\ GrantsDiffer /\ LocksHeld /\ RotatesOwn /\ ChallengesDiffer /\ Spent /\ ExchangedOnce
    BY DEF IInv, SessionsTypeOK
  <1>3. CallRecord' = CallRecord
    BY <1>1 DEF CallRecord
  <1>4. call \in [Callers -> CallRecord]
    BY <1>2 DEF Typed
  <1>5. Typed'
    BY <1>0, <1>1, <1>2, <1>3, <1>4 DEF Typed
  <1>6. \A d \in Callers : call'[d].at = "rotate" => d # c /\ call'[d] = call[d]
    BY <1>0, <1>4
  <1>7. \A d \in Callers, s \in DOMAIN sessions : Holds(d, s)' <=> Holds(d, s)
    BY <1>0, <1>4, <1>6 DEF Holds
  <1>8. LocksHeld'
    BY <1>1, <1>2, <1>7 DEF LocksHeld
  <1>9. RotatesOwn'
    BY <1>1, <1>2, <1>4, <1>6 DEF RotatesOwn
  <1>10. GrantsDiffer' /\ ChallengesDiffer' /\ Spent' /\ ExchangedOnce'
    BY <1>1, <1>2 DEF GrantsDiffer, ChallengesDiffer, Spent, ExchangedOnce
  <1> QED
    BY <1>5, <1>8, <1>9, <1>10 DEF IInv, SessionsTypeOK

LEMMA EndsMoves ==
  ASSUME Typed, NEW c \in Callers, Ends(c)
  PROVE  Moves(c)
  <1>1. CASE call[c].path = "logout"
    <2>1. call' = [call EXCEPT ![c] = [Idle EXCEPT !.at = "clear"]]
      BY <1>1 DEF Ends
    <2> QED
      BY <2>1, IdleType DEF Moves, Idle
  <1>2. CASE call[c].path # "logout"
    <2>1. call' = [call EXCEPT ![c] = Idle]
      BY <1>2 DEF Ends
    <2> QED
      BY <2>1, IdleType DEF Moves, Idle
  <1> QED
    BY <1>1, <1>2

LEMMA GoesMoves ==
  ASSUME Typed, NEW c \in Callers, NEW place \in Places, place # "rotate",
         NEW grant \in 0..issued, NEW since \in 0..now, NEW retried \in BOOLEAN,
         call' = [call EXCEPT ![c] = [call[c] EXCEPT !.at = place, !.grant = grant,
                                                     !.since = since, !.retried = retried]]
  PROVE  Moves(c)
  <1>1. call[c] \in CallRecord
    BY Parts
  <1>2. [call[c] EXCEPT !.at = place, !.grant = grant, !.since = since, !.retried = retried] \in CallRecord
    BY <1>1 DEF CallRecord
  <1> QED
    BY <1>1, <1>2 DEF Moves, CallRecord

-----------------------------------------------------------------------------
(* The steps that change the tables *)

LEMMA IssueKeeps ==
  ASSUME IInv, IssueChallenge
  PROVE  IInv'
  <1> DEFINE new == [nonce |-> nonces + 1, until |-> now + ChallengeTTL, consumed |-> FALSE]
  <1>1. Typed /\ GrantsDiffer /\ LocksHeld /\ RotatesOwn /\ ChallengesDiffer /\ Spent /\ ExchangedOnce
    BY DEF IInv, SessionsTypeOK
  <1>2. /\ nonces' = nonces + 1 /\ UNCHANGED <<now, sessions, issued, gave, console, call, faults>>
        /\ challenges' = {ch \in challenges : ch.until >= now} \cup {new}
    BY DEF IssueChallenge
  <1>3. nonces \in Nat /\ now \in Nat /\ ChallengeTTL \in Nat
    BY <1>1, Parts, SessionsAssumption
  <1>4. challenges \subseteq [nonce : 1..nonces, until : Nat, consumed : BOOLEAN]
    BY <1>1 DEF Typed
  <1>5. challenges' \subseteq [nonce : 1..nonces', until : Nat, consumed : BOOLEAN]
    <2>1. new \in [nonce : 1..nonces', until : Nat, consumed : BOOLEAN]
      <3>1. nonces + 1 \in 1..nonces' /\ now + ChallengeTTL \in Nat
        BY <1>2, <1>3
      <3> QED
        BY <3>1
    <2>2. \A ch \in challenges : ch \in [nonce : 1..nonces', until : Nat, consumed : BOOLEAN]
      BY <1>2, <1>3, <1>4
    <2> HIDE DEF new
    <2> QED
      BY <2>1, <2>2, <1>2
  <1>6. call' \in [Callers -> CallRecord']
    <2>1. CallRecord \subseteq CallRecord'
      BY <1>2, <1>3 DEF CallRecord
    <2> QED
      BY <2>1, <1>1, <1>2, Parts
  <1>7. Typed'
    BY <1>1, <1>2, <1>3, <1>5, <1>6 DEF Typed, console
  <1>8. GrantsDiffer' /\ LocksHeld' /\ RotatesOwn' /\ ExchangedOnce'
    BY <1>1, <1>2 DEF GrantsDiffer, LocksHeld, Holds, RotatesOwn, ExchangedOnce
  <1>9. ChallengesDiffer'
    <2>1. new.nonce = nonces + 1 /\ \A ch \in challenges : ch.nonce \in 1..nonces
      BY <1>4
    <2> HIDE DEF new
    <2>2. \A ch \in challenges : ch.nonce # new.nonce
      BY <2>1, <1>3
    <2> QED
      BY <2>2, <1>1, <1>2 DEF ChallengesDiffer
  <1>10. Spent'
    <2> SUFFICES ASSUME NEW x \in gave
                 PROVE  /\ x.from.kind = "grant" =>
                             x.from.of <= issued /\ \A s \in DOMAIN sessions : sessions[s].grant # x.from.of
                        /\ x.from.kind = "challenge" =>
                             x.from.of <= nonces' /\ \A ch \in challenges' : ch.nonce = x.from.of => ch.consumed
      BY <1>2 DEF Spent
    <2>1. x.from.of \in Nat
      BY <1>1 DEF Typed
    <2> QED
      BY <2>1, <1>1, <1>2, <1>3 DEF Spent
  <1> QED
    BY <1>7, <1>8, <1>9, <1>10 DEF IInv, SessionsTypeOK

LEMMA LoginKeeps ==
  ASSUME IInv, NEW c \in Callers, Login(c)
  PROVE  IInv'
  <1>1. Typed /\ GrantsDiffer /\ LocksHeld /\ RotatesOwn /\ ChallengesDiffer /\ Spent /\ ExchangedOnce
    BY DEF IInv, SessionsTypeOK
  <1> DEFINE n == call[c].nonce
             new == [from |-> [kind |-> "challenge", of |-> n], grant |-> issued + 1]
             v == [call[c] EXCEPT !.at = "granted", !.grant = issued + 1, !.since = now]
  <1>2. /\ call[c].at = "login"
        /\ sessions' = Append(sessions, NewRow(now)) /\ issued' = issued + 1
        /\ gave' = gave \cup {new} /\ call' = [call EXCEPT ![c] = v]
        /\ UNCHANGED <<now, nonces, console, faults>>
    BY DEF Login, Grants
  <1>3. PICK ch \in challenges :
          /\ ch.nonce = n /\ Valid(ch)
          /\ challenges' = (challenges \ {ch}) \cup {[ch EXCEPT !.consumed = TRUE]}
    BY DEF Login
  <1>4. nonces \in Nat /\ now \in Nat /\ issued \in Nat /\ n \in 0..nonces
    BY <1>1, Parts, CallParts
  <1>5. NewRow(now) \in Row /\ NewRow(now).grant = issued + 1 /\ NewRow(now).locked = FALSE
    BY <1>4, NewRowType DEF NewRow
  <1>6. /\ Len(sessions) \in Nat /\ DOMAIN sessions = 1..Len(sessions)
        /\ Len(sessions') = Len(sessions) + 1 /\ DOMAIN sessions' = 1..(Len(sessions) + 1)
        /\ \A s \in DOMAIN sessions : sessions'[s] = sessions[s] /\ sessions[s] \in Row
        /\ sessions'[Len(sessions) + 1] = NewRow(now) /\ sessions' \in Seq(Row)
    <2>1. sessions \in Seq(Row)
      BY <1>1 DEF Typed
    <2> QED
      BY <2>1, <1>2, <1>5
  <1>7. call \in [Callers -> CallRecord]
    BY <1>1, Parts
  <1>8. call' \in [Callers -> CallRecord']
    <2>1. CallRecord \subseteq CallRecord'
      BY <1>2, <1>4, <1>6 DEF CallRecord
    <2>2. v \in CallRecord'
      <3>1. call[c] \in CallRecord
        BY <1>7
      <3>2. "granted" \in Places /\ issued + 1 \in 0..issued' /\ now \in 0..now
        BY <1>2, <1>4 DEF Places
      <3>3. CallRecord \subseteq CallRecord'
        BY <2>1
      <3> QED
        BY <3>1, <3>2, <3>3, <1>2 DEF CallRecord
    <2> QED
      BY <2>1, <2>2, <1>2, <1>7
  <1>9. challenges' \subseteq [nonce : 1..nonces', until : Nat, consumed : BOOLEAN]
    BY <1>1, <1>2, <1>3 DEF Typed
  <1>10. gave' \subseteq [from : [kind : {"challenge", "grant"}, of : Nat], grant : 1..issued']
    BY <1>1, <1>2, <1>4 DEF Typed
  <1>11. storage' \in [grant : 0..issued', until : Nat] /\ setAside' \subseteq 1..issued'
    BY <1>1, <1>2, <1>4 DEF Typed, console
  <1>12. Typed'
    <2>1. {now', nonces', issued', begun', faults'} \subseteq Nat /\ overlapped' \in BOOLEAN
      BY <1>1, <1>2, <1>4, Parts DEF console
    <2> QED
      BY <2>1, <1>6, <1>8, <1>9, <1>10, <1>11 DEF Typed
  <1>13. \A s \in DOMAIN sessions : sessions[s].grant \in Nat /\ sessions[s].grant <= issued
    BY <1>1, <1>6 DEF GrantsDiffer, Row
  <1>14. GrantsDiffer'
    BY <1>1, <1>2, <1>4, <1>5, <1>6, <1>13 DEF GrantsDiffer
  <1>15. \A d \in Callers : call'[d].at = "rotate" => d # c /\ call'[d] = call[d]
    BY <1>2, <1>7
  <1>16. \A d \in Callers, s \in DOMAIN sessions' : Holds(d, s)' <=> Holds(d, s)
    BY <1>2, <1>7, <1>15 DEF Holds
  <1>17. \A d \in Callers : ~Holds(d, Len(sessions) + 1)
    BY <1>1, <1>6 DEF RotatesOwn, Holds
  <1>18. LocksHeld'
    BY <1>1, <1>5, <1>6, <1>16, <1>17 DEF LocksHeld
  <1>19. RotatesOwn'
    BY <1>1, <1>6, <1>15 DEF RotatesOwn
  <1>20. ChallengesDiffer'
    <2> DEFINE u == [ch EXCEPT !.consumed = TRUE]
    <2>1. u.nonce = ch.nonce
      BY <1>1, <1>3 DEF Typed
    <2>2. \A x \in challenges \ {ch} : x.nonce # ch.nonce
      BY <1>1, <1>3 DEF ChallengesDiffer
    <2> HIDE DEF u
    <2> QED
      BY <2>1, <2>2, <1>1, <1>3 DEF ChallengesDiffer, u
  <1>21. \A x \in gave : x.from.of \in Nat /\ x.from # new.from
    BY <1>1, <1>3 DEF Typed, Spent, Valid
  <1>22. ExchangedOnce'
    BY <1>1, <1>2, <1>21 DEF ExchangedOnce
  <1>23. \A dh \in challenges' : dh.nonce = n => dh.consumed
    BY <1>1, <1>3 DEF ChallengesDiffer, Typed
  <1>24. Spent'
    <2> SUFFICES ASSUME NEW x \in gave'
                 PROVE  /\ x.from.kind = "grant" =>
                             x.from.of <= issued' /\ \A s \in DOMAIN sessions' : sessions'[s].grant # x.from.of
                        /\ x.from.kind = "challenge" =>
                             x.from.of <= nonces' /\ \A dh \in challenges' : dh.nonce = x.from.of => dh.consumed
      BY DEF Spent
    <2>1. CASE x = new
      BY <2>1, <1>2, <1>4, <1>23
    <2>2. CASE x \in gave
      <3>1. x.from.kind = "grant" =>
              x.from.of <= issued' /\ \A s \in DOMAIN sessions' : sessions'[s].grant # x.from.of
        BY <2>2, <1>1, <1>2, <1>4, <1>5, <1>6, <1>21 DEF Spent
      <3>2. x.from.kind = "challenge" =>
              x.from.of <= nonces' /\ \A dh \in challenges' : dh.nonce = x.from.of => dh.consumed
        BY <2>2, <1>1, <1>2, <1>3 DEF Spent, Typed
      <3> QED
        BY <3>1, <3>2
    <2> QED
      BY <2>1, <2>2, <1>2
  <1> QED
    BY <1>12, <1>14, <1>18, <1>19, <1>20, <1>22, <1>24 DEF IInv, SessionsTypeOK

\* Rows changed one by one are as many rows.
LEMMA RowByRow ==
  ASSUME Typed, NEW f \in [DOMAIN sessions -> Row]
  PROVE  f \in Seq(Row) /\ DOMAIN f = DOMAIN sessions /\ Len(f) = Len(sessions)
  <1>1. DOMAIN sessions = 1..Len(sessions) /\ Len(sessions) \in Nat
    BY Parts
  <1> QED
    BY <1>1

LEMMA LogoutKeeps ==
  ASSUME IInv, NEW c \in Callers, Logout(c)
  PROVE  IInv'
  <1>1. Typed /\ GrantsDiffer /\ LocksHeld /\ RotatesOwn /\ ChallengesDiffer /\ Spent /\ ExchangedOnce
    BY DEF IInv, SessionsTypeOK
  <1> DEFINE new(s) == [sessions[s] EXCEPT !.revoked = @ \/ Revocable(sessions[s], call[c].grant)]
  <1>2. /\ sessions' = [s \in DOMAIN sessions |-> new(s)] /\ Ends(c) /\ call[c].at = "ask"
        /\ UNCHANGED <<now, challenges, nonces, issued, gave, console, faults>>
    BY DEF Logout
  <1>3. \A s \in DOMAIN sessions : sessions[s] \in Row
    BY <1>1, Parts
  <1>4. \A s \in DOMAIN sessions :
          new(s) \in Row /\ new(s).grant = sessions[s].grant /\ new(s).locked = sessions[s].locked
    BY <1>3 DEF Row
  <1> HIDE DEF new
  <1>5. /\ sessions' \in Seq(Row) /\ DOMAIN sessions' = DOMAIN sessions /\ Len(sessions') = Len(sessions)
        /\ \A s \in DOMAIN sessions : /\ sessions'[s].grant = sessions[s].grant
                                      /\ sessions'[s].locked = sessions[s].locked
    <2>1. sessions' \in [DOMAIN sessions -> Row]
      BY <1>2, <1>4
    <2> QED
      BY <2>1, <1>1, <1>2, <1>4, RowByRow
  <1>6. PICK v \in CallRecord : v.at # "rotate" /\ call' = [call EXCEPT ![c] = v]
    BY <1>1, <1>2, EndsMoves DEF Moves
  <1>7. call \in [Callers -> CallRecord]
    BY <1>1, Parts
  <1>8. Typed'
    <2>1. CallRecord' = CallRecord
      BY <1>2, <1>5 DEF CallRecord
    <2>2. call' \in [Callers -> CallRecord']
      BY <2>1, <1>6, <1>7
    <2> QED
      BY <2>2, <1>1, <1>2, <1>5 DEF Typed, console
  <1>9. \A d \in Callers : call'[d].at = "rotate" => d # c /\ call'[d] = call[d]
    BY <1>6, <1>7
  <1>10. \A d \in Callers, s \in DOMAIN sessions : Holds(d, s)' <=> Holds(d, s)
    BY <1>2, <1>6, <1>7, <1>9 DEF Holds
  <1>11. LocksHeld'
    BY <1>1, <1>5, <1>10 DEF LocksHeld
  <1>12. RotatesOwn' /\ GrantsDiffer' /\ Spent'
    BY <1>1, <1>2, <1>5, <1>9 DEF RotatesOwn, GrantsDiffer, Spent
  <1>13. ChallengesDiffer' /\ ExchangedOnce'
    BY <1>1, <1>2 DEF ChallengesDiffer, ExchangedOnce
  <1> QED
    BY <1>8, <1>11, <1>12, <1>13 DEF IInv, SessionsTypeOK

LEMMA ReadKeeps ==
  ASSUME IInv, NEW c \in Callers, ReadRow(c)
  PROVE  IInv'
  <1>1. Typed /\ GrantsDiffer /\ LocksHeld /\ RotatesOwn /\ ChallengesDiffer /\ Spent /\ ExchangedOnce
    BY DEF IInv, SessionsTypeOK
  <1>2. /\ call[c].at = "read" /\ MayRead(c)
        /\ UNCHANGED <<now, challenges, nonces, issued, gave, console, faults>>
    BY DEF ReadRow
  <1>3. CASE Goes(c, "refused") /\ UNCHANGED sessions
    <2>1. call' = [call EXCEPT ![c] = [call[c] EXCEPT !.at = "refused"]]
      BY <1>3 DEF Goes
    <2>2. call[c] \in CallRecord
      BY <1>1, Parts
    <2>3. [call[c] EXCEPT !.at = "refused"] \in CallRecord
      BY <2>2 DEF CallRecord, Places
    <2>4. Moves(c)
      BY <2>1, <2>2, <2>3 DEF Moves, CallRecord
    <2>5. /\ storage' \in [grant : 0..issued, until : Nat] /\ begun' \in Nat /\ faults' \in Nat /\ overlapped' \in BOOLEAN
          /\ setAside' \subseteq 1..issued
      BY <1>1, <1>2, Parts DEF Typed, console
    <2> QED
      BY <2>4, <2>5, <1>2, <1>3, CallMoves DEF database
  <1>4. ASSUME NEW s \in DOMAIN sessions, Refreshable(s, c),
               sessions' = [sessions EXCEPT ![s].locked = TRUE],
               call' = [call EXCEPT ![c].at = "rotate", ![c].session = s]
        PROVE  IInv'
    <2>1. sessions[s] \in Row /\ sessions[s].grant = call[c].grant
      BY <1>1, <1>4, Parts DEF Refreshable
    <2>2. sessions[s].locked = FALSE
      BY <2>1, <1>2 DEF MayRead, Waits, Row
    <2> DEFINE new == [sessions[s] EXCEPT !.locked = TRUE]
    <2>3. new \in Row /\ new.grant = sessions[s].grant /\ new.locked = TRUE
      BY <2>1 DEF Row
    <2>4. sessions' = [sessions EXCEPT ![s] = new]
      BY <1>4
    <2> HIDE DEF new
    <2>5. /\ sessions' \in Seq(Row) /\ DOMAIN sessions' = DOMAIN sessions /\ Len(sessions') = Len(sessions)
          /\ \A t \in DOMAIN sessions : sessions'[t].grant = sessions[t].grant
          /\ \A t \in DOMAIN sessions : t # s => sessions'[t].locked = sessions[t].locked
          /\ sessions'[s].locked = TRUE
      <3>1. \A t \in DOMAIN sessions : sessions[t] \in Row
        BY <1>1, Parts
      <3>2. sessions' \in [DOMAIN sessions -> Row]
        <4>1. sessions \in [DOMAIN sessions -> Row]
          BY <1>1, <3>1 DEF Typed
        <4> QED
          BY <4>1, <2>3, <2>4
      <3> QED
        BY <3>1, <3>2, <2>3, <2>4, <1>1, RowByRow
    <2>6. call \in [Callers -> CallRecord] /\ s \in 0..Len(sessions)
      BY <1>1, Parts
    <2>7. call' = [call EXCEPT ![c] = [call[c] EXCEPT !.at = "rotate", !.session = s]]
      BY <1>4
    <2>8. [call[c] EXCEPT !.at = "rotate", !.session = s] \in CallRecord
      BY <2>6 DEF CallRecord, Places
    <2>9. Typed'
      <3>1. CallRecord' = CallRecord
        BY <1>2, <2>5 DEF CallRecord
      <3>2. call' \in [Callers -> CallRecord']
        BY <3>1, <2>6, <2>7, <2>8
      <3> QED
        BY <3>2, <1>1, <1>2, <2>5 DEF Typed, console
    <2>10. /\ call'[c].at = "rotate" /\ call'[c].session = s /\ call'[c].grant = call[c].grant
           /\ \A d \in Callers : d # c => call'[d] = call[d]
      BY <2>6, <2>7 DEF CallRecord
    <2>11. \A d \in Callers : ~Holds(d, s)
      BY <2>2, <1>1 DEF LocksHeld
    <2>12. \A d \in Callers, t \in DOMAIN sessions : Holds(d, t)' <=> (IF d = c THEN t = s ELSE Holds(d, t))
      BY <2>10 DEF Holds
    <2>13. \A t : ~Holds(c, t)
      BY <1>2 DEF Holds
    <2>14. LocksHeld'
      BY <2>5, <2>11, <2>12, <2>13, <1>1 DEF LocksHeld
    <2>15. RotatesOwn'
      BY <2>1, <2>5, <2>10, <1>1 DEF RotatesOwn
    <2>16. GrantsDiffer' /\ Spent'
      BY <1>1, <1>2, <2>5 DEF GrantsDiffer, Spent
    <2>17. ChallengesDiffer' /\ ExchangedOnce'
      BY <1>1, <1>2 DEF ChallengesDiffer, ExchangedOnce
    <2> QED
      BY <2>9, <2>14, <2>15, <2>16, <2>17 DEF IInv, SessionsTypeOK
  <1> QED
    BY <1>3, <1>4 DEF ReadRow

LEMMA RollBackKeeps ==
  ASSUME IInv, NEW c \in Callers, RollBack(c)
  PROVE  IInv'
  <1>1. Typed /\ GrantsDiffer /\ LocksHeld /\ RotatesOwn /\ ChallengesDiffer /\ Spent /\ ExchangedOnce
    BY DEF IInv, SessionsTypeOK
  <1> DEFINE s == call[c].session
             new == Unlocked(sessions[s])
  <1>2. /\ call[c].at = "rotate" /\ sessions' = [sessions EXCEPT ![s] = new] /\ faults' = faults + 1
        /\ call' = [call EXCEPT ![c] = [call[c] EXCEPT !.at = "refused"]]
        /\ UNCHANGED <<now, challenges, nonces, issued, gave, console>>
    BY DEF RollBack, Fault, Goes
  <1>3. s \in DOMAIN sessions /\ Holds(c, s)
    BY <1>1, <1>2 DEF RotatesOwn, Holds
  <1>4. \A t \in DOMAIN sessions : sessions[t] \in Row
    BY <1>1, Parts
  <1>5. new \in Row /\ new.grant = sessions[s].grant /\ new.locked = FALSE
    BY <1>3, <1>4 DEF Row, Unlocked
  <1> HIDE DEF new
  <1>6. /\ sessions' \in Seq(Row) /\ DOMAIN sessions' = DOMAIN sessions /\ Len(sessions') = Len(sessions)
        /\ \A t \in DOMAIN sessions : sessions'[t].grant = sessions[t].grant
        /\ \A t \in DOMAIN sessions : t # s => sessions'[t].locked = sessions[t].locked
        /\ sessions'[s].locked = FALSE
    <2>1. sessions \in [DOMAIN sessions -> Row]
      BY <1>1, <1>4 DEF Typed
    <2>2. sessions' \in [DOMAIN sessions -> Row]
      BY <2>1, <1>2, <1>5
    <2> QED
      BY <2>1, <2>2, <1>1, <1>2, <1>3, <1>5, RowByRow
  <1>7. call \in [Callers -> CallRecord] /\ faults \in Nat
    BY <1>1, Parts
  <1>8. [call[c] EXCEPT !.at = "refused"] \in CallRecord
    BY <1>7 DEF CallRecord, Places
  <1>9. Typed'
    <2>1. CallRecord' = CallRecord
      BY <1>2, <1>6 DEF CallRecord
    <2>2. call' \in [Callers -> CallRecord']
      BY <2>1, <1>2, <1>7, <1>8
    <2>3. faults' \in Nat
      BY <1>2, <1>7
    <2> QED
      BY <2>2, <2>3, <1>1, <1>2, <1>6 DEF Typed, console
  <1>10. /\ call'[c].at = "refused"
         /\ \A d \in Callers : d # c => call'[d] = call[d]
    BY <1>2, <1>7 DEF CallRecord
  <1>11. \A d \in Callers, t \in DOMAIN sessions : Holds(d, t)' <=> d # c /\ Holds(d, t)
    BY <1>10 DEF Holds
  <1>12. \A t : Holds(c, t) => t = s
    BY DEF Holds
  <1>13. LocksHeld'
    BY <1>1, <1>3, <1>6, <1>11, <1>12 DEF LocksHeld
  <1>14. RotatesOwn' /\ GrantsDiffer' /\ Spent'
    BY <1>1, <1>2, <1>6, <1>10 DEF RotatesOwn, GrantsDiffer, Spent
  <1>15. ChallengesDiffer' /\ ExchangedOnce'
    BY <1>1, <1>2 DEF ChallengesDiffer, ExchangedOnce
  <1> QED
    BY <1>9, <1>13, <1>14, <1>15 DEF IInv, SessionsTypeOK

LEMMA RotateKeeps ==
  ASSUME IInv, NEW c \in Callers, Rotate(c)
  PROVE  IInv'
  <1>1. Typed /\ GrantsDiffer /\ LocksHeld /\ RotatesOwn /\ ChallengesDiffer /\ Spent /\ ExchangedOnce
    BY DEF IInv, SessionsTypeOK
  <1> DEFINE s == call[c].session
             since == call[c].since
             old == call[c].grant
             new == [NewRow(since) EXCEPT !.revoked = sessions[s].revoked]
             v == [call[c] EXCEPT !.at = "granted", !.grant = issued + 1, !.since = since]
             got == [from |-> [kind |-> "grant", of |-> old], grant |-> issued + 1]
  <1>2. /\ call[c].at = "rotate" /\ sessions' = [sessions EXCEPT ![s] = new] /\ issued' = issued + 1
        /\ gave' = gave \cup {got} /\ call' = [call EXCEPT ![c] = v]
        /\ UNCHANGED <<now, challenges, nonces, console, faults>>
    BY DEF Rotate, Grants
  <1>3. s \in DOMAIN sessions /\ Holds(c, s) /\ sessions[s].grant = old
    BY <1>1, <1>2 DEF RotatesOwn, Holds
  <1>4. \A t \in DOMAIN sessions : sessions[t] \in Row
    BY <1>1, Parts
  <1>5. now \in Nat /\ issued \in Nat /\ since \in 0..now /\ old \in 0..issued
    BY <1>1, Parts, CallParts
  <1>6. new \in Row /\ new.grant = issued + 1 /\ new.locked = FALSE
    <2>1. NewRow(since) \in Row
      BY <1>5, NewRowType
    <2> QED
      BY <2>1, <1>3, <1>4 DEF Row, NewRow
  <1> HIDE DEF new
  <1>7. /\ sessions' \in Seq(Row) /\ DOMAIN sessions' = DOMAIN sessions /\ Len(sessions') = Len(sessions)
        /\ \A t \in DOMAIN sessions : t # s => sessions'[t] = sessions[t]
        /\ sessions'[s] = new
    <2>1. sessions \in [DOMAIN sessions -> Row]
      BY <1>1, <1>4 DEF Typed
    <2>2. sessions' \in [DOMAIN sessions -> Row]
      BY <2>1, <1>2, <1>6
    <2> QED
      BY <2>1, <2>2, <1>1, <1>2, <1>3, RowByRow
  <1>8. call \in [Callers -> CallRecord]
    BY <1>1, Parts
  <1>9. call' \in [Callers -> CallRecord']
    <2>1. CallRecord \subseteq CallRecord'
      BY <1>2, <1>5, <1>7 DEF CallRecord
    <2>2. v \in CallRecord'
      <3>1. call[c] \in CallRecord'
        BY <2>1, <1>8
      <3>2. "granted" \in Places /\ issued + 1 \in 0..issued' /\ since \in 0..now'
        BY <1>2, <1>5 DEF Places
      <3> QED
        BY <3>1, <3>2 DEF CallRecord
    <2> QED
      BY <2>1, <2>2, <1>2, <1>8
  <1>10. Typed'
    <2>1. {now', nonces', issued', begun', faults'} \subseteq Nat /\ overlapped' \in BOOLEAN
      BY <1>1, <1>2, <1>5, Parts DEF console
    <2>2. gave' \subseteq [from : [kind : {"challenge", "grant"}, of : Nat], grant : 1..issued']
      BY <1>1, <1>2, <1>5 DEF Typed
    <2>3. challenges' \subseteq [nonce : 1..nonces', until : Nat, consumed : BOOLEAN]
      BY <1>1, <1>2 DEF Typed
    <2>4. storage' \in [grant : 0..issued', until : Nat] /\ setAside' \subseteq 1..issued'
      BY <1>1, <1>2, <1>5 DEF Typed, console
    <2> QED
      BY <2>1, <2>2, <2>3, <2>4, <1>7, <1>9 DEF Typed
  <1>11. \A t \in DOMAIN sessions : sessions[t].grant \in Nat \ {0} /\ sessions[t].grant <= issued
    BY <1>1, <1>4 DEF GrantsDiffer, Row
  <1>12. GrantsDiffer'
    BY <1>1, <1>2, <1>5, <1>6, <1>7, <1>11 DEF GrantsDiffer
  <1>13. /\ call'[c].at = "granted"
         /\ \A d \in Callers : d # c => call'[d] = call[d]
    BY <1>2, <1>8 DEF CallRecord
  <1>14. \A d \in Callers, t \in DOMAIN sessions : Holds(d, t)' <=> d # c /\ Holds(d, t)
    BY <1>13 DEF Holds
  <1>15. \A t : Holds(c, t) => t = s
    BY DEF Holds
  <1>16. LocksHeld'
    BY <1>1, <1>3, <1>6, <1>7, <1>14, <1>15 DEF LocksHeld
  <1>17. \A d \in Callers : d # c /\ call[d].at = "rotate" => call[d].session # s
    BY <1>1, <1>3 DEF LocksHeld, Holds
  <1>18. RotatesOwn'
    BY <1>1, <1>7, <1>13, <1>17 DEF RotatesOwn
  <1>19. ChallengesDiffer'
    BY <1>1, <1>2 DEF ChallengesDiffer
  <1>20. \A x \in gave : x.from # got.from /\ x.from.of \in Nat
    BY <1>1, <1>3 DEF Spent, Typed
  <1>21. ExchangedOnce'
    BY <1>1, <1>2, <1>20 DEF ExchangedOnce
  <1>22. \A t \in DOMAIN sessions : sessions'[t].grant # old
    BY <1>1, <1>3, <1>5, <1>6, <1>7 DEF GrantsDiffer
  <1>23. Spent'
    <2> SUFFICES ASSUME NEW x \in gave'
                 PROVE  /\ x.from.kind = "grant" =>
                             x.from.of <= issued' /\ \A t \in DOMAIN sessions' : sessions'[t].grant # x.from.of
                        /\ x.from.kind = "challenge" =>
                             x.from.of <= nonces' /\ \A ch \in challenges' : ch.nonce = x.from.of => ch.consumed
      BY DEF Spent
    <2>1. CASE x = got
      BY <2>1, <1>2, <1>5, <1>7, <1>22
    <2>2. CASE x \in gave
      BY <2>2, <1>1, <1>2, <1>5, <1>6, <1>7, <1>20 DEF Spent
    <2> QED
      BY <2>1, <2>2, <1>2
  <1> QED
    BY <1>10, <1>12, <1>16, <1>18, <1>19, <1>21, <1>23 DEF IInv, SessionsTypeOK

LEMMA TickKeeps ==
  ASSUME IInv, Tick
  PROVE  IInv'
  <1>1. Typed /\ GrantsDiffer /\ LocksHeld /\ RotatesOwn /\ ChallengesDiffer /\ Spent /\ ExchangedOnce
    BY DEF IInv, SessionsTypeOK
  <1>2. now' = now + 1 /\ UNCHANGED <<challenges, nonces, sessions, issued, gave, storage, begun, overlapped, setAside, call, faults>>
    BY DEF Tick, database, console
  <1>3. now \in Nat /\ call \in [Callers -> CallRecord]
    BY <1>1, Parts
  <1>4. CallRecord \subseteq CallRecord'
    BY <1>2, <1>3 DEF CallRecord
  <1>5. Typed'
    BY <1>1, <1>2, <1>3, <1>4 DEF Typed
  <1>6. GrantsDiffer' /\ LocksHeld' /\ RotatesOwn' /\ ChallengesDiffer' /\ Spent' /\ ExchangedOnce'
    BY <1>1, <1>2 DEF GrantsDiffer, LocksHeld, Holds, RotatesOwn, ChallengesDiffer, Spent, ExchangedOnce
  <1> QED
    BY <1>5, <1>6 DEF IInv, SessionsTypeOK

-----------------------------------------------------------------------------
(* The steps that only move a call *)

LEMMA BeginsKeeps ==
  ASSUME IInv, NEW c \in Callers, NEW what \in CallRecord, what.at # "rotate", Begins(c, what)
  PROVE  IInv'
  <1>1. Typed
    BY DEF IInv, SessionsTypeOK
  <1>2. Moves(c) /\ call[c].at # "rotate"
    <2>1. call[c] = Idle /\ call' = [call EXCEPT ![c] = what]
      BY DEF Begins
    <2>2. Idle.at = "idle"
      BY DEF Idle
    <2> QED
      BY <2>1, <2>2 DEF Moves
  <1>3. /\ UNCHANGED <<now, database>> /\ storage' \in [grant : 0..issued, until : Nat]
        /\ begun' \in Nat /\ faults' \in Nat /\ overlapped' \in BOOLEAN
        /\ setAside' \subseteq 1..issued
    BY <1>1, Parts DEF Begins, Typed
  <1> QED
    BY <1>2, <1>3, CallMoves

LEMMA EntersKeeps ==
  ASSUME IInv, NEW c \in Callers,
         BeginLogin(c) \/ Begin(c, "data") \/ Begin(c, "logout")
  PROVE  IInv'
  <1>1. Typed
    BY DEF IInv, SessionsTypeOK
  <1>2. Idle \in CallRecord /\ nonces \in Nat /\ storage.grant \in 0..issued
    BY <1>1, Parts, IdleType
  <1>3. CASE BeginLogin(c)
    <2>1. PICK n \in 1..nonces : Begins(c, [Idle EXCEPT !.at = "login", !.path = "login", !.nonce = n])
      BY <1>3 DEF BeginLogin
    <2>2. [Idle EXCEPT !.at = "login", !.path = "login", !.nonce = n] \in CallRecord
      <3>1. n \in 0..nonces /\ "login" \in Places /\ "login" \in Paths
        BY <1>2 DEF Places, Paths
      <3> QED
        BY <3>1, <1>2 DEF CallRecord
    <2> QED
      BY <2>1, <2>2, BeginsKeeps DEF Idle
  <1>4. ASSUME NEW path \in {"data", "logout"}, Begin(c, path)
        PROVE  IInv'
    <2> DEFINE what == [Idle EXCEPT !.at = IF storage.until > now THEN "ask" ELSE "refresh",
                                    !.path = path, !.grant = storage.grant]
    <2>1. what \in CallRecord
      BY <1>2 DEF CallRecord, Idle, Places, Paths
    <2>2. what.at # "rotate"
      BY DEF Idle
    <2>3. Begins(c, what)
      BY <1>4 DEF Begin
    <2> HIDE DEF what
    <2> QED
      BY <2>1, <2>2, <2>3, BeginsKeeps
  <1> QED
    BY <1>3, <1>4

LEMMA CallerKeeps ==
  ASSUME IInv, NEW c \in Callers,
         LoginRefused(c) \/ Answer(c) \/ TurnAway(c) \/ Clear(c) \/ Arrive(c) \/ Save(c)
           \/ Refused(c) \/ Lost(c)
  PROVE  IInv'
  <1>1. Typed
    BY DEF IInv, SessionsTypeOK
  <1>2. /\ call[c] \in CallRecord /\ storage.grant \in 0..issued
        /\ now \in Nat /\ issued \in Nat /\ AccessTTL \in Nat
        /\ faults \in Nat
    BY <1>1, Parts, SessionsAssumption
  <1>3. /\ call[c].grant \in 0..issued /\ call[c].since \in 0..now /\ call[c].retried \in BOOLEAN
        /\ call[c].since \in Nat
    <2>1. call[c].grant \in 0..issued /\ call[c].since \in 0..now /\ call[c].retried \in BOOLEAN
      BY <1>1, CallParts
    <2> QED
      BY <2>1, <1>2
  <1>4. SUFFICES /\ call[c].at # "rotate" /\ Moves(c) /\ UNCHANGED <<now, database>>
                 /\ storage' \in [grant : 0..issued, until : Nat]
                 /\ begun' \in Nat /\ faults' \in Nat /\ overlapped' \in BOOLEAN
                 /\ setAside' \subseteq 1..issued
    BY CallMoves
  <1>5. CASE LoginRefused(c) \/ Answer(c)
    BY <1>1, <1>5, EndsMoves, Parts DEF LoginRefused, Answer, console, Typed
  <1>6. CASE TurnAway(c)
    <2>1. Moves(c)
      <3>1. CASE call[c].retried \/ storage = Empty
        BY <3>1, <1>1, <1>6, EndsMoves DEF TurnAway
      <3>2. CASE ~(call[c].retried \/ storage = Empty)
        <4>1. call' = [call EXCEPT ![c] = [call[c] EXCEPT !.at = "refresh", !.retried = TRUE, !.grant = storage.grant]]
          BY <3>2, <1>6 DEF TurnAway
        <4>2. [call[c] EXCEPT !.at = "refresh", !.retried = TRUE, !.grant = storage.grant] \in CallRecord
          BY <1>2 DEF CallRecord, Places
        <4> QED
          BY <4>1, <4>2, <1>2 DEF Moves, CallRecord
      <3> QED
        BY <3>1, <3>2
    <2> QED
      BY <2>1, <1>1, <1>6, Parts DEF TurnAway, console, Typed
  <1>7. CASE Clear(c)
    <2>1. call' = [call EXCEPT ![c] = Idle] /\ call[c].at = "clear" /\ storage' = Empty
          /\ UNCHANGED <<now, database, begun, overlapped, setAside, faults>>
      BY <1>7 DEF Clear
    <2>2. Idle \in CallRecord /\ Idle.at # "rotate"
      BY <1>1, IdleType DEF Idle
    <2>3. Moves(c)
      BY <2>1, <2>2 DEF Moves
    <2>4. Empty \in [grant : 0..issued, until : Nat]
      BY <1>2 DEF Empty, NoGrant
    <2> QED
      BY <2>1, <2>3, <2>4, <1>1, Parts
  <1>8. CASE Arrive(c)
    <2>1. call' = [call EXCEPT ![c] = [call[c] EXCEPT !.at = "read", !.since = now]]
      BY <1>8 DEF Arrive
    <2>2. [call[c] EXCEPT !.at = "read", !.since = now] \in CallRecord
      <3>1. now \in 0..now
        BY <1>2
      <3> QED
        BY <3>1, <1>2 DEF CallRecord, Places
    <2>3. Moves(c)
      BY <2>1, <2>2, <1>2 DEF Moves, CallRecord
    <2> QED
      BY <2>3, <1>1, <1>8, Parts DEF Arrive, console, Typed
  <1>9. CASE Save(c)
    <2>1. Moves(c)
      <3>1. CASE call[c].path = "login"
        BY <3>1, <1>1, <1>9, EndsMoves DEF Save
      <3>2. CASE call[c].path # "login"
        <4>1. call' = [call EXCEPT ![c] = [call[c] EXCEPT !.at = "ask"]]
          BY <3>2, <1>9 DEF Save, Goes
        <4>2. [call[c] EXCEPT !.at = "ask"] \in CallRecord
          BY <1>2 DEF CallRecord, Places
        <4> QED
          BY <4>1, <4>2, <1>2 DEF Moves, CallRecord
      <3> QED
        BY <3>1, <3>2
    <2>2. storage' \in [grant : 0..issued, until : Nat]
      BY <1>2, <1>3, <1>9 DEF Save
    <2>3. setAside' \subseteq 1..issued
      <3>1. setAside \subseteq 1..issued /\ {storage.grant} \ {NoGrant} \subseteq 1..issued
        BY <1>1, <1>2, Parts DEF NoGrant
      <3> QED
        BY <3>1, <1>9 DEF Save
    <2> QED
      BY <2>1, <2>2, <2>3, <1>1, <1>9, Parts DEF Save, Typed
  <1>10. CASE Refused(c)
    <2>1. Moves(c)
      <3>1. CASE call[c].retried
        BY <3>1, <1>1, <1>10, EndsMoves DEF Refused
      <3>2. CASE ~call[c].retried
        <4>1. call' = [call EXCEPT ![c] = [call[c] EXCEPT !.at = "ask", !.grant = NoGrant]]
          BY <3>2, <1>10 DEF Refused
        <4>2. [call[c] EXCEPT !.at = "ask", !.grant = NoGrant] \in CallRecord
          <5>1. NoGrant \in 0..issued
            BY <1>2 DEF NoGrant
          <5> QED
            BY <5>1, <1>2 DEF CallRecord, Places
        <4> QED
          BY <4>1, <4>2, <1>2 DEF Moves, CallRecord
      <3> QED
        BY <3>1, <3>2
    <2>2. storage' \in [grant : 0..issued, until : Nat]
      BY <1>2, <1>10 DEF Refused, Empty, NoGrant
    <2> QED
      BY <2>1, <2>2, <1>1, <1>10, Parts DEF Refused, Typed
  <1>11. CASE Lost(c)
    <2>1. Moves(c) /\ call[c].at # "rotate"
      BY <1>1, <1>11, EndsMoves DEF Lost
    <2>2. UNCHANGED <<now, database>> /\ faults' = faults + 1 /\ UNCHANGED console
      BY <1>11 DEF Lost, Fault, database
    <2> QED
      BY <2>1, <2>2, <1>1, <1>2, Parts DEF console, Typed
  <1> QED
    BY <1>5, <1>6, <1>7, <1>8, <1>9, <1>10, <1>11

-----------------------------------------------------------------------------
(* The theorems *)

LEMMA InitHolds == Init => IInv
  <1> SUFFICES ASSUME Init PROVE IInv
    OBVIOUS
  <1>1. /\ now = 0 /\ challenges = {} /\ nonces = 0 /\ sessions = <<>> /\ issued = 0 /\ gave = {}
        /\ storage = Empty /\ call = [c \in Callers |-> Idle]
        /\ begun = 0 /\ overlapped = FALSE /\ setAside = {} /\ faults = 0
    BY DEF Init
  <1>2. Idle \in CallRecord
    BY <1>1 DEF Idle, CallRecord, Places, Paths, NoGrant
  <1>3. Typed
    <2>1. sessions \in Seq(Row) /\ call \in [Callers -> CallRecord]
      BY <1>1, <1>2
    <2>2. storage \in [grant : 0..issued, until : Nat]
      BY <1>1 DEF Empty, NoGrant
    <2>3. now \in Nat /\ nonces \in Nat /\ issued \in Nat /\ begun \in Nat /\ faults \in Nat
      BY <1>1
    <2>5. overlapped \in BOOLEAN /\ setAside \subseteq 1..issued
      BY <1>1
    <2>4. /\ challenges \subseteq [nonce : 1..nonces, until : Nat, consumed : BOOLEAN]
          /\ gave \subseteq [from : [kind : {"challenge", "grant"}, of : Nat], grant : 1..issued]
      BY <1>1
    <2> QED
      BY <2>1, <2>2, <2>3, <2>4, <2>5 DEF Typed
  <1>4. DOMAIN sessions = {} /\ \A c \in Callers : call[c].at # "rotate"
    BY <1>1 DEF Idle
  <1> QED
    BY <1>1, <1>3, <1>4
    DEF IInv, SessionsTypeOK, GrantsDiffer, LocksHeld, RotatesOwn, ChallengesDiffer, Spent, ExchangedOnce

LEMMA NextKeeps == IInv /\ [Next]_vars => IInv'
  <1> SUFFICES ASSUME IInv, [Next]_vars PROVE IInv'
    OBVIOUS
  <1>1. CASE UNCHANGED vars
    <2>1. UNCHANGED <<now, challenges, nonces, sessions, issued, gave, storage, begun, overlapped, setAside, call, faults>>
      BY <1>1 DEF vars, database, console
    <2> QED
      BY <2>1 DEF IInv, SessionsTypeOK, Typed, CallRecord, GrantsDiffer, LocksHeld, Holds, RotatesOwn,
                  ChallengesDiffer, Spent, ExchangedOnce
  <1>2. CASE IssueChallenge
    BY <1>2, IssueKeeps
  <1>3. CASE Tick
    BY <1>3, TickKeeps
  <1>4. ASSUME NEW c \in Callers,
               \/ BeginLogin(c) \/ Begin(c, "data") \/ Begin(c, "logout")
               \/ Login(c) \/ LoginRefused(c) \/ Answer(c) \/ TurnAway(c) \/ Logout(c) \/ Clear(c)
               \/ Arrive(c) \/ ReadRow(c) \/ Rotate(c) \/ Save(c) \/ Refused(c)
               \/ Lost(c) \/ RollBack(c)
        PROVE  IInv'
    BY <1>4, EntersKeeps, CallerKeeps, LoginKeeps, LogoutKeeps, ReadKeeps, RotateKeeps, RollBackKeeps
  <1> QED
    BY <1>1, <1>2, <1>3, <1>4 DEF Next

\* The invariant above, in every state of every instance.
THEOREM Invariance == Spec => []IInv
  BY InitHolds, NextKeeps, PTL DEF Spec

\* The types, and that a row is held exactly while one call rotates it: MayRead's lock and
\* RollBack's release are what refresh_session's transaction does.
THEOREM SessionsTypeCorrect == Spec => []SessionsTypeOK
  <1>1. IInv => SessionsTypeOK
    BY DEF IInv
  <1> QED
    BY <1>1, Invariance, PTL

\* No challenge and no refresh token is exchanged twice, for any number of calls that come
\* at once and any number of faults between the statements.
THEOREM ExchangedOnceCorrect == Spec => []ExchangedOnce
  <1>1. IInv => ExchangedOnce
    BY DEF IInv
  <1> QED
    BY <1>1, Invariance, PTL

-----------------------------------------------------------------------------
(* Signing out *)

\* While only c is under way, its own place is what matters.
LEMMA AloneMoves ==
  ASSUME NEW c \in Callers, \A d \in Callers : d # c => call'[d] = Idle,
         KnowsItsPlace(c)', storage'.grant = NoGrant => storage' = Empty,
         \A s \in DOMAIN sessions' : Alive(s)' => InHand(s)'
  PROVE  Orderly'
  <1>1. \A d \in Callers : d # c => KnowsItsPlace(d)'
    BY DEF KnowsItsPlace, Idle
  <1>2. Serial'
    BY DEF Serial
  <1> QED
    BY <1>1, <1>2 DEF Orderly

\* The rest of the facts a step of c starts from.
LEMMA Alone ==
  ASSUME IInv, Orderly, NEW c \in Callers, call[c].at # "idle"
  PROVE  /\ \A d \in Callers : d # c => call[d] = Idle
         /\ call \in [Callers -> CallRecord]
         /\ \A s \in DOMAIN sessions : sessions[s] \in Row /\ sessions[s].grant # NoGrant
         /\ \A s \in DOMAIN sessions :
              Alive(s) => sessions[s].grant = storage.grant
                            \/ (call[c].at = "granted" /\ call[c].grant = sessions[s].grant)
         /\ KnowsItsPlace(c)
         /\ storage.grant = NoGrant => storage = Empty
  <1>1. Typed /\ Idle.at = "idle"
    BY DEF IInv, SessionsTypeOK, Idle
  <1>2. \A d \in Callers : d # c => call[d] = Idle
    BY <1>1 DEF Orderly, Serial
  <1>3. call \in [Callers -> CallRecord] /\ \A s \in DOMAIN sessions : sessions[s] \in Row
    BY <1>1, Parts
  <1>4. \A s \in DOMAIN sessions : sessions[s].grant # NoGrant
    BY <1>3 DEF Row, NoGrant
  <1>5. \A s \in DOMAIN sessions :
          Alive(s) => sessions[s].grant = storage.grant
                        \/ (call[c].at = "granted" /\ call[c].grant = sessions[s].grant)
    <2> SUFFICES ASSUME NEW s \in DOMAIN sessions, Alive(s), sessions[s].grant # storage.grant
                 PROVE  call[c].at = "granted" /\ call[c].grant = sessions[s].grant
      OBVIOUS
    <2>1. PICK d \in Callers : call[d].at = "granted" /\ call[d].grant = sessions[s].grant
      BY DEF Orderly, InHand
    <2> QED
      BY <2>1, <1>1, <1>2
  <1> QED
    BY <1>2, <1>3, <1>4, <1>5 DEF Orderly

\* A call that ends after a request to sign out leaves nothing alive.
LEMMA EndsOrderly ==
  ASSUME IInv, Orderly, NEW c \in Callers, call[c].at # "idle", Ends(c),
         storage'.grant = NoGrant => storage' = Empty,
         \A s \in DOMAIN sessions' : Alive(s)' => sessions'[s].grant = storage'.grant,
         call[c].path = "logout" => \A s \in DOMAIN sessions' : ~Alive(s)'
  PROVE  Orderly'
  <1>1. (\A d \in Callers : d # c => call[d] = Idle) /\ call \in [Callers -> CallRecord]
    BY Alone
  <1>2. call' = [call EXCEPT ![c] = IF call[c].path = "logout" THEN [Idle EXCEPT !.at = "clear"] ELSE Idle]
    BY DEF Ends
  <1>3. \A d \in Callers : d # c => call'[d] = Idle
    BY <1>1, <1>2
  <1>4. /\ call[c].path = "logout" => call'[c].at = "clear"
        /\ call[c].path # "logout" => call'[c].at = "idle"
    <2>1. call'[c] = IF call[c].path = "logout" THEN [Idle EXCEPT !.at = "clear"] ELSE Idle
      BY <1>1, <1>2
    <2>2. [Idle EXCEPT !.at = "clear"].at = "clear" /\ Idle.at = "idle"
      BY DEF Idle
    <2> QED
      BY <2>1, <2>2
  <1>5. KnowsItsPlace(c)'
    BY <1>4 DEF KnowsItsPlace
  <1>6. \A s \in DOMAIN sessions' : Alive(s)' => InHand(s)'
    BY DEF InHand
  <1> QED
    BY <1>3, <1>5, <1>6, AloneMoves

\* A call begins where no other is under way.
LEMMA EntersOrderly ==
  ASSUME IInv, Orderly, NEW c \in Callers, ~overlapped',
         BeginLogin(c) \/ Begin(c, "data") \/ Begin(c, "logout")
  PROVE  Orderly'
  <1>1. PICK what : /\ Begins(c, what)
                    /\ what.at \in {"login", "ask", "refresh"}
                    /\ what.at = "login" => what.path = "login"
                    /\ what.at # "login" => what.grant = storage.grant
    <2> DEFINE login(n) == [Idle EXCEPT !.at = "login", !.path = "login", !.nonce = n]
               ask(path) == [Idle EXCEPT !.at = IF storage.until > now THEN "ask" ELSE "refresh",
                                         !.path = path, !.grant = storage.grant]
    <2>1. \A n : login(n).at = "login" /\ login(n).path = "login"
      BY DEF Idle
    <2>2. \A path : ask(path).at \in {"ask", "refresh"} /\ ask(path).grant = storage.grant
      BY DEF Idle
    <2>3. CASE BeginLogin(c)
      <3>1. PICK n \in 1..nonces : Begins(c, login(n))
        BY <2>3 DEF BeginLogin
      <3> HIDE DEF login
      <3> QED
        BY <3>1, <2>1, <2>3 DEF BeginLogin
    <2>4. ASSUME NEW path, Begin(c, path)
          PROVE  Begins(c, ask(path))
      BY <2>4 DEF Begin
    <2> HIDE DEF ask
    <2> QED
      BY <2>2, <2>3, <2>4
  <1>2. /\ \A d \in Callers : call[d] = Idle
        /\ call' = [call EXCEPT ![c] = what] /\ UNCHANGED <<now, database, storage, setAside>>
    BY <1>1 DEF Begins
  <1>3. UNCHANGED sessions
    BY <1>2 DEF database
  <1>4. call \in [Callers -> CallRecord]
    BY Parts DEF IInv, SessionsTypeOK
  <1>5. call'[c] = what /\ \A d \in Callers : d # c => call'[d] = Idle
    BY <1>2, <1>4
  <1>6. KnowsItsPlace(c)'
    BY <1>1, <1>2, <1>5 DEF KnowsItsPlace
  <1>7. \A s \in DOMAIN sessions' : Alive(s)' => InHand(s)'
    BY <1>2, <1>3 DEF Orderly, Alive, InHand, Idle
  <1> QED
    BY <1>2, <1>5, <1>6, <1>7, AloneMoves DEF Orderly

LEMMA CallerOrderly ==
  ASSUME IInv, Orderly, NEW c \in Callers,
         \/ LoginRefused(c) \/ Answer(c) \/ TurnAway(c) \/ Logout(c) \/ Clear(c) \/ Arrive(c)
         \/ Save(c) \/ Refused(c)
  PROVE  Orderly'
  <1>1. call[c].at # "idle"
    BY DEF LoginRefused, Answer, TurnAway, Logout, Clear, Arrive, Save, Refused
  <1>2. /\ \A d \in Callers : d # c => call[d] = Idle
        /\ call \in [Callers -> CallRecord]
        /\ \A s \in DOMAIN sessions : sessions[s] \in Row /\ sessions[s].grant # NoGrant
        /\ \A s \in DOMAIN sessions :
             Alive(s) => sessions[s].grant = storage.grant
                           \/ (call[c].at = "granted" /\ call[c].grant = sessions[s].grant)
        /\ KnowsItsPlace(c)
        /\ storage.grant = NoGrant => storage = Empty
    BY <1>1, Alone
  <1>3. CASE LoginRefused(c) \/ Answer(c)
    <2>1. /\ call[c].path # "logout" /\ Ends(c) /\ call[c].at # "granted"
          /\ UNCHANGED <<now, sessions, storage, setAside>>
      BY <1>2, <1>3 DEF LoginRefused, Answer, KnowsItsPlace, database, console
    <2>2. \A s \in DOMAIN sessions' : Alive(s)' => sessions'[s].grant = storage'.grant
      BY <2>1, <1>2 DEF Alive
    <2> QED
      BY <2>1, <2>2, <1>1, <1>2, EndsOrderly
  <1>4. CASE TurnAway(c)
    <2>1. call[c].at = "ask" /\ call[c].grant = storage.grant /\ UNCHANGED <<now, sessions, storage, setAside>>
      BY <1>2, <1>4 DEF TurnAway, KnowsItsPlace, database, console
    <2>2. \A s \in DOMAIN sessions' : Alive(s)' => sessions'[s].grant = storage'.grant
      BY <2>1, <1>2 DEF Alive
    <2>3. CASE call[c].retried \/ storage = Empty
      <3>1. Ends(c)
        BY <2>3, <1>4 DEF TurnAway
      <3>2. call[c].path = "logout" => storage.grant = NoGrant
        BY <1>4, <2>1 DEF TurnAway
      <3>3. call[c].path = "logout" => \A s \in DOMAIN sessions' : ~Alive(s)'
        BY <3>2, <2>1, <2>2, <1>2
      <3> QED
        BY <3>1, <3>3, <2>1, <2>2, <1>1, <1>2, EndsOrderly
    <2>4. CASE ~(call[c].retried \/ storage = Empty)
      <3>1. call' = [call EXCEPT ![c] = [call[c] EXCEPT !.at = "refresh", !.retried = TRUE, !.grant = storage.grant]]
        BY <2>4, <1>4 DEF TurnAway
      <3>2. /\ call'[c].at = "refresh" /\ call'[c].grant = storage'.grant
            /\ \A d \in Callers : d # c => call'[d] = Idle
        BY <3>1, <2>1, <1>2 DEF CallRecord
      <3>3. KnowsItsPlace(c)' /\ \A s \in DOMAIN sessions' : Alive(s)' => InHand(s)'
        BY <3>2, <2>2 DEF KnowsItsPlace, InHand
      <3> QED
        BY <3>2, <3>3, <2>1, <1>2, AloneMoves
    <2> QED
      BY <2>3, <2>4
  <1>5. CASE Logout(c)
    <2>1. /\ call[c].at = "ask" /\ call[c].grant = storage.grant /\ Ends(c)
          /\ sessions' = [s \in DOMAIN sessions |->
               [sessions[s] EXCEPT !.revoked = @ \/ Revocable(sessions[s], call[c].grant)]]
          /\ UNCHANGED <<now, storage, setAside>>
      BY <1>2, <1>5 DEF Logout, KnowsItsPlace, console
    <2>2. ASSUME NEW s \in DOMAIN sessions
          PROVE  ~Alive(s)'
      <3> DEFINE gone == Revocable(sessions[s], call[c].grant)
                 row == [sessions[s] EXCEPT !.revoked = @ \/ gone]
      <3>1. sessions[s] \in Row /\ gone \in BOOLEAN /\ (gone <=> sessions[s].grant = storage.grant)
        BY <2>1, <2>2, <1>2 DEF Revocable
      <3> HIDE DEF gone
      <3>2. row.revoked = (sessions[s].revoked \/ gone) /\ row.refresh = sessions[s].refresh
        BY <3>1 DEF Row
      <3>3. sessions'[s] = row
        BY <2>1, <2>2 DEF gone
      <3>4. Alive(s) => gone
        BY <3>1, <1>2, <2>1
      <3>5. CASE gone
        BY <3>2, <3>3, <3>5 DEF Alive
      <3>6. CASE ~gone
        BY <3>2, <3>3, <3>4, <3>6, <2>1, <3>1 DEF Alive, Row
      <3> QED
        BY <3>5, <3>6
    <2>3. DOMAIN sessions' = DOMAIN sessions
      BY <2>1
    <2> QED
      BY <2>1, <2>2, <2>3, <1>1, <1>2, EndsOrderly
  <1>6. CASE Clear(c)
    <2>1. /\ call[c].at = "clear" /\ storage' = Empty /\ call' = [call EXCEPT ![c] = Idle]
          /\ UNCHANGED <<now, sessions, setAside>>
      BY <1>6 DEF Clear, database
    <2>2. \A d \in Callers : call'[d] = Idle
      BY <2>1, <1>2
    <2>3. \A s \in DOMAIN sessions' : ~Alive(s)'
      BY <2>1, <1>2 DEF KnowsItsPlace, Alive
    <2>4. KnowsItsPlace(c)'
      BY <2>2 DEF KnowsItsPlace, Idle
    <2> QED
      BY <2>1, <2>2, <2>3, <2>4, AloneMoves
  <1>7. CASE Arrive(c)
    <2>1. /\ call[c].at = "refresh" /\ call[c].grant = storage.grant /\ UNCHANGED <<now, sessions, storage, setAside>>
          /\ call' = [call EXCEPT ![c] = [call[c] EXCEPT !.at = "read", !.since = now]]
      BY <1>2, <1>7 DEF Arrive, KnowsItsPlace, database, console
    <2>2. /\ call'[c].at = "read" /\ call'[c].grant = storage'.grant
          /\ \A d \in Callers : d # c => call'[d] = Idle
      BY <2>1, <1>2 DEF CallRecord
    <2>3. \A s \in DOMAIN sessions' : Alive(s)' => InHand(s)'
      BY <2>1, <1>2 DEF Alive, InHand
    <2>4. KnowsItsPlace(c)'
      BY <2>2 DEF KnowsItsPlace
    <2> QED
      BY <2>1, <2>2, <2>3, <2>4, <1>2, AloneMoves
  <1>8. CASE Save(c)
    <2>1. /\ call[c].at = "granted" /\ call[c].grant # NoGrant /\ UNCHANGED <<now, sessions>>
          /\ storage' = [grant |-> call[c].grant, until |-> call[c].since + AccessTTL]
          /\ setAside \subseteq setAside'
          /\ call[c].path = "login" => setAside' = setAside \cup ({storage.grant} \ {NoGrant})
          /\ call[c].path # "login" => \A s \in DOMAIN sessions : sessions[s].grant # storage.grant
      BY <1>2, <1>8 DEF Save, KnowsItsPlace, database
    <2>2. storage'.grant = call[c].grant
      BY <2>1
    <2>3. \A s \in DOMAIN sessions' : Alive(s)' => sessions'[s].grant = storage'.grant
      <3>1. \A s \in DOMAIN sessions : Alive(s)' => Alive(s) /\ sessions[s].grant # storage.grant
        BY <2>1, <1>2 DEF Alive
      <3> QED
        BY <3>1, <2>1, <2>2, <1>2
    <2>4. CASE call[c].path = "login"
      BY <2>1, <2>2, <2>3, <2>4, <1>1, <1>2, <1>8, EndsOrderly DEF Save
    <2>5. CASE call[c].path # "login"
      <3>1. call' = [call EXCEPT ![c] = [call[c] EXCEPT !.at = "ask"]]
        BY <2>5, <1>8 DEF Save, Goes
      <3>2. /\ call'[c].at = "ask" /\ call'[c].grant = storage'.grant
            /\ \A d \in Callers : d # c => call'[d] = Idle
        BY <3>1, <2>2, <1>2 DEF CallRecord
      <3>3. KnowsItsPlace(c)' /\ \A s \in DOMAIN sessions' : Alive(s)' => InHand(s)'
        BY <3>2, <2>3 DEF KnowsItsPlace, InHand
      <3> QED
        BY <3>2, <3>3, <2>1, <2>2, AloneMoves
    <2> QED
      BY <2>4, <2>5
  <1>9. CASE Refused(c)
    <2>1. call[c].at = "refused" /\ storage' = Empty /\ UNCHANGED <<now, sessions, setAside>>
      BY <1>9 DEF Refused, database
    <2>2. \A s \in DOMAIN sessions' : ~Alive(s)'
      BY <2>1, <1>2 DEF KnowsItsPlace, Alive
    <2>3. CASE call[c].retried
      BY <2>1, <2>2, <2>3, <1>1, <1>9, EndsOrderly DEF Refused
    <2>4. CASE ~call[c].retried
      <3>1. call' = [call EXCEPT ![c] = [call[c] EXCEPT !.at = "ask", !.grant = NoGrant]]
        BY <2>4, <1>9 DEF Refused
      <3>2. /\ call'[c].at = "ask" /\ call'[c].grant = NoGrant
            /\ \A d \in Callers : d # c => call'[d] = Idle
        BY <3>1, <1>2 DEF CallRecord
      <3>3. KnowsItsPlace(c)'
        BY <3>2, <2>1 DEF KnowsItsPlace, Empty
      <3> QED
        BY <3>2, <3>3, <2>1, <2>2, AloneMoves
    <2> QED
      BY <2>3, <2>4
  <1> QED
    BY <1>3, <1>4, <1>5, <1>6, <1>7, <1>8, <1>9

LEMMA ReadOrderly ==
  ASSUME IInv, Orderly, NEW c \in Callers, ReadRow(c)
  PROVE  Orderly'
  <1>1. call[c].at = "read" /\ UNCHANGED <<now, storage, setAside>>
    BY DEF ReadRow, console
  <1>2. /\ \A d \in Callers : d # c => call[d] = Idle
        /\ call \in [Callers -> CallRecord]
        /\ \A s \in DOMAIN sessions : sessions[s] \in Row
        /\ \A s \in DOMAIN sessions : Alive(s) => sessions[s].grant = storage.grant
        /\ call[c].grant = storage.grant
        /\ storage.grant = NoGrant => storage = Empty
    BY <1>1, Alone DEF KnowsItsPlace
  <1>3. Typed /\ now \in Nat /\ call[c].since \in 0..now
    BY Parts, CallParts DEF IInv, SessionsTypeOK
  <1>4. CASE Goes(c, "refused") /\ UNCHANGED sessions /\ ~\E s \in DOMAIN sessions : Refreshable(s, c)
    <2>1. /\ call'[c].at = "refused" /\ \A d \in Callers : d # c => call'[d] = Idle
      BY <1>2, <1>4 DEF Goes, CallRecord
    <2>2. \A s \in DOMAIN sessions : Alive(s) => Refreshable(s, c)
      BY <1>2, <1>3 DEF Alive, Refreshable, Row
    <2>3. \A s \in DOMAIN sessions' : ~Alive(s)'
      BY <2>2, <1>1, <1>4 DEF Alive
    <2>4. KnowsItsPlace(c)'
      BY <2>1, <2>3 DEF KnowsItsPlace
    <2> QED
      BY <2>1, <2>3, <2>4, <1>1, <1>2, AloneMoves
  <1>5. ASSUME NEW s \in DOMAIN sessions,
               sessions' = [sessions EXCEPT ![s].locked = TRUE],
               call' = [call EXCEPT ![c].at = "rotate", ![c].session = s]
        PROVE  Orderly'
    <2>1. /\ call'[c].at = "rotate" /\ call'[c].grant = storage'.grant
          /\ \A d \in Callers : d # c => call'[d] = Idle
      BY <1>1, <1>2, <1>5 DEF CallRecord
    <2>2. /\ DOMAIN sessions' = DOMAIN sessions
          /\ \A t \in DOMAIN sessions : /\ sessions'[t].grant = sessions[t].grant
                                        /\ sessions'[t].revoked = sessions[t].revoked
                                        /\ sessions'[t].refresh = sessions[t].refresh
      BY <1>2, <1>5 DEF Row
    <2>3. \A t \in DOMAIN sessions' : Alive(t)' => InHand(t)'
      BY <2>2, <1>1, <1>2 DEF Alive, InHand
    <2>4. KnowsItsPlace(c)'
      BY <2>1 DEF KnowsItsPlace
    <2> QED
      BY <2>1, <2>3, <2>4, <1>1, <1>2, AloneMoves
  <1> QED
    BY <1>4, <1>5 DEF ReadRow

LEMMA RotateOrderly ==
  ASSUME IInv, Orderly, NEW c \in Callers, Rotate(c)
  PROVE  Orderly'
  <1>1. call[c].at = "rotate" /\ UNCHANGED <<now, storage, setAside>>
    BY DEF Rotate, console
  <1>2. /\ \A d \in Callers : d # c => call[d] = Idle
        /\ call \in [Callers -> CallRecord]
        /\ \A s \in DOMAIN sessions : sessions[s] \in Row
        /\ \A s \in DOMAIN sessions : Alive(s) => sessions[s].grant = storage.grant
        /\ call[c].grant = storage.grant
        /\ storage.grant = NoGrant => storage = Empty
    BY <1>1, Alone DEF KnowsItsPlace
  <1> DEFINE s == call[c].session
             new == [NewRow(call[c].since) EXCEPT !.revoked = sessions[s].revoked]
  <1>3. /\ sessions' = [sessions EXCEPT ![s] = new] /\ new.grant = issued + 1
        /\ call' = [call EXCEPT ![c] = [call[c] EXCEPT !.at = "granted", !.grant = issued', !.since = call[c].since]]
        /\ issued' = issued + 1
    BY DEF Rotate, Grants, NewRow
  <1> HIDE DEF new
  <1>4. /\ s \in DOMAIN sessions /\ sessions[s].grant = storage.grant /\ issued \in Nat
        /\ storage.grant \in 0..issued
        /\ \A t \in DOMAIN sessions : t # s => sessions[t].grant # storage.grant
    BY <1>1, <1>2, Parts DEF IInv, SessionsTypeOK, RotatesOwn, GrantsDiffer
  <1>5. /\ DOMAIN sessions' = DOMAIN sessions /\ sessions'[s] = new
        /\ \A t \in DOMAIN sessions : t # s => sessions'[t] = sessions[t]
    BY <1>3, <1>4
  <1>6. /\ call'[c].at = "granted" /\ call'[c].grant = issued + 1
        /\ \A d \in Callers : d # c => call'[d] = Idle
    BY <1>2, <1>3 DEF CallRecord
  <1>7. \A t \in DOMAIN sessions' : Alive(t)' => InHand(t)'
    <2> SUFFICES ASSUME NEW t \in DOMAIN sessions, Alive(t)' PROVE InHand(t)'
      BY <1>5
    <2>1. t = s
      BY <1>1, <1>2, <1>4, <1>5 DEF Alive
    <2> QED
      BY <2>1, <1>3, <1>5, <1>6 DEF InHand
  <1>8. \A t \in DOMAIN sessions' : sessions'[t].grant # storage'.grant
    BY <1>1, <1>3, <1>4, <1>5
  <1>9. KnowsItsPlace(c)'
    BY <1>4, <1>6, <1>8 DEF KnowsItsPlace, NoGrant
  <1> QED
    BY <1>1, <1>2, <1>6, <1>7, <1>9, AloneMoves

LEMMA LoginOrderly ==
  ASSUME IInv, Orderly, NEW c \in Callers, Login(c)
  PROVE  Orderly'
  <1>1. /\ call[c].at = "login" /\ UNCHANGED <<now, storage, setAside>>
        /\ sessions' = Append(sessions, NewRow(now)) /\ issued' = issued + 1
        /\ call' = [call EXCEPT ![c] = [call[c] EXCEPT !.at = "granted", !.grant = issued', !.since = now]]
    BY DEF Login, Grants, console
  <1>2. /\ \A d \in Callers : d # c => call[d] = Idle
        /\ call \in [Callers -> CallRecord]
        /\ \A s \in DOMAIN sessions : sessions[s].grant # NoGrant
        /\ \A s \in DOMAIN sessions : Alive(s) => sessions[s].grant = storage.grant
        /\ call[c].path = "login"
        /\ storage.grant = NoGrant => storage = Empty
    BY <1>1, Alone DEF KnowsItsPlace
  <1>3. issued \in Nat /\ NewRow(now).grant = issued + 1
    BY Parts DEF IInv, SessionsTypeOK, NewRow
  <1>4. /\ DOMAIN sessions' = DOMAIN sessions \cup {Len(sessions) + 1}
        /\ sessions'[Len(sessions) + 1] = NewRow(now)
        /\ \A s \in DOMAIN sessions : sessions'[s] = sessions[s]
    <2>1. sessions \in Seq(Row) /\ now \in Nat
      BY Parts DEF IInv, SessionsTypeOK, Typed
    <2>2. NewRow(now) \in Row
      BY <2>1, <1>3, NewRowType
    <2> QED
      BY <2>1, <2>2, <1>1
  <1>5. /\ call'[c].at = "granted" /\ call'[c].grant = issued + 1 /\ call'[c].path = "login"
        /\ \A d \in Callers : d # c => call'[d] = Idle
    BY <1>1, <1>2 DEF CallRecord
  <1>6. \A s \in DOMAIN sessions' : Alive(s)' => InHand(s)'
    BY <1>1, <1>2, <1>3, <1>4, <1>5 DEF Alive, InHand
  <1>7. KnowsItsPlace(c)'
    BY <1>3, <1>5 DEF KnowsItsPlace, NoGrant
  <1> QED
    BY <1>1, <1>2, <1>5, <1>6, <1>7, AloneMoves

LEMMA NextOrderly == IInv /\ Quiet /\ [Next]_vars => Quiet'
  <1> SUFFICES ASSUME IInv, Quiet, [Next]_vars, ~overlapped', faults' = 0 PROVE Orderly'
    BY DEF Quiet
  <1>1. faults \in Nat /\ Typed
    BY Parts DEF IInv, SessionsTypeOK
  <1>2. CASE UNCHANGED vars
    BY <1>2 DEF vars, database, console, Quiet, Orderly, Serial, Alive, InHand, KnowsItsPlace
  <1>3. CASE IssueChallenge
    BY <1>3 DEF IssueChallenge, console, Quiet, Orderly, Serial, Alive, InHand, KnowsItsPlace
  <1>4. CASE Tick
    <2>1. now' = now + 1 /\ UNCHANGED <<sessions, storage, overlapped, setAside, call, faults>>
      BY <1>4 DEF Tick, database, console
    <2>2. \A s \in DOMAIN sessions : Alive(s)' => Alive(s)
      <3>1. now \in Nat /\ \A s \in DOMAIN sessions : sessions[s] \in Row
        BY <1>1, Parts
      <3> QED
        BY <3>1, <2>1 DEF Alive, Row
    <2> QED
      BY <2>1, <2>2 DEF Quiet, Orderly, Serial, InHand, KnowsItsPlace
  <1>5. ASSUME NEW c \in Callers, BeginLogin(c) \/ Begin(c, "data") \/ Begin(c, "logout")
        PROVE  Orderly'
    <2>1. ~overlapped /\ faults = 0
      BY <1>5 DEF BeginLogin, Begin, Begins
    <2> QED
      BY <2>1, <1>5, EntersOrderly DEF Quiet
  <1>6. ASSUME NEW c \in Callers,
               \/ LoginRefused(c) \/ Answer(c) \/ TurnAway(c) \/ Logout(c) \/ Clear(c) \/ Arrive(c)
               \/ Save(c) \/ Refused(c)
        PROVE  Orderly'
    <2>1. ~overlapped /\ faults = 0
      BY <1>6 DEF LoginRefused, Answer, TurnAway, Logout, Clear, Arrive, Save, Refused, console
    <2> QED
      BY <2>1, <1>6, CallerOrderly DEF Quiet
  <1>7. ASSUME NEW c \in Callers, Login(c) \/ ReadRow(c) \/ Rotate(c)
        PROVE  Orderly'
    <2>1. ~overlapped /\ faults = 0
      BY <1>7 DEF Login, ReadRow, Rotate, console
    <2> QED
      BY <2>1, <1>7, LoginOrderly, ReadOrderly, RotateOrderly DEF Quiet
  <1>8. ASSUME NEW c \in Callers, Lost(c) \/ RollBack(c)
        PROVE  FALSE
    BY <1>1, <1>8 DEF Lost, RollBack, Fault
  <1> QED
    BY <1>2, <1>3, <1>4, <1>5, <1>6, <1>7, <1>8 DEF Next

\* While calls come one after another and are answered, a session that is alive is the one
\* the console holds or one that a later sign-in wrote over: signing out leaves no other,
\* however long the tokens live and however many sessions there were.
THEOREM SignedOutCorrect == Spec => []SignedOutIsRevoked
  <1>1. Init => Quiet
    BY DEF Init, Quiet, Orderly, Serial, Empty, KnowsItsPlace, Idle
  <1>2. ASSUME IInv, Quiet PROVE SignedOutIsRevoked
    <2>0. now \in Nat /\ \A s \in DOMAIN sessions : sessions[s] \in Row
      BY <1>2, Parts DEF IInv, SessionsTypeOK
    <2> SUFFICES ASSUME ~overlapped, faults = 0, \A c \in Callers : call[c] = Idle,
                        NEW s \in DOMAIN sessions, Alive(s)
                 PROVE  storage # Empty /\ sessions[s].grant = storage.grant
      BY <2>0 DEF SignedOutIsRevoked, Alive, Row
    <2>1. sessions[s].grant # NoGrant
      BY <2>0 DEF Row, NoGrant
    <2>2. InHand(s)
      BY <1>2 DEF Quiet, Orderly
    <2> QED
      BY <2>1, <2>2 DEF InHand, Empty, Idle
  <1> QED
    BY <1>1, <1>2, Invariance, NextOrderly, PTL DEF Spec
=============================================================================
