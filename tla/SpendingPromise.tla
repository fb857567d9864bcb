-------------------------- MODULE SpendingPromise --------------------------
(***************************************************************************)
(* What spending limits promise, without generations, epochs or resets.    *)
(*                                                                         *)
(* A limit is an allowance: an amount for every period counted from the    *)
(* moment it was set (phase is how far into one it is), the signers who    *)
(* may use it and the places it may pay.  Setting it again starts it       *)
(* afresh.  A change of the account's signers can only take away.          *)
(***************************************************************************)
EXTENDS Integers, FiniteSets

CONSTANTS Signers, Places, Amounts, Periods, NoPayment

VARIABLES
  allowances,  \* the limits there are, by id
  issued,      \* the last id given out
  payment      \* the payment of this step, if it is one

promised == <<allowances, issued, payment>>

InitPromise ==
  /\ allowances = << >> /\ issued = 0
  /\ payment = NoPayment

\* Ids are given out once; an id in use may be set again.
Set(id, amount, period, everywhere) ==
  /\ id = issued + 1 \/ id \in DOMAIN allowances
  /\ issued' = IF id = issued + 1 THEN id ELSE issued
  /\ allowances' = [x \in DOMAIN allowances \cup {id} |->
       IF x # id THEN allowances[x]
       ELSE [amount |-> amount, period |-> period, phase |-> 0, spent |-> 0,
             signers |-> {}, places |-> IF everywhere THEN Places ELSE {}]]
  /\ payment' = NoPayment

AllowSigner(id, signer) ==
  /\ allowances' = [allowances EXCEPT ![id].signers = @ \cup {signer}]
  /\ payment' = NoPayment /\ UNCHANGED issued

AllowPlace(id, place) ==
  /\ allowances' = [allowances EXCEPT ![id].places = @ \cup {place}]
  /\ payment' = NoPayment /\ UNCHANGED issued

Withdraw(id) ==
  /\ allowances' = [x \in DOMAIN allowances \ {id} |-> allowances[x]]
  /\ payment' = NoPayment /\ UNCHANGED issued

ChangeSigners ==
  /\ DOMAIN allowances' = DOMAIN allowances
  /\ \A id \in DOMAIN allowances :
       \E kept \in SUBSET allowances[id].signers :
         allowances'[id] = [allowances[id] EXCEPT !.signers = kept]
  /\ payment' = NoPayment /\ UNCHANGED issued

Pay(id, signer, place, value) ==
  /\ signer \in allowances[id].signers /\ place \in allowances[id].places
  /\ allowances[id].spent + value <= allowances[id].amount
  /\ allowances' = [allowances EXCEPT ![id].spent = @ + value]
  /\ payment' = [id |-> id, signer |-> signer, to |-> place, amount |-> value]
  /\ UNCHANGED issued

\* Time passes; a new period begins for the limits whose time it is.
Advance ==
  /\ allowances' = [id \in DOMAIN allowances |->
       LET old == allowances[id]
           phase == IF old.period = 0 THEN 0 ELSE (old.phase + 1) % old.period
       IN  [old EXCEPT !.phase = phase,
                       !.spent = IF old.period # 0 /\ phase = 0 THEN 0 ELSE @]]
  /\ payment' = NoPayment /\ UNCHANGED issued

\* Something else happened, or a payment is over.
Nothing == payment' = NoPayment /\ UNCHANGED <<allowances, issued>>

NextPromise ==
  \/ \E id \in DOMAIN allowances \cup {issued + 1}, amount \in Amounts, period \in Periods, everywhere \in BOOLEAN :
       Set(id, amount, period, everywhere)
  \/ \E id \in DOMAIN allowances :
       \/ \E signer \in Signers : AllowSigner(id, signer)
       \/ \E place \in Places : AllowPlace(id, place)
       \/ Withdraw(id)
       \/ \E signer \in Signers, place \in Places, value \in Amounts : Pay(id, signer, place, value)
  \/ ChangeSigners \/ Advance \/ Nothing

Promise == InitPromise /\ [][NextPromise]_promised
=============================================================================
