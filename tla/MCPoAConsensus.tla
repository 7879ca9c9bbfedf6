--------------------------- MODULE MCPoAConsensus ---------------------------
(***************************************************************************)
(* Instances of PoAConsensus for TLC: two to four brokers in the order of  *)
(* consensus.go, one company, and one or three payments.                   *)
(***************************************************************************)
EXTENDS PoAConsensus

CONSTANTS B1, B2, B3, B4, company

FourValidators == <<B1, B2, B3, B4>>
ThreeValidators == <<B1, B2, B3>>
TwoValidators == <<B1, B2>>

MCAccount == {company, "treasury"}

\* A mint of the genesis block: the company starts with this balance.
Mint(amount) ==
  [type |-> "MINT", from |-> Absent, to |-> company, amount |-> amount,
   vessel |-> Absent, occ |-> Absent, payload |-> Absent, signed |-> "hash",
   nonce |-> 0]

\* A payment of the company that is signed as a plain transfer.
Transfer(amount, nonce) ==
  [type |-> "TRANSFER", from |-> company, to |-> "treasury",
   amount |-> amount, vessel |-> Absent, occ |-> Absent, payload |-> Absent,
   signed |-> "hash", nonce |-> nonce]

\* A payment that takes an amount from the company that it pays.
Charge(amount, nonce) ==
  [Transfer(-amount, nonce) EXCEPT !.from = "treasury", !.to = company]

Balance2 == <<Mint(2)>>
OneTransfer == {Transfer(1, 1)}
\* The two payments may be in one block, but the balance does not cover both
\* once the company has been charged.
TwoAndCharge == {Transfer(1, 1), Transfer(1, 2), Charge(1, 3)}

AtB2 == [tx \in Tx |-> {B2}]
ByNonce == [tx \in Tx |-> IF tx.nonce = 1 THEN {Validators[1]} ELSE {Validators[2]}]
=============================================================================
