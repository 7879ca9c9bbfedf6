------------------------------- MODULE Ledger -------------------------------
(***************************************************************************)
(* The replicated ledger of internal/blockchain/chain.go: what a           *)
(* transaction does to balances, companies and vessels (applyTx), which    *)
(* transactions a broker admits to its mempool (AddTxToMempool) and which  *)
(* lists of transactions it accepts in a block                             *)
(* (validateBlockTransactionsNoLock).                                      *)
(*                                                                         *)
(* A chain is the sequence of its blocks after the genesis block, which    *)
(* is the same in every broker: chain[n] is the block of Index n.  A block *)
(* keeps its transactions and the instant it was proposed at; its          *)
(* Validator follows from its Index and its PrevHash from its position.    *)
(***************************************************************************)
EXTENDS Integers, SequencesExt

CONSTANTS
  Account,      \* the addresses balances are kept for
  Vessel,       \* vessel ids
  Tx,           \* the transactions clients and brokers may sign
  GenesisTxs,   \* the transactions of block 0 (a sequence)
  MaxBlockTxs   \* transactions per proposed block (5 in loopConsensus)

TxType == {"MINT", "REGISTER", "VESSEL_REG", "VESSEL_LOST",
           "TRANSFER", "DRONE_USAGE", "BROKER_FEE", "MISSION_LOG"}

\* The types that move ELIS from From to To.
DebitType == {"TRANSFER", "DRONE_USAGE", "BROKER_FEE"}

\* The empty string of an absent address, vessel, occurrence or payload.
Absent == ""

(***************************************************************************)
(* Two transactions are equal when their IDs (HashTx) are; nonce stands    *)
(* for the Timestamp and Nonce that tell two otherwise equal ones apart.   *)
(* signed is what the Signature was computed over: the transaction's hash  *)
(* or the id of the occurrence it pays.  Nothing in the code looks at the  *)
(* sign of an Amount, so only the amounts of Genesis are known to be       *)
(* positive.                                                               *)
(***************************************************************************)
LedgerAssumption ==
  /\ MaxBlockTxs \in Nat \ {0}
  /\ GenesisTxs \in Seq(Range(GenesisTxs)) /\ IsInjective(GenesisTxs)
  /\ \A tx \in Range(GenesisTxs) :
       tx.type \in {"MINT", "REGISTER"} /\ tx.amount >= 0
  /\ \A tx \in Tx \cup Range(GenesisTxs) :
       /\ DOMAIN tx = {"type", "from", "to", "amount", "vessel", "occ",
                       "payload", "signed", "nonce"}
       /\ tx.type \in TxType
       /\ tx.from \in Account \cup {Absent}
       /\ tx.to \in Account \cup {Absent}
       /\ tx.amount \in Int
       /\ tx.vessel \in Vessel \cup {Absent}
       /\ tx.type \in DebitType => tx.from \in Account
       /\ tx.type \in DebitType \cup {"MINT"} => tx.to \in Account
       /\ tx.signed \in {"hash", "occurrence"}

ASSUME LedgerAssumption

-----------------------------------------------------------------------------
(***************************************************************************)
(* The state derived from the chain.                                       *)
(***************************************************************************)

EmptyState ==
  [balances  |-> [a \in Account |-> 0],
   companies |-> {},
   vessels   |-> [v \in Vessel |-> Absent]]

\* The balances after tx.From has paid tx.To.
Paid(balances, tx) ==
  LET debited == [balances EXCEPT ![tx.from] = @ - tx.amount]
  IN  [debited EXCEPT ![tx.to] = @ + tx.amount]

applyTx(s, tx) ==
  CASE tx.type = "MINT" ->
         [s EXCEPT !.balances[tx.to] = @ + tx.amount]
    [] tx.type \in DebitType ->
         [s EXCEPT !.balances = Paid(@, tx)]
    [] tx.type = "REGISTER" ->
         [s EXCEPT !.companies = @ \cup {tx.from}]
    [] tx.type = "VESSEL_REG" ->
         [s EXCEPT !.vessels[tx.vessel] = tx.from]
    [] tx.type = "VESSEL_LOST" ->
         [s EXCEPT !.vessels[tx.vessel] = Absent]
    [] tx.type = "MISSION_LOG" -> s

\* state[i] is what the first i of the transactions make of s.
StatesAlong(s, txs) ==
  LET state[i \in 0..Len(txs)] ==
        IF i = 0 THEN s ELSE applyTx(state[i-1], txs[i])
  IN  state

After(s, txs) == StatesAlong(s, txs)[Len(txs)]

\* The state after block 0 and, in turn, the blocks after it.
RebuildState(chain) ==
  LET state[n \in 0..Len(chain)] ==
        IF n = 0 THEN After(EmptyState, GenesisTxs)
        ELSE After(state[n-1], chain[n].txs)
  IN  state[Len(chain)]

\* The transactions of block 0 and of the blocks after it, oldest first.
AllTransactions(chain) ==
  LET all[n \in 0..Len(chain)] ==
        IF n = 0 THEN GenesisTxs ELSE all[n-1] \o chain[n].txs
  IN  all[Len(chain)]

-----------------------------------------------------------------------------
(***************************************************************************)
(* Admission to a mempool and validity in a block.                         *)
(***************************************************************************)

\* A TRANSFER that names an occurrence is signed over the occurrence's id,
\* everything else over its own hash; a MINT needs no signature.
VerifyTxSignature(tx) ==
  \/ tx.type = "MINT"
  \/ tx.signed = IF tx.type = "TRANSFER" /\ tx.occ # Absent
                 THEN "occurrence" ELSE "hash"

\* The checks that read the registrations in s.
RegistrationOK(s, tx) ==
  /\ tx.type = "REGISTER" => tx.payload # Absent
  /\ tx.type = "VESSEL_REG" => /\ tx.vessel # Absent
                               /\ tx.from \in s.companies

\* What the mempool already spends for an address, whatever the type.
PendingSpent(pool, from) ==
  FoldLeft(LAMBDA sum, tx : sum + IF tx.from = from THEN tx.amount ELSE 0,
           0, pool)

\* AddTxToMempool returns no error for tx.
Admissible(chain, pool, tx) ==
  LET s == RebuildState(chain)
  IN  /\ ~ Contains(pool, tx)
      /\ ~ Contains(AllTransactions(chain), tx)
      /\ VerifyTxSignature(tx)
      /\ tx.type \in DebitType =>
           s.balances[tx.from] >= tx.amount + PendingSpent(pool, tx.from)
      /\ RegistrationOK(s, tx)

\* Mutant: every transaction is checked against the state before the block.
EachValid(chain, txs) ==
  LET s == RebuildState(chain)
  IN  \A i \in DOMAIN txs :
        /\ VerifyTxSignature(txs[i])
        /\ txs[i].type \in DebitType =>
             s.balances[txs[i].from] >= txs[i].amount
        /\ RegistrationOK(s, txs[i])

\* validateBlockTransactions returns no error for txs: each transaction is
\* checked against the state the ones before it leave.
ValidTransactions(chain, txs) ==
  LET state == StatesAlong(RebuildState(chain), txs)
  IN  \A i \in DOMAIN txs :
        /\ VerifyTxSignature(txs[i])
        /\ txs[i].type \in DebitType =>
             state[i-1].balances[txs[i].from] >= txs[i].amount
        /\ RegistrationOK(state[i-1], txs[i])

\* The transactions a proposer takes from its mempool.
ProposedTxs(pool) == SubSeq(pool, 1, Min({Len(pool), MaxBlockTxs}))

\* Mutant: the mempool keeps what was committed.
WithAllTxs(pool, txs) == pool

\* The mempool after a block with these transactions is appended: the loop
\* of AddBlock over the mempool.
WithoutTxs(pool, txs) ==
  LET kept[i \in 0..Len(pool)] ==
        IF i = 0 THEN <<>>
        ELSE IF Contains(txs, pool[i]) THEN kept[i-1]
        ELSE Append(kept[i-1], pool[i])
  IN  kept[Len(pool)]
=============================================================================
