--------------------------- MODULE ExchangeProofs ---------------------------
(***************************************************************************)
(* No signed message runs twice, for every set of messages, every number   *)
(* of keys and every length of the behaviour.                              *)
(*                                                                         *)
(* The nonces a key has used are below its next one, which no step lowers: *)
(* not a skip, and not the registration of a new key under the same index. *)
(***************************************************************************)
EXTENDS Exchange, TLAPS

\* What the key i of account j has used, and the nonce it expects.
KeyInv(j, i) ==
    /\ DOMAIN keys[j][i] = {"pk", "nonce"} /\ keys[j][i].nonce \in Nat
    /\ executed[j][i] \in Seq(Nat)
    /\ keys[j][i].nonce <= MAX_SKIP_NONCE_CAP + Len(executed[j][i]) + 1
    /\ \A n \in 1 .. Len(executed[j][i]) :
          /\ executed[j][i][n] < keys[j][i].nonce
          /\ executed[j][i][n] <= MAX_SKIP_NONCE_CAP + n
    /\ \A m, n \in 1 .. Len(executed[j][i]) : m < n => executed[j][i][m] < executed[j][i][n]

\* The setup stays; so do the accounts and their indices of keys.
SetupInv == setup \in {Setups[n] : n \in DOMAIN Setups}

KeysInv ==
    /\ DOMAIN keys = DOMAIN setup.keys /\ DOMAIN executed = DOMAIN setup.keys
    /\ \A j \in DOMAIN setup.keys :
          DOMAIN keys[j] = DOMAIN setup.keys[j] /\ DOMAIN executed[j] = DOMAIN setup.keys[j]
    /\ \A j \in DOMAIN setup.keys : \A i \in DOMAIN setup.keys[j] : KeyInv(j, i)

IInv == SetupInv /\ KeysInv

-----------------------------------------------------------------------------
\* No transfer, deposit or withdrawal touches a key or counts as a signed message;
LEMMA TransfersKeep ==
  ASSUME Transfers
  PROVE  setup' = setup /\ keys' = keys /\ executed' = executed
BY DEF Transfers, Step, authVars, L2Transfer, L2StrategyTransfer, L1Deposit, L1Withdraw, L2Withdraw,
       InternalTransfer

\* nor does the creation or configuration of accounts,
LEMMA AccountsKeep ==
  ASSUME Accounts
  PROVE  setup' = setup /\ keys' = keys /\ executed' = executed
BY DEF Accounts, Step, authVars, L2CreateSubAccount, L2UpdateAccountConfig, L2UpdateAccountAssetConfig

\* nor do pools and staking,
LEMMA PoolTransactionsKeep ==
  ASSUME PoolTransactions
  PROVE  setup' = setup /\ keys' = keys /\ executed' = executed
BY DEF PoolTransactions, Step, authVars, L2CreatePublicPool, L2UpdatePublicPool, L2CreateStakingPool,
       L2MintShares, L2BurnShares, L1BurnShares, L2ForceBurnShares, L2StakeAssets, L2UnstakeAssets,
       InternalPendingUnlock

\* nor trades, liquidations and deleverages,
LEMMA TradesKeep ==
  ASSUME Trades
  PROVE  setup' = setup /\ keys' = keys /\ executed' = executed
BY ZenonT(60) DEF Trades, Step, authVars, PerpsTrade, SpotTrade, InternalLiquidatePosition, InternalLiquidateSpot,
       LiquidationTrade, SpotLiquidationTrade, LiquidationEnds, InternalDeleverage, InternalCancelTied

\* nor a change of the terms of markets, assets or the system,
LEMMA TermsKeep ==
  ASSUME Terms
  PROVE  setup' = setup /\ keys' = keys /\ executed' = executed
BY DEF Terms, Step, authVars, L2UpdateLeverage, L2UpdateMargin, InternalExitPosition, L1CreateMarket,
       L1UpdateMarket, L2UpdateMarketConfig, L1RegisterAsset, L1UpdateAsset, L2UpdateAssetConfig,
       L1SetSystemConfig

\* nor what happens between blocks.
LEMMA BlocksKeep ==
  ASSUME Blocks
  PROVE  setup' = setup /\ keys' = keys /\ executed' = executed
BY DEF Blocks, Step, authVars, BlockPreExecution, UpdateImpactPrices

-----------------------------------------------------------------------------
(* Appending a nonce that is not below the expected one.                   *)
LEMMA NonceAppended ==
  ASSUME NEW cap \in Nat, NEW used \in Seq(Nat), NEW next \in Nat, NEW nonce \in Nat,
         next <= cap + Len(used) + 1,
         \A n \in 1 .. Len(used) : used[n] < next /\ used[n] <= cap + n,
         \A m, n \in 1 .. Len(used) : m < n => used[m] < used[n],
         next <= nonce, nonce <= cap \/ nonce = next,
         NEW after, after = Append(used, nonce)
  PROVE  /\ after \in Seq(Nat)
         /\ nonce + 1 <= cap + Len(after) + 1
         /\ \A n \in 1 .. Len(after) : after[n] < nonce + 1 /\ after[n] <= cap + n
         /\ \A m, n \in 1 .. Len(after) : m < n => after[m] < after[n]
<1>1. /\ after \in Seq(Nat) /\ Len(after) = Len(used) + 1 /\ Len(used) \in Nat
      /\ after[Len(used) + 1] = nonce
      /\ \A n \in 1 .. Len(used) : after[n] = used[n] /\ used[n] \in Nat
  OBVIOUS
<1>2. nonce + 1 <= cap + Len(after) + 1
  BY <1>1
<1>3. ASSUME NEW n \in 1 .. Len(after)
      PROVE  after[n] < nonce + 1 /\ after[n] <= cap + n
  <2>1. CASE n = Len(used) + 1
    BY <1>1, <2>1
  <2>2. CASE n \in 1 .. Len(used)
    BY <1>1, <2>2
  <2> QED
    BY <1>1, <2>1, <2>2
<1>4. ASSUME NEW m \in 1 .. Len(after), NEW n \in 1 .. Len(after), m < n
      PROVE  after[m] < after[n]
  <2>1. m \in 1 .. Len(used)
    BY <1>1, <1>4
  <2>2. CASE n = Len(used) + 1
    BY <1>1, <2>1, <2>2
  <2>3. CASE n \in 1 .. Len(used)
    BY <1>1, <1>4, <2>1, <2>3
  <2> QED
    BY <1>1, <2>2, <2>3
<1> QED
  BY <1>1, <1>2, <1>3, <1>4

(* A key that uses a nonce leaves the other keys alone.                    *)
LEMMA KeyUses ==
  ASSUME KeysInv, NEW a \in DOMAIN setup.keys, NEW x \in DOMAIN setup.keys[a], NEW nonce \in Nat,
         keys[a][x].nonce <= nonce, nonce <= MAX_SKIP_NONCE_CAP \/ nonce = keys[a][x].nonce,
         NEW k, DOMAIN k = {"pk", "nonce"}, k.nonce = nonce + 1,
         keys' = [keys EXCEPT ![a][x] = k],
         executed' = [executed EXCEPT ![a][x] = Append(executed[a][x], nonce)],
         setup' = setup
  PROVE  KeysInv'
<1>1. /\ DOMAIN keys = DOMAIN setup.keys /\ DOMAIN executed = DOMAIN setup.keys
      /\ \A j \in DOMAIN setup.keys :
            DOMAIN keys[j] = DOMAIN setup.keys[j] /\ DOMAIN executed[j] = DOMAIN setup.keys[j]
      /\ \A j \in DOMAIN setup.keys : \A i \in DOMAIN setup.keys[j] : KeyInv(j, i)
  BY DEF KeysInv
<1>2. /\ DOMAIN keys' = DOMAIN setup.keys
      /\ \A j \in DOMAIN setup.keys : DOMAIN keys'[j] = DOMAIN setup.keys[j]
      /\ keys'[a][x] = k
      /\ \A j \in DOMAIN setup.keys : \A i \in DOMAIN setup.keys[j] :
            j # a \/ i # x => keys'[j][i] = keys[j][i]
  BY <1>1
<1>3. /\ DOMAIN executed' = DOMAIN setup.keys
      /\ \A j \in DOMAIN setup.keys : DOMAIN executed'[j] = DOMAIN setup.keys[j]
      /\ executed'[a][x] = Append(executed[a][x], nonce)
      /\ \A j \in DOMAIN setup.keys : \A i \in DOMAIN setup.keys[j] :
            j # a \/ i # x => executed'[j][i] = executed[j][i]
  BY <1>1
<1>4. KeyInv(a, x)'
  <2> DEFINE used == executed[a][x]
             next == keys[a][x].nonce
             after == executed'[a][x]
  <2>1. /\ used \in Seq(Nat) /\ next \in Nat /\ next <= MAX_SKIP_NONCE_CAP + Len(used) + 1
        /\ \A n \in 1 .. Len(used) : used[n] < next /\ used[n] <= MAX_SKIP_NONCE_CAP + n
        /\ \A m, n \in 1 .. Len(used) : m < n => used[m] < used[n]
    BY <1>1 DEF KeyInv
  <2>2. next <= nonce /\ (nonce <= MAX_SKIP_NONCE_CAP \/ nonce = next)
        /\ after = Append(used, nonce) /\ MAX_SKIP_NONCE_CAP \in Nat
    BY <1>3, AuthAssumption
  <2> HIDE DEF used, next, after
  <2>3. /\ after \in Seq(Nat)
        /\ nonce + 1 <= MAX_SKIP_NONCE_CAP + Len(after) + 1
        /\ \A n \in 1 .. Len(after) : after[n] < nonce + 1 /\ after[n] <= MAX_SKIP_NONCE_CAP + n
        /\ \A m, n \in 1 .. Len(after) : m < n => after[m] < after[n]
    BY <2>1, <2>2, NonceAppended
  <2> QED
    BY <1>2, <2>3 DEF KeyInv, after
<1>5. ASSUME NEW j \in DOMAIN setup.keys, NEW i \in DOMAIN setup.keys[j]
      PROVE  KeyInv(j, i)'
  <2>1. CASE j = a /\ i = x
    BY <1>4, <2>1
  <2>2. CASE j # a \/ i # x
    <3>1. keys'[j][i] = keys[j][i] /\ executed'[j][i] = executed[j][i]
      BY <1>2, <1>3, <2>2
    <3>2. KeyInv(j, i)
      BY <1>1
    <3> QED
      BY <3>1, <3>2 DEF KeyInv
  <2> QED
    BY <2>1, <2>2
<1> QED
  BY <1>2, <1>3, <1>5 DEF KeysInv

(* What an authorised message leaves behind, whatever else it does.        *)
LEMMA ExecutedKeeps ==
  ASSUME IInv, NEW tx \in Inputs.l2, NonceValid(tx), NEW ran, NEW key,
         ran.account = tx.account, ran.key = tx.key, ran.nonce = tx.nonce,
         DOMAIN key = {"pk", "nonce"}, Executed(ran, key)
  PROVE  IInv'
<1>1. PICK n \in DOMAIN Setups : setup = Setups[n]
  BY DEF IInv, SetupInv
<1>2. /\ tx.account \in DOMAIN setup.keys /\ tx.key \in DOMAIN setup.keys[tx.account]
      /\ tx.nonce \in Nat
  BY <1>1, AuthAssumption DEF SetupValid, Inputs
<1>3. setup' = setup
  BY DEF Executed, ExchangeUnchanged
<1>4. keys[tx.account][tx.key].nonce \in Nat
  BY <1>2 DEF IInv, KeysInv, KeyInv
<1>5. /\ keys[tx.account][tx.key].nonce <= tx.nonce
      /\ tx.nonce <= MAX_SKIP_NONCE_CAP \/ tx.nonce = keys[tx.account][tx.key].nonce
  BY <1>2, <1>4 DEF NonceValid, Key
<1> DEFINE k == [key EXCEPT !.nonce = tx.nonce + 1]
<1>6. DOMAIN k = {"pk", "nonce"} /\ k.nonce = tx.nonce + 1
  OBVIOUS
<1>7. /\ keys' = [keys EXCEPT ![tx.account][tx.key] = k]
      /\ executed' = [executed EXCEPT ![tx.account][tx.key] =
                          Append(executed[tx.account][tx.key], tx.nonce)]
  BY DEF Executed, NextNonce
<1> HIDE DEF k
<1>8. KeysInv'
  BY <1>2, <1>3, <1>5, <1>6, <1>7, KeyUses DEF IInv
<1> QED
  BY <1>3, <1>8 DEF IInv, SetupInv

\* Every transaction of the Authorisation module keeps the invariant.
LEMMA AuthorisationsKeep ==
  ASSUME IInv, Authorisations
  PROVE  IInv'
<1>1. PICK s \in DOMAIN Setups : setup = Setups[s]
  BY DEF IInv, SetupInv
<1>2. ASSUME NEW tx \in Inputs.l2
      PROVE  MessageFields \subseteq DOMAIN tx /\ DOMAIN Key(tx) = {"pk", "nonce"}
  <2>1. /\ MessageFields \subseteq DOMAIN tx
        /\ tx.account \in DOMAIN setup.keys /\ tx.key \in DOMAIN setup.keys[tx.account]
    BY <1>1, <1>2, AuthAssumption DEF SetupValid, Inputs
  <2> QED
    BY <2>1 DEF IInv, KeysInv, KeyInv, Key
<1>3. ASSUME NEW tx \in Inputs.l2, L2OrderAuthorised(tx)
      PROVE  IInv'
  <2>1. NonceValid(tx) /\ Executed(Sanitized(tx), Key(tx))
    BY <1>3 DEF L2OrderAuthorised, Authorised
  <2>2. /\ Sanitized(tx).account = tx.account /\ Sanitized(tx).key = tx.key
        /\ Sanitized(tx).nonce = tx.nonce
    BY <1>2 DEF Sanitized, MessageFields
  <2> QED
    BY <1>2, <2>1, <2>2, ExecutedKeeps
<1>4. ASSUME NEW tx \in Inputs.l2, L2ChangePubKey(tx)
      PROVE  IInv'
  <2>1. NonceValid(tx) /\ Executed(tx, [Key(tx) EXCEPT !.pk = tx.new])
    BY <1>4 DEF L2ChangePubKey, Authorised
  <2>2. DOMAIN [Key(tx) EXCEPT !.pk = tx.new] = {"pk", "nonce"}
    BY <1>2
  <2> QED
    BY <2>1, <2>2, ExecutedKeeps
<1>5. ASSUME NEW tx \in Inputs.l2, L2ApproveIntegrator(tx)
      PROVE  IInv'
  <2>1. NonceValid(tx) /\ Executed(tx, Key(tx))
    BY <1>5 DEF L2ApproveIntegrator, Authorised
  <2> QED
    BY <1>2, <2>1, ExecutedKeeps
<1>6. ASSUME NEW in, L1ChangePubKey(in)
      PROVE  IInv'
  <2>1. setup' = setup /\ executed' = executed
        /\ (keys' = keys \/ keys' = [keys EXCEPT ![in.account][in.key].pk = in.new])
    BY <1>6 DEF L1ChangePubKey, ExchangeUnchanged
  <2>2. CASE keys' = keys
    BY <2>1, <2>2 DEF IInv, SetupInv, KeysInv, KeyInv
  <2>3. CASE keys' = [keys EXCEPT ![in.account][in.key].pk = in.new]
    <3>1. DOMAIN keys' = DOMAIN keys /\ \A j \in DOMAIN keys : DOMAIN keys'[j] = DOMAIN keys[j]
      BY <2>3
    <3>2. ASSUME NEW j \in DOMAIN setup.keys, NEW i \in DOMAIN setup.keys[j]
          PROVE  DOMAIN keys'[j][i] = DOMAIN keys[j][i] /\ keys'[j][i].nonce = keys[j][i].nonce
      <4>1. /\ DOMAIN keys = DOMAIN setup.keys /\ DOMAIN keys[j] = DOMAIN setup.keys[j]
            /\ DOMAIN keys[j][i] = {"pk", "nonce"}
        BY DEF IInv, KeysInv, KeyInv
      <4> QED
        BY <2>3, <4>1
    <3>3. ASSUME NEW j \in DOMAIN setup.keys, NEW i \in DOMAIN setup.keys[j]
          PROVE  KeyInv(j, i)'
      <4>1. KeyInv(j, i)
        BY DEF IInv, KeysInv
      <4> QED
        BY <2>1, <3>2, <4>1 DEF KeyInv
    <3> QED
      BY <2>1, <3>1, <3>3 DEF IInv, SetupInv, KeysInv
  <2> QED
    BY <2>1, <2>2, <2>3
<1> QED
  BY <1>3, <1>4, <1>5, <1>6 DEF Authorisations

(* Every key is unused at first.                                           *)
LEMMA KeysAtFirst ==
  ASSUME Init
  PROVE  IInv
<1>1. PICK s \in DOMAIN Setups : setup = Setups[s]
  BY DEF Init, LedgerInit
<1>2. keys = setup.keys /\ executed = [j \in DOMAIN keys |-> [i \in DOMAIN keys[j] |-> <<>>]]
  BY DEF Init, AuthInit
<1>3. MAX_SKIP_NONCE_CAP \in Nat
      /\ \A j \in DOMAIN setup.keys : \A i \in DOMAIN setup.keys[j] :
            /\ DOMAIN setup.keys[j][i] = {"pk", "nonce"}
            /\ setup.keys[j][i].nonce \in 0 .. (MAX_SKIP_NONCE_CAP + 1)
  BY <1>1, AuthAssumption DEF SetupValid
<1>4. ASSUME NEW j \in DOMAIN setup.keys, NEW i \in DOMAIN setup.keys[j]
      PROVE  KeyInv(j, i)
  <2>1. executed[j][i] = <<>> /\ keys[j][i] = setup.keys[j][i]
    BY <1>2
  <2>2. executed[j][i] \in Seq(Nat) /\ Len(executed[j][i]) = 0
    BY <2>1
  <2> QED
    BY <1>3, <2>1, <2>2 DEF KeyInv
<1>5. DOMAIN executed = DOMAIN setup.keys
      /\ \A j \in DOMAIN setup.keys : DOMAIN executed[j] = DOMAIN setup.keys[j]
  BY <1>2
<1> QED
  BY <1>1, <1>2, <1>4, <1>5 DEF IInv, SetupInv, KeysInv

-----------------------------------------------------------------------------
(* A key's next nonce is above all that it has used and within the cap and *)
(* the number of its transactions, whatever the sequencer submits and      *)
(* whatever else the exchange does in between (verify_l2_tx, L1ChangePubKey *)
(* and the handlers of all other transactions).                            *)
THEOREM NoncesOnlyGrow == Spec => []IInv
<1>1. Init => IInv
  BY KeysAtFirst
<1>2. IInv /\ [Next]_allVars => IInv'
  <2> SUFFICES ASSUME IInv, [Next]_allVars
               PROVE  IInv'
    OBVIOUS
  <2>1. CASE setup' = setup /\ keys' = keys /\ executed' = executed
    BY <2>1 DEF IInv, SetupInv, KeysInv, KeyInv
  <2>2. CASE Authorisations
    BY <2>2, AuthorisationsKeep
  <2>3. CASE UNCHANGED allVars
    BY <2>1, <2>3 DEF allVars, vars, authVars
  <2> QED
    BY <2>1, <2>2, <2>3, TransfersKeep, AccountsKeep, PoolTransactionsKeep, TradesKeep, TermsKeep,
       BlocksKeep DEF Next
<1> QED
  BY <1>1, <1>2, PTL DEF Spec

(* The sequencer cannot run a signed message twice: the nonces a key has   *)
(* used only grow, over skips, removed and replaced keys (verify_l2_tx).   *)
THEOREM SignedMessagesRunOnce == Spec => []SignedRunsOnce
<1>1. IInv => SignedRunsOnce
  <2> SUFFICES ASSUME IInv, NEW j \in DOMAIN keys, NEW i \in DOMAIN keys[j],
                      NEW m \in DOMAIN executed[j][i], NEW n \in DOMAIN executed[j][i]
               PROVE  /\ m < n => executed[j][i][m] < executed[j][i][n]
                      /\ executed[j][i][n] <= MAX_SKIP_NONCE_CAP + n
    BY DEF SignedRunsOnce
  <2>1. KeyInv(j, i)
    BY DEF IInv, KeysInv
  <2>2. DOMAIN executed[j][i] = 1 .. Len(executed[j][i])
    BY <2>1 DEF KeyInv
  <2> QED
    BY <2>1, <2>2 DEF KeyInv
<1> QED
  BY <1>1, NoncesOnlyGrow, PTL

=============================================================================
