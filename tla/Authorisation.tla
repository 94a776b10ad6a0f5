--------------------------- MODULE Authorisation ---------------------------
(***************************************************************************)
(* Who may do what: the API keys of the accounts, the nonces that order    *)
(* the transactions of a key, and the integrators an account has approved. *)
(* A transaction is the message that was signed; the sequencer may submit  *)
(* any message at any time and as often as it likes.  What a transaction   *)
(* does besides is in Ledger and in OrderFlow.                             *)
(*                                                                         *)
(* A message has a type, the account, the index of its API key, the key it *)
(* was signed with (pk), the account whose layer 1 key signed it too       *)
(* (owner), nonce, expiry, the kind of its market and the attributes skip  *)
(* (skip nonce), who and fee (an integrator and its fee, nobody and 0 if   *)
(* not set).  Taker and maker fees are handled side by side and are one.   *)
(***************************************************************************)
EXTENDS Ledger

CONSTANTS
    NoKey,                      \* the public key zero
    Nobody,                     \* the integrator index zero
    NIL_API_KEY_INDEX,
    MAX_SKIP_NONCE_CAP,
    MAX_APPROVED_INTEGRATORS

\* A message has these fields and names a key; no key starts beyond the cap.
MessageFields == {"type", "account", "key", "nonce", "skip", "fee"}
SetupValid(s) ==
    /\ \A j \in DOMAIN s.keys : \A i \in DOMAIN s.keys[j] :
          DOMAIN s.keys[j][i] = {"pk", "nonce"} /\ s.keys[j][i].nonce \in 0 .. MAX_SKIP_NONCE_CAP + 1
    /\ \A tx \in s.inputs.l2 :
          /\ MessageFields \subseteq DOMAIN tx
          /\ tx.account \in DOMAIN s.keys /\ tx.key \in DOMAIN s.keys[tx.account]
          /\ tx.nonce \in Nat

ASSUME AuthAssumption ==
    MAX_SKIP_NONCE_CAP \in Nat /\ \A n \in DOMAIN Setups : SetupValid(Setups[n])

VARIABLES
    keys,       \* account -> API key index -> [pk, nonce]
    approved,   \* account -> slots of approved integrators
    executed,   \* ghost: account -> API key index -> nonces of what it executed
    last,       \* ghost: the last message that was executed, with the fee it had
    granted     \* ghost: account -> integrator -> its latest approval

authVars == <<keys, approved, executed, last, granted>>

NoFees == [perps |-> 0, spot |-> 0]
NoApproval == [who |-> Nobody, fee |-> NoFees, expiry |-> 0]
ApprovalSlots == 1 .. MAX_APPROVED_INTEGRATORS

NoTx == [who |-> Nobody]

NoApprovals(owners) == [j \in owners |-> [i \in ApprovalSlots |-> NoApproval]]

AuthInit ==
    /\ keys = setup.keys
    /\ approved = NoApprovals(DOMAIN keys)
    /\ executed = [j \in DOMAIN keys |-> [i \in DOMAIN keys[j] |-> <<>>]]
    /\ last = NoTx
    /\ granted = [j \in DOMAIN keys |-> [w \in DOMAIN acct |-> NoApproval]]

ExchangeUnchanged ==
    UNCHANGED <<setup, acct, asset, market, system, clock, rounds, stack, flow, drift>>

----------------------------------------------------------------------------
(* Signature, nonce and expiry.                                            *)

Key(tx) == keys[tx.account][tx.key]

\* The key that has to have signed: a new key signs its own registration.
select_account_pk(tx) == IF tx.type = "l2_change_pub_key" THEN tx.new ELSE Key(tx).pk

NonceValid(tx) ==
    IF tx.skip THEN Key(tx).nonce <= tx.nonce /\ tx.nonce <= MAX_SKIP_NONCE_CAP
    ELSE tx.nonce = Key(tx).nonce

\* Registering the empty key, which disables an index, needs no signature.
SignatureValid(tx) ==
    IF tx.type = "l2_change_pub_key" /\ tx.new = NoKey THEN TRUE
    ELSE select_account_pk(tx) # NoKey /\ tx.pk = select_account_pk(tx)

\* New keys, and fees for a stranger, need the signature of the owner too.
NeedsL1Signature(tx) ==
    \/ tx.type = "l2_change_pub_key"
    \/ /\ tx.type = "l2_approve_integrator"
       /\ tx.approval.fee # NoFees
       /\ acct[tx.account].master # acct[tx.approval.who].master

Authorised(tx) ==
    /\ Idle
    /\ clock < tx.expiredAt
    /\ NonceValid(tx)
    /\ SignatureValid(tx)
    /\ NeedsL1Signature(tx) => tx.owner = acct[tx.account].master
    /\ verify_l2_tx(tx.account, acct[tx.account], tx.type)

(* Mutant: counts transactions, also over nonces that were skipped. *)
NextNonce_Counted(tx) == Key(tx).nonce + 1

NextNonce(tx) == tx.nonce + 1

Executed(tx, key) ==
    /\ keys' = [keys EXCEPT ![tx.account][tx.key] = [key EXCEPT !.nonce = NextNonce(tx)]]
    /\ executed' = [executed EXCEPT ![tx.account][tx.key] = Append(@, tx.nonce)]
    /\ last' = tx
    /\ ExchangeUnchanged

----------------------------------------------------------------------------
(* Attributes: an integrator must have been approved.                      *)

AttributesValid(tx) == tx.fee # 0 => tx.who # Nobody

OfIntegrator(slots, w) == {i \in DOMAIN slots : slots[i].who = w}

\* The first slot of the integrator decides.
ApprovalOf(tx) ==
    approved[tx.account][Min(OfIntegrator(approved[tx.account], tx.who))]

\* Where a transaction has no market its integrator is not looked at.
WithIntegrator(tx) == tx.who # Nobody /\ tx.market # "none"

SanitizeAccepts(tx) ==
    WithIntegrator(tx) =>
        /\ OfIntegrator(approved[tx.account], tx.who) # {}
        /\ clock < ApprovalOf(tx).expiry
        /\ tx.fee <= ApprovalOf(tx).fee[tx.market]

Sanitized(tx) ==
    IF WithIntegrator(tx) THEN [tx EXCEPT !.fee = Least(@, system.cap[tx.market])] ELSE tx

\* An order with attributes; what becomes of it is in OrderFlow.
L2OrderAuthorised(tx) ==
    /\ tx.type \in OrderTxs
    /\ Authorised(tx)
    /\ AttributesValid(tx) /\ SanitizeAccepts(tx)
    /\ Executed(Sanitized(tx), Key(tx))
    /\ UNCHANGED <<approved, granted>>

----------------------------------------------------------------------------
(* Keys.                                                                   *)

L2ChangePubKey(tx) ==
    /\ tx.type = "l2_change_pub_key"
    /\ Authorised(tx)
    /\ tx.key # NIL_API_KEY_INDEX
    /\ Executed(tx, [Key(tx) EXCEPT !.pk = tx.new])
    /\ UNCHANGED <<approved, granted>>

\* in = [account, master, key, new]: sent by the owner through layer 1.
L1ChangePubKey(in) ==
    LET a == acct[in.account]
    IN  /\ Idle
        /\ in.key # NIL_API_KEY_INDEX
        /\ keys' = IF Exists(a) /\ in.master = a.master /\ a.type # STAKING_POOL
                   THEN [keys EXCEPT ![in.account][in.key].pk = in.new] ELSE keys
        /\ ExchangeUnchanged
        /\ UNCHANGED <<approved, executed, last, granted>>

----------------------------------------------------------------------------
(* Integrators.  tx.approval = [who, fee, expiry]                          *)

Revoking(tx) == tx.approval.fee = NoFees /\ tx.approval.expiry = 0
Granting(tx) == ~Revoking(tx)

Expired(slot) == slot.expiry <= clock
EmptySlot(slot) == slot.expiry = 0

ApprovalValid(tx) ==
    LET new == tx.approval
    IN  /\ new.expiry = 0 => new.fee = NoFees
        /\ \A t \in DOMAIN new.fee : new.fee[t] <= system.cap[t]
        /\ tx.account = TREASURY_ACCOUNT_INDEX => acct[tx.account].master = acct[new.who].master
        /\ Granting(tx) =>
              /\ clock < new.expiry
              /\ \E i \in ApprovalSlots :
                    LET slot == approved[tx.account][i]
                    IN  EmptySlot(slot) \/ slot.who = new.who \/ Expired(slot)

(* Mutant: approvals stay where they are, so that there are gaps. *)
ApprovalsKept_InPlace(tx) ==
    [i \in ApprovalSlots |->
        LET slot == approved[tx.account][i]
        IN  IF Expired(slot) \/ (Revoking(tx) /\ slot.who = tx.approval.who) THEN NoApproval ELSE slot]

\* What expired or is revoked goes; the others move to the front.
ApprovalsKept(tx) ==
    LET kept == SelectSeq(approved[tx.account], LAMBDA slot :
                    ~Expired(slot) /\ ~(Revoking(tx) /\ slot.who = tx.approval.who))
    IN  [i \in ApprovalSlots |-> IF i <= Len(kept) THEN kept[i] ELSE NoApproval]

\* A new approval takes the first slot that is empty or the integrator's own.
ApprovalInserted(slots, new) ==
    LET free == {i \in ApprovalSlots : EmptySlot(slots[i]) \/ slots[i].who = new.who}
    IN  [i \in ApprovalSlots |-> IF free # {} /\ i = Min(free) THEN new ELSE slots[i]]

L2ApproveIntegrator(tx) ==
    LET kept == ApprovalsKept(tx)
    IN  /\ tx.type = "l2_approve_integrator"
        /\ Authorised(tx)
        /\ ApprovalValid(tx)
        /\ approved' = [approved EXCEPT ![tx.account] =
                            IF Granting(tx) THEN ApprovalInserted(kept, tx.approval) ELSE kept]
        /\ granted' = [granted EXCEPT ![tx.account][tx.approval.who] = tx.approval]
        /\ Executed(tx, Key(tx))
============================================================================
