----------------------------- MODULE Governance -----------------------------
(* StakingModule (modules/staking.ts) and GovernanceModule                     *)
(* (modules/governance.ts): requests that read the contract, submit a          *)
(* transaction and, for some of them, submit it again.  The contracts are      *)
(* external: they take a stake, release it after a cooldown, count one vote    *)
(* per voter on a proposal that is open.  A read whose simulation fails is     *)
(* answered as zero by staking and as a missing proposal by governance.        *)
EXTENDS Naturals, Sequences, FiniteSets

CONSTANTS
    Requests,       \* calls that can be under way at once
    Signers,        \* the accounts whose calls are explored
    Delegates,      \* accounts a signer can delegate to
    StakeAmounts,
    Staked,         \* what every signer has staked already
    CooldownTime,   \* what the contract adds to the ledger of a stake
    Resubmissions,  \* maxRetries of idempotentResubmit
    MaxProposals, LastBlock     \* bounds

ASSUME GovAssumption ==
    /\ StakeAmounts \subseteq Nat \ {0} /\ Staked \in Nat /\ CooldownTime \in Nat
    /\ Resubmissions \in Nat \ {0}

VARIABLES
    block,          \* ledgers passed (external)
    stakes,         \* staked amount, end of its cooldown, rewards (external)
    proposals,      \* status and voters of the proposals (external)
    delegatedTo,    \* (external)
    request,        \* the calls
    sent            \* sent[c][n]: the n-th transaction of a call (external)

govVars == <<block, stakes, proposals, delegatedTo, request, sent>>

Attempts == 0..Resubmissions
Staking == {"stake", "unstake"}                       \* idempotentResubmit
Twice == {"createProposal", "castVote"}               \* one retry after a status check
\* The other operations submit once.
NoRequest == [pc |-> "idle", kind |-> "none", signer |-> "none", amount |-> 0, before |-> 0,
              attempt |-> 0, blind |-> FALSE, mixed |-> FALSE, late |-> FALSE]
NotSent == [n \in Attempts |-> "none"]
Goes(c, pc) == request' = [request EXCEPT ![c].pc = pc]
UnchangedChain == UNCHANGED <<block, stakes, proposals, delegatedTo>>

\* What a call does first: read, or submit at once.
FirstStep(kind) ==
    CASE kind = "stake" -> "before"
      [] kind \in {"unstake", "unstakeAndWithdraw"} -> "cooldown"
      [] kind = "claimRewards" -> "rewards"
      [] kind = "castVote" -> "exists"
      [] OTHER -> "submit"

Ask(c, kind, u, amount) ==
    /\ request[c].pc = "idle"
    /\ request' = [request EXCEPT ![c] = [NoRequest EXCEPT !.pc = FirstStep(kind),
                      !.kind = kind, !.signer = u, !.amount = amount]]
    /\ UnchangedChain /\ UNCHANGED sent

Stake(c, u, amount) == Ask(c, "stake", u, amount)
Unstake(c, u, amount) == Ask(c, "unstake", u, amount)
UnstakeAndWithdraw(c, u, amount) == Ask(c, "unstakeAndWithdraw", u, amount)
ClaimRewards(c, u) == Ask(c, "claimRewards", u, 0)
CreateProposal(c, u) == Ask(c, "createProposal", u, 0)
CastVote(c, u, p) == Ask(c, "castVote", u, p)
\* Either way the proposal is active no more.
CancelProposal(c, u, p) == Ask(c, "closeProposal", u, p)
ExecuteProposal(c, u, p) == Ask(c, "closeProposal", u, p)
Delegate(c, u, v) == u # v /\ Ask(c, "delegate", u, v)
Undelegate(c, u) == Ask(c, "delegate", u, u)
-----------------------------------------------------------------------------
(* Reads.  fails: the simulation reports an error and is read as zero. *)

BalanceRead(c, fails) == IF fails THEN 0 ELSE stakes[request[c].signer].amount

CooldownRead(c, fails) ==
    LET r == request[c] IN
    /\ r.pc = "cooldown"
    /\ Goes(c, IF ~fails /\ stakes[r.signer].cooldownEnd > block THEN "error" ELSE "balance")
    /\ UnchangedChain /\ UNCHANGED sent

\* buildUnstakeOperation refuses more than is staked.
PositionRead(c, fails) ==
    LET r == request[c] IN
    /\ r.pc = "balance"
    /\ Goes(c, IF r.amount > BalanceRead(c, fails) THEN "error"
               ELSE IF r.kind = "unstake" THEN "before" ELSE "submit")
    /\ UnchangedChain /\ UNCHANGED sent

BeforeRead(c, fails) ==
    /\ request[c].pc = "before"
    /\ request' = [request EXCEPT ![c].pc = "submit", ![c].before = BalanceRead(c, fails),
                      ![c].blind = fails]
    /\ UnchangedChain /\ UNCHANGED sent

RewardsRead(c, fails) ==
    /\ request[c].pc = "rewards"
    /\ Goes(c, IF fails \/ stakes[request[c].signer].rewards = 0 THEN "error" ELSE "submit")
    /\ UnchangedChain /\ UNCHANGED sent

\* castVote asks getProposal first.
ProposalRead(c, fails) ==
    /\ request[c].pc = "exists"
    /\ Goes(c, IF fails \/ request[c].amount \notin DOMAIN proposals THEN "error" ELSE "submit")
    /\ UnchangedChain /\ UNCHANGED sent
-----------------------------------------------------------------------------
(* Transactions *)

Submit(c) ==
    /\ request[c].pc = "submit"
    /\ sent' = [sent EXCEPT ![c][request[c].attempt] = "flying"]
    /\ Goes(c, "submitted")
    /\ UnchangedChain

\* Would the contract take the operation now?
Accepts(r) ==
    LET s == stakes[r.signer] IN
    CASE r.kind \in {"unstake", "unstakeAndWithdraw"} ->
            s.amount >= r.amount /\ s.cooldownEnd <= block
      [] r.kind = "claimRewards" -> s.rewards > 0
      [] r.kind = "castVote" -> /\ proposals[r.amount].status = "active"
                                /\ r.signer \notin proposals[r.amount].voters
      [] r.kind = "closeProposal" ->
            r.amount \in DOMAIN proposals /\ proposals[r.amount].status = "active"
      [] r.kind = "delegate" -> delegatedTo[r.signer] # r.amount
      [] OTHER -> TRUE

StakeAfter(r) ==
    CASE r.kind = "stake" -> [amount |-> stakes[r.signer].amount + r.amount,
                              cooldownEnd |-> block + CooldownTime, rewards |-> 1]
      [] r.kind = "claimRewards" -> [stakes[r.signer] EXCEPT !.rewards = 0]
      [] OTHER -> [stakes[r.signer] EXCEPT !.amount = @ - r.amount]

ProposalsAfter(r) ==
    CASE r.kind = "createProposal" -> Append(proposals, [status |-> "active", voters |-> {}])
      [] r.kind = "castVote" -> [proposals EXCEPT ![r.amount].voters = @ \cup {r.signer}]
      [] OTHER -> [proposals EXCEPT ![r.amount].status = "closed"]

TxLands(c, n) ==
    LET r == request[c]
        moves == Accepts(r) /\ r.kind \in {"stake", "unstake", "unstakeAndWithdraw"}
        onStake == moves \/ r.kind = "claimRewards"
        onVote == r.kind \in {"createProposal", "castVote", "closeProposal"} IN
    /\ sent[c][n] = "flying"
    /\ r.kind = "createProposal" => Len(proposals) < MaxProposals
    /\ sent' = [sent EXCEPT ![c][n] = IF Accepts(r) THEN "applied" ELSE "failed"]
    /\ stakes' = IF Accepts(r) /\ onStake
                 THEN [stakes EXCEPT ![r.signer] = StakeAfter(r)] ELSE stakes
    /\ proposals' = IF Accepts(r) /\ onVote THEN ProposalsAfter(r) ELSE proposals
    /\ delegatedTo' = IF Accepts(r) /\ ~onStake /\ ~onVote
                      THEN [delegatedTo EXCEPT ![r.signer] = r.amount]
                      ELSE delegatedTo
    /\ request' = [d \in Requests |-> [request[d] EXCEPT
          !.mixed = @ \/ (moves /\ d # c /\ request[d].signer = r.signer)]]
    /\ UNCHANGED block

TxVanishes(c, n) ==
    /\ sent[c][n] = "flying" /\ sent' = [sent EXCEPT ![c][n] = "gone"]
    /\ UnchangedChain /\ UNCHANGED request

\* submitTransaction has settled: with success once applied, else with an error.
\* Only an error with no hash keeps a message that isRetryable knows.
AfterError(r, hash, retryable) ==
    IF r.kind \in Staking /\ ~hash /\ retryable /\ r.attempt < Resubmissions THEN "landed?"
    ELSE IF r.kind \in Twice /\ hash /\ r.attempt = 0 THEN "status"
    ELSE "error"

Settled(c, success, hash, retryable) ==
    LET r == request[c] IN
    /\ r.pc = "submitted"
    /\ success => sent[c][r.attempt] = "applied"
    /\ Goes(c, IF success THEN "ok" ELSE AfterError(r, hash, retryable))
    /\ UnchangedChain /\ UNCHANGED sent

Again(c, blind) ==
    request' = [request EXCEPT ![c].pc = "submit", ![c].attempt = @ + 1, ![c].blind = @ \/ blind,
                   ![c].late = @ \/ \E n \in Attempts : sent[c][n] = "flying"]

\* Mutant: strict comparisons.
HasMoved_Strictly(r, balance) ==
    IF r.kind = "stake" THEN balance > r.before + r.amount
    ELSE balance + r.amount < r.before

\* checkLanded of stake and of unstake.
HasMoved(r, balance) ==
    IF r.kind = "stake" THEN balance >= r.before + r.amount
    ELSE balance + r.amount <= r.before

CheckLanded(c, fails) ==
    LET r == request[c] IN
    /\ r.pc = "landed?"
    /\ IF HasMoved(r, BalanceRead(c, fails))
       THEN request' = [request EXCEPT ![c].pc = "ok", ![c].blind = @ \/ fails]
       ELSE Again(c, fails)
    /\ UnchangedChain /\ UNCHANGED sent

\* getTransactionStatus and shouldRetrySubmission; a query that fails is final.
TxStatusRead(c, fails) ==
    LET tx == sent[c][0] IN
    /\ request[c].pc = "status"
    /\ IF ~fails /\ tx = "applied" THEN Goes(c, "ok")
       ELSE IF fails \/ tx = "failed" THEN Goes(c, "error")
       ELSE Again(c, FALSE)
    /\ UnchangedChain /\ UNCHANGED sent
-----------------------------------------------------------------------------
NextBlock ==
    /\ block < LastBlock /\ block' = block + 1
    /\ UNCHANGED <<stakes, proposals, delegatedTo, request, sent>>

GovInit ==
    /\ block = 0
    /\ stakes = [u \in Signers |-> [amount |-> Staked, cooldownEnd |-> 0, rewards |-> 1]]
    /\ proposals = <<[status |-> "active", voters |-> {}]>>
    /\ delegatedTo = [u \in Signers |-> u]
    /\ request = [c \in Requests |-> NoRequest]
    /\ sent = [c \in Requests |-> NotSent]

GovNext ==
    \/ NextBlock
    \/ \E c \in Requests, u \in Signers :
        \/ \E a \in StakeAmounts :
              Stake(c, u, a) \/ Unstake(c, u, a) \/ UnstakeAndWithdraw(c, u, a)
        \/ ClaimRewards(c, u) \/ CreateProposal(c, u)
        \/ \E p \in 1..MaxProposals :
              CastVote(c, u, p) \/ CancelProposal(c, u, p) \/ ExecuteProposal(c, u, p)
        \/ \E v \in Delegates : Delegate(c, u, v)
        \/ Undelegate(c, u)
    \/ \E c \in Requests, fails \in BOOLEAN :
        \/ CooldownRead(c, fails) \/ PositionRead(c, fails) \/ BeforeRead(c, fails)
        \/ RewardsRead(c, fails) \/ ProposalRead(c, fails)
        \/ CheckLanded(c, fails) \/ TxStatusRead(c, fails)
    \/ \E c \in Requests : Submit(c)
    \/ \E c \in Requests, n \in Attempts : TxLands(c, n) \/ TxVanishes(c, n)
    \/ \E c \in Requests, success \in BOOLEAN, hash \in BOOLEAN, retryable \in BOOLEAN :
          Settled(c, success, hash, retryable)
-----------------------------------------------------------------------------
(* When no other call moved the signer's stake meanwhile and no balance was  *)
(* read as zero because its read failed, a call that returns has had its     *)
(* effect, and it had it once, unless it was repeated while an earlier       *)
(* transaction of it was still on its way (staking.ts:149-167, 371-389;      *)
(* governance.ts:214-266, 332-381).                                          *)
ReturnedMeansDone ==
    \A c \in Requests :
        LET done == {n \in Attempts : sent[c][n] = "applied"} IN
        ~request[c].blind /\ ~request[c].mixed =>
            /\ request[c].pc = "ok" => done # {}
            /\ Cardinality(done) > 1 => request[c].late
=============================================================================
