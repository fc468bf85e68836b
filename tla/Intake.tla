------------------------------- MODULE Intake -------------------------------
(***************************************************************************)
(* What CreateTransfer makes of a request before it reaches the store: the *)
(* normalisation and validation of internal/rail/model.go, the fingerprint *)
(* idempotency compares, the DICT lookup of internal/dict/resolver.go and  *)
(* the fraud score of internal/fraud/engine.go.                            *)
(*                                                                         *)
(* A text of the request is its trimmed body (None when blank) and whether *)
(* white space surrounds it.  sha256 is taken for injective, so that the   *)
(* fingerprint is the tuple of the parts it hashes, and Digest stands for  *)
(* the bytes the resolver takes from the hash of a tenant and a key.       *)
(***************************************************************************)
EXTENDS Rail, Integers

CONSTANTS MissingKeys,    \* receiver keys that contain "missing"
          TimeoutKeys,    \* ... "timeout"
          RiskKeys,       \* ... "mule" or "risk"
          Digest          \* Digest[<<tenant, key>>], [first, account]

KeyTypes == {"CPF", "CNPJ", "EMAIL", "PHONE", "EVP"}
MaxAmount == 2000000      \* the per-transfer limit, in cents

Text(body, padded) == [body |-> body, padded |-> padded]
TrimSpace(text) == text.body

-----------------------------------------------------------------------------
(* A deliberately wrong form of Score.                                     *)
ScoreForgetsRisk(amount, risk, self) == IF amount >= 1000000 THEN 55 ELSE 0

-----------------------------------------------------------------------------
(* Validate.  The currency is compared untrimmed; empty stands for BRL.    *)
Valid(p) ==
  /\ TrimSpace(p.account) # None
  /\ p.amount > 0 /\ p.amount <= MaxAmount
  /\ p.currency \in {"", "BRL"}
  /\ TrimSpace(p.receiver) # None
  /\ p.keyType \in KeyTypes

Fingerprint(p) ==
  [account     |-> TrimSpace(p.account),
   amount      |-> p.amount,
   currency    |-> IF p.currency = "" THEN "BRL" ELSE p.currency,
   receiver    |-> TrimSpace(p.receiver),
   keyType     |-> p.keyType,
   description |-> TrimSpace(p.description)]

-----------------------------------------------------------------------------
(* Resolve finds no entry, or runs into its timeout.                       *)
Resolves(receiver) == receiver \notin MissingKeys \cup TimeoutKeys

RiskSignal(tenant, receiver) ==
  IF receiver \in RiskKeys THEN 92 ELSE Digest[<<tenant, receiver>>].first % 35

AccountHash(tenant, receiver) == Digest[<<tenant, receiver>>].account

(* Score                                                                   *)
Points(condition, points) == IF condition THEN points ELSE 0

Score(amount, risk, self) ==
  risk + Points(amount >= 1000000, 40) + Points(amount >= 500000, 15)
       + Points(risk >= 80, 35) + Points(self, 25)

StatusOf(score) ==
  IF score >= 90 THEN "blocked" ELSE IF score >= 65 THEN "review" ELSE "accepted"

(* The decision on a request with this fingerprint.                        *)
Decision(tenant, print) ==
  StatusOf(Score(print.amount, RiskSignal(tenant, print.receiver),
                 print.account = AccountHash(tenant, print.receiver)))
=============================================================================
