------------------------------- MODULE MCApi -------------------------------
(* An instance of Api for TLC.                                             *)
EXTENDS Api, TLC

CONSTANTS x1, x2, k1, s1, s2, s3, hook, plain, mule, gone

Entry(tenant, secret, roles) == [tenant |-> tenant, secret |-> secret, roles |-> roles]

Env(driver, entries) ==
  [env |-> "production", driver |-> driver, databaseURL |-> "url", callbackSecret |-> hook,
   apiKeys |-> entries, settings |-> [tolerance |-> 1]]

Entries ==
  <<Entry(x1, s1, None), Entry(x1, s2, <<"worker", "risk", "provider">>),
    Entry(x2, s3, <<"tenant", "risk">>)>>

EnvironmentSet == {Env("postgres", Entries), Env(None, Entries)}

Payload(amount, receiver, padded) ==
  [account |-> Text("acct", padded), amount |-> amount, currency |-> IF padded THEN "" ELSE "BRL",
   receiver |-> Text(receiver, padded), keyType |-> "EVP", description |-> Text(None, FALSE)]

PayloadSet ==
  {Payload(1000000, plain, FALSE), Payload(1000000, plain, TRUE),
   Payload(2000001, plain, FALSE), Payload(2000000, mule, FALSE), Payload(100, gone, FALSE)}

HashSet == {Fingerprint(p) : p \in {q \in PayloadSet : Valid(q)}}

(* A signal of 10 takes the transfer of 10,000 BRL to 65, which is review; *)
(* with the other tenant it is 9, and the transfer is just accepted.       *)
DigestOf ==
  [k \in {x1, x2} \X {plain, mule, gone} |->
     [first |-> IF k[1] = x1 THEN 45 ELSE 44, account |-> "hash"]]

SignatureSet == {[secret |-> hook, age |-> 1], [secret |-> hook, age |-> -2]}

(* No step depends on the response of the one before.                      *)
View == <<vars, phase, conf, caller>>

Symmetry ==
  Permutations(TransferIDs) \cup Permutations(Tokens) \cup Permutations(Clients)
=============================================================================
