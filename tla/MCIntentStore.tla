--------------------------- MODULE MCIntentStore ---------------------------
(* A small instance of the durable store: three intents, three quotes of   *)
(* two identities, three instants and a window of one instant.              *)
EXTENDS IntentStore, TLC

CONSTANTS q1, q2, q3, alice, bob

MCQuoteIds == {q1, q2, q3}

MCIdentities == {alice, bob}

MCQuotes ==
  {[id |-> q1, identity |-> alice, expiresAt |-> 3, executable |-> TRUE],
   [id |-> q2, identity |-> alice, expiresAt |-> 1, executable |-> TRUE],
   [id |-> q2, identity |-> alice, expiresAt |-> 3, executable |-> FALSE],
   [id |-> q3, identity |-> bob, expiresAt |-> 3, executable |-> TRUE]}

MCTimes == 0 .. 2

(* Every status a caller writes; the other fields of an update cannot      *)
(* affect the properties of the store alone.                               *)
MCUpdates ==
  {[status |-> s, resultStatus |-> Unset, balanceSync |-> Unset] :
     s \in Statuses \ {"Created", "PendingSubmit"}}

MCSymmetry == Permutations(Intents) \union Permutations(Sessions)
                \union Permutations(Requests)
=============================================================================
