---- MODULE MCAlgorithms ----
EXTENDS Validators

\* The longest input of each subject: long enough for every letter to meet
\* every other, in both orders and with something between them.
LongestInputs ==
  [messages |-> 4, reply |-> 4, attempts |-> 4, speech |-> 6, request |-> 5,
   tool_output |-> 5, answer |-> 6, reference |-> 5, value |-> 3, ledger |-> 5,
   migrations |-> 9]
====
