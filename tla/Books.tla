------------------------------- MODULE Books --------------------------------
(***************************************************************************)
(* What is recorded of the calls, over all inputs: the ledger of days of   *)
(* work, and the schema it is kept in after any walk over the revisions.   *)
(***************************************************************************)
EXTENDS Inputs

B == INSTANCE Billing
M == INSTANCE Migrations

\* None is no number and names no tenant.
ASSUME LedgerAssumption == None \notin Nat \cup B!Keys

\* Usage reports and events agree with the calls that were priced, at the list
\* price of their alias, and so does the budget, but for the charges that were
\* lost (chat_service.py:495-499) and where none is wired (deps.py:113-129).
BooksBalance ==
  subject = "ledger" =>
    \A authDb, budget \in BOOLEAN : B!Balanced(B!Ledger(authDb, budget, input))

\* One record per completed call (tables.py: "One priced, audited record per
\* completed LLM call").
EveryCallIsRecorded ==
  subject = "ledger" => B!EveryCallIsRecorded(B!Ledger(FALSE, TRUE, input))

\* The revisions lead to the declared schema and back.
MigrationsReachTables ==
  subject = "migrations" => M!Reversible(input)

=============================================================================
