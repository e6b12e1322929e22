------------------------------- MODULE Inputs -------------------------------
(***************************************************************************)
(* The inputs of the pure parts of the gateway: an input of a subject      *)
(* grows letter by letter, so that every sequence of its letters is        *)
(* reached.                                                                *)
(***************************************************************************)
EXTENDS Naturals, Sequences, PythonNone

CONSTANT Longest   \* bound on the letters of an input, by subject

VARIABLES subject, input

inputVars == <<subject, input>>

\* What an input is made of.
Alphabet ==
  [messages    |-> {"system", "user", "assistant", "tool"},
   reply       |-> {"one", "two", "none", "tool_use"},
   attempts    |-> {200, 400, 429, 503},
   speech      |-> {"word", " "},
   request     |-> {"/", "mail", "card", "ssn", "quad", "name", "ignore", "credentials", "word"},
   tool_output |-> {"hidden", "role:", "ro-le:", "nl", "ignore", "ig-nore", "[ignore]",
                    "instructions"},
   answer      |-> {"word", ".", "?", " ", "[yes]", "[no]", "thanks"},
   reference   |-> {"@", "nl", "word"},
   value       |-> {"true", "one", "half", "short", "long", "null", "list", "dict"},
   ledger      |-> {"k1smart", "k1backup", "k1direct", "k2fast", "k2mock", "ghost",
                    "day", "revoke", "database", "broker", "lost"},
   migrations  |-> {"up", "down"}]

InitInput == /\ subject \in DOMAIN Alphabet
             /\ input = <<>>

NextLetter == /\ Len(input) < Longest[subject]
              /\ \E letter \in Alphabet[subject] : input' = Append(input, letter)
              /\ UNCHANGED subject

SpecInput == InitInput /\ [][NextLetter]_inputVars

=============================================================================
