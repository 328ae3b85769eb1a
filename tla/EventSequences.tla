--------------------------- MODULE EventSequences ---------------------------
(***************************************************************************)
(* Sequences of messages and of stream events, records that carry a kind.  *)
(***************************************************************************)
EXTENDS Integers, Sequences, FiniteSets

\* Where messages of a kind are, and the last of them.
Having(messages, kind) == {i \in DOMAIN messages : messages[i].kind = kind}
Has(messages, kind) == Having(messages, kind) # {}
LastOf(messages, kind) ==
  messages[CHOOSE i \in Having(messages, kind) :
             \A j \in Having(messages, kind) : j <= i]
=============================================================================
