--------------------------- MODULE StreamContract ---------------------------
(***************************************************************************)
(* What a consumer callback is promised about the one stream an owner can  *)
(* deliver: Started, then data packets in capture order with none left     *)
(* out, then at most one Error, then Ended with the reason that belongs to *)
(* that error.  The state is what the consumer has been told; everything   *)
(* behind the callback is hidden.                                          *)
(***************************************************************************)
EXTENDS Naturals

CONSTANT None

VARIABLES
  stage,         (* how far the consumer is in the stream                  *)
  last_packet,   (* number of the last packet delivered, 0 before any      *)
  error,         (* kind of the Error delivered, None before one           *)
  end_reason     (* reason of the Ended delivered, None before it          *)

contractVars == <<stage, last_packet, error, end_reason>>

Stages == {"Unstarted", "Streaming", "Erred", "Ended"}
ErrorKinds == {"StreamInterrupted", "SourceUnavailable", "ResourceExhausted",
               "UnsupportedFormat", "Internal"}
EndReasons == {"ProviderShutdown", "ConsumerCancelled", "SourceReconfigured",
               "SourceEnded", "Failed"}

\* Reasons that end a stream nothing went wrong with.
CleanReasons == {"ProviderShutdown", "ConsumerCancelled"}

\* A stream that erred never ends as if it had been asked to.
EndsErred(kind, reason) ==
  \/ reason = "Failed"
  \/ kind = "StreamInterrupted" /\ reason = "SourceReconfigured"
  \/ kind = "SourceUnavailable" /\ reason = "SourceEnded"

Init ==
  /\ stage = "Unstarted"
  /\ last_packet = 0
  /\ error = None
  /\ end_reason = None

Started ==
  /\ stage = "Unstarted"
  /\ stage' = "Streaming"
  /\ UNCHANGED <<last_packet, error, end_reason>>

Data ==
  /\ stage = "Streaming"
  /\ last_packet' = last_packet + 1
  /\ UNCHANGED <<stage, error, end_reason>>

Error ==
  /\ stage = "Streaming"
  /\ stage' = "Erred"
  /\ error' \in ErrorKinds
  /\ UNCHANGED <<last_packet, end_reason>>

Ended(reason) ==
  /\ \/ stage = "Streaming" /\ reason \in CleanReasons
     \/ stage = "Erred" /\ EndsErred(error, reason)
  /\ stage' = "Ended"
  /\ end_reason' = reason
  /\ UNCHANGED <<last_packet, error>>

Next == Started \/ Data \/ Error \/ \E reason \in EndReasons : Ended(reason)

Spec == Init /\ [][Next]_contractVars
=============================================================================
