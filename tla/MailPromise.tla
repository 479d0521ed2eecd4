---------------------------- MODULE MailPromise ----------------------------
(***************************************************************************)
(* What the mail pipeline promises of one outbound message: it is handed   *)
(* to the provider at most once, it is reported SENT only when it was, and *)
(* FAILED only when it was not, and once deleted it is gone.  A message is *)
(* "loose" once two requests overlapped on it or the provider took only a  *)
(* part of its recipients: the code promises nothing of it from then on.   *)
(***************************************************************************)
CONSTANT Msgs

VARIABLES phase,   \* where each message is in its life
          handed   \* messages the provider accepted

Draft(m) == /\ phase[m] = "none"
            /\ phase' = [phase EXCEPT ![m] = "draft"] /\ UNCHANGED handed

Queue(m) == /\ phase[m] \in {"none", "draft", "failed"} /\ m \notin handed
            /\ phase' = [phase EXCEPT ![m] = "queued"] /\ UNCHANGED handed

HandOver(m) == /\ phase[m] = "queued" /\ m \notin handed
               /\ handed' = handed \cup {m} /\ UNCHANGED phase

Confirm(m) == /\ phase[m] = "queued" /\ m \in handed
              /\ phase' = [phase EXCEPT ![m] = "sent"] /\ UNCHANGED handed

GiveUp(m) == /\ phase[m] = "queued" /\ m \notin handed
             /\ phase' = [phase EXCEPT ![m] = "failed"] /\ UNCHANGED handed

Purge(m) == /\ phase[m] \in {"draft", "queued", "sent", "failed"}
            /\ phase' = [phase EXCEPT ![m] = "gone"] /\ UNCHANGED handed

Loosen(m) == /\ phase' = [phase EXCEPT ![m] = "loose"]
             /\ handed' \in {handed, handed \cup {m}}

Init == phase = [m \in Msgs |-> "none"] /\ handed = {}

Next == \E m \in Msgs : \/ Draft(m) \/ Queue(m) \/ HandOver(m) \/ Confirm(m)
                        \/ GiveUp(m) \/ Purge(m) \/ Loosen(m)

Spec == Init /\ [][Next]_<<phase, handed>>
=============================================================================
